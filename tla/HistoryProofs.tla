---------------------------- MODULE HistoryProofs ----------------------------
(***************************************************************************)
(* Proofs about what is computed later from what was written: the          *)
(* certificates of Certificates, for every number of companies, days,      *)
(* checks and alerts, the history and messages of MissionHistory, for      *)
(* every number of activities and writes, and the lists of Paging, for     *)
(* every number of rows and size of page.                                  *)
(***************************************************************************)
EXTENDS Certificates, MissionHistory, Paging, FiniteSetTheorems, SequenceTheorems,
        WellFoundedInduction, TLAPS

-----------------------------------------------------------------------------
(* Finite sets of numbers.                                                  *)

\* A finite set of numbers has a least element, and a bounded one a greatest.
LEMMA LeastOfFinite ==
  ASSUME NEW S, IsFiniteSet(S), S \subseteq Int, S # {}
  PROVE  \E x \in S : \A y \in S : x <= y
  <1> DEFINE Below(x) == {z \in S : z < x}
             Fam == {Below(x) : x \in S}
             R == StrictSubsetOrdering(S)
  <1>0. \A x \in S : x \in Int
    OBVIOUS
  <1>1. IsWellFoundedOn(R, SUBSET S)
    BY <1>0, FS_StrictSubsetOrderingWellFounded, FS_FiniteSubsetsOfFinite
  <1>2. Fam \subseteq SUBSET S /\ Fam # {}
    OBVIOUS
  <1>3. \E D \in Fam : \A E \in Fam : ~ (<<E, D>> \in R)
    <2> HIDE DEF Fam, R
    <2> QED
      BY <1>1, <1>2, WFMin
  <1>4. PICK x \in S : \A E \in Fam : ~ (<<E, Below(x)>> \in R)
    BY <1>3
  <1>5. ASSUME NEW y \in S, ~(x <= y)
        PROVE  FALSE
    <2>1. y < x /\ x \in Int /\ y \in Int /\ \A z \in S : z \in Int
      BY <1>0, <1>5
    <2> HIDE DEF Fam, R
    <2>2. Below(y) \subseteq Below(x) /\ y \in Below(x) /\ y \notin Below(y)
      <3>1. y \in Below(x) /\ y \notin Below(y)
        BY <2>1
      <3>2. \A z \in S : z < y => z < x
        BY <2>1
      <3> QED
        BY <3>1, <3>2
    <2>3. <<Below(y), Below(x)>> \in R
      BY <2>2 DEF StrictSubsetOrdering, R
    <2>4. Below(y) \in Fam
      BY DEF Fam
    <2> QED
      BY <1>4, <2>3, <2>4
  <1> QED
    BY <1>5

LEMMA FiniteBounded ==
  ASSUME NEW n \in Nat, NEW S, S \subseteq 0..n
  PROVE  IsFiniteSet(S) /\ S \subseteq Int
  <1>1. IsFiniteSet(0..n)
    BY FS_Interval
  <1>2. S \in SUBSET (0..n)
    OBVIOUS
  <1>3. S \subseteq Int
    OBVIOUS
  <1>4. IsFiniteSet(S)
    BY <1>1, <1>2, FS_Subset
  <1> QED
    BY <1>3, <1>4

LEMMA LeastOfBounded ==
  ASSUME NEW n \in Nat, NEW S, S \subseteq 0..n, S # {}
  PROVE  Min(S) \in S
  <1>1. \E x \in S : \A y \in S : x <= y
    BY FiniteBounded, LeastOfFinite
  <1> QED
    BY <1>1 DEF Min

LEMMA GreatestOfBounded ==
  ASSUME NEW n \in Nat, NEW S, S \subseteq 0..n, S # {}
  PROVE  /\ \E x \in S : \A y \in S : y <= x
         /\ Max(S) \in S /\ \A y \in S : y <= Max(S)
  <1> DEFINE T == {n - x : x \in S}
  <1>0. \A x \in S : x \in Int /\ 0 <= x /\ x <= n
    OBVIOUS
  <1>1. T \subseteq 0..n /\ T # {}
    <2>1. \A x \in S : n - x \in 0..n
      BY <1>0
    <2> QED
      BY <2>1
  <1>2. \E t \in T : \A u \in T : t <= u
    <2> HIDE DEF T
    <2> QED
      BY <1>1, FiniteBounded, LeastOfFinite
  <1>3. PICK t \in T : \A u \in T : t <= u
    BY <1>2
  <1>4. PICK x \in S : t = n - x
    <2>1. t \in {n - x : x \in S}
      BY <1>3
    <2> QED
      BY <2>1
  <1>5. \A y \in S : y <= x
    <2> TAKE y \in S
    <2>1. n - y \in T
      OBVIOUS
    <2>2. n - x <= n - y
      BY <1>3, <1>4, <2>1
    <2>3. x \in Int /\ y \in Int
      OBVIOUS
    <2> QED
      BY <2>2, <2>3
  <1>6. \E z \in S : \A y \in S : z >= y
    <2>1. \A y \in S : x >= y
      <3>1. x \in Int /\ \A y \in S : y \in Int
        OBVIOUS
      <3> HIDE DEF T
      <3> QED
        BY <1>5, <3>1
    <2> QED
      BY <2>1
  <1>7. Max(S) \in S /\ \A y \in S : Max(S) >= y
    BY <1>6 DEF Max
  <1>8. Max(S) \in Int /\ \A y \in S : y \in Int
    <2>1. \A y \in S : y \in Int
      OBVIOUS
    <2> QED
      BY <1>7, <2>1
  <1> QED
    BY <1>5, <1>7, <1>8

-----------------------------------------------------------------------------
(* Certificates: the rows, and what the jobs do to them.                    *)

CertRow ==
  [firm : CertFirm, from : Nat, until : Nat, month : DOMAIN MonthFacts, level : 0..4]

RowIsComputed(x) ==
  /\ x \in CertRow
  /\ x.from <= certDay
  /\ x.until = CertificateExpiration(x.from)
  /\ x.level = SetCertification[x.month]

OneADate ==
  \A x, y \in certificates : x.firm = y.firm /\ x.from = y.from => x = y

CertJobs ==
  [phase : {"none", "compute", "mails"}, asOf : Nat, mails : BOOLEAN,
   todo : SUBSET (CertFirm \cup (CertFirm \X FirmManager))]

\* A company to compute has no row yet, one to write to has had a medal.
JobIsSound ==
  /\ certJob \in CertJobs /\ certJob.asOf <= certDay
  /\ certJob.phase = "compute" =>
       \A x \in certificates : x.from = certJob.asOf => x.firm \notin certJob.todo
  /\ certJob.phase = "mails" =>
       \A c \in CertFirm, a \in FirmManager :
         <<c, a>> \in certJob.todo => MedalsOf(c) # {}

MailIsSound(x) == x.since \in Nat /\ x.day \in Nat /\ x.since <= x.day

CertInv ==
  /\ certDay \in Nat
  /\ \A x \in certificates : RowIsComputed(x)
  /\ OneADate
  /\ JobIsSound
  /\ \A x \in lossMails : MailIsSound(x)
  /\ WarnedOncePerPeriod

\* A certificate is of two months.
LEMMA Expiration ==
  ASSUME NEW t \in Nat
  PROVE  /\ FirstOfMonth(t) \in Nat
         /\ CertificateExpiration(t) \in Nat /\ CertificateExpiration(t) <= t + 5
         /\ FirstOfMonth(t) <= t
  <1>1. t \div 3 \in Nat /\ 3 * (t \div 3) <= t
    OBVIOUS
  <1>2. PICK q \in Nat : q = t \div 3
    BY <1>1
  <1>3. 3 * q <= t /\ q * 3 = 3 * q
    BY <1>1, <1>2
  <1>4. FirstOfMonth(t) = 3 * q
    BY <1>2, <1>3 DEF FirstOfMonth
  <1> QED
    BY <1>3, <1>4 DEF CertificateExpiration, EndOfMonth

LEMMA LevelIsKnown ==
  ASSUME NEW i \in DOMAIN MonthFacts
  PROVE  SetCertification[i] \in 0..4
  BY DEF SetCertification, GetCertificationLevel

LEMMA MedalShape ==
  ASSUME CertInv, NEW c, NEW x \in MedalsOf(c)
  PROVE  /\ x \in certificates /\ x \in CertRow /\ x.firm = c /\ x.level \in 1..4
         /\ x.from \in 0..certDay
         /\ x.until \in 0..(certDay + 5)
  <1>1. x \in certificates /\ RowIsComputed(x) /\ x.firm = c /\ x.level > 0
    BY DEF MedalsOf, CertificatesOf, CertInv
  <1>2. x.from \in Nat /\ x.level \in 0..4 /\ x.from <= certDay /\ certDay \in Nat
    BY <1>1 DEF RowIsComputed, CertRow, CertInv
  <1>3. CertificateExpiration(x.from) <= x.from + 5 /\ CertificateExpiration(x.from) \in Nat
    BY <1>2, Expiration
  <1> QED
    BY <1>1, <1>2, <1>3 DEF RowIsComputed

\* The period of certification has begun, whatever the rows that touch.
LEMMA PeriodHasBegun ==
  ASSUME CertInv, NEW c, MedalsOf(c) # {}
  PROVE  GetStartLastCertificationPeriod(c) \in 0..certDay
  <1> DEFINE F == {x.from : x \in MedalsOf(c)}
             S == {x.from : x \in {m \in MedalsOf(c) : TouchesAllAfter(c, m)}}
  <1>1. certDay \in Nat
    BY DEF CertInv
  <1>2. F \subseteq 0..certDay /\ S \subseteq 0..certDay /\ F # {}
    BY MedalShape
  <1>3. \E t \in F : \A u \in F : u <= t
    <2> HIDE DEF F, S
    <2> QED
      BY <1>1, <1>2, GreatestOfBounded
  <1>4. PICK x \in MedalsOf(c) : \A y \in MedalsOf(c) : y.from <= x.from
    BY <1>3
  <1>5. \A y \in MedalsOf(c) : ~(y.from > x.from)
    <2> TAKE y \in MedalsOf(c)
    <2>1. y.from \in Int /\ x.from \in Int /\ y.from <= x.from
      BY <1>4, MedalShape
    <2> QED
      BY <2>1
  <1>6. TouchesAllAfter(c, x)
    BY <1>5 DEF TouchesAllAfter
  <1>7. S # {}
    BY <1>6
  <1>8. Min(S) \in S
    <2> HIDE DEF S, F
    <2> QED
      BY <1>1, <1>2, <1>7, LeastOfBounded
  <1> QED
    BY <1>2, <1>8 DEF GetStartLastCertificationPeriod

LEMMA CertInitially == CertInit => CertInv
  BY DEF CertInit, CertInv, OneADate, JobIsSound, IdleCertJob, CertJobs, WarnedOncePerPeriod

\* A job that goes on, or ends, over rows that stay.
LEMMA JobMoves ==
  ASSUME CertInv, UNCHANGED <<certDay, certificates>>,
         JobIsSound', 
         \A x \in lossMails' : MailIsSound(x), WarnedOncePerPeriod'
  PROVE  CertInv'
  <1>1. \A x \in certificates : RowIsComputed(x)'
    BY DEF CertInv, RowIsComputed
  <1>2. \A x \in lossMails' : MailIsSound(x)'
    BY DEF MailIsSound
  <1> QED
    BY <1>1, <1>2 DEF CertInv, OneADate

LEMMA JobEndsSoundly ==
  ASSUME CertInv, certJob' = IdleCertJob, UNCHANGED certDay
  PROVE  JobIsSound'
  <1>1. certDay \in Nat
    BY DEF CertInv
  <1> QED
    BY <1>1 DEF JobIsSound, IdleCertJob, CertJobs

\* One of those to treat is done with.
LEMMA ComputedJob ==
  ASSUME certJob \in CertJobs, NEW e, Computed(e)
  PROVE  /\ certJob' \in CertJobs
         /\ certJob'.phase = certJob.phase /\ certJob'.asOf = certJob.asOf
         /\ certJob'.todo = certJob.todo \ {e}
  <1>1. PICK T \in SUBSET (CertFirm \cup (CertFirm \X FirmManager)) : T = certJob.todo \ {e}
    BY DEF CertJobs
  <1>2. certJob' = [certJob EXCEPT !.todo = T]
    BY <1>1 DEF Computed
  <1> QED
    BY <1>1, <1>2 DEF CertJobs

LEMMA ComputedSoundly ==
  ASSUME CertInv, NEW e, Computed(e), UNCHANGED <<certDay, certificates>>
  PROVE  JobIsSound'
  <1>1. certJob \in CertJobs
    BY DEF CertInv, JobIsSound
  <1>2. \A c : MedalsOf(c)' = MedalsOf(c)
    BY DEF MedalsOf, CertificatesOf
  <1> QED
    BY <1>1, <1>2, ComputedJob DEF CertInv, JobIsSound

LEMMA RunStep ==
  ASSUME CertInv, NEW asOf \in {certDay, FirstOfMonth(certDay)}, NEW mails \in BOOLEAN,
         RunCertificate(asOf, mails)
  PROVE  CertInv'
  <1>1. certDay \in Nat /\ asOf \in Nat /\ asOf <= certDay
    BY Expiration DEF CertInv
  <1>2. \A x \in certificates' : x \in certificates /\ x.from # asOf
    BY DEF RunCertificate, RemovedCertificates
  <1>3. certJob'.phase = "compute" /\ certJob'.asOf = asOf
    BY DEF RunCertificate
  <1>4. JobIsSound'
    <2>1. certJob' \in CertJobs
      BY <1>1 DEF RunCertificate, CertJobs
    <2> QED
      BY <1>1, <1>2, <1>3, <2>1 DEF JobIsSound, RunCertificate
  <1>5. \A x \in certificates' : RowIsComputed(x)'
    BY <1>2 DEF CertInv, RowIsComputed, RunCertificate
  <1>6. OneADate'
    BY <1>2 DEF CertInv, OneADate
  <1>7. \A x \in lossMails' : MailIsSound(x)'
    BY DEF CertInv, RunCertificate, MailIsSound
  <1>8. WarnedOncePerPeriod'
    BY DEF CertInv, RunCertificate, WarnedOncePerPeriod
  <1> QED
    BY <1>1, <1>4, <1>5, <1>6, <1>7, <1>8 DEF CertInv, RunCertificate

\* The row of a company whose rows of the date were removed.
LEMMA ComputeStep ==
  ASSUME CertInv, NEW c \in CertFirm, NEW i \in DOMAIN MonthFacts,
         ComputeCompanyCertification(c, i)
  PROVE  CertInv'
  <1>1. PICK t \in Nat : t = certJob.asOf /\ t <= certDay
    BY DEF CertInv, JobIsSound, CertJobs
  <1>2. PICK r : r = [firm |-> c, from |-> t, until |-> CertificateExpiration(t),
                      month |-> i, level |-> SetCertification[i]]
    OBVIOUS
  <1>3. certificates' = certificates \cup {r}
    BY <1>1, <1>2 DEF ComputeCompanyCertification
  <1>4. RowIsComputed(r)'
    <2>1. r \in CertRow
      BY <1>2, Expiration, LevelIsKnown DEF CertRow
    <2> QED
      BY <1>1, <1>2, <2>1 DEF RowIsComputed, ComputeCompanyCertification
  <1>5. \A x \in certificates' : RowIsComputed(x)'
    BY <1>3, <1>4 DEF CertInv, RowIsComputed, ComputeCompanyCertification
  <1>6. \A x \in certificates : ~(x.firm = c /\ x.from = t)
    BY <1>1 DEF CertInv, JobIsSound, ComputeCompanyCertification
  <1>7. OneADate'
    BY <1>2, <1>3, <1>6 DEF CertInv, OneADate
  <1>8. JobIsSound'
    <2>1. certJob \in CertJobs /\ Computed(c)
      BY DEF CertInv, JobIsSound, ComputeCompanyCertification
    <2>2. certJob' \in CertJobs
      BY <2>1, ComputedJob
    <2>3. certJob'.phase = "compute" /\ certJob'.asOf = t
      BY <1>1, <2>1, ComputedJob DEF ComputeCompanyCertification
    <2>4. \A f \in certJob'.todo : f \in certJob.todo /\ f # c
      BY <2>1, ComputedJob
    <2>5. \A x \in certificates' : x.from = t => x.firm \notin certJob'.todo
      BY <1>1, <1>2, <1>3, <2>4 DEF CertInv, JobIsSound, ComputeCompanyCertification
    <2> QED
      BY <1>1, <2>2, <2>3, <2>5 DEF JobIsSound, ComputeCompanyCertification
  <1>9. UNCHANGED <<certDay, lossMails>>
    BY DEF ComputeCompanyCertification
  <1>10. (\A x \in lossMails' : MailIsSound(x)') /\ WarnedOncePerPeriod'
    BY <1>9 DEF CertInv, MailIsSound, WarnedOncePerPeriod
  <1> QED
    BY <1>5, <1>7, <1>8, <1>9, <1>10 DEF CertInv

\* Who is about to lose a medal has one.
LEMMA MailsStep ==
  ASSUME CertInv, AllComputed
  PROVE  CertInv'
  <1>1. CASE ~certJob.mails
    BY <1>1, JobEndsSoundly, JobMoves DEF AllComputed, CertInv, MailIsSound, WarnedOncePerPeriod
  <1>2. CASE certJob.mails
    <2>1. PICK T : T = {p \in CompaniesAboutToLoseCertification(certJob.asOf) \X FirmManager :
                            p[2] \in ManagersOf(p[1])}
      OBVIOUS
    <2>2. PICK L : L = CompaniesAboutToLoseCertification(certJob.asOf)
      OBVIOUS
    <2>3. \A c \in L : c \in CertFirm /\ MedalsOf(c) # {}
      BY <2>2 DEF CompaniesAboutToLoseCertification
    <2>4. T \in SUBSET (CertFirm \cup (CertFirm \X FirmManager))
      BY <2>1, <2>2, <2>3
    <2>5. \A c \in CertFirm, a \in FirmManager : <<c, a>> \in T => MedalsOf(c) # {}
      BY <2>1, <2>2, <2>3
    <2>6. certJob \in CertJobs /\ certJob.asOf <= certDay
      BY DEF CertInv, JobIsSound
    <2>7. certJob' = [certJob EXCEPT !.phase = "mails", !.todo = T]
      BY <1>2, <2>1 DEF AllComputed
    <2>8. /\ certJob' \in CertJobs
          /\ certJob'.phase = "mails" /\ certJob'.todo = T /\ certJob'.asOf = certJob.asOf
      BY <2>4, <2>6, <2>7 DEF CertJobs
    <2>9. UNCHANGED <<certDay, certificates, lossMails>>
      BY DEF AllComputed
    <2>10. \A c : MedalsOf(c)' = MedalsOf(c)
      BY <2>9 DEF MedalsOf, CertificatesOf
    <2>11. JobIsSound'
      BY <2>5, <2>6, <2>8, <2>9, <2>10 DEF JobIsSound
    <2> QED
      BY <2>9, <2>11, JobMoves DEF CertInv, MailIsSound, WarnedOncePerPeriod
  <1> QED
    BY <1>1, <1>2

\* A mail of the period would have been found.
LEMMA SendStep ==
  ASSUME CertInv, NEW c \in CertFirm, NEW a \in FirmManager, SendAboutToLoseCertificate(c, a)
  PROVE  CertInv'
  <1>1. MedalsOf(c) # {}
    BY DEF CertInv, JobIsSound, SendAboutToLoseCertificate
  <1>2. PICK since \in 0..certDay : since = GetStartLastCertificationPeriod(c)
    BY <1>1, PeriodHasBegun
  <1>3. PICK d \in Nat : d = certDay
    BY DEF CertInv
  <1>4. PICK x : x = [to |-> a, firm |-> c, since |-> since, day |-> d]
    OBVIOUS
  <1>5. lossMails' = IF CheckEmailExists(a, since) THEN lossMails ELSE lossMails \cup {x}
    BY <1>2, <1>3, <1>4 DEF SendAboutToLoseCertificate
  <1>6. UNCHANGED <<certDay, certificates>> /\ Computed(<<c, a>>)
    BY DEF SendAboutToLoseCertificate
  <1>7. JobIsSound'
    BY <1>6, ComputedSoundly
  <1>8. MailIsSound(x)
    BY <1>2, <1>3, <1>4 DEF MailIsSound
  <1>9. \A y \in lossMails' : MailIsSound(y)
    BY <1>5, <1>8 DEF CertInv
  <1>10. ASSUME ~CheckEmailExists(a, since), NEW y \in lossMails, y.to = a, y.since = since
         PROVE  FALSE
    <2>1. y.since <= y.day /\ y.since \in Nat /\ y.day \in Nat
      BY DEF CertInv, MailIsSound
    <2> QED
      BY <1>10, <2>1 DEF CheckEmailExists
  <1>11. WarnedOncePerPeriod'
    <2>1. CASE CheckEmailExists(a, since)
      BY <1>5, <2>1 DEF CertInv, WarnedOncePerPeriod
    <2>2. CASE ~CheckEmailExists(a, since)
      <3>1. \A y \in lossMails : ~(y.to = a /\ y.since = since)
        BY <1>10, <2>2
      <3>2. x.to = a /\ x.since = since
        BY <1>4
      <3> QED
        BY <1>5, <2>2, <3>1, <3>2 DEF CertInv, WarnedOncePerPeriod
    <2> QED
      BY <2>1, <2>2
  <1> QED
    BY <1>6, <1>7, <1>9, <1>11, JobMoves

LEMMA CertStep == CertInv /\ [CertNext]_certVars => CertInv'
  <1> SUFFICES ASSUME CertInv, [CertNext]_certVars PROVE CertInv'
    OBVIOUS
  <1> DEFINE Still == UNCHANGED lossMails => (\A x \in lossMails' : MailIsSound(x)) /\ WarnedOncePerPeriod'
  <1>0. Still
    BY DEF CertInv, WarnedOncePerPeriod
  <1> HIDE DEF Still
  <1>1. ASSUME NEW asOf \in {certDay, FirstOfMonth(certDay)}, NEW mails \in BOOLEAN,
               RunCertificate(asOf, mails)
        PROVE  CertInv'
    BY <1>1, RunStep
  <1>2. ASSUME NEW c \in CertFirm, NEW i \in DOMAIN MonthFacts, ComputeCompanyCertification(c, i)
        PROVE  CertInv'
    BY <1>2, ComputeStep
  <1>3. ASSUME NEW c \in CertFirm, IsNotEligible(c) \/ ComputationFails(c)
        PROVE  CertInv'
    <2>1. Computed(c) /\ UNCHANGED <<certDay, certificates, lossMails>>
      BY <1>3 DEF IsNotEligible, ComputationFails
    <2> QED
      BY <1>0, <2>1, ComputedSoundly, JobMoves DEF Still
  <1>4. ASSUME NEW c \in CertFirm, NEW a \in FirmManager, SendAboutToLoseCertificate(c, a)
        PROVE  CertInv'
    BY <1>4, SendStep
  <1>5. ASSUME NEW c \in CertFirm, NEW a \in FirmManager, MailFails(c, a)
        PROVE  CertInv'
    <2>1. Computed(<<c, a>>) /\ UNCHANGED <<certDay, certificates, lossMails>>
      BY <1>5 DEF MailFails
    <2> QED
      BY <1>0, <2>1, ComputedSoundly, JobMoves DEF Still
  <1>6. CASE AllComputed
    BY <1>6, MailsStep
  <1>7. CASE CertJobEnds \/ CertJobStops
    <2>1. certJob' = IdleCertJob /\ UNCHANGED <<certDay, certificates, lossMails>>
      BY <1>7 DEF CertJobEnds, CertJobStops
    <2> QED
      BY <1>0, <2>1, JobEndsSoundly, JobMoves DEF Still
  <1>8. ASSUME UNCHANGED <<certDay, certificates, certJob, lossMails>>
        PROVE  CertInv'
    <2>1. \A c : MedalsOf(c)' = MedalsOf(c)
      BY <1>8 DEF MedalsOf, CertificatesOf
    <2>2. JobIsSound'
      BY <1>8, <2>1 DEF CertInv, JobIsSound
    <2> QED
      BY <1>0, <1>8, <2>2, JobMoves DEF Still
  <1>9. ASSUME NEW c \in CertFirm,
               LoadCompanyStats(c) \/ \E step \in {"invited", "validated"} : TakesStep(c, step)
        PROVE  CertInv'
    BY <1>8, <1>9 DEF LoadCompanyStats, TakesStep
  <1>10. CASE NextCertDay
    <2>1. certDay \in Nat /\ certDay' = certDay + 1
      BY <1>10 DEF NextCertDay, CertInv
    <2>2. UNCHANGED <<certificates, certJob, lossMails>>
      BY <1>10 DEF NextCertDay
    <2>3. \A x \in certificates' : RowIsComputed(x)'
      <3> SUFFICES ASSUME NEW x \in certificates PROVE RowIsComputed(x)'
        BY <2>2
      <3>1. RowIsComputed(x) /\ x.from \in Nat
        BY DEF CertInv, RowIsComputed, CertRow
      <3> QED
        BY <2>1, <3>1 DEF RowIsComputed
    <2>4. JobIsSound'
      <3>1. \A c : MedalsOf(c)' = MedalsOf(c)
        BY <2>2 DEF MedalsOf, CertificatesOf
      <3>2. certJob.asOf \in Nat /\ certJob.asOf <= certDay
        BY DEF CertInv, JobIsSound, CertJobs
      <3> QED
        BY <2>1, <2>2, <3>1, <3>2 DEF CertInv, JobIsSound
    <2>5. (\A x \in lossMails' : MailIsSound(x)') /\ WarnedOncePerPeriod'
      BY <2>2 DEF CertInv, MailIsSound, WarnedOncePerPeriod
    <2>6. OneADate'
      BY <2>2 DEF CertInv, OneADate
    <2> QED
      BY <2>1, <2>3, <2>4, <2>5, <2>6 DEF CertInv
  <1>11. CASE UNCHANGED certVars
    BY <1>8, <1>11 DEF certVars
  <1> QED
    BY <1>1, <1>2, <1>3, <1>4, <1>5, <1>6, <1>7, <1>9, <1>10, <1>11 DEF CertNext

-----------------------------------------------------------------------------
(* What the pages tell.                                                     *)

\* Of the certificates that are valid one precedes the others.
LEMMA CurrentExists ==
  ASSUME CertInv, NEW c, NEW x \in CertificatesOf(c), x.until >= certDay
  PROVE  GetCurrentCertificate(c) # {}
  <1> DEFINE V == {y \in CertificatesOf(c) : y.until >= certDay}
  <1>0. certDay \in Nat
    BY DEF CertInv
  <1>1. \A y \in V : y.level \in 0..4 /\ y.from \in 0..certDay
    BY <1>0 DEF CertInv, RowIsComputed, CertRow, CertificatesOf
  <1>2. x \in V
    OBVIOUS
  <1> HIDE DEF V
  <1>3. PICK b \in V : \A y \in V : y.level <= b.level
    <2> DEFINE L == {y.level : y \in V}
    <2>1. L \subseteq 0..4 /\ L # {}
      BY <1>1, <1>2
    <2>2. \E l \in L : \A k \in L : k <= l
      <3> HIDE DEF L
      <3> QED
        BY <2>1, GreatestOfBounded
    <2> QED
      BY <2>2
  <1> DEFINE W == {y \in V : y.level = b.level}
             F == {y.from : y \in W}
  <1>4. F \subseteq 0..certDay /\ F # {}
    BY <1>1
  <1>5. \E t \in F : \A u \in F : u <= t
    <2> HIDE DEF F, W
    <2> QED
      BY <1>0, <1>4, GreatestOfBounded
  <1>6. PICK w \in W : \A y \in W : y.from <= w.from
    BY <1>5
  <1>7. \A y \in V : Precedes(w, y)
    <2> TAKE y \in V
    <2>1. w \in V /\ w.level = b.level
      OBVIOUS
    <2>2. y.level <= w.level /\ y.level \in Int /\ w.level \in Int
      BY <1>1, <1>3, <2>1
    <2>3. y.level = w.level => y.from <= w.from
      BY <1>6, <2>1
    <2>4. y.from \in Int /\ w.from \in Int
      BY <1>1, <2>1
    <2> QED
      BY <2>2, <2>3, <2>4 DEF Precedes
  <1>8. w \in V
    OBVIOUS
  <1> QED
    BY <1>7, <1>8 DEF GetCurrentCertificate, V

LEMMA CurrentIsBest ==
  ASSUME CertInv, NEW c, NEW y \in GetCurrentCertificate(c)
  PROVE  /\ y \in CertificatesOf(c) /\ y.until >= certDay /\ y.level \in 0..4
         /\ \A x \in CertificatesOf(c) : x.until >= certDay => x.level <= y.level
  <1>1. y \in CertificatesOf(c) /\ y.until >= certDay
    BY DEF GetCurrentCertificate
  <1>2. \A x \in CertificatesOf(c) : x.level \in 0..4
    BY DEF CertInv, RowIsComputed, CertRow, CertificatesOf
  <1>3. \A x \in CertificatesOf(c) : x.until >= certDay => Precedes(y, x)
    BY DEF GetCurrentCertificate
  <1> QED
    BY <1>1, <1>2, <1>3 DEF Precedes

\* Two that precede each other have one date.
LEMMA CurrentIsOne ==
  ASSUME CertInv, NEW c \in CertFirm,
         NEW x \in GetCurrentCertificate(c), NEW y \in GetCurrentCertificate(c)
  PROVE  x = y
  <1>1. /\ x \in certificates /\ y \in certificates /\ x.firm = c /\ y.firm = c
        /\ Precedes(x, y) /\ Precedes(y, x)
    BY DEF GetCurrentCertificate, CertificatesOf
  <1>2. x.level \in 0..4 /\ y.level \in 0..4 /\ x.from \in Nat /\ y.from \in Nat
    BY <1>1 DEF CertInv, RowIsComputed, CertRow
  <1>3. x.from = y.from
    BY <1>1, <1>2 DEF Precedes
  <1> QED
    BY <1>1, <1>3 DEF CertInv, OneADate

LEMMA CurrentIsAtMostOne ==
  ASSUME CertInv, NEW c \in CertFirm
  PROVE  Cardinality(GetCurrentCertificate(c)) <= 1
  <1>1. CASE GetCurrentCertificate(c) = {}
    BY <1>1, FS_EmptySet
  <1>2. ASSUME NEW x \in GetCurrentCertificate(c)
        PROVE  Cardinality(GetCurrentCertificate(c)) <= 1
    <2>1. GetCurrentCertificate(c) = {x}
      BY <1>2, CurrentIsOne
    <2>2. Cardinality({x}) = 1
      BY FS_Singleton
    <2> QED
      BY <2>1, <2>2
  <1> QED
    BY <1>1, <1>2

\* The badge of a company on the public list.
LEMMA ListedHasBadge ==
  ASSUME CertInv, NEW c \in CertFirm, ListedAsCertified(c)
  PROVE  /\ PublicOutput(c).level > 0 /\ PublicOutput(c).from <= certDay
         /\ \E b \in Badge(c) :
              b.level = PublicOutput(c).level /\ b.until <= PublicOutput(c).until
  <1>0. certDay \in Nat
    BY DEF CertInv
  <1>1. PICK x \in MedalsOf(c) : x.until > certDay
    BY DEF ListedAsCertified
  <1>2. x \in CertificatesOf(c) /\ x.level \in 1..4 /\ x.until >= certDay
    BY <1>0, <1>1, MedalShape DEF MedalsOf
  <1>3. PICK b \in GetCurrentCertificate(c) : TRUE
    BY <1>2, CurrentExists
  <1>4. b \in CertificatesOf(c) /\ b.level \in 0..4 /\ x.level <= b.level
    BY <1>2, <1>3, CurrentIsBest
  <1>5. b.level > 0
    BY <1>2, <1>4
  <1>6. b \in Badge(c) /\ b \in MedalsOf(c)
    BY <1>3, <1>4, <1>5 DEF Badge, MedalsOf
  <1> DEFINE L == {0} \cup {y.level : y \in GetCurrentCertificate(c)}
             U == {y.until : y \in MedalsOf(c)}
  <1>7. \A y \in GetCurrentCertificate(c) : y = b
    BY <1>3, CurrentIsOne
  <1>8. L = {0, b.level} /\ L \subseteq 0..4
    BY <1>3, <1>4, <1>7
  <1>9. Max(L) = b.level
    <2>1. Max(L) \in L /\ \A y \in L : y <= Max(L)
      <3> HIDE DEF L
      <3> QED
        BY <1>8, GreatestOfBounded
    <2> QED
      BY <1>4, <1>5, <1>8, <2>1
  <1>10. b.until <= Max(U)
    <2>1. U \subseteq 0..(certDay + 5) /\ b.until \in U
      BY <1>0, <1>6, MedalShape
    <2> HIDE DEF U
    <2>2. certDay + 5 \in Nat
      BY <1>0
    <2> QED
      BY <2>1, <2>2, GreatestOfBounded
  <1>11. GetStartLastCertificationPeriod(c) \in 0..certDay
    BY <1>1, PeriodHasBegun
  <1>12. PublicOutput(c).level = Max(L) /\ PublicOutput(c).until = Max(U)
         /\ PublicOutput(c).from = GetStartLastCertificationPeriod(c)
    BY DEF PublicOutput
  <1> HIDE DEF L, U
  <1> QED
    BY <1>0, <1>5, <1>6, <1>9, <1>10, <1>11, <1>12

\* Who is warned of the loss is counted as having lost.
LEMMA WarnedAreCounted ==
  ASSUME CertInv
  PROVE  CompaniesAboutToLoseCertification(certDay) \subseteq LostCertification
  <1> SUFFICES ASSUME NEW c \in CompaniesAboutToLoseCertification(certDay)
               PROVE  c \in LostCertification
    OBVIOUS
  <1>1. certDay \in Nat /\ FirstOfMonth(certDay) \in Nat
    BY Expiration DEF CertInv
  <1>2. /\ c \in CertFirm
        /\ ~(\E x \in MedalsOf(c) : x.from = FirstOfMonth(certDay))
    BY DEF CompaniesAboutToLoseCertification
  <1>3. PICK x \in MedalsOf(c) : x.from <= FirstOfMonth(certDay) - 3 /\ x.until > certDay
    BY DEF CompaniesAboutToLoseCertification
  <1>4. x.from \in Int /\ x.until \in Int
    BY <1>1, MedalShape
  <1>5. x.until >= certDay /\ x.from < FirstOfMonth(certDay)
    BY <1>1, <1>3, <1>4
  <1> QED
    BY <1>2, <1>5 DEF LostCertification

LEMMA PagesAgree == CertInv => EveryPageAgrees
  <1> SUFFICES ASSUME CertInv PROVE EveryPageAgrees
    OBVIOUS
  <1>1. ASSUME NEW c \in CertFirm
        PROVE  \A x \in MedalsOf(c), y \in GetCurrentCertificate(c) :
                 x.until >= certDay => x.level <= y.level
    BY CurrentIsBest DEF MedalsOf
  <1> QED
    BY <1>1, CurrentIsAtMostOne, ListedHasBadge, WarnedAreCounted DEF EveryPageAgrees

-----------------------------------------------------------------------------
(* Better months.                                                           *)

IsMonth(f) ==
  /\ f.activities \in Nat /\ f.realTime \in Nat /\ f.changed \in Nat
  /\ IsFiniteSet(DOMAIN f.alerts)
  /\ \A k \in DOMAIN f.alerts : f.alerts[k] \in Nat

\* Month g is better than f in everything.
IsBetter(g, f) ==
  /\ f.activities = g.activities /\ f.realTime <= g.realTime /\ f.changed >= g.changed
  /\ DOMAIN f.alerts = DOMAIN g.alerts
  /\ \A k \in DOMAIN f.alerts : f.alerts[k] >= g.alerts[k]

LEMMA MoreChecksPass ==
  ASSUME NEW f, NEW g, IsMonth(f), IsMonth(g), IsBetter(g, f)
  PROVE  /\ ComputeCompliancy(f.alerts, f.activities) \in Nat
         /\ ComputeCompliancy(g.alerts, g.activities) \in Nat
         /\ ComputeCompliancy(f.alerts, f.activities) <= ComputeCompliancy(g.alerts, g.activities)
  <1>1. PICK n \in Nat : n = f.activities /\ n = g.activities
    BY DEF IsMonth, IsBetter
  <1>2. PICK l \in Int : l = CeilingOfHalfPercent(n)
    BY DEF CeilingOfHalfPercent
  <1>3. PICK S : S = {k \in DOMAIN f.alerts : f.alerts[k] < l}
    OBVIOUS
  <1>4. PICK T : T = {k \in DOMAIN g.alerts : g.alerts[k] < l}
    OBVIOUS
  <1>5. PICK D : D = DOMAIN f.alerts /\ D = DOMAIN g.alerts
    BY DEF IsBetter
  <1>6. S \in SUBSET D /\ T \in SUBSET D
    BY <1>3, <1>4, <1>5
  <1>7. S \in SUBSET T
    <2>1. \A k \in D : f.alerts[k] \in Nat /\ g.alerts[k] \in Nat /\ f.alerts[k] >= g.alerts[k]
      BY <1>5 DEF IsMonth, IsBetter
    <2>2. \A k \in D : f.alerts[k] < l => g.alerts[k] < l
      BY <2>1
    <2> QED
      BY <1>3, <1>4, <1>5, <2>2
  <1>8. IsFiniteSet(D)
    BY <1>5 DEF IsMonth
  <1>9. IsFiniteSet(S) /\ IsFiniteSet(T)
    BY <1>6, <1>8, FS_Subset
  <1>10. Cardinality(S) <= Cardinality(T)
    BY <1>7, <1>9, FS_Subset
  <1>11. Cardinality(S) \in Nat /\ Cardinality(T) \in Nat
    BY <1>9, FS_CardinalityType
  <1>12. ComputeCompliancy(f.alerts, f.activities) = Cardinality(S)
         /\ ComputeCompliancy(g.alerts, g.activities) = Cardinality(T)
    BY <1>1, <1>2, <1>3, <1>4 DEF ComputeCompliancy
  <1> QED
    BY <1>10, <1>11, <1>12

LEMMA BetterReaches ==
  ASSUME NEW f, NEW g, IsMonth(f), IsMonth(g), IsBetter(g, f),
         NEW n \in Nat, NEW r \in Nat, NEW s \in Nat, Reaches(f, n, r, s)
  PROVE  Reaches(g, n, r, s)
  <1>1. ComputeCompliancy(g.alerts, g.activities) >= n
    BY MoreChecksPass DEF Reaches
  <1>2. PICK a \in Nat : a = f.activities /\ a = g.activities
    BY DEF IsMonth, IsBetter
  <1>3. PICK p \in Nat, q \in Nat : p = f.realTime /\ q = g.realTime /\ p <= q
    BY DEF IsMonth, IsBetter
  <1>4. PICK u \in Nat, v \in Nat : u = f.changed /\ v = g.changed /\ v <= u
    BY DEF IsMonth, IsBetter
  <1>5. PICK m : m = r * a
    OBVIOUS
  <1>6. m \in Nat
    BY <1>2, <1>5
  <1>7. PICK o : o = s * a
    OBVIOUS
  <1>8. o \in Nat
    BY <1>2, <1>7
  <1>9. a = 0 \/ 100 * p >= m
    BY <1>2, <1>3, <1>5 DEF Reaches, ReachesShare
  <1>10. a = 0 \/ 100 * u <= o
    BY <1>2, <1>4, <1>7 DEF Reaches, StaysUnderShare
  <1>11. ReachesShare(g.realTime, g.activities, r)
    <2>1. a = 0 \/ 100 * q >= m
      BY <1>3, <1>6, <1>9
    <2> QED
      BY <1>2, <1>3, <1>5, <2>1 DEF ReachesShare
  <1>12. StaysUnderShare(g.changed, g.activities, s)
    <2>1. a = 0 \/ 100 * v <= o
      BY <1>4, <1>8, <1>10
    <2> QED
      BY <1>2, <1>4, <1>7, <2>1 DEF StaysUnderShare
  <1> QED
    BY <1>1, <1>11, <1>12 DEF Reaches

LEMMA BetterIsNoWorse ==
  ASSUME NEW f, NEW g, IsMonth(f), IsMonth(g), IsBetter(g, f)
  PROVE  GetCertificationLevel(f) <= GetCertificationLevel(g)
  <1>1. Reaches(f, 6, 95, 1) => Reaches(g, 6, 95, 1)
    BY BetterReaches
  <1>2. Reaches(f, 4, 80, 10) => Reaches(g, 4, 80, 10)
    BY BetterReaches
  <1>3. Reaches(f, 2, 70, 20) => Reaches(g, 2, 70, 20)
    BY BetterReaches
  <1>4. Reaches(f, 0, 60, 30) => Reaches(g, 0, 60, 30)
    BY BetterReaches
  <1> QED
    BY <1>1, <1>2, <1>3, <1>4 DEF GetCertificationLevel

LEMMA MonthsAreMonths ==
  /\ \A i \in DOMAIN MonthFacts : IsMonth(MonthFacts[i])
  /\ \A i, j \in DOMAIN MonthFacts : DOMAIN MonthFacts[i].alerts = DOMAIN MonthFacts[j].alerts
  BY CertAssumption DEF IsMonth

LEMMA MedalsFollowMonths == CertInv => BetterMonthBetterMedal
  <1> SUFFICES ASSUME CertInv, NEW x \in certificates, NEW y \in certificates,
                      NEW f, f = MonthFacts[x.month], NEW g, g = MonthFacts[y.month],
                      f.activities = g.activities, f.realTime <= g.realTime, f.changed >= g.changed,
                      \A k \in DOMAIN f.alerts : f.alerts[k] >= g.alerts[k]
               PROVE  x.level <= y.level
    BY DEF BetterMonthBetterMedal
  <1>1. x.month \in DOMAIN MonthFacts /\ y.month \in DOMAIN MonthFacts
    BY DEF CertInv, RowIsComputed, CertRow
  <1>2. IsMonth(f) /\ IsMonth(g) /\ DOMAIN f.alerts = DOMAIN g.alerts
    BY <1>1, MonthsAreMonths
  <1>3. IsBetter(g, f)
    BY <1>2 DEF IsBetter
  <1>4. x.level = GetCertificationLevel(f) /\ y.level = GetCertificationLevel(g)
    BY <1>1 DEF CertInv, RowIsComputed, SetCertification
  <1> QED
    BY <1>2, <1>3, <1>4, BetterIsNoWorse

LEMMA CertInvSays == CertInv => CertificatesAreFair
  <1> SUFFICES ASSUME CertInv PROVE CertificatesAreFair
    OBVIOUS
  <1>1. CertificateTypeOK
    BY DEF CertInv, OneADate, JobIsSound, CertJobs, RowIsComputed, CertRow, CertificateTypeOK
  <1> QED
    BY <1>1, PagesAgree, MedalsFollowMonths DEF CertInv, CertificatesAreFair

\* However often the monthly job is stopped and run again, and by hand, and
\* whatever months the companies had: the pages agree on who is certified, a
\* better month earns no worse medal, a loss is announced once.
THEOREM CertificatesStayFair == CertSpec => []CertificatesAreFair
  <1>1. CertSpec => []CertInv
    BY CertInitially, CertStep, PTL DEF CertSpec
  <1> QED
    BY <1>1, CertInvSays, PTL

-----------------------------------------------------------------------------
(* The tables as arguments.                                                 *)

\* Rows whose writes are numbered 1..w and whose times are 0..s.
IsVersionOf(v, w, s) ==
  /\ v.n \in 1..w /\ v.start \in 0..s
  /\ v.end # Nil => v.end \in v.start..s

RowIsOrdered(r, w, s) ==
  /\ r \in ActRow
  /\ Len(r.versions) >= 1
  /\ \A k \in 1..Len(r.versions) : IsVersionOf(r.versions[k], w, s)
  /\ \A j, k \in 1..Len(r.versions) : j < k => r.versions[j].n < r.versions[k].n
  /\ r.dismissed # Nil =>
       r.dismissed.n \in 1..w /\ r.versions[Len(r.versions)].n < r.dismissed.n
  /\ r.dispute # Nil => r.dispute.n \in 1..w

\* The dispute is the same, or made since, or the same that was cancelled.
DisputeGrows(r, q, w) ==
  \/ q.dispute = r.dispute
  \/ q.dispute # Nil /\ q.dispute.n > w
  \/ /\ r.dispute # Nil /\ q.dispute # Nil
     /\ q.dispute.n = r.dispute.n /\ q.dispute.status = "cancelled"

\* Row q is r after writes later than the w first.
Grows(r, q, w) ==
  /\ DisputeGrows(r, q, w)
  /\ Len(q.versions) >= Len(r.versions)
  /\ \A k \in 1..Len(r.versions) : q.versions[k] = r.versions[k]
  /\ \A k \in 1..Len(q.versions) : k > Len(r.versions) => q.versions[k].n > w
  /\ r.dismissed # Nil => q.dismissed = r.dismissed
  /\ r.dismissed = Nil /\ q.dismissed # Nil => q.dismissed.n > w

IsNewRow(q, w) == \A k \in 1..Len(q.versions) : q.versions[k].n > w

\* What the actions say of row r, by number n.
BeforeOf(r, n) == IF r # Nil THEN {v \in ToSet(r.versions) : v.n <= n} ELSE {}

VersionOf(r, n) ==
  IF BeforeOf(r, n) = {} \/ (r.dismissed # Nil /\ r.dismissed.n <= n) THEN Nil
  ELSE CHOOSE v \in BeforeOf(r, n) : \A u \in BeforeOf(r, n) : u.n <= v.n

OwnOf(r) == {v.n : v \in {u \in ToSet(r.versions) : u.by = "worker"}} \cup {0}

LatestOf(r) ==
  IF r = Nil THEN 0
  ELSE IF r.dismissed # Nil /\ r.dismissed.by = "worker" THEN r.dismissed.n
  ELSE Max(OwnOf(r))

PresentOf(r) ==
  IF r # Nil /\ r.dismissed = Nil THEN Content(Last(r.versions)) ELSE Nil

OldOf(r, n) == IF VersionOf(r, n) = Nil THEN Nil ELSE Content(VersionOf(r, n))

-----------------------------------------------------------------------------
(* Rows.                                                                    *)

LEMMA RowShape ==
  ASSUME NEW r \in ActRow
  PROVE  /\ r # Nil
         /\ r.versions \in Seq(VersionRow) /\ Len(r.versions) \in Nat
         /\ \A k \in 1..Len(r.versions) : r.versions[k] \in VersionRow
         /\ r.dismissed # Nil => r.dismissed \in DismissalRow
         /\ r.dispute # Nil => r.dispute \in DisputeRow
  BY NilAssumption DEF ActRow

LEMMA VersionsAre ==
  ASSUME NEW r \in ActRow
  PROVE  \A v : v \in ToSet(r.versions) <=> \E k \in 1..Len(r.versions) : v = r.versions[k]
  <1>1. DOMAIN r.versions = 1..Len(r.versions)
    BY RowShape
  <1>2. ToSet(r.versions) = {r.versions[k] : k \in 1..Len(r.versions)}
    BY <1>1 DEF ToSet
  <1> QED
    BY <1>2

\* The versions up to a number stay those there were.
LEMMA BeforeStays ==
  ASSUME NEW w \in Nat, NEW s \in Nat, NEW r, RowIsOrdered(r, w, s),
         NEW q \in ActRow, Grows(r, q, w), NEW n \in 0..w
  PROVE  BeforeOf(q, n) = BeforeOf(r, n)
  <1>1. r \in ActRow /\ r # Nil /\ q # Nil
    BY RowShape DEF RowIsOrdered
  <1>2. ASSUME NEW v \in ToSet(r.versions)
        PROVE  v \in ToSet(q.versions)
    <2>1. PICK k \in 1..Len(r.versions) : v = r.versions[k]
      BY <1>1, <1>2, VersionsAre
    <2>2. Len(r.versions) \in Nat /\ Len(q.versions) \in Nat
      BY <1>1, RowShape
    <2>3. k \in 1..Len(q.versions) /\ v = q.versions[k]
      BY <2>1, <2>2 DEF Grows
    <2> QED
      BY <2>3, VersionsAre
  <1>3. ASSUME NEW v \in ToSet(q.versions), v.n <= n
        PROVE  v \in ToSet(r.versions)
    <2>1. PICK k \in 1..Len(q.versions) : v = q.versions[k]
      BY <1>3, VersionsAre
    <2>2. v \in VersionRow /\ Len(r.versions) \in Nat /\ Len(q.versions) \in Nat
      BY <1>1, <2>1, RowShape
    <2>3. v.n \in Nat
      BY <2>2 DEF VersionRow
    <2>4. ~(k > Len(r.versions))
      BY <1>3, <2>1, <2>3 DEF Grows
    <2>5. k \in 1..Len(r.versions)
      BY <2>2, <2>4
    <2> QED
      BY <1>1, <2>1, <2>5, VersionsAre DEF Grows
  <1> QED
    BY <1>1, <1>2, <1>3 DEF BeforeOf

LEMMA VersionStays ==
  ASSUME NEW w \in Nat, NEW s \in Nat, NEW r, RowIsOrdered(r, w, s),
         NEW q \in ActRow, Grows(r, q, w), NEW n \in 0..w
  PROVE  VersionOf(q, n) = VersionOf(r, n)
  <1>1. BeforeOf(q, n) = BeforeOf(r, n)
    BY BeforeStays
  <1>2. r \in ActRow
    BY DEF RowIsOrdered
  <1>3. (q.dismissed # Nil /\ q.dismissed.n <= n) <=> (r.dismissed # Nil /\ r.dismissed.n <= n)
    <2>1. CASE r.dismissed # Nil
      BY <2>1 DEF Grows
    <2>2. CASE r.dismissed = Nil
      <3>1. q.dismissed # Nil => q.dismissed.n \in Nat /\ q.dismissed.n > w
        BY <2>2, RowShape DEF Grows, DismissalRow
      <3> QED
        BY <2>2, <3>1
    <2> QED
      BY <2>1, <2>2
  <1> QED
    BY <1>1, <1>3 DEF VersionOf

LEMMA VersionOfNewRow ==
  ASSUME NEW w \in Nat, NEW q \in ActRow, IsNewRow(q, w), NEW n \in 0..w
  PROVE  VersionOf(q, n) = Nil
  <1>1. ASSUME NEW v \in ToSet(q.versions) PROVE ~(v.n <= n)
    <2>1. PICK k \in 1..Len(q.versions) : v = q.versions[k]
      BY <1>1, VersionsAre
    <2>2. v \in VersionRow
      BY <2>1, RowShape
    <2>3. v.n \in Nat /\ v.n > w
      BY <2>1, <2>2 DEF VersionRow, IsNewRow
    <2> QED
      BY <2>3
  <1> QED
    BY <1>1 DEF VersionOf, BeforeOf

LEMMA VersionOfNil ==
  ASSUME NEW n PROVE VersionOf(Nil, n) = Nil
  BY DEF VersionOf, BeforeOf

\* After its last write a row is what it is.
LEMMA VersionNow ==
  ASSUME NEW w \in Nat, NEW s \in Nat, NEW r, RowIsOrdered(r, w, s), NEW n \in Nat,
         r.versions[Len(r.versions)].n <= n, r.dismissed # Nil => r.dismissed.n <= n
  PROVE  OldOf(r, n) = PresentOf(r)
  <1>1. r \in ActRow /\ r # Nil /\ Len(r.versions) \in Nat /\ Len(r.versions) >= 1
    BY RowShape DEF RowIsOrdered
  <1>2. PICK m \in Nat : m = Len(r.versions) /\ m >= 1
    BY <1>1
  <1>3. PICK last : last = r.versions[m]
    OBVIOUS
  <1>4. last \in BeforeOf(r, n)
    <2>1. m \in 1..Len(r.versions)
      BY <1>2
    <2>2. last \in ToSet(r.versions)
      BY <1>1, <1>3, <2>1, VersionsAre
    <2> QED
      BY <1>1, <1>2, <1>3, <2>2 DEF BeforeOf
  <1>5. ASSUME NEW v \in BeforeOf(r, n)
        PROVE  v.n \in Nat /\ last.n \in Nat /\ v.n <= last.n /\ (v # last => v.n < last.n)
    <2>1. PICK k \in 1..m : v = r.versions[k]
      BY <1>1, <1>2, <1>5, VersionsAre DEF BeforeOf
    <2>2. v.n \in Nat /\ last.n \in Nat
      <3>1. m \in 1..Len(r.versions) /\ k \in 1..Len(r.versions)
        BY <1>2, <2>1
      <3>2. r.versions[m] \in VersionRow /\ r.versions[k] \in VersionRow
        BY <1>1, <3>1, RowShape
      <3> QED
        BY <1>3, <2>1, <3>2 DEF VersionRow
    <2>3. k < m => v.n < last.n
      BY <1>2, <1>3, <2>1 DEF RowIsOrdered
    <2> QED
      BY <1>2, <1>3, <2>1, <2>2, <2>3
  <1>6. CASE r.dismissed # Nil
    BY <1>1, <1>6 DEF OldOf, VersionOf, PresentOf
  <1>7. CASE r.dismissed = Nil
    <2>1. PICK B : B = BeforeOf(r, n)
      OBVIOUS
    <2>2. PICK c : c = CHOOSE v \in B : \A u \in B : u.n <= v.n
      OBVIOUS
    <2>3. c \in B /\ \A u \in B : u.n <= c.n
      BY <1>4, <1>5, <2>1, <2>2
    <2>4. c = last
      BY <1>4, <1>5, <2>1, <2>3
    <2>5. VersionOf(r, n) = last
      BY <1>4, <1>7, <2>1, <2>2, <2>4 DEF VersionOf
    <2>6. last # Nil
      <3>1. m \in 1..Len(r.versions)
        BY <1>2
      <3>2. last \in VersionRow
        BY <1>1, <1>3, <3>1, RowShape
      <3> QED
        BY <3>2, NilAssumption
    <2> QED
      BY <1>1, <1>2, <1>3, <1>7, <2>5, <2>6 DEF OldOf, PresentOf, Last
  <1> QED
    BY <1>6, <1>7

LEMMA LaterIsOrdered ==
  ASSUME NEW w \in Nat, NEW s \in Nat, NEW r, RowIsOrdered(r, w, s)
  PROVE  RowIsOrdered(r, w + 1, s) /\ RowIsOrdered(r, w, s + 1)
  <1>1. \A n : n \in 1..w => n \in 1..(w + 1)
    OBVIOUS
  <1>2. ASSUME NEW k \in 1..Len(r.versions)
        PROVE  IsVersionOf(r.versions[k], w + 1, s) /\ IsVersionOf(r.versions[k], w, s + 1)
    <2>1. PICK v : v = r.versions[k]
      OBVIOUS
    <2>2. v \in VersionRow /\ IsVersionOf(v, w, s)
      BY <2>1, RowShape DEF RowIsOrdered
    <2>3. v.n \in 1..w /\ v.start \in 0..s /\ v.start \in Nat /\ v.n \in 1..(w + 1)
      BY <1>1, <2>2 DEF IsVersionOf, VersionRow
    <2>4. v.start \in 0..(s + 1)
      BY <2>3
    <2>5. v.end # Nil => v.end \in v.start..s /\ v.end \in v.start..(s + 1)
      BY <2>2, <2>3 DEF IsVersionOf
    <2> QED
      BY <2>1, <2>3, <2>4, <2>5 DEF IsVersionOf
  <1> QED
    BY <1>1, <1>2 DEF RowIsOrdered

\* A version is added to a row.
LEMMA AppendedRow ==
  ASSUME NEW w \in Nat, NEW s \in Nat, NEW r, RowIsOrdered(r, w, s), r.dismissed = Nil,
         NEW v \in VersionRow, v.n = w + 1, IsVersionOf(v, w + 1, s),
         NEW q, q = [r EXCEPT !.versions = Append(@, v)]
  PROVE  /\ RowIsOrdered(q, w + 1, s) /\ Grows(r, q, w)
         /\ Last(q.versions) = v /\ Len(q.versions) = Len(r.versions) + 1
         /\ q.versions[Len(r.versions) + 1] = v
         /\ q.dismissed = r.dismissed /\ q.dispute = r.dispute
  <1>1. r \in ActRow /\ RowIsOrdered(r, w + 1, s)
    BY LaterIsOrdered DEF RowIsOrdered
  <1>2. PICK vs \in Seq(VersionRow) : vs = r.versions
    BY <1>1, RowShape
  <1>3. PICK us : us = Append(vs, v)
    OBVIOUS
  <1>4. /\ us \in Seq(VersionRow) /\ Len(us) = Len(vs) + 1 /\ Len(vs) \in Nat
        /\ us[Len(vs) + 1] = v /\ \A k \in 1..Len(vs) : us[k] = vs[k]
    BY <1>3
  <1>5. q = [r EXCEPT !.versions = us]
    BY <1>2, <1>3
  <1>6. /\ q \in ActRow /\ q.versions = us
        /\ q.dismissed = r.dismissed /\ q.dispute = r.dispute
    BY <1>1, <1>4, <1>5 DEF ActRow
  <1>7. \A k \in 1..Len(us) : k = Len(vs) + 1 \/ k \in 1..Len(vs)
    BY <1>4
  <1>8. \A k \in 1..Len(us) : IsVersionOf(us[k], w + 1, s)
    BY <1>1, <1>2, <1>4, <1>7 DEF RowIsOrdered
  <1>9. ASSUME NEW j \in 1..Len(us), NEW k \in 1..Len(us), j < k
        PROVE  us[j].n < us[k].n
    <2>1. j \in 1..Len(vs)
      BY <1>4, <1>9
    <2>2. CASE k \in 1..Len(vs)
      BY <1>2, <1>4, <1>9, <2>1, <2>2 DEF RowIsOrdered
    <2>3. CASE k = Len(vs) + 1
      <3>1. vs[j].n \in 1..w
        BY <1>2, <2>1 DEF RowIsOrdered, IsVersionOf
      <3> QED
        BY <1>4, <2>1, <2>3, <3>1
    <2> QED
      BY <1>7, <2>2, <2>3
  <1>10. RowIsOrdered(q, w + 1, s)
    BY <1>1, <1>2, <1>4, <1>6, <1>8, <1>9 DEF RowIsOrdered
  <1>11. Grows(r, q, w)
    <2>1. \A k \in 1..Len(us) : k > Len(vs) => us[k].n > w
      BY <1>4, <1>7
    <2> QED
      BY <1>2, <1>4, <1>6, <2>1 DEF Grows, DisputeGrows
  <1> QED
    BY <1>2, <1>4, <1>6, <1>10, <1>11 DEF Last

\* A row is dismissed.
LEMMA DismissedRow ==
  ASSUME NEW w \in Nat, NEW s \in Nat, NEW r, RowIsOrdered(r, w, s), r.dismissed = Nil,
         NEW d \in DismissalRow, d.n = w + 1, NEW q, q = [r EXCEPT !.dismissed = d]
  PROVE  /\ RowIsOrdered(q, w + 1, s) /\ Grows(r, q, w)
         /\ q.versions = r.versions /\ q.dismissed = d /\ q.dispute = r.dispute
  <1>1. r \in ActRow /\ RowIsOrdered(r, w + 1, s)
    BY LaterIsOrdered DEF RowIsOrdered
  <1>2. q \in ActRow /\ q.versions = r.versions /\ q.dismissed = d /\ q.dispute = r.dispute
    BY <1>1 DEF ActRow
  <1>3. Len(r.versions) \in Nat /\ d.n \in 1..(w + 1)
    BY <1>1, RowShape
  <1>4. PICK m \in 1..Len(r.versions) : m = Len(r.versions)
    BY <1>3 DEF RowIsOrdered
  <1>5. r.versions[m].n \in 1..w
    BY DEF RowIsOrdered, IsVersionOf
  <1>6. r.versions[m].n < d.n
    BY <1>5
  <1>7. RowIsOrdered(q, w + 1, s)
    BY <1>1, <1>2, <1>3, <1>4, <1>6 DEF RowIsOrdered
  <1>8. Grows(r, q, w)
    BY <1>2, <1>3 DEF Grows, DisputeGrows
  <1> QED
    BY <1>2, <1>7, <1>8

\* A dispute that is made, or cancelled.
IsDispute(r, p, w) ==
  p.n = w + 1 \/ (r.dispute # Nil /\ p.n = r.dispute.n /\ p.status = "cancelled")

\* A row is disputed.
LEMMA DisputedRow ==
  ASSUME NEW w \in Nat, NEW s \in Nat, NEW r, RowIsOrdered(r, w, s),
         NEW p \in DisputeRow, p.n \in 1..(w + 1), IsDispute(r, p, w),
         NEW q, q = [r EXCEPT !.dispute = p]
  PROVE  /\ RowIsOrdered(q, w + 1, s) /\ Grows(r, q, w)
         /\ q.versions = r.versions /\ q.dismissed = r.dismissed /\ q.dispute = p
  <1>1. r \in ActRow /\ RowIsOrdered(r, w + 1, s)
    BY LaterIsOrdered DEF RowIsOrdered
  <1>2. q \in ActRow /\ q.versions = r.versions /\ q.dismissed = r.dismissed /\ q.dispute = p
    BY <1>1 DEF ActRow
  <1>3. Len(r.versions) \in Nat
    BY <1>1, RowShape
  <1>4. RowIsOrdered(q, w + 1, s)
    BY <1>1, <1>2 DEF RowIsOrdered
  <1>5. DisputeGrows(r, q, w)
    <2>1. p # Nil
      BY NilAssumption
    <2>2. q.dispute # Nil
      BY <1>2, <2>1
    <2> QED
      BY <1>2, <2>2 DEF DisputeGrows, IsDispute
  <1>6. Grows(r, q, w)
    BY <1>2, <1>3, <1>5 DEF Grows
  <1> QED
    BY <1>2, <1>4, <1>6

\* A row is inserted.
LEMMA InsertedRow ==
  ASSUME NEW w \in Nat, NEW s \in Nat, NEW v \in VersionRow, v.n = w + 1, IsVersionOf(v, w + 1, s),
         NEW q, q = [versions |-> <<v>>, dismissed |-> Nil, dispute |-> Nil]
  PROVE  /\ RowIsOrdered(q, w + 1, s) /\ IsNewRow(q, w)
         /\ q.versions = <<v>> /\ q.dismissed = Nil /\ q.dispute = Nil
  <1>1. PICK vs : vs = <<v>>
    OBVIOUS
  <1>2. vs \in Seq(VersionRow) /\ Len(vs) = 1 /\ vs[1] = v /\ \A k \in 1..1 : k = 1
    BY <1>1
  <1>3. q = [versions |-> vs, dismissed |-> Nil, dispute |-> Nil]
    BY <1>1
  <1>4. q \in ActRow /\ q.versions = vs /\ q.dismissed = Nil /\ q.dispute = Nil
    BY <1>2, <1>3 DEF ActRow
  <1>5. RowIsOrdered(q, w + 1, s)
    BY <1>2, <1>4 DEF RowIsOrdered
  <1>6. IsNewRow(q, w)
    BY <1>2, <1>4 DEF IsNewRow
  <1> QED
    BY <1>1, <1>4, <1>5, <1>6

-----------------------------------------------------------------------------
(* The employee's latest action on a row.                                   *)

LEMMA OwnAre ==
  ASSUME NEW r \in ActRow
  PROVE  \A n : n \in OwnOf(r) <=>
           n = 0 \/ \E k \in 1..Len(r.versions) : n = r.versions[k].n /\ r.versions[k].by = "worker"
  <1>1. \A v : v \in ToSet(r.versions) <=> \E k \in 1..Len(r.versions) : v = r.versions[k]
    BY VersionsAre
  <1> QED
    BY <1>1 DEF OwnOf

LEMMA OwnAreNumbers ==
  ASSUME NEW w \in Nat, NEW s \in Nat, NEW r, RowIsOrdered(r, w, s)
  PROVE  OwnOf(r) \subseteq 0..w /\ Max(OwnOf(r)) \in 0..w /\ 0 \in OwnOf(r)
  <1>1. \A n \in OwnOf(r) : n \in 0..w
    <2>1. r \in ActRow /\ 0 \in 0..w
      BY DEF RowIsOrdered
    <2>2. \A k \in 1..Len(r.versions) : r.versions[k].n \in 0..w
      BY DEF RowIsOrdered, IsVersionOf
    <2> QED
      BY <2>1, <2>2, OwnAre
  <1>2. 0 \in OwnOf(r)
    BY DEF OwnOf
  <1>3. OwnOf(r) \subseteq 0..w /\ OwnOf(r) # {}
    BY <1>1, <1>2
  <1> QED
    BY <1>2, <1>3, GreatestOfBounded

LEMMA LatestIsANumber ==
  ASSUME NEW w \in Nat, NEW s \in Nat, NEW r, r = Nil \/ RowIsOrdered(r, w, s)
  PROVE  LatestOf(r) \in 0..w
  <1>1. CASE r = Nil
    BY <1>1 DEF LatestOf
  <1>2. CASE RowIsOrdered(r, w, s)
    <2>1. Max(OwnOf(r)) \in 0..w
      BY <1>2, OwnAreNumbers
    <2>2. r.dismissed # Nil => r.dismissed.n \in 0..w
      BY <1>2 DEF RowIsOrdered
    <2> QED
      BY <2>1, <2>2 DEF LatestOf
  <1> QED
    BY <1>1, <1>2

\* What the manager writes leaves it as it was.
LEMMA AppendedByBoss ==
  ASSUME NEW w \in Nat, NEW s \in Nat, NEW r, RowIsOrdered(r, w, s), r.dismissed = Nil,
         NEW q \in ActRow, Grows(r, q, w), q.dismissed = Nil,
         Len(q.versions) = Len(r.versions) + 1,
         q.versions[Len(r.versions) + 1].by = "boss"
  PROVE  LatestOf(q) = LatestOf(r)
  <1>1. r \in ActRow /\ r # Nil /\ q # Nil /\ Len(r.versions) \in Nat
    BY RowShape DEF RowIsOrdered
  <1>2. PICK m \in Nat : m = Len(r.versions)
    BY <1>1
  <1>3. \A k \in 1..(m + 1) : k \in 1..m \/ k = m + 1
    OBVIOUS
  <1>4. \A k \in 1..m : q.versions[k] = r.versions[k] /\ k \in 1..(m + 1)
    BY <1>2 DEF Grows
  <1>5. ASSUME NEW n
        PROVE  n \in OwnOf(q) <=> n \in OwnOf(r)
    <2>1. q.versions[m + 1].by # "worker"
      BY <1>2
    <2>2. ASSUME NEW k \in 1..(m + 1), n = q.versions[k].n, q.versions[k].by = "worker"
          PROVE  k \in 1..m /\ n = r.versions[k].n /\ r.versions[k].by = "worker"
      BY <1>3, <1>4, <2>1, <2>2
    <2>3. ASSUME NEW k \in 1..m, n = r.versions[k].n, r.versions[k].by = "worker"
          PROVE  k \in 1..(m + 1) /\ n = q.versions[k].n /\ q.versions[k].by = "worker"
      BY <1>4, <2>3
    <2>4. n \in OwnOf(r) <=> n = 0 \/ \E k \in 1..m : n = r.versions[k].n /\ r.versions[k].by = "worker"
      BY <1>1, <1>2, OwnAre
    <2>5. n \in OwnOf(q) <=>
            n = 0 \/ \E k \in 1..(m + 1) : n = q.versions[k].n /\ q.versions[k].by = "worker"
      BY <1>2, OwnAre
    <2> QED
      BY <2>2, <2>3, <2>4, <2>5
  <1>6. OwnOf(q) = OwnOf(r)
    BY <1>5
  <1> QED
    BY <1>1, <1>6 DEF LatestOf

LEMMA DismissedByBoss ==
  ASSUME NEW r \in ActRow, NEW q \in ActRow, q.versions = r.versions,
         r.dismissed = Nil, q.dismissed = Nil \/ q.dismissed.by = "boss"
  PROVE  LatestOf(q) = LatestOf(r)
  <1>1. r # Nil /\ q # Nil
    BY RowShape
  <1>2. OwnOf(q) = OwnOf(r)
    BY DEF OwnOf
  <1> QED
    BY <1>1, <1>2 DEF LatestOf

LEMMA SameLatest ==
  ASSUME NEW r \in ActRow, NEW q \in ActRow, q.versions = r.versions, q.dismissed = r.dismissed
  PROVE  LatestOf(q) = LatestOf(r)
  <1>1. r # Nil /\ q # Nil
    BY RowShape
  <1>2. OwnOf(q) = OwnOf(r)
    BY DEF OwnOf
  <1> QED
    BY <1>1, <1>2 DEF LatestOf

LEMMA InsertedByBoss ==
  ASSUME NEW q \in ActRow, NEW v \in VersionRow, q.versions = <<v>>, q.dismissed = Nil, v.by = "boss"
  PROVE  LatestOf(q) = 0
  <1>1. q # Nil
    BY RowShape
  <1>2. Len(q.versions) = 1 /\ q.versions[1] = v /\ \A k \in 1..1 : k = 1
    OBVIOUS
  <1>3. \A n : n \in OwnOf(q) <=> n = 0
    BY <1>2, OwnAre
  <1>4. OwnOf(q) = {0}
    BY <1>3
  <1>5. {0} \subseteq 0..0 /\ {0} # {}
    OBVIOUS
  <1>6. Max({0}) = 0
    BY <1>5, GreatestOfBounded
  <1> QED
    BY <1>1, <1>4, <1>6 DEF LatestOf

\* What the employee writes is it.
LEMMA WrittenByWorker ==
  ASSUME NEW w \in Nat, NEW s \in Nat, NEW q, RowIsOrdered(q, w + 1, s), q.dismissed = Nil,
         q.versions[Len(q.versions)].n = w + 1, q.versions[Len(q.versions)].by = "worker"
  PROVE  LatestOf(q) = w + 1
  <1>1. q \in ActRow /\ q # Nil /\ Len(q.versions) \in Nat /\ Len(q.versions) >= 1
    BY RowShape DEF RowIsOrdered
  <1>2. PICK m \in 1..Len(q.versions) : m = Len(q.versions)
    BY <1>1
  <1>3. w + 1 \in OwnOf(q)
    BY <1>1, <1>2, OwnAre
  <1>4. OwnOf(q) \subseteq 0..(w + 1) /\ w + 1 \in Nat /\ OwnOf(q) # {}
    BY <1>3, OwnAreNumbers
  <1>5. Max(OwnOf(q)) \in 0..(w + 1) /\ w + 1 <= Max(OwnOf(q))
    BY <1>3, <1>4, GreatestOfBounded
  <1> QED
    BY <1>1, <1>5 DEF LatestOf

-----------------------------------------------------------------------------
(* The mission.                                                             *)

TableIsOrdered(A, w, s) ==
  /\ A \in [Act -> ActRow \cup {Nil}]
  /\ \A a \in Act : A[a] # Nil => RowIsOrdered(A[a], w, s)

ConfirmedAreNumbered(C, w, s) ==
  \A v \in C : v \in ConfirmationRow /\ v.n \in 1..w /\ v.at \in 0..s

\* Table B is A after writes later than the w first.
TableGrows(A, B, w) ==
  \A a \in Act :
    /\ A[a] # Nil => B[a] # Nil /\ Grows(A[a], B[a], w)
    /\ A[a] = Nil /\ B[a] # Nil => IsNewRow(B[a], w)

OwnConfirmations(C) == {v \in C : v.by = "worker"}

LatestIn(A, C) ==
  IF OwnConfirmations(C) # {} THEN Max({v.n : v \in OwnConfirmations(C)})
  ELSE Max({LatestOf(A[a]) : a \in Act})

OldIn(A, C) == [a \in Act |-> OldOf(A[a], LatestIn(A, C))]

PresentIn(A) == [a \in Act |-> PresentOf(A[a])]

LEMMA Rendered ==
  /\ Present = PresentIn(acts)
  /\ LatestAction = LatestIn(acts, confirmed)
  /\ Old = OldIn(acts, confirmed)
  <1>1. Present = PresentIn(acts)
    BY DEF Present, PresentIn, PresentOf, Stands, Logged, Current
  <1>2. ASSUME NEW a \in Act PROVE LatestBy(a) = LatestOf(acts[a])
    BY DEF LatestBy, LatestOf, OwnOf, Logged
  <1>3. LatestAction = LatestIn(acts, confirmed)
    <2>1. {LatestBy(a) : a \in Act} = {LatestOf(acts[a]) : a \in Act}
      BY <1>2
    <2> QED
      BY <2>1 DEF LatestAction, LatestIn, OwnConfirmations
  <1>4. ASSUME NEW a \in Act PROVE VersionAt(a, LatestAction) = VersionOf(acts[a], LatestAction)
    BY DEF VersionAt, VersionOf, BeforeOf, Logged
  <1>5. \A a \in Act : VersionAt(a, LatestAction) = VersionOf(acts[a], LatestIn(acts, confirmed))
    BY <1>3, <1>4
  <1>6. Old = OldIn(acts, confirmed)
    BY <1>5 DEF Old, OldIn, OldOf
  <1> QED
    BY <1>1, <1>3, <1>6

\* The latest of bounded numbers.
LEMMA MaxOf ==
  ASSUME NEW w \in Nat, NEW S, S \subseteq 0..w, S # {}
  PROVE  /\ Max(S) \in 0..w
         /\ w \in S => Max(S) = w
  <1>1. Max(S) \in 0..w /\ \A y \in S : y <= Max(S)
    BY GreatestOfBounded
  <1>2. w \in S => w <= Max(S)
    BY <1>1
  <1> QED
    BY <1>1, <1>2

LEMMA LatestInIsANumber ==
  ASSUME NEW w \in Nat, NEW s \in Nat, NEW A, TableIsOrdered(A, w, s),
         NEW C, ConfirmedAreNumbered(C, w, s)
  PROVE  LatestIn(A, C) \in 0..w
  <1>1. CASE OwnConfirmations(C) # {}
    <2> DEFINE S == {v.n : v \in OwnConfirmations(C)}
    <2>1. S \subseteq 0..w /\ S # {}
      BY <1>1 DEF OwnConfirmations, ConfirmedAreNumbered
    <2>2. LatestIn(A, C) = Max(S)
      BY <1>1 DEF LatestIn
    <2> HIDE DEF S
    <2> QED
      BY <2>1, <2>2, MaxOf
  <1>2. CASE OwnConfirmations(C) = {}
    <2> DEFINE S == {LatestOf(A[a]) : a \in Act}
    <2>1. \A a \in Act : LatestOf(A[a]) \in 0..w
      BY LatestIsANumber DEF TableIsOrdered
    <2>2. S \subseteq 0..w /\ S # {}
      BY <2>1, HistoryAssumption
    <2>3. LatestIn(A, C) = Max(S)
      BY <1>2 DEF LatestIn
    <2> HIDE DEF S
    <2> QED
      BY <2>2, <2>3, MaxOf
  <1> QED
    BY <1>1, <1>2

IsLatest(B, a, w) == LatestOf(B[a]) = w

HasNoOwn(C) == OwnConfirmations(C) = {}

SameOwn(C, D) == OwnConfirmations(D) = OwnConfirmations(C)

SameActions(A, B, C) == HasNoOwn(C) => \A a \in Act : LatestOf(B[a]) = LatestOf(A[a])

\* The employee writes on one activity: his latest action is now.
LEMMA WorkerWritesNow ==
  ASSUME NEW w \in Nat, NEW s \in Nat, NEW B, TableIsOrdered(B, w, s),
         NEW C, HasNoOwn(C), NEW a \in Act, IsLatest(B, a, w)
  PROVE  LatestIn(B, C) = w
  <1> DEFINE S == {LatestOf(B[b]) : b \in Act}
  <1>1. \A b \in Act : LatestOf(B[b]) \in 0..w
    BY LatestIsANumber DEF TableIsOrdered
  <1>2. S \subseteq 0..w /\ S # {} /\ w \in S
    BY <1>1 DEF IsLatest
  <1>3. LatestIn(B, C) = Max(S)
    BY DEF LatestIn, HasNoOwn
  <1> HIDE DEF S
  <1> QED
    BY <1>2, <1>3, MaxOf

\* He validates: it is now.
LEMMA WorkerConfirmsNow ==
  ASSUME NEW w \in Nat, NEW A, NEW C, NEW v, v.n = w, OwnConfirmations(C) = {v}
  PROVE  LatestIn(A, C) = w
  <1> DEFINE S == {u.n : u \in OwnConfirmations(C)}
  <1>1. S = {w}
    OBVIOUS
  <1>2. S \subseteq 0..w /\ S # {} /\ w \in S
    BY <1>1
  <1>3. LatestIn(A, C) = Max(S)
    BY DEF LatestIn
  <1> HIDE DEF S
  <1> QED
    BY <1>2, <1>3, MaxOf

LEMMA LatestInStays ==
  ASSUME NEW A, NEW B, NEW C, NEW D, SameOwn(C, D), SameActions(A, B, C)
  PROVE  LatestIn(B, D) = LatestIn(A, C)
  <1>1. CASE OwnConfirmations(C) # {}
    BY <1>1 DEF LatestIn, SameOwn
  <1>2. CASE OwnConfirmations(C) = {}
    <2>1. {LatestOf(B[a]) : a \in Act} = {LatestOf(A[a]) : a \in Act}
      BY <1>2 DEF SameActions, HasNoOwn
    <2> QED
      BY <1>2, <2>1 DEF LatestIn, SameOwn
  <1> QED
    BY <1>1, <1>2

\* What was written by then does not depend on later writes.
LEMMA OldStays ==
  ASSUME NEW w \in Nat, NEW s \in Nat, NEW x \in Nat, NEW A, TableIsOrdered(A, w, s),
         NEW B, TableIsOrdered(B, x, s), TableGrows(A, B, w),
         NEW C, ConfirmedAreNumbered(C, w, s), NEW D, LatestIn(B, D) = LatestIn(A, C)
  PROVE  OldIn(B, D) = OldIn(A, C)
  <1>1. PICK l \in 0..w : l = LatestIn(A, C) /\ l = LatestIn(B, D)
    BY LatestInIsANumber
  <1>2. ASSUME NEW a \in Act
        PROVE  VersionOf(B[a], l) = VersionOf(A[a], l)
    <2>1. B[a] # Nil => B[a] \in ActRow
      BY DEF TableIsOrdered
    <2>2. CASE A[a] # Nil
      <3>1. B[a] \in ActRow /\ Grows(A[a], B[a], w) /\ RowIsOrdered(A[a], w, s)
        BY <2>1, <2>2 DEF TableGrows, TableIsOrdered
      <3> QED
        BY <3>1, VersionStays
    <2>3. CASE A[a] = Nil /\ B[a] # Nil
      <3>1. B[a] \in ActRow /\ IsNewRow(B[a], w)
        BY <2>1, <2>3 DEF TableGrows
      <3> QED
        BY <2>3, <3>1, VersionOfNewRow, VersionOfNil
    <2>4. CASE A[a] = Nil /\ B[a] = Nil
      BY <2>4
    <2> QED
      BY <2>2, <2>3, <2>4
  <1>3. \A a \in Act : OldOf(B[a], l) = OldOf(A[a], l)
    BY <1>2 DEF OldOf
  <1> QED
    BY <1>1, <1>3 DEF OldIn

\* When the employee acts last, what there was at his action is what there is.
LEMMA OldIsPresent ==
  ASSUME NEW w \in Nat, NEW s \in Nat, NEW A, TableIsOrdered(A, w, s), NEW l \in Nat,
         \A a \in Act : A[a] # Nil =>
            /\ A[a].versions[Len(A[a].versions)].n <= l
            /\ A[a].dismissed # Nil => A[a].dismissed.n <= l
  PROVE  \A a \in Act : OldOf(A[a], l) = PresentOf(A[a])
  <1> SUFFICES ASSUME NEW a \in Act PROVE OldOf(A[a], l) = PresentOf(A[a])
    OBVIOUS
  <1>1. CASE A[a] = Nil
    BY <1>1, VersionOfNil DEF OldOf, PresentOf
  <1>2. CASE A[a] # Nil
    <2>1. RowIsOrdered(A[a], w, s)
      BY <1>2 DEF TableIsOrdered
    <2> QED
      BY <1>2, <2>1, VersionNow
  <1> QED
    BY <1>1, <1>2

LEMMA LastWrites ==
  ASSUME NEW w \in Nat, NEW s \in Nat, NEW A, TableIsOrdered(A, w, s)
  PROVE  \A a \in Act : A[a] # Nil =>
            /\ A[a].versions[Len(A[a].versions)].n <= w
            /\ A[a].dismissed # Nil => A[a].dismissed.n <= w
  <1> SUFFICES ASSUME NEW a \in Act, A[a] # Nil
               PROVE  /\ A[a].versions[Len(A[a].versions)].n <= w
                      /\ A[a].dismissed # Nil => A[a].dismissed.n <= w
    OBVIOUS
  <1>1. PICK r : r = A[a]
    OBVIOUS
  <1>2. RowIsOrdered(r, w, s) /\ r \in ActRow
    BY <1>1 DEF TableIsOrdered, RowIsOrdered
  <1>3. PICK m \in 1..Len(r.versions) : m = Len(r.versions)
    BY <1>2, RowShape DEF RowIsOrdered
  <1>4. r.versions[m].n \in 1..w /\ (r.dismissed # Nil => r.dismissed.n \in 1..w)
    BY <1>2 DEF RowIsOrdered, IsVersionOf
  <1> QED
    BY <1>1, <1>3, <1>4

LEMMA OldIsPresentNow ==
  ASSUME NEW w \in Nat, NEW s \in Nat, NEW A, TableIsOrdered(A, w, s),
         NEW C, LatestIn(A, C) = w
  PROVE  OldIn(A, C) = PresentIn(A)
  <1>1. \A a \in Act : A[a] # Nil =>
          /\ A[a].versions[Len(A[a].versions)].n <= w
          /\ A[a].dismissed # Nil => A[a].dismissed.n <= w
    BY LastWrites
  <1>2. \A a \in Act : OldOf(A[a], w) = PresentOf(A[a])
    BY <1>1, OldIsPresent
  <1> QED
    BY <1>2 DEF OldIn, PresentIn

-----------------------------------------------------------------------------
(* The lines, of the tables as arguments.                                   *)

Moved(v, old, a, l) ==
  \/ l = Line(v.n, "resumed", a, Nil) /\ v.end # old.end /\ v.end = Nil
  \/ l = Line(v.n, "endMoved", a, v.end) /\ v.end # old.end /\ v.end # Nil /\ old.end # Nil
  \/ l = Line(v.n, "startMoved", a, v.start) /\ v.start # old.start

HasJobAt(C, end) == \E v \in C : v.by = "system" /\ v.at = end

Stops(C, v, old, a, l) ==
  l = Line(v.n, "stopped", a, v.end) /\ v.end # Nil /\ old.end = Nil /\ ~HasJobAt(C, v.end)

IsMove(r, k, a, n, l) == r.versions[k].n <= n /\ Moved(r.versions[k], r.versions[k - 1], a, l)

IsStop(r, C, k, a, n, l) ==
  r.versions[k].n <= n /\ Stops(C, r.versions[k], r.versions[k - 1], a, l)

\* The row was there, by number n, or was dismissed.
HasBegun(r, n) == r # Nil /\ ~(r.versions[1].n > n)

IsGone(r, n) == r.dismissed # Nil /\ r.dismissed.n <= n

IsRowLine(r, a, n, l) ==
  /\ HasBegun(r, n)
  /\ \/ l = Line(r.versions[1].n, "added", a, Content(r.versions[1]))
     \/ \E k \in 2..Len(r.versions) : IsMove(r, k, a, n, l)
     \/ IsGone(r, n) /\ l = Line(r.dismissed.n, "deleted", a, Nil)

IsRowStop(r, C, a, n, l) == HasBegun(r, n) /\ \E k \in 2..Len(r.versions) : IsStop(r, C, k, a, n, l)

DisputeStands(r) == r # Nil /\ r.dispute # Nil /\ r.dispute.status = "created"

NameOf(r, n) ==
  IF IsGone(r, n) THEN "deletion"
  ELSE IF \E k \in 2..Len(r.versions) : r.versions[k].n <= n THEN "change"
  ELSE "addition"

IsRowDispute(r, a, n, l) ==
  /\ HasBegun(r, n) /\ DisputeStands(r)
  /\ l = Line(r.dispute.n, "disputed", a, NameOf(r, n))

\* The end is told with validation v.
ToldWith(C, v) == v.admin => ~\E w \in C : w.by = "system" /\ ~w.admin /\ w.at = v.at

EndedAt(r, n, end) == r # Nil /\ ~IsGone(r, n) /\ \E u \in ToSet(r.versions) : u.end = end

IsJobStop(A, C, v, n, l) ==
  /\ v.by = "system" /\ ToldWith(C, v)
  /\ \E a \in Act : EndedAt(A[a], n, v.at) /\ l = Line(v.n, "stopped", a, v.at)

IsConfirmedLine(C, n, l) ==
  \E v \in C : v.n <= n /\ l = Line(v.n, "validated", Nil, v.by)

IsFrozenLine(A, C, n, l) == IsConfirmedLine(C, n, l) \/ \E a \in Act : IsRowLine(A[a], a, n, l)

IsLooseLine(A, C, n, l) ==
  \/ \E a \in Act : IsRowStop(A[a], C, a, n, l) \/ IsRowDispute(A[a], a, n, l)
  \/ \E v \in C : v.n <= n /\ IsJobStop(A, C, v, n, l)

IsLine(A, C, n, l) == IsFrozenLine(A, C, n, l) \/ IsLooseLine(A, C, n, l)

LEMMA LineIs ==
  ASSUME NEW n, NEW kind, NEW a, NEW what
  PROVE  /\ Line(n, kind, a, what).kind = kind /\ Line(n, kind, a, what).n = n
         /\ Line(n, kind, a, what).act = a /\ Line(n, kind, a, what).what = what
  BY DEF Line

LEMMA RevisionsAre ==
  ASSUME NEW a, NEW k, NEW l
  PROVE  l \in RevisionLines(a, k)
           <=> \/ Moved(acts[a].versions[k], acts[a].versions[k - 1], a, l)
               \/ Stops(confirmed, acts[a].versions[k], acts[a].versions[k - 1], a, l)
  <1>1. PICK v : v = acts[a].versions[k]
    OBVIOUS
  <1>2. PICK old : old = acts[a].versions[k - 1]
    OBVIOUS
  <1>3. EndsWithJob(v.end) <=> HasJobAt(confirmed, v.end)
    BY DEF EndsWithJob, HasJobAt
  <1>4. l \in RevisionLines(a, k) <=>
          /\ l \in {Line(v.n, "resumed", a, Nil), Line(v.n, "stopped", a, v.end),
                    Line(v.n, "endMoved", a, v.end), Line(v.n, "startMoved", a, v.start)}
          /\ \/ l.kind = "resumed" /\ v.end # old.end /\ v.end = Nil
             \/ l.kind = "stopped" /\ v.end # Nil /\ old.end = Nil /\ ~HasJobAt(confirmed, v.end)
             \/ l.kind = "endMoved" /\ v.end # old.end /\ v.end # Nil /\ old.end # Nil
             \/ l.kind = "startMoved" /\ v.start # old.start
    BY <1>1, <1>2, <1>3 DEF RevisionLines
  <1>5. Moved(v, old, a, l) \/ Stops(confirmed, v, old, a, l) => l \in RevisionLines(a, k)
    BY <1>4, LineIs DEF Moved, Stops
  <1>6. l \in RevisionLines(a, k) => Moved(v, old, a, l) \/ Stops(confirmed, v, old, a, l)
    BY <1>4, LineIs DEF Moved, Stops
  <1> QED
    BY <1>1, <1>2, <1>5, <1>6

LEMMA NameIs ==
  ASSUME NEW a, NEW n PROVE DisputedAction(a, n) = NameOf(acts[a], n)
  BY DEF DisputedAction, DismissedAsOf, NameOf, IsGone

LEMMA ActLinesAre ==
  ASSUME NEW a, NEW n, NEW l
  PROVE  l \in ActLines(a, n) <=> \/ IsRowLine(acts[a], a, n, l)
                                  \/ IsRowStop(acts[a], confirmed, a, n, l)
                                  \/ IsRowDispute(acts[a], a, n, l)
  <1>1. PICK r : r = acts[a]
    OBVIOUS
  <1>2. CASE ~HasBegun(r, n)
    BY <1>1, <1>2 DEF ActLines, IsRowLine, IsRowStop, IsRowDispute, HasBegun, Logged
  <1>3. CASE HasBegun(r, n)
    <2>1. PICK first :
            first = Line(acts[a].versions[1].n, "added", a, Content(acts[a].versions[1]))
      OBVIOUS
    <2>2. PICK revised : revised = UNION {RevisionLines(a, k) :
                 k \in {i \in 2..Len(acts[a].versions) : acts[a].versions[i].n <= n}}
      OBVIOUS
    <2>3. PICK gone : gone = IF DismissedAsOf(a, n) = Nil THEN {}
                             ELSE {Line(DismissedAsOf(a, n).n, "deleted", a, Nil)}
      OBVIOUS
    <2>4. PICK disputed : disputed = IF IsDisputed(a)
                THEN {Line(acts[a].dispute.n, "disputed", a, DisputedAction(a, n))} ELSE {}
      OBVIOUS
    <2>5. ActLines(a, n) = {first} \cup revised \cup gone \cup disputed
      <3>1. ~(~Logged(a) \/ acts[a].versions[1].n > n)
        BY <1>1, <1>3 DEF Logged, HasBegun
      <3> QED
        BY <2>1, <2>2, <2>3, <2>4, <3>1, Zenon DEF ActLines
    <2>6. l \in revised <=> \/ \E k \in 2..Len(r.versions) : IsMove(r, k, a, n, l)
                            \/ \E k \in 2..Len(r.versions) : IsStop(r, confirmed, k, a, n, l)
      <3>1. l \in revised <=>
              \E k \in 2..Len(r.versions) : r.versions[k].n <= n /\ l \in RevisionLines(a, k)
        BY <1>1, <2>2
      <3>2. \A k : l \in RevisionLines(a, k) <=>
              \/ Moved(r.versions[k], r.versions[k - 1], a, l)
              \/ Stops(confirmed, r.versions[k], r.versions[k - 1], a, l)
        BY <1>1, RevisionsAre
      <3> QED
        BY <3>1, <3>2 DEF IsMove, IsStop
    <2>7. l \in gone <=> IsGone(r, n) /\ l = Line(r.dismissed.n, "deleted", a, Nil)
      <3>1. CASE IsGone(r, n)
        <4>1. DismissedAsOf(a, n) = r.dismissed
          BY <1>1, <3>1 DEF DismissedAsOf, IsGone
        <4>2. gone = {Line(r.dismissed.n, "deleted", a, Nil)}
          BY <2>3, <3>1, <4>1 DEF IsGone
        <4> QED
          BY <3>1, <4>2
      <3>2. CASE ~IsGone(r, n)
        <4>1. DismissedAsOf(a, n) = Nil
          BY <1>1, <3>2 DEF DismissedAsOf, IsGone
        <4> QED
          BY <2>3, <3>2, <4>1
      <3> QED
        BY <3>1, <3>2
    <2>8. l \in disputed <=> DisputeStands(r) /\ l = Line(r.dispute.n, "disputed", a, NameOf(r, n))
      <3>1. IsDisputed(a) <=> DisputeStands(r)
        BY <1>1 DEF IsDisputed, DisputeStands, Logged
      <3> QED
        BY <1>1, <2>4, <3>1, NameIs
    <2>9. l \in ActLines(a, n) <=> l = first \/ l \in revised \/ l \in gone \/ l \in disputed
      BY <2>5
    <2> QED
      BY <1>1, <1>3, <2>1, <2>6, <2>7, <2>8, <2>9 DEF IsRowLine, IsRowStop, IsRowDispute
  <1> QED
    BY <1>2, <1>3

LEMMA ConfirmationLinesAre ==
  ASSUME NEW v, NEW n, NEW l
  PROVE  l \in ConfirmationLines(v, n) <=>
           l = Line(v.n, "validated", Nil, v.by) \/ IsJobStop(acts, confirmed, v, n, l)
  <1>1. PICK ended : ended = {b \in Act : /\ Logged(b)
                                          /\ DismissedAsOf(b, n) = Nil
                                          /\ \E w \in ToSet(acts[b].versions) : w.end = v.at}
    OBVIOUS
  <1>2. PICK stops : stops = IF v.by # "system" \/ ~IsToldWith(v) THEN {}
                             ELSE {Line(v.n, "stopped", a, v.at) : a \in ended}
    OBVIOUS
  <1>3. ConfirmationLines(v, n) = {Line(v.n, "validated", Nil, v.by)} \cup stops
    BY <1>1, <1>2 DEF ConfirmationLines
  <1>4. ASSUME NEW b \in Act
        PROVE  b \in ended <=> EndedAt(acts[b], n, v.at)
    <2>1. Logged(b) => (DismissedAsOf(b, n) = Nil <=> ~IsGone(acts[b], n))
      BY DEF DismissedAsOf, IsGone
    <2> QED
      BY <1>1, <2>1 DEF EndedAt, Logged
  <1>5. IsToldWith(v) <=> ToldWith(confirmed, v)
    BY DEF IsToldWith, ToldWith
  <1>6. l \in stops <=>
          /\ v.by = "system" /\ ToldWith(confirmed, v)
          /\ \E a \in ended : l = Line(v.n, "stopped", a, v.at)
    BY <1>2, <1>5
  <1>7. ended \subseteq Act
    BY <1>1
  <1>8. l \in stops <=> IsJobStop(acts, confirmed, v, n, l)
    BY <1>4, <1>6, <1>7 DEF IsJobStop
  <1> QED
    BY <1>3, <1>8

LEMMA LinesAre ==
  \A n, l : l \in Lines(n) <=> IsLine(acts, confirmed, n, l)
  <1> SUFFICES ASSUME NEW n, NEW l
               PROVE  l \in Lines(n) <=> IsLine(acts, confirmed, n, l)
    OBVIOUS
  <1>1. l \in Lines(n) <=> \/ \E a \in Act : l \in ActLines(a, n)
                           \/ \E v \in confirmed : v.n <= n /\ l \in ConfirmationLines(v, n)
    <2>1. PICK ofActs : ofActs = UNION {ActLines(a, n) : a \in Act}
      OBVIOUS
    <2>2. PICK ofConfirmed :
            ofConfirmed = UNION {ConfirmationLines(v, n) : v \in {w \in confirmed : w.n <= n}}
      OBVIOUS
    <2>3. Lines(n) = ofActs \cup ofConfirmed
      BY <2>1, <2>2, Zenon DEF Lines
    <2>4. l \in ofActs <=> \E a \in Act : l \in ActLines(a, n)
      BY <2>1
    <2>5. l \in ofConfirmed <=> \E v \in confirmed : v.n <= n /\ l \in ConfirmationLines(v, n)
      BY <2>2
    <2> QED
      BY <2>3, <2>4, <2>5
  <1>2. \A a \in Act : l \in ActLines(a, n) <=> \/ IsRowLine(acts[a], a, n, l)
                                                \/ IsRowStop(acts[a], confirmed, a, n, l)
                                                \/ IsRowDispute(acts[a], a, n, l)
    BY ActLinesAre
  <1>3. \A v \in confirmed : l \in ConfirmationLines(v, n) <=>
          l = Line(v.n, "validated", Nil, v.by) \/ IsJobStop(acts, confirmed, v, n, l)
    BY ConfirmationLinesAre
  <1> QED
    BY <1>1, <1>2, <1>3 DEF IsLine, IsLooseLine, IsFrozenLine, IsConfirmedLine

\* The versions of a row up to a number stay what they were, and whether it was
\* dismissed.
LEMMA PrefixStays ==
  ASSUME NEW w \in Nat, NEW s \in Nat, NEW r, RowIsOrdered(r, w, s),
         NEW q \in ActRow, Grows(r, q, w), NEW n \in 0..w
  PROVE  /\ HasBegun(q, n) <=> HasBegun(r, n)
         /\ IsGone(q, n) <=> IsGone(r, n)
         /\ r.dismissed # Nil => q.dismissed = r.dismissed
         /\ q.versions[1] = r.versions[1]
         /\ \A k \in 2..Len(q.versions) : q.versions[k].n <= n => k \in 2..Len(r.versions)
         /\ \A k \in 2..Len(r.versions) : /\ k \in 2..Len(q.versions)
                                          /\ q.versions[k] = r.versions[k]
                                          /\ q.versions[k - 1] = r.versions[k - 1]
         /\ \A v \in ToSet(r.versions) : v \in ToSet(q.versions)
         /\ \A v \in ToSet(q.versions) : v \in ToSet(r.versions) \/ v.n > w
  <1>1. r \in ActRow /\ r # Nil /\ q # Nil
    BY RowShape DEF RowIsOrdered
  <1>2. PICK m \in Nat : m = Len(r.versions) /\ m >= 1
    BY <1>1, RowShape DEF RowIsOrdered
  <1>3. PICK o \in Nat : o = Len(q.versions) /\ o >= m
    BY <1>1, <1>2, RowShape DEF Grows
  <1>4. \A k \in 1..m : q.versions[k] = r.versions[k] /\ k \in 1..o
    BY <1>2, <1>3 DEF Grows
  <1>5. q.versions[1] = r.versions[1]
    BY <1>2, <1>4
  <1>6. \A k \in 1..o : k > m => q.versions[k].n \in Nat /\ q.versions[k].n > w
    BY <1>2, <1>3, RowShape DEF Grows, VersionRow
  <1>7. ASSUME NEW k \in 2..o, q.versions[k].n <= n
        PROVE  k \in 2..m
    <2>1. ~(k > m)
      BY <1>6, <1>7
    <2> QED
      BY <1>2, <2>1
  <1>8. ASSUME NEW k \in 2..m
        PROVE  k \in 2..o /\ q.versions[k] = r.versions[k] /\ q.versions[k - 1] = r.versions[k - 1]
    <2>1. k \in 1..m /\ k - 1 \in 1..m /\ k \in 2..o
      BY <1>2, <1>3
    <2> QED
      BY <1>4, <2>1
  <1>9. IsGone(q, n) <=> IsGone(r, n)
    <2>1. CASE r.dismissed # Nil
      BY <2>1 DEF Grows, IsGone
    <2>2. CASE r.dismissed = Nil
      <3>1. q.dismissed # Nil => q.dismissed.n \in Nat /\ q.dismissed.n > w
        BY <2>2, RowShape DEF Grows, DismissalRow
      <3> QED
        BY <2>2, <3>1 DEF IsGone
    <2> QED
      BY <2>1, <2>2
  <1>10. r.dismissed # Nil => q.dismissed = r.dismissed
    BY DEF Grows
  <1>11. ASSUME NEW v \in ToSet(r.versions) PROVE v \in ToSet(q.versions)
    <2>1. PICK k \in 1..m : v = r.versions[k]
      BY <1>1, <1>2, VersionsAre
    <2>2. k \in 1..Len(q.versions) /\ v = q.versions[k]
      BY <1>3, <1>4, <2>1
    <2> QED
      BY <2>2, VersionsAre
  <1>12. ASSUME NEW v \in ToSet(q.versions) PROVE v \in ToSet(r.versions) \/ v.n > w
    <2>1. PICK k \in 1..o : v = q.versions[k]
      BY <1>3, VersionsAre
    <2>2. CASE k > m
      BY <1>6, <2>1, <2>2
    <2>3. CASE ~(k > m)
      <3>1. k \in 1..m
        BY <1>2, <2>3
      <3>2. v = r.versions[k]
        BY <1>4, <2>1, <3>1
      <3> QED
        BY <1>1, <1>2, <3>1, <3>2, VersionsAre
    <2> QED
      BY <2>2, <2>3
  <1>13. HasBegun(q, n) <=> HasBegun(r, n)
    BY <1>1, <1>5 DEF HasBegun
  <1> QED
    BY <1>2, <1>3, <1>5, <1>7, <1>8, <1>9, <1>10, <1>11, <1>12, <1>13

\* The lines of a row up to a number stay what they were.
LEMMA RowLinesStay ==
  ASSUME NEW w \in Nat, NEW s \in Nat, NEW r, RowIsOrdered(r, w, s),
         NEW q \in ActRow, Grows(r, q, w), NEW n \in 0..w, NEW a, NEW l
  PROVE  IsRowLine(q, a, n, l) <=> IsRowLine(r, a, n, l)
  <1>1. (\E k \in 2..Len(q.versions) : IsMove(q, k, a, n, l))
          <=> (\E k \in 2..Len(r.versions) : IsMove(r, k, a, n, l))
    <2>1. ASSUME NEW k \in 2..Len(q.versions), IsMove(q, k, a, n, l)
          PROVE  k \in 2..Len(r.versions) /\ IsMove(r, k, a, n, l)
      <3>1. k \in 2..Len(r.versions)
        BY <2>1, PrefixStays DEF IsMove
      <3>2. q.versions[k] = r.versions[k] /\ q.versions[k - 1] = r.versions[k - 1]
        BY <3>1, PrefixStays
      <3> QED
        BY <2>1, <3>1, <3>2 DEF IsMove
    <2>2. ASSUME NEW k \in 2..Len(r.versions), IsMove(r, k, a, n, l)
          PROVE  k \in 2..Len(q.versions) /\ IsMove(q, k, a, n, l)
      <3>1. /\ k \in 2..Len(q.versions)
            /\ q.versions[k] = r.versions[k] /\ q.versions[k - 1] = r.versions[k - 1]
        BY PrefixStays
      <3> QED
        BY <2>2, <3>1 DEF IsMove
    <2> QED
      BY <2>1, <2>2
  <1>2. IsGone(q, n) => q.dismissed = r.dismissed
    BY PrefixStays DEF IsGone
  <1> QED
    BY <1>1, <1>2, PrefixStays DEF IsRowLine

LEMMA NewRowHasNoLine ==
  ASSUME NEW w \in Nat, NEW s \in Nat, NEW q, RowIsOrdered(q, w + 1, s), IsNewRow(q, w),
         NEW n \in 0..w, NEW a, NEW l
  PROVE  ~HasBegun(q, n) /\ ~IsRowLine(q, a, n, l)
  <1>1. q \in ActRow /\ Len(q.versions) \in Nat
    BY RowShape DEF RowIsOrdered
  <1>2. 1 \in 1..Len(q.versions)
    BY <1>1 DEF RowIsOrdered
  <1>3. q.versions[1] \in VersionRow /\ q.versions[1].n > w
    BY <1>1, <1>2, RowShape DEF IsNewRow
  <1>4. q.versions[1].n > n
    BY <1>3 DEF VersionRow
  <1> QED
    BY <1>4 DEF IsRowLine, HasBegun

\* What is shown up to a number does not change with later writes.
LEMMA FrozenLinesStay ==
  ASSUME NEW w \in Nat, NEW s \in Nat, NEW A, TableIsOrdered(A, w, s),
         NEW B, TableIsOrdered(B, w + 1, s), TableGrows(A, B, w), NEW C, NEW D, C \subseteq D,
         \A v \in D \ C : v.n = w + 1, NEW n \in 0..w, NEW l
  PROVE  IsFrozenLine(B, D, n, l) <=> IsFrozenLine(A, C, n, l)
  <1>1. IsConfirmedLine(D, n, l) <=> IsConfirmedLine(C, n, l)
    BY DEF IsConfirmedLine
  <1>2. ASSUME NEW a \in Act
        PROVE  IsRowLine(B[a], a, n, l) <=> IsRowLine(A[a], a, n, l)
    <2>1. B[a] # Nil => B[a] \in ActRow /\ RowIsOrdered(B[a], w + 1, s)
      BY DEF TableIsOrdered
    <2>2. CASE A[a] # Nil
      <3>1. B[a] \in ActRow /\ Grows(A[a], B[a], w) /\ RowIsOrdered(A[a], w, s)
        BY <2>1, <2>2 DEF TableGrows, TableIsOrdered
      <3> QED
        BY <3>1, RowLinesStay
    <2>3. CASE A[a] = Nil /\ B[a] # Nil
      <3>1. RowIsOrdered(B[a], w + 1, s) /\ IsNewRow(B[a], w)
        BY <2>1, <2>3 DEF TableGrows
      <3>2. ~IsRowLine(B[a], a, n, l)
        BY <3>1, NewRowHasNoLine
      <3> QED
        BY <2>3, <3>2 DEF IsRowLine, HasBegun
    <2>4. CASE A[a] = Nil /\ B[a] = Nil
      BY <2>4 DEF IsRowLine, HasBegun
    <2> QED
      BY <2>2, <2>3, <2>4
  <1> QED
    BY <1>1, <1>2 DEF IsFrozenLine

-----------------------------------------------------------------------------
(* The lines that later writes take away or bring.                          *)

DisputeLeaves(r, n) == r # Nil /\ r.dispute # Nil /\ (r.dispute.status = "cancelled" \/ r.dispute.n > n)

EndLeaves(C, n, what) == \E v \in C : v.by = "system" /\ v.n > n /\ v.at = what

Leaves(A, C, n, l) ==
  \/ l.kind = "disputed" /\ l.act \in Act /\ DisputeLeaves(A[l.act], n)
  \/ l.kind = "stopped" /\ EndLeaves(C, n, l.what)

EndComes(r, n, what) == r # Nil /\ \E v \in ToSet(r.versions) : v.n > n /\ v.end = what

Comes(A, n, l) ==
  \/ l.kind = "disputed" /\ l.n > n
  \/ l.kind = "stopped" /\ l.act \in Act /\ EndComes(A[l.act], n, l.what)

\* From tables A and C to B and D by a write.
IsWriteOf(A, B, C, D, w, s) ==
  /\ TableIsOrdered(A, w, s) /\ TableIsOrdered(B, w + 1, s) /\ TableGrows(A, B, w)
  /\ C \subseteq D /\ \A v \in D \ C : v.n = w + 1
  /\ ConfirmedAreNumbered(C, w, s)

DisputedOf(r) ==
  IF r.dismissed # Nil THEN "deletion"
  ELSE IF Len(r.versions) > 1 THEN "change"
  ELSE "addition"

\* By its last write a row is what it is.
LEMMA NameNow ==
  ASSUME NEW w \in Nat, NEW s \in Nat, NEW r, RowIsOrdered(r, w, s)
  PROVE  NameOf(r, w) = DisputedOf(r)
  <1>1. r.dismissed # Nil => r.dismissed.n <= w
    BY DEF RowIsOrdered
  <1>2. PICK m \in Nat : m = Len(r.versions)
    BY RowShape DEF RowIsOrdered
  <1>3. \A k \in 1..m : r.versions[k].n <= w
    BY <1>2 DEF RowIsOrdered, IsVersionOf
  <1>4. (\E k \in 2..m : r.versions[k].n <= w) <=> m > 1
    <2>1. ASSUME m > 1 PROVE 2 \in 2..m /\ r.versions[2].n <= w
      BY <1>3, <2>1
    <2> QED
      BY <2>1
  <1> QED
    BY <1>1, <1>2, <1>4 DEF NameOf, DisputedOf, IsGone

\* The rows of a write, one by one.
LEMMA WrittenRows ==
  ASSUME NEW w \in Nat, NEW s \in Nat, NEW A, NEW B, NEW C, NEW D,
         IsWriteOf(A, B, C, D, w, s), NEW a \in Act
  PROVE  /\ A[a] # Nil => /\ RowIsOrdered(A[a], w, s) /\ B[a] # Nil /\ B[a] \in ActRow
                          /\ Grows(A[a], B[a], w)
         /\ A[a] = Nil /\ B[a] # Nil => RowIsOrdered(B[a], w + 1, s) /\ IsNewRow(B[a], w)
  BY DEF IsWriteOf, TableIsOrdered, TableGrows, RowIsOrdered

LEMMA NameStays ==
  ASSUME NEW w \in Nat, NEW s \in Nat, NEW r, RowIsOrdered(r, w, s),
         NEW q \in ActRow, Grows(r, q, w), NEW n \in 0..w
  PROVE  NameOf(q, n) = NameOf(r, n)
  <1>1. (\E k \in 2..Len(q.versions) : q.versions[k].n <= n)
          <=> (\E k \in 2..Len(r.versions) : r.versions[k].n <= n)
    BY PrefixStays
  <1> QED
    BY <1>1, PrefixStays DEF NameOf

\* A dispute that leaves does so for good.
LEMMA DisputeGoes ==
  ASSUME NEW w \in Nat, NEW s \in Nat, NEW r, RowIsOrdered(r, w, s),
         NEW q \in ActRow, q # Nil, Grows(r, q, w), NEW n \in 0..w
  PROVE  /\ DisputeLeaves(r, n) => DisputeLeaves(q, n)
         /\ DisputeStands(r) => q.dispute = r.dispute \/ DisputeLeaves(q, n)
         /\ DisputeStands(q) => q.dispute = r.dispute \/ q.dispute.n > n
  <1>1. r \in ActRow /\ r # Nil
    BY RowShape DEF RowIsOrdered
  <1>2. DisputeGrows(r, q, w)
    BY DEF Grows
  <1>3. CASE q.dispute = r.dispute
    BY <1>1, <1>3 DEF DisputeLeaves
  <1>4. CASE q.dispute # Nil /\ q.dispute.n > w
    <2>1. q.dispute.n \in Nat
      BY <1>4, RowShape DEF DisputeRow
    <2>2. q.dispute.n > n
      BY <1>4, <2>1
    <2> QED
      BY <1>4, <2>2 DEF DisputeLeaves
  <1>5. CASE q.dispute # Nil /\ q.dispute.status = "cancelled"
    BY <1>5 DEF DisputeLeaves, DisputeStands
  <1> QED
    BY <1>2, <1>3, <1>4, <1>5 DEF DisputeGrows

LEMMA LeavesStays ==
  ASSUME NEW w \in Nat, NEW s \in Nat, NEW A, NEW B, NEW C, NEW D,
         IsWriteOf(A, B, C, D, w, s), NEW n \in 0..w, NEW l, Leaves(A, C, n, l)
  PROVE  Leaves(B, D, n, l)
  <1>1. CASE l.kind = "disputed" /\ l.act \in Act /\ DisputeLeaves(A[l.act], n)
    <2>1. PICK a \in Act : a = l.act
      BY <1>1
    <2>2. PICK r, q : r = A[a] /\ q = B[a]
      OBVIOUS
    <2>3. r # Nil /\ DisputeLeaves(r, n)
      BY <1>1, <2>1, <2>2 DEF DisputeLeaves
    <2>4. RowIsOrdered(r, w, s) /\ q # Nil /\ q \in ActRow /\ Grows(r, q, w)
      BY <2>2, <2>3, WrittenRows
    <2>5. DisputeLeaves(q, n)
      BY <2>3, <2>4, DisputeGoes
    <2> QED
      BY <1>1, <2>1, <2>2, <2>5 DEF Leaves
  <1>2. CASE l.kind = "stopped" /\ EndLeaves(C, n, l.what)
    <2>1. EndLeaves(D, n, l.what)
      BY <1>2 DEF EndLeaves, IsWriteOf
    <2> QED
      BY <1>2, <2>1 DEF Leaves
  <1> QED
    BY <1>1, <1>2 DEF Leaves

LEMMA ComesStays ==
  ASSUME NEW w \in Nat, NEW s \in Nat, NEW A, NEW B, NEW C, NEW D,
         IsWriteOf(A, B, C, D, w, s), NEW n \in 0..w, NEW l, Comes(A, n, l)
  PROVE  Comes(B, n, l)
  <1>1. CASE l.kind = "disputed" /\ l.n > n
    BY <1>1 DEF Comes
  <1>2. CASE l.kind = "stopped" /\ l.act \in Act /\ EndComes(A[l.act], n, l.what)
    <2>1. PICK a \in Act : a = l.act
      BY <1>2
    <2>2. PICK r, q : r = A[a] /\ q = B[a]
      OBVIOUS
    <2>3. r # Nil
      BY <1>2, <2>1, <2>2 DEF EndComes
    <2>4. RowIsOrdered(r, w, s) /\ q # Nil /\ q \in ActRow /\ Grows(r, q, w)
      BY <2>2, <2>3, WrittenRows
    <2>5. \A v \in ToSet(r.versions) : v \in ToSet(q.versions)
      BY <2>4, PrefixStays
    <2>6. EndComes(q, n, l.what)
      BY <1>2, <2>1, <2>2, <2>4, <2>5 DEF EndComes
    <2> QED
      BY <1>2, <2>1, <2>2, <2>6 DEF Comes
  <1> QED
    BY <1>1, <1>2 DEF Comes

\* The ends of a row that the row tells.
LEMMA RowStopLeaves ==
  ASSUME NEW w \in Nat, NEW s \in Nat, NEW A, NEW B, NEW C, NEW D,
         IsWriteOf(A, B, C, D, w, s), NEW n \in 0..w, NEW a \in Act, NEW l,
         IsRowStop(A[a], C, a, n, l)
  PROVE  IsRowStop(B[a], D, a, n, l) \/ Leaves(B, D, n, l)
  <1>1. PICK r, q : r = A[a] /\ q = B[a]
    OBVIOUS
  <1>2. RowIsOrdered(r, w, s) /\ q # Nil /\ q \in ActRow /\ Grows(r, q, w)
    BY <1>1, WrittenRows DEF IsRowStop, HasBegun
  <1>3. PICK k \in 2..Len(r.versions) : IsStop(r, C, k, a, n, l)
    BY <1>1 DEF IsRowStop
  <1>4. /\ k \in 2..Len(q.versions) /\ q.versions[k] = r.versions[k]
        /\ q.versions[k - 1] = r.versions[k - 1] /\ HasBegun(q, n)
    <2>1. HasBegun(r, n)
      BY <1>1 DEF IsRowStop
    <2>2. HasBegun(q, n)
      BY <1>2, <2>1, PrefixStays
    <2> QED
      BY <1>2, <2>2, PrefixStays
  <1>5. PICK v, old : v = r.versions[k] /\ old = r.versions[k - 1]
    OBVIOUS
  <1>6. /\ v.n <= n /\ l = Line(v.n, "stopped", a, v.end) /\ v.end # Nil /\ old.end = Nil
        /\ ~HasJobAt(C, v.end)
    BY <1>3, <1>5 DEF IsStop, Stops
  <1>7. CASE ~HasJobAt(D, v.end)
    <2>1. IsStop(q, D, k, a, n, l)
      BY <1>4, <1>5, <1>6, <1>7 DEF IsStop, Stops
    <2> QED
      BY <1>1, <1>4, <2>1 DEF IsRowStop
  <1>8. CASE HasJobAt(D, v.end)
    <2>1. PICK u \in D : u.by = "system" /\ u.at = v.end
      BY <1>8 DEF HasJobAt
    <2>2. u.n = w + 1
      BY <1>6, <2>1 DEF HasJobAt, IsWriteOf
    <2>3. u.n > n
      BY <2>2
    <2>4. l.kind = "stopped" /\ l.what = v.end
      BY <1>6, LineIs
    <2>5. EndLeaves(D, n, l.what)
      BY <2>1, <2>3, <2>4 DEF EndLeaves
    <2> QED
      BY <2>4, <2>5 DEF Leaves
  <1> QED
    BY <1>7, <1>8

LEMMA RowStopWas ==
  ASSUME NEW w \in Nat, NEW s \in Nat, NEW A, NEW B, NEW C, NEW D,
         IsWriteOf(A, B, C, D, w, s), NEW n \in 0..w, NEW a \in Act, NEW l,
         IsRowStop(B[a], D, a, n, l)
  PROVE  IsRowStop(A[a], C, a, n, l)
  <1>1. PICK r, q : r = A[a] /\ q = B[a]
    OBVIOUS
  <1>2. HasBegun(q, n) /\ q # Nil
    BY <1>1 DEF IsRowStop, HasBegun
  <1>3. r # Nil
    <2>1. CASE r = Nil
      <3>1. RowIsOrdered(q, w + 1, s) /\ IsNewRow(q, w)
        BY <1>1, <1>2, <2>1, WrittenRows
      <3> QED
        BY <1>2, <3>1, NewRowHasNoLine
    <2> QED
      BY <2>1
  <1>4. RowIsOrdered(r, w, s) /\ q \in ActRow /\ Grows(r, q, w)
    BY <1>1, <1>3, WrittenRows
  <1>5. PICK k \in 2..Len(q.versions) : IsStop(q, D, k, a, n, l)
    BY <1>1 DEF IsRowStop
  <1>6. k \in 2..Len(r.versions)
    BY <1>4, <1>5, PrefixStays DEF IsStop
  <1>7. q.versions[k] = r.versions[k] /\ q.versions[k - 1] = r.versions[k - 1] /\ HasBegun(r, n)
    BY <1>2, <1>4, <1>6, PrefixStays
  <1>8. \A end : HasJobAt(C, end) => HasJobAt(D, end)
    BY DEF HasJobAt, IsWriteOf
  <1>9. IsStop(r, C, k, a, n, l)
    BY <1>5, <1>7, <1>8 DEF IsStop, Stops
  <1> QED
    BY <1>1, <1>6, <1>7, <1>9 DEF IsRowStop

\* The dispute of a row.
LEMMA RowDisputeLeaves ==
  ASSUME NEW w \in Nat, NEW s \in Nat, NEW A, NEW B, NEW C, NEW D,
         IsWriteOf(A, B, C, D, w, s), NEW n \in 0..w, NEW a \in Act, NEW l,
         IsRowDispute(A[a], a, n, l)
  PROVE  IsRowDispute(B[a], a, n, l) \/ Leaves(B, D, n, l)
  <1>1. PICK r, q : r = A[a] /\ q = B[a]
    OBVIOUS
  <1>2. RowIsOrdered(r, w, s) /\ q # Nil /\ q \in ActRow /\ Grows(r, q, w)
    BY <1>1, WrittenRows DEF IsRowDispute, HasBegun
  <1>3. l = Line(r.dispute.n, "disputed", a, NameOf(r, n)) /\ DisputeStands(r) /\ HasBegun(r, n)
    BY <1>1 DEF IsRowDispute
  <1>4. HasBegun(q, n) /\ NameOf(q, n) = NameOf(r, n)
    BY <1>2, <1>3, PrefixStays, NameStays
  <1>5. q.dispute = r.dispute \/ DisputeLeaves(q, n)
    BY <1>2, <1>3, DisputeGoes
  <1>6. CASE q.dispute = r.dispute
    BY <1>1, <1>2, <1>3, <1>4, <1>6 DEF IsRowDispute, DisputeStands
  <1>7. CASE DisputeLeaves(q, n)
    <2>1. l.kind = "disputed" /\ l.act = a
      BY <1>3, LineIs
    <2> QED
      BY <1>1, <1>7, <2>1 DEF Leaves
  <1> QED
    BY <1>5, <1>6, <1>7

LEMMA RowDisputeComes ==
  ASSUME NEW w \in Nat, NEW s \in Nat, NEW A, NEW B, NEW C, NEW D,
         IsWriteOf(A, B, C, D, w, s), NEW n \in 0..w, NEW a \in Act, NEW l,
         IsRowDispute(B[a], a, n, l)
  PROVE  IsRowDispute(A[a], a, n, l) \/ Comes(B, n, l)
  <1>1. PICK r, q : r = A[a] /\ q = B[a]
    OBVIOUS
  <1>2. /\ HasBegun(q, n) /\ q # Nil /\ DisputeStands(q)
        /\ l = Line(q.dispute.n, "disputed", a, NameOf(q, n))
    BY <1>1 DEF IsRowDispute, HasBegun
  <1>3. r # Nil
    <2>1. CASE r = Nil
      <3>1. RowIsOrdered(q, w + 1, s) /\ IsNewRow(q, w)
        BY <1>1, <1>2, <2>1, WrittenRows
      <3> QED
        BY <1>2, <3>1, NewRowHasNoLine
    <2> QED
      BY <2>1
  <1>4. RowIsOrdered(r, w, s) /\ q \in ActRow /\ Grows(r, q, w)
    BY <1>1, <1>3, WrittenRows
  <1>5. HasBegun(r, n) /\ NameOf(q, n) = NameOf(r, n)
    BY <1>2, <1>4, PrefixStays, NameStays
  <1>6. q.dispute = r.dispute \/ q.dispute.n > n
    BY <1>2, <1>4, DisputeGoes
  <1>7. CASE q.dispute = r.dispute
    BY <1>1, <1>2, <1>3, <1>5, <1>7 DEF IsRowDispute, DisputeStands
  <1>8. CASE q.dispute.n > n
    <2>1. l.kind = "disputed" /\ l.n = q.dispute.n
      BY <1>2, LineIs
    <2> QED
      BY <1>8, <2>1 DEF Comes
  <1> QED
    BY <1>6, <1>7, <1>8

\* The ends that an automatic validation tells.
LEMMA JobStopLeaves ==
  ASSUME NEW w \in Nat, NEW s \in Nat, NEW A, NEW B, NEW C, NEW D,
         IsWriteOf(A, B, C, D, w, s), NEW n \in 0..w, NEW v \in C, v.n <= n, NEW l,
         IsJobStop(A, C, v, n, l)
  PROVE  v \in D /\ (IsJobStop(B, D, v, n, l) \/ Leaves(B, D, n, l))
  <1>1. PICK a \in Act : EndedAt(A[a], n, v.at) /\ l = Line(v.n, "stopped", a, v.at)
    BY DEF IsJobStop
  <1>2. PICK r, q : r = A[a] /\ q = B[a]
    OBVIOUS
  <1>3. RowIsOrdered(r, w, s) /\ q # Nil /\ q \in ActRow /\ Grows(r, q, w)
    BY <1>1, <1>2, WrittenRows DEF EndedAt
  <1>4. EndedAt(q, n, v.at)
    <2>1. \A u \in ToSet(r.versions) : u \in ToSet(q.versions)
      BY <1>3, PrefixStays
    <2>2. IsGone(q, n) <=> IsGone(r, n)
      BY <1>3, PrefixStays
    <2> QED
      BY <1>1, <1>2, <1>3, <2>1, <2>2 DEF EndedAt
  <1>5. v \in D
    BY DEF IsWriteOf
  <1>6. CASE ToldWith(D, v)
    BY <1>1, <1>2, <1>4, <1>5, <1>6 DEF IsJobStop
  <1>7. CASE ~ToldWith(D, v)
    <2>1. PICK u \in D : u.by = "system" /\ ~u.admin /\ u.at = v.at /\ v.admin
      BY <1>7 DEF ToldWith
    <2>2. u \notin C
      BY <2>1 DEF IsJobStop, ToldWith
    <2>3. u.n = w + 1
      BY <2>1, <2>2 DEF IsWriteOf
    <2>4. u.n > n
      BY <2>3
    <2>5. l.kind = "stopped" /\ l.what = v.at
      BY <1>1, LineIs
    <2>6. EndLeaves(D, n, l.what)
      BY <2>1, <2>4, <2>5 DEF EndLeaves
    <2> QED
      BY <1>5, <2>5, <2>6 DEF Leaves
  <1> QED
    BY <1>6, <1>7

LEMMA JobStopComes ==
  ASSUME NEW w \in Nat, NEW s \in Nat, NEW A, NEW B, NEW C, NEW D,
         IsWriteOf(A, B, C, D, w, s), NEW n \in 0..w, NEW v \in D, v.n <= n, NEW l,
         IsJobStop(B, D, v, n, l)
  PROVE  v \in C /\ (IsJobStop(A, C, v, n, l) \/ Comes(B, n, l))
  <1>1. PICK a \in Act : EndedAt(B[a], n, v.at) /\ l = Line(v.n, "stopped", a, v.at)
    BY DEF IsJobStop
  <1>2. PICK r, q : r = A[a] /\ q = B[a]
    OBVIOUS
  <1>3. v \in C
    <2>1. v \notin C => v.n = w + 1
      BY DEF IsWriteOf
    <2>2. w + 1 > n
      OBVIOUS
    <2> QED
      BY <2>1, <2>2
  <1>4. v.by = "system" /\ ToldWith(C, v)
    BY DEF IsJobStop, ToldWith, IsWriteOf
  <1>5. PICK u \in ToSet(q.versions) : u.end = v.at
    BY <1>1, <1>2 DEF EndedAt
  <1>6. l.kind = "stopped" /\ l.act = a /\ l.what = v.at
    BY <1>1, LineIs
  <1>7. q # Nil /\ ~IsGone(q, n)
    BY <1>1, <1>2 DEF EndedAt
  <1>8. CASE u.n > n
    <2>1. EndComes(q, n, v.at)
      BY <1>5, <1>7, <1>8 DEF EndComes
    <2> QED
      BY <1>2, <1>3, <1>6, <2>1 DEF Comes
  <1>9. CASE ~(u.n > n)
    <2>1. r # Nil
      <3>1. CASE r = Nil
        <4>1. RowIsOrdered(q, w + 1, s) /\ IsNewRow(q, w)
          BY <1>2, <1>7, <3>1, WrittenRows
        <4>2. q \in ActRow
          BY <4>1 DEF RowIsOrdered
        <4>3. PICK k \in 1..Len(q.versions) : u = q.versions[k]
          BY <1>5, <4>2, VersionsAre
        <4>4. u \in VersionRow /\ u.n > w
          BY <4>1, <4>2, <4>3, RowShape DEF IsNewRow
        <4>5. u.n > n
          BY <4>4 DEF VersionRow
        <4> QED
          BY <1>9, <4>5
      <3> QED
        BY <3>1
    <2>2. RowIsOrdered(r, w, s) /\ q \in ActRow /\ Grows(r, q, w)
      BY <1>2, <2>1, WrittenRows
    <2>3. u \in ToSet(r.versions)
      <3>1. u \in ToSet(r.versions) \/ u.n > w
        BY <1>5, <2>2, PrefixStays
      <3>2. PICK k \in 1..Len(q.versions) : u = q.versions[k]
        BY <1>5, <2>2, VersionsAre
      <3>3. u.n \in Nat
        BY <2>2, <3>2, RowShape DEF VersionRow
      <3> QED
        BY <1>9, <3>1, <3>3
    <2>4. ~IsGone(r, n)
      BY <1>7, <2>2, PrefixStays
    <2>5. EndedAt(r, n, v.at)
      BY <1>5, <2>1, <2>3, <2>4 DEF EndedAt
    <2> QED
      BY <1>1, <1>2, <1>3, <1>4, <2>5 DEF IsJobStop
  <1> QED
    BY <1>8, <1>9

\* What was shown is shown still, but for what may leave.
LEMMA LinesLeave ==
  ASSUME NEW w \in Nat, NEW s \in Nat, NEW A, NEW B, NEW C, NEW D,
         IsWriteOf(A, B, C, D, w, s), NEW n \in 0..w, NEW l, IsLine(A, C, n, l)
  PROVE  IsLine(B, D, n, l) \/ Leaves(B, D, n, l)
  <1>1. CASE IsFrozenLine(A, C, n, l)
    <2>1. IsFrozenLine(B, D, n, l)
      BY <1>1, FrozenLinesStay DEF IsWriteOf
    <2> QED
      BY <2>1 DEF IsLine
  <1>2. ASSUME NEW a \in Act, IsRowStop(A[a], C, a, n, l)
        PROVE  IsLine(B, D, n, l) \/ Leaves(B, D, n, l)
    BY <1>2, RowStopLeaves DEF IsLine, IsLooseLine
  <1>3. ASSUME NEW a \in Act, IsRowDispute(A[a], a, n, l)
        PROVE  IsLine(B, D, n, l) \/ Leaves(B, D, n, l)
    BY <1>3, RowDisputeLeaves DEF IsLine, IsLooseLine
  <1>4. ASSUME NEW v \in C, v.n <= n, IsJobStop(A, C, v, n, l)
        PROVE  IsLine(B, D, n, l) \/ Leaves(B, D, n, l)
    BY <1>4, JobStopLeaves DEF IsLine, IsLooseLine
  <1> QED
    BY <1>1, <1>2, <1>3, <1>4 DEF IsLine, IsLooseLine

\* What is shown was shown, but for what may come.
LEMMA LinesCome ==
  ASSUME NEW w \in Nat, NEW s \in Nat, NEW A, NEW B, NEW C, NEW D,
         IsWriteOf(A, B, C, D, w, s), NEW n \in 0..w, NEW l, IsLine(B, D, n, l)
  PROVE  IsLine(A, C, n, l) \/ Comes(B, n, l)
  <1>1. CASE IsFrozenLine(B, D, n, l)
    <2>1. IsFrozenLine(A, C, n, l)
      BY <1>1, FrozenLinesStay DEF IsWriteOf
    <2> QED
      BY <2>1 DEF IsLine
  <1>2. ASSUME NEW a \in Act, IsRowStop(B[a], D, a, n, l)
        PROVE  IsLine(A, C, n, l) \/ Comes(B, n, l)
    BY <1>2, RowStopWas DEF IsLine, IsLooseLine
  <1>3. ASSUME NEW a \in Act, IsRowDispute(B[a], a, n, l)
        PROVE  IsLine(A, C, n, l) \/ Comes(B, n, l)
    BY <1>3, RowDisputeComes DEF IsLine, IsLooseLine
  <1>4. ASSUME NEW v \in D, v.n <= n, IsJobStop(B, D, v, n, l)
        PROVE  IsLine(A, C, n, l) \/ Comes(B, n, l)
    BY <1>4, JobStopComes DEF IsLine, IsLooseLine
  <1> QED
    BY <1>1, <1>2, <1>3, <1>4 DEF IsLine, IsLooseLine

-----------------------------------------------------------------------------
(* The inductive invariant.                                                 *)

Locked(C) == \E v \in C : v.by = "boss"

RunsIn(r) == r # Nil /\ r.dismissed = Nil /\ Last(r.versions).end = Nil

\* What the company has validated is stopped.
LockedIsStopped(A, C) == Locked(C) => \A a \in Act : ~RunsIn(A[a])

CauseIsKept(A, C, K) ==
  \A a \in Act :
    DisputeStands(A[a]) /\ (\E v \in C : v.by = "boss" /\ v.n < A[a].dispute.n) =>
      DisputedOf(A[a]) = K[a]

\* The employee knows the times at his latest action, or those of now that
\* the company has validated.
KnownIsTrue(k, A, C) == k = OldIn(A, C) \/ (Locked(C) /\ k = PresentIn(A))

ControlIsPast(c, A, C, w) ==
  c # Nil =>
    /\ c.n \in 0..w
    /\ \A l \in c.lines : IsLine(A, C, c.n, l) \/ Leaves(A, C, c.n, l)
    /\ \A l : IsLine(A, C, c.n, l) => l \in c.lines \/ Comes(A, c.n, l)

Causes == {"deletion", "change", "addition", Nil}

HistoryInv ==
  /\ span \in 0..LastSpan
  /\ writes \in 0..MaxWrites
  /\ mailed \in {"none", "sent", "failed"}
  /\ TableIsOrdered(acts, writes, span)
  /\ ConfirmedAreNumbered(confirmed, writes, span)
  /\ causes \in [Act -> Causes]
  /\ LockedIsStopped(acts, confirmed)
  /\ CauseIsKept(acts, confirmed, causes)
  /\ KnownIsTrue(known, acts, confirmed)
  /\ ControlIsPast(control, acts, confirmed, writes)

LEMMA HistoryInitially == HistoryInit => HistoryInv
  <1> SUFFICES ASSUME HistoryInit PROVE HistoryInv
    OBVIOUS
  <1>1. span \in 0..LastSpan /\ writes \in 0..MaxWrites /\ writes = 0 /\ span = 0
    BY HistoryAssumption DEF HistoryInit
  <1>2. \A a \in Act : acts[a] = Nil
    BY DEF HistoryInit
  <1>3. TableIsOrdered(acts, writes, span)
    BY <1>2 DEF HistoryInit, TableIsOrdered
  <1>4. ConfirmedAreNumbered(confirmed, writes, span) /\ confirmed = {}
    BY DEF HistoryInit, ConfirmedAreNumbered
  <1>5. LockedIsStopped(acts, confirmed) /\ CauseIsKept(acts, confirmed, causes)
    BY <1>4 DEF LockedIsStopped, CauseIsKept, Locked
  <1>6. KnownIsTrue(known, acts, confirmed)
    <2>1. \A a \in Act : OldOf(acts[a], LatestIn(acts, confirmed)) = Nil
      BY <1>2, VersionOfNil DEF OldOf
    <2>2. OldIn(acts, confirmed) = [a \in Act |-> Nil]
      BY <2>1 DEF OldIn
    <2> QED
      BY <2>2 DEF HistoryInit, KnownIsTrue
  <1>7. causes \in [Act -> Causes]
    BY DEF HistoryInit, Causes
  <1> QED
    BY <1>1, <1>3, <1>4, <1>5, <1>6, <1>7 DEF HistoryInit, HistoryInv, ControlIsPast

\* A write with the next number.
LEMMA WriteStep ==
  ASSUME HistoryInv, Wrote, UNCHANGED <<span, control>>,
         mailed' \in {"none", "sent", "failed"},
         TableIsOrdered(acts', writes + 1, span), TableGrows(acts, acts', writes),
         confirmed \subseteq confirmed',
         \A v \in confirmed' \ confirmed : v \in ConfirmationRow /\ v.n = writes + 1 /\ v.at = span,
         causes' \in [Act -> Causes],
         LockedIsStopped(acts', confirmed'), CauseIsKept(acts', confirmed', causes'),
         KnownIsTrue(known', acts', confirmed')
  PROVE  HistoryInv'
  <1>1. PICK w \in Nat, s \in Nat : w = writes /\ s = span
    BY HistoryAssumption DEF HistoryInv
  <1>2. writes' \in 0..MaxWrites /\ writes' = w + 1
    BY <1>1, HistoryAssumption DEF Wrote, HistoryInv
  <1>3. ConfirmedAreNumbered(confirmed', w + 1, s)
    <2>1. \A v \in confirmed : v \in ConfirmationRow /\ v.n \in 1..(w + 1) /\ v.at \in 0..s
      BY <1>1 DEF HistoryInv, ConfirmedAreNumbered
    <2>2. \A v \in confirmed' \ confirmed : v \in ConfirmationRow /\ v.n \in 1..(w + 1) /\ v.at \in 0..s
      BY <1>1
    <2> QED
      BY <2>1, <2>2 DEF ConfirmedAreNumbered
  <1>4. ControlIsPast(control, acts', confirmed', w + 1)
    <2> SUFFICES ASSUME control # Nil
                 PROVE  /\ control.n \in 0..(w + 1)
                        /\ \A l \in control.lines : \/ IsLine(acts', confirmed', control.n, l)
                                                    \/ Leaves(acts', confirmed', control.n, l)
                        /\ \A l : IsLine(acts', confirmed', control.n, l) =>
                                  l \in control.lines \/ Comes(acts', control.n, l)
      BY DEF ControlIsPast
    <2>1. PICK n \in 0..w : n = control.n
      BY <1>1 DEF HistoryInv, ControlIsPast
    <2>2. PICK lines : lines = control.lines
      OBVIOUS
    <2>3. /\ \A l \in lines : IsLine(acts, confirmed, n, l) \/ Leaves(acts, confirmed, n, l)
          /\ \A l : IsLine(acts, confirmed, n, l) => l \in lines \/ Comes(acts, n, l)
      BY <2>1, <2>2 DEF HistoryInv, ControlIsPast
    <2>4. IsWriteOf(acts, acts', confirmed, confirmed', w, s)
      BY <1>1 DEF HistoryInv, IsWriteOf
    <2>5. ASSUME NEW l \in lines
          PROVE  IsLine(acts', confirmed', n, l) \/ Leaves(acts', confirmed', n, l)
      <3>1. IsLine(acts, confirmed, n, l) =>
              IsLine(acts', confirmed', n, l) \/ Leaves(acts', confirmed', n, l)
        BY <2>4, LinesLeave
      <3>2. Leaves(acts, confirmed, n, l) => Leaves(acts', confirmed', n, l)
        BY <2>4, LeavesStays
      <3> QED
        BY <2>3, <3>1, <3>2
    <2>6. ASSUME NEW l, IsLine(acts', confirmed', n, l)
          PROVE  l \in lines \/ Comes(acts', n, l)
      <3>1. IsLine(acts, confirmed, n, l) \/ Comes(acts', n, l)
        BY <2>4, <2>6, LinesCome
      <3>2. Comes(acts, n, l) => Comes(acts', n, l)
        BY <2>4, ComesStays
      <3> QED
        BY <2>3, <3>1, <3>2
    <2> QED
      BY <2>1, <2>2, <2>5, <2>6
  <1> QED
    BY <1>1, <1>2, <1>3, <1>4 DEF HistoryInv

LEMMA GrowsReflexive ==
  ASSUME NEW w \in Nat, NEW s \in Nat, NEW r, RowIsOrdered(r, w, s)
  PROVE  Grows(r, r, w)
  <1>1. Len(r.versions) \in Nat
    BY RowShape DEF RowIsOrdered
  <1> QED
    BY <1>1 DEF Grows, DisputeGrows

LEMMA LaterTable ==
  ASSUME NEW w \in Nat, NEW s \in Nat, NEW A, TableIsOrdered(A, w, s)
  PROVE  TableIsOrdered(A, w + 1, s) /\ TableIsOrdered(A, w, s + 1) /\ TableGrows(A, A, w)
  BY LaterIsOrdered, GrowsReflexive DEF TableIsOrdered, TableGrows

IsWrittenRow(A, a, q, w) ==
  /\ A[a] # Nil => Grows(A[a], q, w)
  /\ A[a] = Nil => IsNewRow(q, w)

IsWritten(A, B, a, q) == B = [A EXCEPT ![a] = q]

\* One row is written.
LEMMA RowIsWritten ==
  ASSUME NEW w \in Nat, NEW s \in Nat, NEW A, TableIsOrdered(A, w, s), NEW a \in Act,
         NEW q, RowIsOrdered(q, w + 1, s), IsWrittenRow(A, a, q, w),
         NEW B, IsWritten(A, B, a, q)
  PROVE  /\ TableIsOrdered(B, w + 1, s) /\ TableGrows(A, B, w)
         /\ B[a] = q /\ \A b \in Act \ {a} : B[b] = A[b]
  <1>1. B[a] = q /\ \A b \in Act \ {a} : B[b] = A[b]
    BY DEF TableIsOrdered, IsWritten
  <1>2. q \in ActRow /\ q # Nil
    BY RowShape DEF RowIsOrdered
  <1>3. B \in [Act -> ActRow \cup {Nil}]
    BY <1>2 DEF TableIsOrdered, IsWritten
  <1>4. TableIsOrdered(A, w + 1, s) /\ TableGrows(A, A, w)
    BY LaterTable
  <1>5. TableIsOrdered(B, w + 1, s)
    BY <1>1, <1>3, <1>4 DEF TableIsOrdered
  <1>6. TableGrows(A, B, w)
    BY <1>1, <1>2, <1>4 DEF TableGrows, IsWrittenRow
  <1> QED
    BY <1>1, <1>5, <1>6

LEMMA LockIs == LockedByBoss <=> Locked(confirmed)
  BY DEF LockedByBoss, Locked

\* The employee's or the manager's write on one activity.
LEMMA EditStep ==
  ASSUME HistoryInv, NEW a \in Act, NEW by \in {"worker", "boss"}, NEW q,
         RowIsOrdered(q, writes + 1, span),
         IsWrittenRow(acts, a, q, writes), MayChange(by), Wrote,
         IsWritten(acts, acts', a, q), KnownAfter(by),
         UNCHANGED <<span, confirmed, mailed, causes, control>>,
         by = "worker" => LatestOf(q) = writes + 1,
         by = "boss" => LatestOf(q) = LatestOf(acts[a])
  PROVE  HistoryInv'
  <1>1. PICK w \in Nat, s \in Nat : w = writes /\ s = span
    BY HistoryAssumption DEF HistoryInv
  <1>2. TableIsOrdered(acts, w, s) /\ ConfirmedAreNumbered(confirmed, w, s)
    BY <1>1 DEF HistoryInv
  <1>3. /\ TableIsOrdered(acts', w + 1, s) /\ TableGrows(acts, acts', w)
        /\ acts'[a] = q /\ \A b \in Act \ {a} : acts'[b] = acts[b]
    <2>1. RowIsOrdered(q, w + 1, s) /\ IsWrittenRow(acts, a, q, w)
      BY <1>1
    <2> QED
      BY <1>2, <2>1, RowIsWritten
  <1>4. ~Locked(confirmed)
    BY LockIs DEF MayChange
  <1>5. LockedIsStopped(acts', confirmed') /\ CauseIsKept(acts', confirmed', causes')
    BY <1>4 DEF LockedIsStopped, CauseIsKept, Locked
  <1>6. known' = OldIn(acts', confirmed')
    <2>1. CASE by = "worker"
      <3>1. HasNoOwn(confirmed')
        BY <2>1 DEF MayChange, LockedForWorker, OwnConfirmations, HasNoOwn
      <3>2. LatestOf(acts'[a]) = w + 1 /\ w + 1 \in Nat
        BY <1>1, <1>3, <2>1
      <3>3. LatestIn(acts', confirmed') = w + 1
        <4>1. PICK x \in Nat : x = w + 1
          BY <3>2
        <4>2. TableIsOrdered(acts', x, s) /\ IsLatest(acts', a, x)
          BY <1>3, <3>2, <4>1 DEF IsLatest
        <4>3. LatestIn(acts', confirmed') = x
          BY <3>1, <4>2, WorkerWritesNow
        <4> QED
          BY <4>1, <4>3
      <3>4. OldIn(acts', confirmed') = PresentIn(acts')
        BY <1>3, <3>2, <3>3, OldIsPresentNow
      <3>5. Present' = PresentIn(acts')
        BY DEF Present, PresentIn, PresentOf, Stands, Logged, Current
      <3> QED
        BY <2>1, <3>4, <3>5 DEF KnownAfter
    <2>2. CASE by = "boss"
      <3>1. \A b \in Act : LatestOf(acts'[b]) = LatestOf(acts[b])
        BY <1>3, <2>2
      <3>2. LatestIn(acts', confirmed') = LatestIn(acts, confirmed)
        <4>1. SameOwn(confirmed, confirmed') /\ SameActions(acts, acts', confirmed)
          BY <3>1 DEF SameOwn, SameActions
        <4> QED
          BY <4>1, LatestInStays
      <3>3. OldIn(acts', confirmed') = OldIn(acts, confirmed)
        <4>1. w + 1 \in Nat
          OBVIOUS
        <4> QED
          BY <1>2, <1>3, <3>2, <4>1, OldStays
      <3>4. known' = known /\ known = OldIn(acts, confirmed)
        BY <1>4, <2>2 DEF KnownAfter, HistoryInv, KnownIsTrue
      <3> QED
        BY <3>3, <3>4
    <2> QED
      BY <2>1, <2>2
  <1>7. KnownIsTrue(known', acts', confirmed')
    BY <1>6 DEF KnownIsTrue
  <1>8. /\ TableIsOrdered(acts', writes + 1, span) /\ TableGrows(acts, acts', writes)
        /\ mailed' \in {"none", "sent", "failed"} /\ causes' \in [Act -> Causes]
    BY <1>1, <1>3 DEF HistoryInv
  <1> QED
    BY <1>5, <1>7, <1>8, WriteStep

LEMMA VersionIs ==
  ASSUME HistoryInv, NEW by \in {"worker", "boss"}, NEW start \in 0..span,
         NEW end \in {Nil} \cup 0..span, end # Nil => start <= end
  PROVE  /\ NewVersion(by, start, end) \in VersionRow
         /\ NewVersion(by, start, end).n = writes + 1
         /\ NewVersion(by, start, end).by = by
         /\ IsVersionOf(NewVersion(by, start, end), writes + 1, span)
         /\ NewVersion(by, start, end).end = end
  <1>1. PICK w \in Nat, s \in Nat : w = writes /\ s = span
    BY HistoryAssumption DEF HistoryInv
  <1>2. PICK x \in Nat : x = w + 1
    OBVIOUS
  <1>3. PICK v : v = [n |-> x, at |-> s, by |-> by, start |-> start, end |-> end]
    OBVIOUS
  <1>4. start \in 0..s /\ start \in Nat /\ end \in {Nil} \cup 0..s /\ (end # Nil => end \in Nat)
    BY <1>1
  <1>5. v \in VersionRow
    BY <1>3, <1>4 DEF VersionRow
  <1>6. v.n \in 1..x
    BY <1>2, <1>3
  <1>7. end # Nil => end \in start..s
    BY <1>4
  <1>8. IsVersionOf(v, x, s)
    BY <1>3, <1>4, <1>6, <1>7 DEF IsVersionOf
  <1> QED
    BY <1>1, <1>2, <1>3, <1>5, <1>8 DEF NewVersion

LEMMA LogStep ==
  ASSUME HistoryInv, NEW a \in Act, NEW by \in {"worker", "boss"}, NEW start \in 0..span,
         NEW end \in {Nil} \cup 0..span, end # Nil => start <= end, LogAct(a, by, start, end)
  PROVE  HistoryInv'
  <1>1. PICK w \in Nat, s \in Nat : w = writes /\ s = span
    BY HistoryAssumption DEF HistoryInv
  <1>2. PICK v : v = NewVersion(by, start, end)
    OBVIOUS
  <1>3. v \in VersionRow /\ v.n = w + 1 /\ v.by = by /\ IsVersionOf(v, w + 1, s)
    BY <1>1, <1>2, VersionIs
  <1>4. PICK q : q = [versions |-> <<v>>, dismissed |-> Nil, dispute |-> Nil]
    OBVIOUS
  <1>5. /\ RowIsOrdered(q, w + 1, s) /\ IsNewRow(q, w)
        /\ q.versions = <<v>> /\ q.dismissed = Nil /\ q.dispute = Nil
    BY <1>3, <1>4, InsertedRow
  <1>6. acts[a] = Nil
    BY DEF LogAct, Logged
  <1>7. IsWrittenRow(acts, a, q, writes) /\ IsWritten(acts, acts', a, q)
    BY <1>1, <1>2, <1>4, <1>5, <1>6 DEF IsWrittenRow, IsWritten, LogAct
  <1>8. q \in ActRow
    BY <1>5 DEF RowIsOrdered
  <1>9. by = "boss" => LatestOf(q) = LatestOf(acts[a])
    BY <1>3, <1>5, <1>6, <1>8, InsertedByBoss DEF LatestOf
  <1>10. by = "worker" => LatestOf(q) = writes + 1
    <2>1. Len(q.versions) = 1 /\ q.versions[1] = v
      BY <1>5
    <2>2. by = "worker" => LatestOf(q) = w + 1
      BY <1>3, <1>5, <2>1, WrittenByWorker
    <2> QED
      BY <1>1, <2>2
  <1> QED
    BY <1>1, <1>5, <1>7, <1>9, <1>10, EditStep DEF LogAct

LEMMA ReviseStep ==
  ASSUME HistoryInv, NEW a \in Act, NEW by \in {"worker", "boss"}, NEW start \in 0..span,
         NEW end \in {Nil} \cup 0..span, end # Nil => start <= end, ReviseAct(a, by, start, end)
  PROVE  HistoryInv'
  <1>1. PICK w \in Nat, s \in Nat : w = writes /\ s = span
    BY HistoryAssumption DEF HistoryInv
  <1>2. PICK v : v = NewVersion(by, start, end)
    OBVIOUS
  <1>3. v \in VersionRow /\ v.n = w + 1 /\ v.by = by /\ IsVersionOf(v, w + 1, s)
    BY <1>1, <1>2, VersionIs
  <1>4. PICK r : r = acts[a]
    OBVIOUS
  <1>5. r # Nil /\ r.dismissed = Nil /\ RowIsOrdered(r, w, s)
    BY <1>1, <1>4 DEF ReviseAct, Stands, Logged, HistoryInv, TableIsOrdered
  <1>6. PICK q : q = [r EXCEPT !.versions = Append(@, v)]
    OBVIOUS
  <1>7. /\ RowIsOrdered(q, w + 1, s) /\ Grows(r, q, w)
        /\ Len(q.versions) = Len(r.versions) + 1 /\ q.versions[Len(r.versions) + 1] = v
        /\ q.dismissed = Nil
    BY <1>3, <1>5, <1>6, AppendedRow
  <1>8. IsWritten(acts, acts', a, q)
    BY <1>2, <1>4, <1>6 DEF IsWritten, ReviseAct
  <1>9. IsWrittenRow(acts, a, q, writes)
    BY <1>1, <1>4, <1>5, <1>7 DEF IsWrittenRow
  <1>10. by = "boss" => LatestOf(q) = LatestOf(r)
    <2>1. q \in ActRow
      BY <1>7 DEF RowIsOrdered
    <2> QED
      BY <1>3, <1>5, <1>7, <2>1, AppendedByBoss
  <1>11. by = "worker" => LatestOf(q) = w + 1
    BY <1>3, <1>7, WrittenByWorker
  <1> QED
    BY <1>1, <1>4, <1>7, <1>8, <1>9, <1>10, <1>11, EditStep DEF ReviseAct

LEMMA DismissStep ==
  ASSUME HistoryInv, NEW a \in Act, NEW by \in {"worker", "boss"}, DismissAct(a, by)
  PROVE  HistoryInv'
  <1>1. PICK w \in Nat, s \in Nat : w = writes /\ s = span
    BY HistoryAssumption DEF HistoryInv
  <1>2. PICK d : d = [n |-> w + 1, by |-> by]
    OBVIOUS
  <1>3. d \in DismissalRow /\ d.n = w + 1 /\ d.by = by
    BY <1>2 DEF DismissalRow
  <1>4. PICK r : r = acts[a]
    OBVIOUS
  <1>5. r # Nil /\ r.dismissed = Nil /\ RowIsOrdered(r, w, s)
    BY <1>1, <1>4 DEF DismissAct, Stands, Logged, HistoryInv, TableIsOrdered
  <1>6. PICK q : q = [r EXCEPT !.dismissed = d]
    OBVIOUS
  <1>7. /\ RowIsOrdered(q, w + 1, s) /\ Grows(r, q, w)
        /\ q.versions = r.versions /\ q.dismissed = d
    BY <1>3, <1>5, <1>6, DismissedRow
  <1>8. IsWritten(acts, acts', a, q)
    BY <1>1, <1>2, <1>4, <1>6 DEF IsWritten, DismissAct
  <1>9. IsWrittenRow(acts, a, q, writes)
    BY <1>1, <1>4, <1>5, <1>7 DEF IsWrittenRow
  <1>10. q \in ActRow /\ r \in ActRow /\ q # Nil /\ d # Nil
    BY <1>3, <1>5, <1>7, RowShape, NilAssumption DEF RowIsOrdered
  <1>11. by = "boss" => LatestOf(q) = LatestOf(r)
    BY <1>3, <1>5, <1>7, <1>10, DismissedByBoss
  <1>12. by = "worker" => LatestOf(q) = w + 1
    BY <1>3, <1>7, <1>10 DEF LatestOf
  <1> QED
    BY <1>1, <1>4, <1>7, <1>8, <1>9, <1>11, <1>12, EditStep DEF DismissAct

\* A dispute leaves the times as they are.
LEMMA DisputeWritten ==
  ASSUME HistoryInv, NEW a \in Act, acts[a] # Nil, NEW p \in DisputeRow, p.n \in 1..(writes + 1),
         IsDispute(acts[a], p, writes),
         IsWritten(acts, acts', a, [acts[a] EXCEPT !.dispute = p]), Wrote,
         UNCHANGED <<span, confirmed, known, mailed, control>>,
         causes' \in [Act -> Causes], \A b \in Act \ {a} : causes'[b] = causes[b],
         p.status = "created" => causes'[a] = DisputedOf(acts[a])
  PROVE  HistoryInv'
  <1>1. PICK w \in Nat, s \in Nat : w = writes /\ s = span
    BY HistoryAssumption DEF HistoryInv
  <1>2. TableIsOrdered(acts, w, s) /\ ConfirmedAreNumbered(confirmed, w, s)
    BY <1>1 DEF HistoryInv
  <1>3. PICK r : r = acts[a]
    OBVIOUS
  <1>4. PICK q : q = [r EXCEPT !.dispute = p]
    OBVIOUS
  <1>5. RowIsOrdered(r, w, s) /\ r # Nil
    BY <1>1, <1>2, <1>3 DEF TableIsOrdered
  <1>6. /\ RowIsOrdered(q, w + 1, s) /\ Grows(r, q, w)
        /\ q.versions = r.versions /\ q.dismissed = r.dismissed /\ q.dispute = p
    BY <1>1, <1>3, <1>4, <1>5, DisputedRow
  <1>7. IsWritten(acts, acts', a, q) /\ IsWrittenRow(acts, a, q, w)
    BY <1>3, <1>4, <1>5, <1>6 DEF IsWrittenRow
  <1>8. /\ TableIsOrdered(acts', w + 1, s) /\ TableGrows(acts, acts', w)
        /\ acts'[a] = q /\ \A b \in Act \ {a} : acts'[b] = acts[b]
    BY <1>2, <1>6, <1>7, RowIsWritten
  <1>9. q \in ActRow /\ r \in ActRow /\ q # Nil
    BY <1>5, <1>6, RowShape DEF RowIsOrdered
  <1>10. LatestOf(q) = LatestOf(r) /\ PresentOf(q) = PresentOf(r) /\ (RunsIn(q) <=> RunsIn(r))
    BY <1>5, <1>6, <1>9, SameLatest DEF PresentOf, RunsIn
  <1>11. LockedIsStopped(acts', confirmed')
    BY <1>3, <1>8, <1>10 DEF HistoryInv, LockedIsStopped
  <1>12. CauseIsKept(acts', confirmed', causes')
    <2> SUFFICES ASSUME NEW b \in Act, DisputeStands(acts'[b]),
                        \E v \in confirmed : v.by = "boss" /\ v.n < acts'[b].dispute.n
                 PROVE  DisputedOf(acts'[b]) = causes'[b]
      BY DEF CauseIsKept
    <2>1. CASE b = a
      <3>1. p.status = "created"
        BY <1>6, <1>8, <2>1 DEF DisputeStands
      <3> QED
        BY <1>3, <1>6, <1>8, <2>1, <3>1 DEF DisputedOf
    <2>2. CASE b # a
      BY <1>8, <2>2 DEF HistoryInv, CauseIsKept
    <2> QED
      BY <2>1, <2>2
  <1>13. KnownIsTrue(known', acts', confirmed')
    <2>1. SameOwn(confirmed, confirmed') /\ SameActions(acts, acts', confirmed)
      BY <1>3, <1>8, <1>10 DEF SameOwn, SameActions
    <2>2. LatestIn(acts', confirmed') = LatestIn(acts, confirmed)
      BY <2>1, LatestInStays
    <2>3. OldIn(acts', confirmed') = OldIn(acts, confirmed)
      <3>1. w + 1 \in Nat
        OBVIOUS
      <3> QED
        BY <1>2, <1>8, <2>2, <3>1, OldStays
    <2>4. PresentIn(acts') = PresentIn(acts)
      <3>1. \A b \in Act : PresentOf(acts'[b]) = PresentOf(acts[b])
        BY <1>3, <1>8, <1>10
      <3> QED
        BY <3>1 DEF PresentIn
    <2> QED
      BY <2>3, <2>4 DEF HistoryInv, KnownIsTrue
  <1>14. /\ TableIsOrdered(acts', writes + 1, span) /\ TableGrows(acts, acts', writes)
         /\ mailed' \in {"none", "sent", "failed"}
    BY <1>1, <1>8 DEF HistoryInv
  <1> QED
    BY <1>11, <1>12, <1>13, <1>14, WriteStep

LEMMA DisputeStep ==
  ASSUME HistoryInv, NEW a \in Act, DisputeAct(a)
  PROVE  HistoryInv'
  <1>1. PICK w \in Nat, s \in Nat : w = writes /\ s = span
    BY HistoryAssumption DEF HistoryInv
  <1>2. PICK p : p = [n |-> w + 1, at |-> s, status |-> "created"]
    OBVIOUS
  <1>3. p \in DisputeRow /\ p.n \in 1..(w + 1) /\ p.status = "created" /\ p.n = w + 1
    BY <1>2 DEF DisputeRow
  <1>4. PICK r : r = acts[a]
    OBVIOUS
  <1>5. acts[a] # Nil /\ acts' = [acts EXCEPT ![a].dispute = p]
    BY <1>1, <1>2 DEF DisputeAct, Logged
  <1>6. acts' = [acts EXCEPT ![a] = [acts[a] EXCEPT !.dispute = p]]
    BY <1>5
  <1>7. PICK k \in Causes : k = DisputedOf(r) /\ k = DisputedAction(a, writes)
    <2>1. DisputedOf(r) \in Causes
      BY DEF DisputedOf, Causes
    <2>2. RowIsOrdered(r, w, s)
      BY <1>1, <1>4, <1>5 DEF HistoryInv, TableIsOrdered
    <2>3. DisputedOf(r) = DisputedAction(a, writes)
      BY <1>1, <1>4, <2>2, NameNow, NameIs
    <2> QED
      BY <2>1, <2>3
  <1>8. causes' = [causes EXCEPT ![a] = k] /\ causes \in [Act -> Causes]
    BY <1>7 DEF DisputeAct, HistoryInv
  <1>9. /\ causes' \in [Act -> Causes] /\ causes'[a] = k
        /\ \A b \in Act \ {a} : causes'[b] = causes[b]
    BY <1>8
  <1>10. Wrote /\ UNCHANGED <<span, confirmed, known, mailed, control>>
    BY DEF DisputeAct
  <1>11. IsDispute(acts[a], p, writes)
    BY <1>1, <1>3 DEF IsDispute
  <1> QED
    BY <1>1, <1>3, <1>4, <1>5, <1>6, <1>7, <1>9, <1>10, <1>11, DisputeWritten DEF IsWritten

LEMMA CancelStep ==
  ASSUME HistoryInv, NEW a \in Act, CancelDispute(a)
  PROVE  HistoryInv'
  <1>1. PICK w \in Nat, s \in Nat : w = writes /\ s = span
    BY HistoryAssumption DEF HistoryInv
  <1>2. PICK r : r = acts[a]
    OBVIOUS
  <1>3. r # Nil /\ r.dispute # Nil /\ RowIsOrdered(r, w, s)
    BY <1>1, <1>2 DEF CancelDispute, IsDisputed, Logged, HistoryInv, TableIsOrdered
  <1>4. r \in ActRow /\ r.dispute \in DisputeRow /\ r.dispute.n \in 1..w
    BY <1>3, RowShape DEF RowIsOrdered
  <1>5. PICK o \in DisputeRow : o = r.dispute
    BY <1>4
  <1>6. PICK p : p = [o EXCEPT !.status = "cancelled"]
    OBVIOUS
  <1>7. p \in DisputeRow /\ p.n = o.n /\ p.status = "cancelled"
    BY <1>6 DEF DisputeRow
  <1>8. p.n \in 1..(w + 1)
    BY <1>4, <1>5, <1>7
  <1>9. acts' = [acts EXCEPT ![a] = [acts[a] EXCEPT !.dispute = p]]
    BY <1>2, <1>5, <1>6 DEF CancelDispute
  <1>10. Wrote /\ UNCHANGED <<span, confirmed, known, mailed, causes, control>>
    BY DEF CancelDispute
  <1>11. causes' \in [Act -> Causes] /\ \A b \in Act \ {a} : causes'[b] = causes[b]
    BY <1>10 DEF HistoryInv
  <1>12. IsDispute(acts[a], p, writes)
    BY <1>2, <1>3, <1>5, <1>7 DEF IsDispute
  <1> QED
    BY <1>1, <1>2, <1>3, <1>7, <1>8, <1>9, <1>10, <1>11, <1>12, DisputeWritten DEF IsWritten

-----------------------------------------------------------------------------
(* Validations.                                                             *)

LEMMA ConfirmationIs ==
  ASSUME HistoryInv, NEW by \in {"worker", "boss", "system"}, NEW admin \in BOOLEAN
  PROVE  /\ Confirmation(by, admin) \in ConfirmationRow
         /\ Confirmation(by, admin).n = writes + 1
         /\ Confirmation(by, admin).at = span
         /\ Confirmation(by, admin).by = by
         /\ Confirmation(by, admin).admin = admin
  <1>1. writes + 1 \in Nat /\ span \in Nat
    BY HistoryAssumption DEF HistoryInv
  <1> QED
    BY <1>1 DEF Confirmation, ConfirmationRow

\* A validation of what is as it is.
LEMMA ConfirmStep ==
  ASSUME HistoryInv, Wrote, UNCHANGED <<span, acts, causes, control>>,
         mailed' \in {"none", "sent", "failed"},
         NEW c \in ConfirmationRow, c.n = writes + 1, c.at = span,
         confirmed' = confirmed \/ confirmed' = confirmed \cup {c},
         c.by = "boss" => \A a \in Act : ~RunsIn(acts[a]),
         KnownIsTrue(known', acts, confirmed')
  PROVE  HistoryInv'
  <1>1. PICK w \in Nat, s \in Nat : w = writes /\ s = span
    BY HistoryAssumption DEF HistoryInv
  <1>2. TableIsOrdered(acts, w, s)
    BY <1>1 DEF HistoryInv
  <1>3. TableIsOrdered(acts, w + 1, s) /\ TableGrows(acts, acts, w)
    BY <1>2, LaterTable
  <1>4. LockedIsStopped(acts, confirmed')
    BY DEF HistoryInv, LockedIsStopped, Locked
  <1>5. CauseIsKept(acts, confirmed', causes)
    <2> SUFFICES ASSUME NEW a \in Act, DisputeStands(acts[a]),
                        NEW v \in confirmed', v.by = "boss", v.n < acts[a].dispute.n
                 PROVE  DisputedOf(acts[a]) = causes[a]
      BY DEF CauseIsKept
    <2>1. acts[a].dispute.n \in 1..w
      BY <1>2 DEF TableIsOrdered, RowIsOrdered, DisputeStands
    <2>2. v \in confirmed
      BY <1>1, <2>1
    <2> QED
      BY <2>2 DEF HistoryInv, CauseIsKept
  <1>6. \A v \in confirmed' \ confirmed : v \in ConfirmationRow /\ v.n = writes + 1 /\ v.at = span
    OBVIOUS
  <1>7. TableIsOrdered(acts, writes + 1, span) /\ TableGrows(acts, acts, writes)
    BY <1>1, <1>3
  <1>8. acts' = acts /\ causes' = causes /\ causes \in [Act -> Causes]
    BY DEF HistoryInv
  <1>9. confirmed \subseteq confirmed'
    OBVIOUS
  <1> QED
    BY <1>4, <1>5, <1>6, <1>7, <1>8, <1>9, WriteStep

\* The same actions of the employee: he knows as much.
LEMMA KnownStays ==
  ASSUME NEW w \in Nat, NEW s \in Nat, NEW A, TableIsOrdered(A, w, s),
         NEW C, ConfirmedAreNumbered(C, w, s), NEW D, SameOwn(C, D)
  PROVE  OldIn(A, D) = OldIn(A, C)
  <1>1. SameActions(A, A, C)
    BY DEF SameActions
  <1>2. LatestIn(A, D) = LatestIn(A, C)
    BY <1>1, LatestInStays
  <1> QED
    BY <1>2 DEF OldIn

LEMMA ConfirmByWorkerStep ==
  ASSUME HistoryInv, ConfirmByWorker
  PROVE  HistoryInv'
  <1>1. PICK w \in Nat, s \in Nat : w = writes /\ s = span
    BY HistoryAssumption DEF HistoryInv
  <1>2. TableIsOrdered(acts, w, s)
    BY <1>1 DEF HistoryInv
  <1>3. PICK c : c = Confirmation("worker", FALSE)
    OBVIOUS
  <1>4. c \in ConfirmationRow /\ c.n = writes + 1 /\ c.at = span /\ c.by = "worker"
    BY <1>3, ConfirmationIs
  <1>5. confirmed' = confirmed \cup {c}
    BY <1>3 DEF ConfirmByWorker
  <1>6. OwnConfirmations(confirmed') = {c}
    BY <1>4, <1>5 DEF ConfirmByWorker, LockedForWorker, OwnConfirmations
  <1>7. PICK x \in Nat : x = w + 1
    OBVIOUS
  <1>8. LatestIn(acts, confirmed') = x
    BY <1>1, <1>4, <1>6, <1>7, WorkerConfirmsNow
  <1>9. TableIsOrdered(acts, x, s)
    BY <1>2, <1>7, LaterTable
  <1>10. OldIn(acts, confirmed') = PresentIn(acts)
    BY <1>8, <1>9, OldIsPresentNow
  <1>11. KnownIsTrue(known', acts, confirmed')
    BY <1>10, Rendered DEF KnownIsTrue, ConfirmByWorker
  <1>12. Wrote /\ UNCHANGED <<span, acts, causes, control>> /\ mailed' \in {"none", "sent", "failed"}
    BY DEF ConfirmByWorker, HistoryInv
  <1> QED
    BY <1>4, <1>5, <1>11, <1>12, ConfirmStep

LEMMA StoppedIs ==
  ASSUME AllStopped
  PROVE  \A a \in Act : ~RunsIn(acts[a])
  BY DEF AllStopped, Running, Stands, Logged, Current, RunsIn

LEMMA ConfirmByBossStep ==
  ASSUME HistoryInv, ConfirmByBoss
  PROVE  HistoryInv'
  <1>1. PICK w \in Nat, s \in Nat : w = writes /\ s = span
    BY HistoryAssumption DEF HistoryInv
  <1>2. TableIsOrdered(acts, w, s) /\ ConfirmedAreNumbered(confirmed, w, s)
    BY <1>1 DEF HistoryInv
  <1>3. PICK c : c = Confirmation("boss", TRUE)
    OBVIOUS
  <1>4. c \in ConfirmationRow /\ c.n = writes + 1 /\ c.at = span /\ c.by = "boss"
    BY <1>3, ConfirmationIs
  <1>5. confirmed' = confirmed \/ confirmed' = confirmed \cup {c}
    BY <1>3 DEF ConfirmByBoss
  <1>6. Locked(confirmed')
    BY <1>3, <1>4 DEF ConfirmByBoss, Locked, LockedByBoss
  <1>7. \A a \in Act : ~RunsIn(acts[a])
    BY StoppedIs DEF ConfirmByBoss
  <1>8. SameOwn(confirmed, confirmed')
    BY <1>4, <1>5 DEF SameOwn, OwnConfirmations
  <1>9. OldIn(acts, confirmed') = OldIn(acts, confirmed)
    BY <1>2, <1>8, KnownStays
  <1>10. (known' = Present \/ known' = known) /\ mailed' \in {"none", "sent", "failed"}
    BY DEF ConfirmByBoss, Warn
  <1>11. KnownIsTrue(known', acts, confirmed')
    BY <1>6, <1>9, <1>10, Rendered DEF KnownIsTrue, HistoryInv
  <1>12. Wrote /\ UNCHANGED <<span, acts, causes, control>>
    BY DEF ConfirmByBoss
  <1> QED
    BY <1>4, <1>5, <1>7, <1>10, <1>11, <1>12, ConfirmStep

\* What the job does to a row.
IsJobRow(r, q, w, s) ==
  IF RunsIn(r)
    THEN /\ RowIsOrdered(q, w + 1, s) /\ Grows(r, q, w) /\ q.dispute = r.dispute
         /\ q.dismissed = Nil /\ LatestOf(q) = w + 1 /\ ~RunsIn(q)
    ELSE q = r

\* The job stops what runs.
LEMMA JobRow ==
  ASSUME HistoryInv, NEW admin \in BOOLEAN, ConfirmByJob(admin), NEW a \in Act
  PROVE  IsJobRow(acts[a], acts'[a], writes, span)
  <1>1. PICK w \in Nat, s \in Nat : w = writes /\ s = span
    BY HistoryAssumption DEF HistoryInv
  <1>2. PICK r : r = acts[a]
    OBVIOUS
  <1>3. Running(a) <=> RunsIn(r)
    BY <1>2 DEF Running, Stands, Logged, Current, RunsIn
  <1>4. CASE ~RunsIn(r)
    <2>1. acts'[a] = r
      BY <1>2, <1>3, <1>4 DEF ConfirmByJob
    <2> QED
      BY <1>2, <1>4, <2>1 DEF IsJobRow
  <1>5. CASE RunsIn(r)
    <2>1. r # Nil /\ r.dismissed = Nil /\ RowIsOrdered(r, w, s)
      BY <1>1, <1>2, <1>5 DEF RunsIn, HistoryInv, TableIsOrdered
    <2>2. Current(a).start \in 0..s
      <3>1. PICK m \in 1..Len(r.versions) : m = Len(r.versions)
        BY <2>1, RowShape DEF RowIsOrdered
      <3>2. Current(a) = r.versions[m]
        BY <1>2, <3>1 DEF Current, Last
      <3>3. IsVersionOf(r.versions[m], w, s)
        BY <2>1 DEF RowIsOrdered
      <3> QED
        BY <3>2, <3>3 DEF IsVersionOf
    <2>3. PICK start \in 0..s : start = Current(a).start
      BY <2>2
    <2>4. PICK v : v = NewVersion("worker", start, s)
      OBVIOUS
    <2>5. s \in {Nil} \cup 0..s /\ start <= s
      OBVIOUS
    <2>6. /\ v \in VersionRow /\ v.n = w + 1 /\ v.by = "worker" /\ v.end = s
          /\ IsVersionOf(v, w + 1, s)
      BY <1>1, <2>4, <2>5, VersionIs
    <2>7. PICK q : q = [r EXCEPT !.versions = Append(@, v)]
      OBVIOUS
    <2>8. /\ RowIsOrdered(q, w + 1, s) /\ Grows(r, q, w)
          /\ Last(q.versions) = v /\ Len(q.versions) = Len(r.versions) + 1
          /\ q.versions[Len(r.versions) + 1] = v
          /\ q.dismissed = Nil /\ q.dispute = r.dispute
      <3>1. /\ RowIsOrdered(q, w + 1, s) /\ Grows(r, q, w)
            /\ Len(q.versions) = Len(r.versions) + 1 /\ q.versions[Len(r.versions) + 1] = v
            /\ q.dismissed = r.dismissed /\ q.dispute = r.dispute
        BY <2>1, <2>6, <2>7, AppendedRow
      <3>2. Last(q.versions) = v
        BY <3>1 DEF Last
      <3> QED
        BY <2>1, <3>1, <3>2
    <2>9. acts'[a] = q
      BY <1>1, <1>2, <1>3, <1>5, <2>3, <2>4, <2>7 DEF ConfirmByJob
    <2>10. LatestOf(q) = w + 1
      BY <2>6, <2>8, WrittenByWorker
    <2>11. s # Nil
      BY NilAssumption
    <2>12. ~RunsIn(q)
      BY <2>6, <2>8, <2>11 DEF RunsIn
    <2> QED
      BY <1>1, <1>2, <1>5, <2>8, <2>9, <2>10, <2>12 DEF IsJobRow
  <1> QED
    BY <1>4, <1>5

LEMMA ConfirmByJobStep ==
  ASSUME HistoryInv, NEW admin \in BOOLEAN, ConfirmByJob(admin)
  PROVE  HistoryInv'
  <1>1. PICK w \in Nat, s \in Nat : w = writes /\ s = span
    BY HistoryAssumption DEF HistoryInv
  <1>2. TableIsOrdered(acts, w, s) /\ ConfirmedAreNumbered(confirmed, w, s)
    BY <1>1 DEF HistoryInv
  <1>3. PICK x \in Nat : x = w + 1
    OBVIOUS
  <1>4. \A a \in Act : IsJobRow(acts[a], acts'[a], w, s)
    BY <1>1, JobRow
  <1>5. TableIsOrdered(acts, x, s) /\ TableGrows(acts, acts, w)
    BY <1>2, <1>3, LaterTable
  <1>6. TableIsOrdered(acts', x, s)
    <2>1. \A a \in Act : acts'[a] # Nil => RowIsOrdered(acts'[a], x, s)
      BY <1>3, <1>4, <1>5 DEF IsJobRow, TableIsOrdered
    <2>2. \A a \in Act : acts'[a] \in ActRow \cup {Nil}
      BY <2>1 DEF RowIsOrdered
    <2>3. acts' = [a \in Act |->
              IF Running(a)
                THEN [acts[a] EXCEPT !.versions =
                        Append(@, NewVersion("worker", Current(a).start, span))]
                ELSE acts[a]]
      BY DEF ConfirmByJob
    <2>4. acts' \in [Act -> ActRow \cup {Nil}]
      BY <2>2, <2>3
    <2> QED
      BY <2>1, <2>4 DEF TableIsOrdered
  <1>7. TableGrows(acts, acts', w)
    <2> SUFFICES ASSUME NEW a \in Act
                 PROVE  /\ acts[a] # Nil => acts'[a] # Nil /\ Grows(acts[a], acts'[a], w)
                        /\ acts[a] = Nil /\ acts'[a] # Nil => IsNewRow(acts'[a], w)
      BY DEF TableGrows
    <2>1. CASE RunsIn(acts[a])
      <3>1. RowIsOrdered(acts'[a], w + 1, s) /\ Grows(acts[a], acts'[a], w) /\ acts[a] # Nil
        BY <1>4, <2>1 DEF IsJobRow, RunsIn
      <3>2. acts'[a] # Nil
        BY <3>1, RowShape DEF RowIsOrdered
      <3> QED
        BY <3>1, <3>2
    <2>2. CASE ~RunsIn(acts[a])
      <3>1. acts'[a] = acts[a]
        BY <1>4, <2>2 DEF IsJobRow
      <3> QED
        BY <1>5, <3>1 DEF TableGrows
    <2> QED
      BY <2>1, <2>2
  <1>8. PICK c : c = Confirmation("system", admin)
    OBVIOUS
  <1>9. c \in ConfirmationRow /\ c.n = writes + 1 /\ c.at = span /\ c.by = "system"
    BY <1>8, ConfirmationIs
  <1>10. confirmed' = confirmed \cup {c}
    BY <1>8 DEF ConfirmByJob
  <1>11. SameOwn(confirmed, confirmed') /\ (Locked(confirmed') <=> Locked(confirmed))
    BY <1>9, <1>10 DEF SameOwn, OwnConfirmations, Locked
  <1>12. \A a \in Act : ~RunsIn(acts'[a])
    BY <1>4 DEF IsJobRow
  <1>13. (\A a \in Act : ~RunsIn(acts[a])) => acts' = acts
    <2> SUFFICES ASSUME \A a \in Act : ~RunsIn(acts[a]) PROVE acts' = acts
      OBVIOUS
    <2>1. \A a \in Act : acts'[a] = acts[a]
      BY <1>4 DEF IsJobRow
    <2> QED
      BY <1>2, <1>6, <2>1 DEF TableIsOrdered
  <1>14. Locked(confirmed) => acts' = acts
    BY <1>13 DEF HistoryInv, LockedIsStopped
  <1>15. LockedIsStopped(acts', confirmed')
    BY <1>12 DEF LockedIsStopped
  <1>16. UNCHANGED <<span, mailed, causes, control>> /\ Wrote
    BY DEF ConfirmByJob
  <1>17. CauseIsKept(acts', confirmed', causes')
    <2> SUFFICES ASSUME NEW a \in Act, DisputeStands(acts'[a]),
                        NEW v \in confirmed', v.by = "boss", v.n < acts'[a].dispute.n
                 PROVE  DisputedOf(acts'[a]) = causes[a]
      BY <1>16 DEF CauseIsKept
    <2>1. v \in confirmed
      BY <1>9, <1>10
    <2>2. acts' = acts
      BY <1>14, <2>1 DEF Locked
    <2> QED
      BY <2>1, <2>2 DEF HistoryInv, CauseIsKept
  <1>18. KnownIsTrue(known', acts', confirmed')
    <2>1. CASE acts' = acts
      <3>1. known' = known
        BY <2>1 DEF ConfirmByJob
      <3>2. OldIn(acts', confirmed') = OldIn(acts, confirmed)
        BY <1>2, <1>11, <2>1, KnownStays
      <3> QED
        BY <1>11, <2>1, <3>1, <3>2 DEF KnownIsTrue, HistoryInv
    <2>2. CASE acts' # acts /\ OwnConfirmations(confirmed) # {}
      <3>1. known' = known
        BY <2>2 DEF ConfirmByJob, OwnConfirmations
      <3>2. SameActions(acts, acts', confirmed)
        BY <2>2 DEF SameActions, HasNoOwn
      <3>3. LatestIn(acts', confirmed') = LatestIn(acts, confirmed)
        BY <1>11, <3>2, LatestInStays
      <3>4. OldIn(acts', confirmed') = OldIn(acts, confirmed)
        BY <1>2, <1>6, <1>7, <3>3, OldStays
      <3>5. ~Locked(confirmed)
        BY <1>14, <2>2
      <3> QED
        BY <3>1, <3>4, <3>5 DEF KnownIsTrue, HistoryInv
    <2>3. CASE acts' # acts /\ OwnConfirmations(confirmed) = {}
      <3>1. known' = Present'
        BY <2>3 DEF ConfirmByJob, OwnConfirmations
      <3>2. Present' = PresentIn(acts')
        BY DEF Present, PresentIn, PresentOf, Stands, Logged, Current
      <3>3. PICK a \in Act : RunsIn(acts[a])
        BY <1>13, <2>3
      <3>4. IsLatest(acts', a, x) /\ HasNoOwn(confirmed')
        BY <1>3, <1>4, <1>11, <2>3, <3>3 DEF IsJobRow, IsLatest, HasNoOwn, SameOwn
      <3>5. LatestIn(acts', confirmed') = x
        BY <1>6, <3>4, WorkerWritesNow
      <3>6. OldIn(acts', confirmed') = PresentIn(acts')
        BY <1>6, <3>5, OldIsPresentNow
      <3> QED
        BY <3>1, <3>2, <3>6 DEF KnownIsTrue
    <2> QED
      BY <2>1, <2>2, <2>3
  <1>19. TableIsOrdered(acts', writes + 1, span) /\ TableGrows(acts, acts', writes)
    BY <1>1, <1>3, <1>6, <1>7
  <1>20. \A v \in confirmed' \ confirmed : v \in ConfirmationRow /\ v.n = writes + 1 /\ v.at = span
    BY <1>9, <1>10
  <1>21. mailed' \in {"none", "sent", "failed"} /\ causes' \in [Act -> Causes]
    BY <1>16 DEF HistoryInv
  <1>22. confirmed \subseteq confirmed'
    BY <1>10
  <1> QED
    BY <1>15, <1>16, <1>17, <1>18, <1>19, <1>20, <1>21, <1>22, WriteStep

LEMMA ScanStep ==
  ASSUME HistoryInv, Scan
  PROVE  HistoryInv'
  <1>1. PICK w \in Nat : w = writes
    BY HistoryAssumption DEF HistoryInv
  <1>2. /\ UNCHANGED <<span, writes, acts, confirmed, known, mailed, causes>>
        /\ control' = [n |-> writes, lines |-> Lines(writes)]
    BY DEF Scan
  <1>3. PICK lines : lines = Lines(writes)
    OBVIOUS
  <1>4. \A l : l \in lines <=> IsLine(acts, confirmed, w, l)
    BY <1>1, <1>3, LinesAre
  <1>5. PICK c : c = [n |-> w, lines |-> lines]
    OBVIOUS
  <1>6. c.n = w /\ c.lines = lines /\ control' = c
    BY <1>1, <1>2, <1>3, <1>5
  <1>7. ControlIsPast(c, acts, confirmed, w)
    BY <1>4, <1>6 DEF ControlIsPast
  <1> QED
    BY <1>1, <1>2, <1>6, <1>7 DEF HistoryInv

LEMMA NextSpanStep ==
  ASSUME HistoryInv, NextSpan
  PROVE  HistoryInv'
  <1>1. PICK w \in Nat, s \in Nat : w = writes /\ s = span
    BY HistoryAssumption DEF HistoryInv
  <1>2. /\ UNCHANGED <<writes, acts, confirmed, known, mailed, causes, control>>
        /\ span' = s + 1 /\ span' \in 0..LastSpan
    BY <1>1, HistoryAssumption DEF NextSpan, HistoryInv
  <1>3. TableIsOrdered(acts, w, s + 1)
    BY <1>1, LaterTable DEF HistoryInv
  <1>4. ConfirmedAreNumbered(confirmed, w, s + 1)
    BY <1>1 DEF HistoryInv, ConfirmedAreNumbered
  <1> QED
    BY <1>1, <1>2, <1>3, <1>4 DEF HistoryInv

LEMMA HistoryStep ==
  ASSUME HistoryInv, [HistoryNext]_historyVars
  PROVE  HistoryInv'
  <1>1. ASSUME NEW a \in Act, NEW by \in {"worker", "boss"},
               NEW start \in 0..span, NEW end \in {Nil} \cup 0..span, end # Nil => start <= end,
               LogAct(a, by, start, end) \/ ReviseAct(a, by, start, end)
        PROVE  HistoryInv'
    BY <1>1, LogStep, ReviseStep
  <1>2. ASSUME NEW a \in Act, NEW by \in {"worker", "boss"}, DismissAct(a, by)
        PROVE  HistoryInv'
    BY <1>2, DismissStep
  <1>3. CASE ConfirmByWorker
    BY <1>3, ConfirmByWorkerStep
  <1>4. CASE ConfirmByBoss
    BY <1>4, ConfirmByBossStep
  <1>5. ASSUME NEW admin \in BOOLEAN, ConfirmByJob(admin)
        PROVE  HistoryInv'
    BY <1>5, ConfirmByJobStep
  <1>6. ASSUME NEW a \in Act, DisputeAct(a) \/ CancelDispute(a)
        PROVE  HistoryInv'
    BY <1>6, DisputeStep, CancelStep
  <1>7. CASE Scan
    BY <1>7, ScanStep
  <1>8. CASE NextSpan
    BY <1>8, NextSpanStep
  <1>9. CASE UNCHANGED historyVars
    BY <1>9 DEF historyVars, HistoryInv
  <1> QED
    BY <1>1, <1>2, <1>3, <1>4, <1>5, <1>6, <1>7, <1>8, <1>9 DEF HistoryNext

-----------------------------------------------------------------------------
(* What follows from the invariant.                                         *)

LEMMA HistoryIsTyped ==
  ASSUME HistoryInv
  PROVE  HistoryTypeOK
  <1>1. PICK w \in Nat, s \in Nat : w = writes /\ s = span
    BY HistoryAssumption DEF HistoryInv
  <1>2. \A v \in confirmed : v.n \in 1..writes /\ v.at \in 0..span
    BY DEF HistoryInv, ConfirmedAreNumbered
  <1>3. ASSUME NEW a \in Act, acts[a] # Nil
        PROVE  /\ acts[a].versions # <<>>
               /\ \A k \in 1..Len(acts[a].versions) :
                    LET v == acts[a].versions[k]
                    IN  /\ v.start \in 0..span
                        /\ v.end # Nil => v.end \in v.start..span
                        /\ k > 1 => v.n > acts[a].versions[k - 1].n
               /\ acts[a].dismissed # Nil => Current(a).n < acts[a].dismissed.n
    <2>1. PICK r : r = acts[a]
      OBVIOUS
    <2>2. RowIsOrdered(r, w, s) /\ r \in ActRow
      BY <1>1, <1>3, <2>1 DEF HistoryInv, TableIsOrdered, RowIsOrdered
    <2>3. PICK m \in Nat : m = Len(r.versions) /\ m >= 1
      BY <2>2, RowShape DEF RowIsOrdered
    <2>4. r.versions # <<>>
      BY <2>3
    <2>5. \A k \in 1..m : /\ r.versions[k].start \in 0..s
                          /\ r.versions[k].end # Nil => r.versions[k].end \in r.versions[k].start..s
      BY <2>2, <2>3 DEF RowIsOrdered, IsVersionOf
    <2>6. ASSUME NEW k \in 1..m, k > 1
          PROVE  r.versions[k].n > r.versions[k - 1].n
      <3>1. PICK j \in 1..m : j = k - 1
        BY <2>3, <2>6
      <3>2. r.versions[j].n < r.versions[k].n
        BY <2>2, <2>3, <3>1 DEF RowIsOrdered
      <3>3. r.versions[j].n \in Nat /\ r.versions[k].n \in Nat
        BY <2>2, <2>3, RowShape DEF VersionRow
      <3> QED
        BY <3>1, <3>2, <3>3
    <2>7. r.dismissed # Nil => r.versions[m].n < r.dismissed.n
      BY <2>2, <2>3 DEF RowIsOrdered
    <2>8. Current(a) = r.versions[m]
      BY <2>1, <2>3 DEF Current, Last
    <2> QED
      BY <1>1, <2>1, <2>3, <2>4, <2>5, <2>6, <2>7, <2>8
  <1> QED
    BY <1>2, <1>3 DEF HistoryTypeOK, Logged, HistoryInv

\* The line of the version that stopped it, or of the automatic validation.
LEMMA EndIsToldNow ==
  ASSUME HistoryInv
  PROVE  EndIsTold
  <1> SUFFICES ASSUME NEW a \in Act, Stands(a), NEW k \in 2..Len(acts[a].versions),
                      acts[a].versions[k].end # Nil, acts[a].versions[k - 1].end = Nil
               PROVE  \E l \in Lines(writes) :
                        l.kind = "stopped" /\ l.act = a /\ l.what = acts[a].versions[k].end
    BY DEF EndIsTold
  <1>1. PICK w \in Nat, s \in Nat : w = writes /\ s = span
    BY HistoryAssumption DEF HistoryInv
  <1>2. PICK r : r = acts[a]
    OBVIOUS
  <1>3. r # Nil /\ r.dismissed = Nil /\ RowIsOrdered(r, w, s) /\ r \in ActRow
    BY <1>1, <1>2 DEF Stands, Logged, HistoryInv, TableIsOrdered, RowIsOrdered
  <1>4. PICK m \in Nat : m = Len(r.versions) /\ m >= 1
    BY <1>3, RowShape DEF RowIsOrdered
  <1>5. k \in 2..m /\ k \in 1..m /\ 1 \in 1..m
    BY <1>2, <1>4
  <1>6. r.versions[k].n \in 1..w /\ r.versions[1].n \in 1..w
    BY <1>3, <1>4, <1>5 DEF RowIsOrdered, IsVersionOf
  <1>7. PICK e : e = r.versions[k].end
    OBVIOUS
  <1>8. CASE ~EndsWithJob(e)
    <2>1. PICK l : l = Line(r.versions[k].n, "stopped", a, e)
      OBVIOUS
    <2>2. l.kind = "stopped" /\ l.act = a /\ l.what = e
      BY <2>1 DEF Line
    <2>3. l \in RevisionLines(a, k)
      BY <1>2, <1>7, <1>8, <2>1, <2>2 DEF RevisionLines
    <2>4. l \in ActLines(a, w)
      <3>1. PICK moves : moves = UNION {RevisionLines(a, i) :
                            i \in {j \in 2..Len(acts[a].versions) : acts[a].versions[j].n <= w}}
        OBVIOUS
      <3>2. k \in {j \in 2..Len(acts[a].versions) : acts[a].versions[j].n <= w}
        BY <1>2, <1>6
      <3>3. l \in moves
        BY <2>3, <3>1, <3>2
      <3>4. ~(~Logged(a) \/ acts[a].versions[1].n > w)
        BY <1>2, <1>3, <1>6 DEF Logged
      <3>5. moves \subseteq ActLines(a, w)
        BY <3>1, <3>4, Zenon DEF ActLines
      <3> QED
        BY <3>3, <3>5
    <2>5. l \in Lines(w)
      BY <2>4 DEF Lines
    <2> QED
      BY <1>1, <1>2, <1>7, <2>2, <2>5
  <1>9. CASE EndsWithJob(e)
    <2>1. PICK u \in confirmed : u.by = "system" /\ u.at = e
      BY <1>9 DEF EndsWithJob
    <2>2. PICK v \in confirmed : v.by = "system" /\ v.at = e /\ IsToldWith(v)
      <3>1. CASE IsToldWith(u)
        BY <2>1, <3>1
      <3>2. CASE ~IsToldWith(u)
        <4>1. PICK v \in confirmed : v.by = "system" /\ ~v.admin /\ v.at = u.at
          BY <3>2 DEF IsToldWith
        <4> QED
          BY <2>1, <4>1 DEF IsToldWith
      <3> QED
        BY <3>1, <3>2
    <2>3. v.n \in 1..w /\ v.n <= w
      BY <1>1 DEF HistoryInv, ConfirmedAreNumbered
    <2>4. PICK l : l = Line(v.n, "stopped", a, v.at)
      OBVIOUS
    <2>5. l.kind = "stopped" /\ l.act = a /\ l.what = e
      BY <2>2, <2>4 DEF Line
    <2>6. r.versions[k] \in ToSet(acts[a].versions)
      BY <1>2, <1>3, <1>4, <1>5, VersionsAre
    <2>7. Logged(a) /\ DismissedAsOf(a, w) = Nil
      BY <1>2, <1>3 DEF Logged, DismissedAsOf
    <2>8. l \in ConfirmationLines(v, w)
      <3>1. PICK ends : ends = {b \in Act : /\ Logged(b)
                                            /\ DismissedAsOf(b, w) = Nil
                                            /\ \E z \in ToSet(acts[b].versions) : z.end = v.at}
        OBVIOUS
      <3>2. a \in ends
        BY <1>7, <2>2, <2>6, <2>7, <3>1
      <3>3. PICK told : told = {Line(v.n, "stopped", b, v.at) : b \in ends}
        OBVIOUS
      <3>4. l \in told
        BY <2>4, <3>2, <3>3
      <3>5. told \subseteq ConfirmationLines(v, w)
        BY <2>2, <3>1, <3>3 DEF ConfirmationLines
      <3> QED
        BY <3>4, <3>5
    <2>9. l \in Lines(w)
      BY <2>3, <2>8 DEF Lines
    <2> QED
      BY <1>1, <1>2, <1>7, <2>5, <2>9
  <1> QED
    BY <1>8, <1>9

LEMMA CauseIsKeptNow ==
  ASSUME HistoryInv
  PROVE  DisputeKeepsItsCause
  <1> SUFFICES ASSUME NEW a \in Act, IsDisputed(a),
                      \E v \in confirmed : v.by = "boss" /\ v.n < acts[a].dispute.n
               PROVE  DisputedAction(a, writes) = causes[a]
    BY DEF DisputeKeepsItsCause
  <1>1. DisputeStands(acts[a])
    BY DEF IsDisputed, Logged, DisputeStands
  <1>2. DisputedOf(acts[a]) = causes[a]
    BY <1>1 DEF HistoryInv, CauseIsKept
  <1>3. PICK w \in Nat, s \in Nat : w = writes /\ s = span
    BY HistoryAssumption DEF HistoryInv
  <1>4. PICK r : r = acts[a]
    OBVIOUS
  <1>5. RowIsOrdered(r, w, s)
    BY <1>1, <1>3, <1>4 DEF HistoryInv, TableIsOrdered, DisputeStands
  <1>6. DisputedAction(a, writes) = DisputedOf(r)
    BY <1>3, <1>4, <1>5, NameIs, NameNow
  <1> QED
    BY <1>2, <1>4, <1>6

LEMMA PastIsFrozenNow ==
  ASSUME HistoryInv
  PROVE  PastIsFrozen
  <1> SUFFICES ASSUME control # Nil
               PROVE  /\ \A l \in control.lines \ Lines(control.n) : MayGo(l, control.n)
                      /\ \A l \in Lines(control.n) \ control.lines : MayCome(l, control.n)
    BY DEF PastIsFrozen
  <1>1. PICK m, lines : m = control.n /\ lines = control.lines
    OBVIOUS
  <1>2. /\ \A l \in lines : IsLine(acts, confirmed, m, l) \/ Leaves(acts, confirmed, m, l)
        /\ \A l : IsLine(acts, confirmed, m, l) => l \in lines \/ Comes(acts, m, l)
    BY <1>1 DEF HistoryInv, ControlIsPast
  <1>3. \A l : Leaves(acts, confirmed, m, l) => MayGo(l, m)
    BY DEF Leaves, DisputeLeaves, EndLeaves, MayGo
  <1>4. \A l : Comes(acts, m, l) => MayCome(l, m)
    BY DEF Comes, EndComes, MayCome
  <1>5. \A l : l \in Lines(m) <=> IsLine(acts, confirmed, m, l)
    BY LinesAre
  <1> QED
    BY <1>1, <1>2, <1>3, <1>4, <1>5

\* What was written last is not after n.
LEMMA NothingLater ==
  ASSUME HistoryInv, NEW n \in Nat, \A a \in Act : Logged(a) => ~(LastUpdate(a) > n)
  PROVE  \A a \in Act : OldOf(acts[a], n) = PresentOf(acts[a])
  <1>1. PICK w \in Nat, s \in Nat : w = writes /\ s = span
    BY HistoryAssumption DEF HistoryInv
  <1>2. TableIsOrdered(acts, w, s)
    BY <1>1 DEF HistoryInv
  <1>3. ASSUME NEW a \in Act, acts[a] # Nil
        PROVE  /\ acts[a].versions[Len(acts[a].versions)].n <= n
               /\ acts[a].dismissed # Nil => acts[a].dismissed.n <= n
    <2>1. PICK r : r = acts[a]
      OBVIOUS
    <2>2. RowIsOrdered(r, w, s) /\ r \in ActRow
      BY <1>2, <1>3, <2>1 DEF TableIsOrdered, RowIsOrdered
    <2>3. PICK m \in 1..Len(r.versions) : m = Len(r.versions)
      BY <2>2, RowShape DEF RowIsOrdered
    <2>4. r.versions[m].n \in Nat /\ (r.dismissed # Nil => r.dismissed.n \in Nat)
      BY <2>2, <2>3, RowShape DEF VersionRow, DismissalRow
    <2>5. r.dismissed # Nil => r.versions[m].n < r.dismissed.n
      BY <2>2, <2>3 DEF RowIsOrdered
    <2>6. ~(LastUpdate(a) > n)
      BY <1>3 DEF Logged
    <2>7. LastUpdate(a) = IF r.dismissed # Nil THEN r.dismissed.n ELSE r.versions[m].n
      BY <2>1, <2>3 DEF LastUpdate, Current, Last
    <2>8. r.versions[m].n <= n /\ (r.dismissed # Nil => r.dismissed.n <= n)
      BY <2>4, <2>5, <2>6, <2>7
    <2> QED
      BY <2>1, <2>3, <2>8
  <1> QED
    BY <1>2, <1>3, OldIsPresent

LEMMA ChangeIsAnnounced ==
  ASSUME HistoryInv, ConfirmByBoss, mailed' # "failed", Shown(Old) \/ LatestAction = 0
  PROVE  SameTimers(known', Present')
  <1>1. PICK present, old : present = Present /\ old = Old
    OBVIOUS
  <1>2. Present' = present
    <2>1. acts' = acts
      BY DEF ConfirmByBoss
    <2>2. Present' = PresentIn(acts')
      BY DEF Present, PresentIn, PresentOf, Stands, Logged, Current
    <2> QED
      BY <1>1, <2>1, <2>2, Rendered
  <1>3. Shown(present)
    <2>1. PICK a \in Act : Stands(a)
      BY DEF ConfirmByBoss, AllStopped
    <2>2. present[a] = Content(Current(a))
      BY <1>1, <2>1 DEF Present
    <2>3. Content(Current(a)) # Nil
      <3>1. PICK r : r = acts[a]
        OBVIOUS
      <3>2. PICK w \in Nat, s \in Nat : w = writes /\ s = span
        BY HistoryAssumption DEF HistoryInv
      <3>3. r # Nil /\ RowIsOrdered(r, w, s) /\ r \in ActRow
        BY <2>1, <3>1, <3>2 DEF Stands, Logged, HistoryInv, TableIsOrdered, RowIsOrdered
      <3>4. PICK m \in 1..Len(r.versions) : m = Len(r.versions)
        BY <3>3, RowShape DEF RowIsOrdered
      <3>5. PICK v \in VersionRow : v = r.versions[m]
        BY <3>3, RowShape
      <3>6. Current(a) = v
        BY <3>1, <3>4, <3>5 DEF Current, Last
      <3>7. v.start \in Nat /\ v.end \in Nat \cup {Nil}
        BY DEF VersionRow
      <3>8. Content(v) \in Times
        BY <3>7 DEF Content, Times
      <3> QED
        BY <3>6, <3>8, NilAssumption
    <2> QED
      BY <2>2, <2>3 DEF Shown
  <1>4. SameTimers(present, present)
    BY <1>3 DEF SameTimers
  <1>5. CASE IsWarned
    <2>1. known' = present
      BY <1>1, <1>5 DEF ConfirmByBoss, Warn
    <2> QED
      BY <1>2, <1>4, <2>1
  <1>6. CASE ~IsWarned
    <2>1. known' = known
      BY <1>6 DEF ConfirmByBoss, Warn
    <2>2. Shown(old) /\ LatestAction # 0
      BY <1>1, <1>6 DEF IsWarned
    <2>3. known = old \/ known = present
      BY <1>1, Rendered DEF HistoryInv, KnownIsTrue
    <2>4. SameTimers(old, present) \/ old = present
      <3> SUFFICES ASSUME ~SameTimers(old, present) PROVE old = present
        OBVIOUS
      <3>1. PICK n \in Nat : n = LatestAction
        <4>1. PICK w \in Nat, s \in Nat : w = writes /\ s = span
          BY HistoryAssumption DEF HistoryInv
        <4>2. LatestIn(acts, confirmed) \in 0..w
          BY <4>1, LatestInIsANumber DEF HistoryInv
        <4> QED
          BY <4>2, Rendered
      <3>2. \A a \in Act : Logged(a) => ~(LastUpdate(a) > n)
        BY <1>1, <1>6, <2>2, <3>1 DEF IsWarned
      <3>3. \A a \in Act : OldOf(acts[a], n) = PresentOf(acts[a])
        BY <3>2, NothingLater
      <3>4. OldIn(acts, confirmed) = PresentIn(acts)
        BY <3>1, <3>3, Rendered DEF OldIn, PresentIn
      <3> QED
        BY <1>1, <3>4, Rendered
    <2> QED
      BY <1>2, <1>4, <2>1, <2>3, <2>4
  <1> QED
    BY <1>5, <1>6

\* What the history tells, what a dispute is about and what the employee is
\* sent agree with the writes, and of what a controller was shown only disputes
\* and ends change, as PastIsFrozen tells (domain/history.py,
\* domain/notifications.py).
THEOREM HistoryStaysFaithful == HistorySpec => HistoryIsFaithful
  <1>1. HistoryInit => HistoryInv
    BY HistoryInitially
  <1>2. HistoryInv /\ [HistoryNext]_historyVars => HistoryInv'
    BY HistoryStep
  <1>3. HistoryInv => HistoryTypeOK /\ EndIsTold /\ DisputeKeepsItsCause /\ PastIsFrozen
    BY HistoryIsTyped, EndIsToldNow, CauseIsKeptNow, PastIsFrozenNow
  <1>4. HistoryInv /\ [HistoryNext]_historyVars =>
          [(ConfirmByBoss /\ mailed' # "failed" /\ (Shown(Old) \/ LatestAction = 0)) =>
             SameTimers(known', Present')]_historyVars
    BY ChangeIsAnnounced
  <1> QED
    BY <1>1, <1>2, <1>3, <1>4, PTL DEF HistorySpec, HistoryIsFaithful, ChangesAreAnnounced

-----------------------------------------------------------------------------
(* Lists.  Items have an order in which two of them always compare.         *)

Ordered(S) ==
  /\ IsFiniteSet(S)
  /\ \A x, y \in S : x = y \/ Newer(x, y) \/ Newer(y, x)
  /\ \A x, y \in S : ~(Newer(x, y) /\ Newer(y, x))
  /\ \A x, y, z \in S : Newer(x, y) /\ Newer(y, z) => Newer(x, z)

LEMMA PartsOrdered ==
  ASSUME NEW S, Ordered(S), NEW T \in SUBSET S
  PROVE  Ordered(T)
  <1>1. IsFiniteSet(T)
    BY FS_Subset DEF Ordered
  <1>2. \A x \in T : x \in S
    OBVIOUS
  <1> QED
    BY <1>1, <1>2, Zenon DEF Ordered

LEMMA NewerPair ==
  ASSUME NEW a, NEW b, NEW c, NEW d
  PROVE  Newer(<<a, b>>, <<c, d>>) <=> a > c \/ (a = c /\ b > d)
  <1> DEFINE x == <<a, b>>
             y == <<c, d>>
  <1>1. DOMAIN x = {1, 2} /\ x[1] = a /\ x[2] = b /\ y[1] = c /\ y[2] = d
    OBVIOUS
  <1>2. 1..(1 - 1) = {} /\ 1..(2 - 1) = {1}
    OBVIOUS
  <1> HIDE DEF x, y
  <1>3. Newer(x, y) <=> \/ x[1] > y[1] /\ \A j \in 1..(1 - 1) : x[j] = y[j]
                        \/ x[2] > y[2] /\ \A j \in 1..(2 - 1) : x[j] = y[j]
    BY <1>1, Zenon DEF Newer
  <1>4. (\A j \in 1..(1 - 1) : x[j] = y[j]) /\ ((\A j \in 1..(2 - 1) : x[j] = y[j]) <=> x[1] = y[1])
    BY <1>2, Zenon
  <1>5. Newer(x, y) <=> x[1] > y[1] \/ (x[1] = y[1] /\ x[2] > y[2])
    BY <1>3, <1>4, Zenon
  <1> QED
    BY <1>1, <1>5, Zenon DEF x, y

LEMMA NewerTriple ==
  ASSUME NEW a, NEW b, NEW e, NEW c, NEW d, NEW f
  PROVE  Newer(<<a, b, e>>, <<c, d, f>>) <=>
           a > c \/ (a = c /\ b > d) \/ (a = c /\ b = d /\ e > f)
  <1> DEFINE x == <<a, b, e>>
             y == <<c, d, f>>
  <1>1. /\ DOMAIN x = {1, 2, 3} /\ x[1] = a /\ x[2] = b /\ x[3] = e
        /\ y[1] = c /\ y[2] = d /\ y[3] = f
    OBVIOUS
  <1>2. 1..(1 - 1) = {} /\ 1..(2 - 1) = {1} /\ 1..(3 - 1) = {1, 2}
    OBVIOUS
  <1> HIDE DEF x, y
  <1>3. Newer(x, y) <=> \/ x[1] > y[1] /\ \A j \in 1..(1 - 1) : x[j] = y[j]
                        \/ x[2] > y[2] /\ \A j \in 1..(2 - 1) : x[j] = y[j]
                        \/ x[3] > y[3] /\ \A j \in 1..(3 - 1) : x[j] = y[j]
    BY <1>1, Zenon DEF Newer
  <1>4. /\ \A j \in 1..(1 - 1) : x[j] = y[j]
        /\ (\A j \in 1..(2 - 1) : x[j] = y[j]) <=> x[1] = y[1]
        /\ (\A j \in 1..(3 - 1) : x[j] = y[j]) <=> x[1] = y[1] /\ x[2] = y[2]
    BY <1>2, Zenon
  <1>5. Newer(x, y) <=> \/ x[1] > y[1] \/ (x[1] = y[1] /\ x[2] > y[2])
                        \/ x[1] = y[1] /\ x[2] = y[2] /\ x[3] > y[3]
    BY <1>3, <1>4, Zenon
  <1> QED
    BY <1>1, <1>5, Zenon DEF x, y

LEMMA PairsOrdered ==
  ASSUME NEW S, IsFiniteSet(S), S \subseteq Nat \X Nat
  PROVE  Ordered(S)
  <1>1. \A x \in S : x = <<x[1], x[2]>> /\ x[1] \in Nat /\ x[2] \in Nat
    OBVIOUS
  <1>2. \A x, y \in S : Newer(x, y) <=> x[1] > y[1] \/ (x[1] = y[1] /\ x[2] > y[2])
    <2> TAKE x, y \in S
    <2>1. Newer(<<x[1], x[2]>>, <<y[1], y[2]>>) <=> x[1] > y[1] \/ (x[1] = y[1] /\ x[2] > y[2])
      BY NewerPair
    <2>2. <<x[1], x[2]>> = x /\ <<y[1], y[2]>> = y
      BY <1>1
    <2> QED
      BY <2>1, <2>2, Zenon
  <1>3. ASSUME NEW x \in S, NEW y \in S
        PROVE  /\ x = y \/ Newer(x, y) \/ Newer(y, x)
               /\ ~(Newer(x, y) /\ Newer(y, x))
    <2>1. x[1] \in Nat /\ x[2] \in Nat /\ y[1] \in Nat /\ y[2] \in Nat
      BY <1>1
    <2>2. CASE x[1] = y[1] /\ x[2] = y[2]
      <3>1. x = y
        BY <1>1, <2>2, Zenon
      <3> QED
        BY <1>2, <2>1, <3>1
    <2>3. CASE ~(x[1] = y[1] /\ x[2] = y[2])
      BY <1>2, <2>1, <2>3
    <2> QED
      BY <2>2, <2>3
  <1>4. ASSUME NEW x \in S, NEW y \in S, NEW z \in S, Newer(x, y), Newer(y, z)
        PROVE  Newer(x, z)
    <2>1. /\ x[1] \in Nat /\ x[2] \in Nat /\ y[1] \in Nat /\ y[2] \in Nat
          /\ z[1] \in Nat /\ z[2] \in Nat
      BY <1>1
    <2> QED
      BY <1>2, <1>4, <2>1
  <1> QED
    BY <1>3, <1>4, Zenon DEF Ordered

LEMMA TriplesOrdered ==
  ASSUME NEW S, IsFiniteSet(S), S \subseteq Nat \X Nat \X Nat
  PROVE  Ordered(S)
  <1>1. \A x \in S : /\ x = <<x[1], x[2], x[3]>>
                     /\ x[1] \in Nat /\ x[2] \in Nat /\ x[3] \in Nat
    OBVIOUS
  <1>2. \A x, y \in S : Newer(x, y) <=>
          x[1] > y[1] \/ (x[1] = y[1] /\ x[2] > y[2])
            \/ (x[1] = y[1] /\ x[2] = y[2] /\ x[3] > y[3])
    <2> TAKE x, y \in S
    <2>1. Newer(<<x[1], x[2], x[3]>>, <<y[1], y[2], y[3]>>) <=>
            x[1] > y[1] \/ (x[1] = y[1] /\ x[2] > y[2])
              \/ (x[1] = y[1] /\ x[2] = y[2] /\ x[3] > y[3])
      BY NewerTriple
    <2>2. <<x[1], x[2], x[3]>> = x /\ <<y[1], y[2], y[3]>> = y
      BY <1>1
    <2> QED
      BY <2>1, <2>2, Zenon
  <1>3. ASSUME NEW x \in S, NEW y \in S
        PROVE  /\ x = y \/ Newer(x, y) \/ Newer(y, x)
               /\ ~(Newer(x, y) /\ Newer(y, x))
    <2>1. /\ x[1] \in Nat /\ x[2] \in Nat /\ x[3] \in Nat
          /\ y[1] \in Nat /\ y[2] \in Nat /\ y[3] \in Nat
      BY <1>1
    <2>2. CASE x[1] = y[1] /\ x[2] = y[2] /\ x[3] = y[3]
      <3>1. x = y
        BY <1>1, <2>2, Zenon
      <3> QED
        BY <1>2, <2>1, <3>1
    <2>3. CASE ~(x[1] = y[1] /\ x[2] = y[2] /\ x[3] = y[3])
      BY <1>2, <2>1, <2>3
    <2> QED
      BY <2>2, <2>3
  <1>4. ASSUME NEW x \in S, NEW y \in S, NEW z \in S, Newer(x, y), Newer(y, z)
        PROVE  Newer(x, z)
    <2>1. /\ x[1] \in Nat /\ x[2] \in Nat /\ x[3] \in Nat
          /\ y[1] \in Nat /\ y[2] \in Nat /\ y[3] \in Nat
          /\ z[1] \in Nat /\ z[2] \in Nat /\ z[3] \in Nat
      BY <1>1
    <2> QED
      BY <1>2, <1>4, <2>1
  <1> QED
    BY <1>3, <1>4, Zenon DEF Ordered

\* There is an oldest item, and a newest one.
LEMMA OldestExists ==
  ASSUME NEW S, Ordered(S), S # {}
  PROVE  \E x \in S : \A y \in S \ {x} : Newer(y, x)
  <1> DEFINE Below(x) == {z \in S : Newer(x, z)}
             Fam == {Below(x) : x \in S}
             R == StrictSubsetOrdering(S)
  <1>1. IsWellFoundedOn(R, SUBSET S)
    BY FS_StrictSubsetOrderingWellFounded, FS_FiniteSubsetsOfFinite DEF Ordered
  <1>2. Fam \subseteq SUBSET S /\ Fam # {}
    OBVIOUS
  <1>3. \E D \in Fam : \A E \in Fam : ~ (<<E, D>> \in R)
    <2> HIDE DEF Fam, R
    <2> QED
      BY <1>1, <1>2, WFMin
  <1>4. PICK x \in S : \A E \in Fam : ~ (<<E, Below(x)>> \in R)
    BY <1>3
  <1>5. ASSUME NEW y \in S \ {x}, ~Newer(y, x)
        PROVE  FALSE
    <2> HIDE DEF R
    <2>1. Newer(x, y) /\ y \in S /\ y # x /\ ~Newer(y, y)
      BY <1>5, Zenon DEF Ordered
    <2>2. y \in Below(x) /\ y \notin Below(y)
      BY <2>1
    <2>3. Below(y) \subseteq Below(x)
      <3>1. \A z \in S : Newer(y, z) => Newer(x, z)
        BY <2>1, Zenon DEF Ordered
      <3> QED
        BY <3>1
    <2>4. Below(y) \in SUBSET S /\ Below(x) \in SUBSET S /\ Below(y) \in Fam
      BY <2>1
    <2> HIDE DEF Fam, Below
    <2>5. <<Below(y), Below(x)>> \in R
      BY <2>2, <2>3, <2>4 DEF StrictSubsetOrdering, R
    <2> QED
      BY <1>4, <2>4, <2>5
  <1> QED
    BY <1>5

LEMMA NewestExists ==
  ASSUME NEW S, Ordered(S), S # {}
  PROVE  \E x \in S : \A y \in S \ {x} : Newer(x, y)
  <1> DEFINE Above(x) == {z \in S : Newer(z, x)}
             Fam == {Above(x) : x \in S}
             R == StrictSubsetOrdering(S)
  <1>1. IsWellFoundedOn(R, SUBSET S)
    BY FS_StrictSubsetOrderingWellFounded, FS_FiniteSubsetsOfFinite DEF Ordered
  <1>2. Fam \subseteq SUBSET S /\ Fam # {}
    OBVIOUS
  <1>3. \E D \in Fam : \A E \in Fam : ~ (<<E, D>> \in R)
    <2> HIDE DEF Fam, R
    <2> QED
      BY <1>1, <1>2, WFMin
  <1>4. PICK x \in S : \A E \in Fam : ~ (<<E, Above(x)>> \in R)
    BY <1>3
  <1>5. ASSUME NEW y \in S \ {x}, ~Newer(x, y)
        PROVE  FALSE
    <2> HIDE DEF R
    <2>1. Newer(y, x) /\ y \in S /\ y # x /\ ~Newer(y, y)
      BY <1>5, Zenon DEF Ordered
    <2>2. y \in Above(x) /\ y \notin Above(y)
      BY <2>1
    <2>3. Above(y) \subseteq Above(x)
      <3>1. \A z \in S : Newer(z, y) => Newer(z, x)
        BY <2>1, Zenon DEF Ordered
      <3> QED
        BY <3>1
    <2>4. Above(y) \in SUBSET S /\ Above(x) \in SUBSET S /\ Above(y) \in Fam
      BY <2>1
    <2> HIDE DEF Fam, Above
    <2>5. <<Above(y), Above(x)>> \in R
      BY <2>2, <2>3, <2>4 DEF StrictSubsetOrdering, R
    <2> QED
      BY <1>4, <2>4, <2>5
  <1> QED
    BY <1>5

IsLast(S, x) == x \in S /\ \A y \in S \ {x} : Newer(y, x)

LEMMA LastIsOldest ==
  ASSUME NEW S, Ordered(S), S # {}
  PROVE  IsLast(S, LastOf(S))
  BY OldestExists, Zenon DEF LastOf, IsLast

\* What FirstOf keeps is newer than what it leaves, as many as asked for if
\* it leaves any.
LEMMA FirstAreNewer ==
  ASSUME NEW S, Ordered(S), NEW n \in Nat,
         NEW x \in FirstOf(S, n), NEW y \in S \ FirstOf(S, n)
  PROVE  Newer(x, y)
  <1> DEFINE Above(z) == {w \in S : Newer(w, z)}
  <1>1. x \in S /\ Cardinality(Above(x)) < n
    BY DEF FirstOf
  <1>2. y \in S /\ ~(Cardinality(Above(y)) < n)
    BY DEF FirstOf
  <1>3. x # y
    OBVIOUS
  <1>4. SUFFICES ASSUME ~Newer(x, y) PROVE FALSE
    OBVIOUS
  <1>5. Newer(y, x)
    BY <1>1, <1>2, <1>3, <1>4, Zenon DEF Ordered
  <1>6. Above(y) \in SUBSET Above(x)
    <2>1. \A w \in S : Newer(w, y) => Newer(w, x)
      BY <1>1, <1>2, <1>5, Zenon DEF Ordered
    <2> QED
      BY <2>1
  <1>7. IsFiniteSet(Above(x)) /\ IsFiniteSet(Above(y))
    <2>1. Above(x) \in SUBSET S /\ Above(y) \in SUBSET S
      OBVIOUS
    <2> HIDE DEF Above
    <2> QED
      BY <2>1, FS_Subset DEF Ordered
  <1> HIDE DEF Above
  <1>8. Cardinality(Above(y)) <= Cardinality(Above(x))
    BY <1>6, <1>7, FS_Subset
  <1>9. Cardinality(Above(x)) \in Nat /\ Cardinality(Above(y)) \in Nat
    BY <1>7, FS_CardinalityType
  <1> QED
    BY <1>1, <1>2, <1>8, <1>9

LEMMA FirstArePart ==
  ASSUME NEW S, Ordered(S), NEW n \in Nat
  PROVE  FirstOf(S, n) \in SUBSET S /\ Ordered(FirstOf(S, n)) /\ IsFiniteSet(FirstOf(S, n))
  <1>1. FirstOf(S, n) \in SUBSET S
    BY DEF FirstOf
  <1>2. Ordered(FirstOf(S, n))
    BY <1>1, PartsOrdered
  <1> QED
    BY <1>1, <1>2 DEF Ordered

LEMMA FirstAreFew ==
  ASSUME NEW S, Ordered(S), NEW n \in Nat
  PROVE  Cardinality(FirstOf(S, n)) <= n
  <1>1. PICK F : F = FirstOf(S, n)
    OBVIOUS
  <1>2. F \in SUBSET S /\ Ordered(F) /\ IsFiniteSet(F)
    BY <1>1, FirstArePart
  <1>3. CASE F = {}
    BY <1>1, <1>3, FS_EmptySet
  <1>4. CASE F # {}
    <2>1. PICK x \in F : \A y \in F \ {x} : Newer(y, x)
      BY <1>2, <1>4, OldestExists
    <2>2. PICK A : A = {w \in S : Newer(w, x)}
      OBVIOUS
    <2>3. Cardinality(A) < n
      BY <1>1, <2>2 DEF FirstOf
    <2>4. F \ {x} \in SUBSET A
      <3>1. \A y \in F \ {x} : y \in S /\ Newer(y, x)
        BY <1>2, <2>1
      <3> QED
        BY <2>2, <3>1
    <2>5. IsFiniteSet(A)
      <3>1. A \in SUBSET S
        BY <2>2
      <3> QED
        BY <3>1, FS_Subset DEF Ordered
    <2>6. Cardinality(F \ {x}) <= Cardinality(A) /\ Cardinality(A) \in Nat
      BY <2>4, <2>5, FS_Subset, FS_CardinalityType
    <2>7. Cardinality(F \ {x}) = Cardinality(F) - 1 /\ Cardinality(F) \in Nat
      BY <1>2, <2>1, FS_RemoveElement, FS_CardinalityType
    <2> QED
      BY <1>1, <2>3, <2>6, <2>7
  <1> QED
    BY <1>3, <1>4

LEMMA FirstAreEnough ==
  ASSUME NEW S, Ordered(S), NEW n \in Nat, FirstOf(S, n) # S
  PROVE  Cardinality(FirstOf(S, n)) = n /\ Cardinality(S) > n
  <1>1. PICK F : F = FirstOf(S, n)
    OBVIOUS
  <1>2. F \in SUBSET S /\ IsFiniteSet(F)
    BY <1>1, FirstArePart
  <1>3. S \ F \in SUBSET S /\ S \ F # {}
    BY <1>1, <1>2
  <1>4. PICK x \in S \ F : \A y \in (S \ F) \ {x} : Newer(x, y)
    <2>1. Ordered(S \ F)
      BY <1>3, PartsOrdered
    <2> QED
      BY <1>3, <2>1, NewestExists
  <1>5. PICK A : A = {w \in S : Newer(w, x)}
    OBVIOUS
  <1>6. ~(Cardinality(A) < n)
    BY <1>1, <1>4, <1>5 DEF FirstOf
  <1>7. A \in SUBSET F
    <2>1. ASSUME NEW w \in S, Newer(w, x), w \notin F PROVE FALSE
      <3>1. w # x
        BY <1>4, <2>1, Zenon DEF Ordered
      <3>2. Newer(x, w)
        BY <1>4, <2>1, <3>1
      <3> QED
        BY <1>4, <2>1, <3>2, Zenon DEF Ordered
    <2> QED
      BY <1>5, <2>1
  <1>8. Cardinality(A) <= Cardinality(F) /\ Cardinality(A) \in Nat /\ Cardinality(F) \in Nat
    <2>1. IsFiniteSet(A)
      BY <1>2, <1>7, FS_Subset
    <2> QED
      BY <1>2, <1>7, <2>1, FS_Subset, FS_CardinalityType
  <1>9. Cardinality(F) <= n
    BY <1>1, FirstAreFew
  <1>10. Cardinality(F) # Cardinality(S) /\ Cardinality(F) <= Cardinality(S) /\ Cardinality(S) \in Nat
    <2>1. IsFiniteSet(S)
      BY DEF Ordered
    <2> QED
      BY <1>1, <1>2, <2>1, FS_Subset, FS_CardinalityType
  <1> QED
    BY <1>1, <1>6, <1>8, <1>9, <1>10

\* The values of a function on a finite set.
LEMMA FiniteValues ==
  ASSUME NEW S, IsFiniteSet(S), NEW f, DOMAIN f = S
  PROVE  IsFiniteSet({f[x] : x \in S}) /\ Cardinality({f[x] : x \in S}) <= Cardinality(S)
  <1> DEFINE T == {f[x] : x \in S}
             g == [x \in S |-> f[x]]
  <1>1. g \in [S -> T] /\ \A t \in T : \E x \in S : g[x] = t
    OBVIOUS
  <1>2. g \in Surjection(S, T)
    BY <1>1, Zenon DEF Surjection
  <1> HIDE DEF T, g
  <1>4. IsFiniteSet(T) /\ Cardinality(T) <= Cardinality(S)
    BY <1>2, FS_Surjection
  <1> QED
    BY <1>4 DEF T

\* What a page keeps of the items, and where the next one begins.
LEMMA CutIs ==
  ASSUME NEW S, Ordered(S), NEW n \in Nat, NEW more \in BOOLEAN
  PROVE  LET cut == Cut(S, n, more)
         IN /\ cut.keys \in SUBSET S /\ IsFiniteSet(cut.keys) /\ Cardinality(cut.keys) <= n
            /\ cut.more \in BOOLEAN /\ (more => cut.more)
            /\ cut.keys = {} => cut.cursor = NoCursor
            /\ cut.keys # {} => IsLast(cut.keys, cut.cursor)
            /\ \A x \in S \ cut.keys : cut.more /\ \A y \in cut.keys : Newer(y, x)
  <1>1. PICK F : F = FirstOf(S, n)
    OBVIOUS
  <1>2. F \in SUBSET S /\ Ordered(F) /\ IsFiniteSet(F) /\ Cardinality(F) <= n
    BY <1>1, FirstArePart, FirstAreFew
  <1>4. PICK m : m = (more \/ Cardinality(S) > n)
    OBVIOUS
  <1>5. PICK c : c = IF F = {} THEN NoCursor ELSE LastOf(F)
    OBVIOUS
  <1>6. Cut(S, n, more) = [keys |-> F, more |-> m, cursor |-> c]
    BY <1>1, <1>4, <1>5, Zenon DEF Cut
  <1>7. F # {} => IsLast(F, c)
    BY <1>2, <1>5, LastIsOldest
  <1>8. ASSUME NEW x \in S \ F PROVE m /\ \A y \in F : Newer(y, x)
    <2>1. Cardinality(S) > n
      BY <1>1, <1>8, FirstAreEnough
    <2>2. \A y \in F : Newer(y, x)
      BY <1>1, <1>8, FirstAreNewer
    <2> QED
      BY <1>4, <2>1, <2>2
  <1>9. m \in BOOLEAN /\ (more => m)
    BY <1>4
  <1>10. F = {} => c = NoCursor
    BY <1>5
  <1> QED
    BY <1>2, <1>6, <1>7, <1>8, <1>9, <1>10

-----------------------------------------------------------------------------
(* Paging.  Rows nobody touched stand as they stood, beside whatever comes. *)

Standing == {r \in ActivityRows : rowState[r] # "absent"}

Apart(r, p, q) ==
  Of(p).user = Of(r).user /\ Of(q).user = Of(r).user =>
    /\ r = q \/ Of(r).to <= Of(q).from \/ Of(q).to <= Of(r).from
    /\ Of(p).mission = Of(r).mission /\ Of(q).mission # Of(r).mission
         => ~(Of(r).from < Of(q).from /\ Of(q).from < Of(p).from)

RowsAreSound ==
  /\ rowState \in [ActivityRows -> {"absent", "live", "dismissed"}]
  /\ touched \in SUBSET ActivityRows
  /\ \A r, p, q \in Live : Apart(r, p, q)
  /\ \A r \in ActivityRows \ touched : rowState[r] # "dismissed"
  /\ \A r, p \in Live \ touched, q \in Standing : Apart(r, p, q)

\* Where an item stands in its list.
Marks(list, i) ==
  CASE list = "activities" -> {<<Of(r).from, r>> : r \in {q \in ActivityRows : q = i[1]}}
    [] list = "stats"      -> {i}
    [] list = "company"    -> {<<Of(r).from, i[1]>> : r \in
                                {q \in Live : Of(q).firm = ReadFirm /\ Of(q).mission = i[1]}}
    [] OTHER               -> {<<Of(r).from, i[1]>> : r \in
                                {q \in Standing : Of(q).user = Reader /\ Of(q).mission = i[1]}}

Ahead(list, cursor, i) == \E k \in Marks(list, i) : IsAfter(cursor, k)

Cursors == {NoCursor} \cup (Nat \X Nat)

\* Untouched without the domain of the counters.
Still(list) ==
  CASE list = "activities" -> {<<r, 0>> : r \in ActivityRows \ touched}
    [] list = "stats" -> ItemsOf(list) \ UNION {{<<d, Of(r).user>> : d \in DaysOf(r)} : r \in touched}
    [] OTHER -> ItemsOf(list) \ {<<Of(r).mission, 0>> : r \in touched}

\* A page lists what is ahead of its cursor and leaves behind its own cursor,
\* and what it does not list is still ahead.
GoodItems(list, c, page) ==
  \A i \in page.items \cap Still(list) :
    Ahead(list, c, i) /\ page.cursor # NoCursor /\ ~Ahead(list, page.cursor, i)

GoodRest(list, c, page) ==
  \A i \in (ShouldHold(list) \cap Still(list)) \ page.items :
    Ahead(list, c, i) => page.more /\ (page.cursor = NoCursor \/ Ahead(list, page.cursor, i))

GoodShape(list, size, c, page) ==
  /\ page = [items |-> page.items, more |-> page.more, cursor |-> page.cursor, partial |-> {}]
  /\ page.items \in SUBSET ItemsOf(list)
  /\ IsFiniteSet(page.items) /\ Cardinality(page.items) <= size
  /\ page.more \in BOOLEAN
  /\ page.cursor \in Cursors
  /\ page.cursor # NoCursor => IsAfter(c, page.cursor)

GoodPage(list, size, c, page) ==
  /\ GoodShape(list, size, c, page)
  /\ GoodItems(list, c, page)
  /\ list # "withDeleted" => GoodRest(list, c, page)

LEMMA RowTypes ==
  ASSUME NEW r \in ActivityRows
  PROVE  /\ r \in Nat /\ Of(r).mission \in Nat /\ Of(r).user \in Nat
         /\ Of(r).from \in Nat /\ Of(r).to \in Nat /\ Of(r).from < Of(r).to
  BY PagingAssumption

LEMMA CursorIsNone == \A c \in Nat \X Nat : c # NoCursor
  <1> TAKE c \in Nat \X Nat
  <1>1. Len(c) = 2 /\ Len(<<>>) = 0
    OBVIOUS
  <1> QED
    BY <1>1 DEF NoCursor

LEMMA AfterCursor ==
  ASSUME NEW c \in Cursors, NEW k \in Nat \X Nat, NEW l \in Nat \X Nat,
         IsAfter(c, k), Newer(k, l) \/ k = l
  PROVE  IsAfter(c, l)
  <1>1. CASE c = NoCursor
    BY <1>1 DEF IsAfter
  <1>2. CASE c # NoCursor
    <2>1. c \in Nat \X Nat /\ Newer(c, k)
      BY <1>2 DEF Cursors, IsAfter
    <2>2. Ordered({c, k, l})
      <3>1. IsFiniteSet({c, k, l})
        <4>1. IsFiniteSet({})
          BY FS_EmptySet
        <4>2. IsFiniteSet({} \cup {c})
          BY <4>1, FS_AddElement
        <4>3. IsFiniteSet(({} \cup {c}) \cup {k})
          BY <4>2, FS_AddElement
        <4>4. IsFiniteSet((({} \cup {c}) \cup {k}) \cup {l})
          BY <4>3, FS_AddElement
        <4>5. (({} \cup {c}) \cup {k}) \cup {l} = {c, k, l}
          OBVIOUS
        <4> QED
          BY <4>4, <4>5
      <3> QED
        BY <2>1, <3>1, PairsOrdered
    <2>3. Newer(c, l)
      BY <2>1, <2>2, Zenon DEF Ordered
    <2> QED
      BY <2>3 DEF IsAfter
  <1> QED
    BY <1>1, <1>2

LEMMA ReadRows ==
  ASSUME RowsAreSound, NEW u
  PROVE  /\ UserRows(u, FALSE) = {r \in Live : Of(r).user = u}
         /\ UserRows(u, TRUE) = {r \in Standing : Of(r).user = u}
         /\ Live \in SUBSET Standing /\ Standing \in SUBSET ActivityRows
         /\ IsFiniteSet(Live) /\ IsFiniteSet(Standing)
         /\ \A r \in Standing \ touched : r \in Live
  <1>1. \A r \in ActivityRows : rowState[r] \in {"absent", "live", "dismissed"}
    BY DEF RowsAreSound
  <1>2. Live \in SUBSET Standing /\ Standing \in SUBSET ActivityRows
    BY DEF Live, Standing
  <1>3. IsFiniteSet(Live) /\ IsFiniteSet(Standing)
    <2>1. Live \in SUBSET ActivityRows
      BY <1>2
    <2> QED
      BY <1>2, <2>1, FS_Subset, PagingAssumption
  <1>4. \A r \in Standing \ touched : r \in Live
    BY <1>1 DEF RowsAreSound, Live, Standing
  <1>5. UserRows(u, FALSE) = {r \in Live : Of(r).user = u}
    BY DEF UserRows, Live
  <1>6. UserRows(u, TRUE) = {r \in Standing : Of(r).user = u}
    <2>1. UserRows(u, TRUE) = {r \in ActivityRows : Of(r).user = u /\ rowState[r] \in {"live", "dismissed"}}
      BY DEF UserRows
    <2> QED
      BY <1>1, <2>1 DEF Standing
  <1> QED
    BY <1>2, <1>3, <1>4, <1>5, <1>6

\* Items named by the second part of their keys.
LEMMA NamedItems ==
  ASSUME NEW S, IsFiniteSet(S)
  PROVE  /\ IsFiniteSet({<<k[2], 0>> : k \in S})
         /\ Cardinality({<<k[2], 0>> : k \in S}) <= Cardinality(S)
  <1> DEFINE f == [k \in S |-> <<k[2], 0>>]
  <1>1. {f[k] : k \in S} = {<<k[2], 0>> : k \in S}
    OBVIOUS
  <1>2. DOMAIN f = S
    OBVIOUS
  <1> HIDE DEF f
  <1>3. IsFiniteSet({f[k] : k \in S}) /\ Cardinality({f[k] : k \in S}) <= Cardinality(S)
    BY <1>2, FiniteValues
  <1> QED
    BY <1>1, <1>3, Zenon

\* The mark a cursor leaves behind.
LEMMA LeftBehind ==
  ASSUME NEW S, Ordered(S), NEW c, IsLast(S, c), NEW k \in S
  PROVE  ~Newer(c, k)
  BY Zenon DEF Ordered, IsLast

LEMMA ActivitiesGood ==
  ASSUME RowsAreSound, NEW size \in Nat, NEW c \in Cursors
  PROVE  GoodPage("activities", size, c, ActivitiesPage(size, c))
  <1> DEFINE U == UserRows(Reader, FALSE)
             K == {<<Of(r).from, r>> : r \in U}
             A == {k \in K : IsAfter(c, k)}
  <1>1. PICK cut : cut = Cut(A, size, FALSE)
    OBVIOUS
  <1>2. \A r \in U : r \in ActivityRows /\ r \in Live /\ r \in Nat /\ Of(r).from \in Nat
    BY ReadRows, RowTypes DEF Live
  <1>3. IsFiniteSet(U)
    <2>1. U \in SUBSET ActivityRows
      BY <1>2
    <2> QED
      BY <2>1, FS_Subset, PagingAssumption
  <1>4. IsFiniteSet(K) /\ K \subseteq Nat \X Nat
    <2> DEFINE f == [r \in U |-> <<Of(r).from, r>>]
    <2>1. {f[r] : r \in U} = K /\ DOMAIN f = U
      BY Zenon
    <2>2. K \subseteq Nat \X Nat
      <3>1. \A r \in U : <<Of(r).from, r>> \in Nat \X Nat
        BY <1>2
      <3> HIDE DEF U
      <3> QED
        BY <3>1
    <2> HIDE DEF f, U, K
    <2>3. IsFiniteSet({f[r] : r \in U})
      BY <1>3, <2>1, FiniteValues
    <2> QED
      BY <2>1, <2>2, <2>3
  <1>5. A \in SUBSET K /\ IsFiniteSet(A) /\ Ordered(A)
    <2> HIDE DEF K
    <2>1. A \in SUBSET K
      OBVIOUS
    <2>2. IsFiniteSet(A)
      BY <1>4, <2>1, FS_Subset
    <2>3. A \subseteq Nat \X Nat
      BY <1>4, <2>1
    <2> HIDE DEF A
    <2> QED
      BY <2>1, <2>2, <2>3, PairsOrdered
  <1>6. PICK items : items = {<<k[2], 0>> : k \in cut.keys}
    OBVIOUS
  <1>7. PICK page : page = Page(items, cut.more, cut.cursor)
    OBVIOUS
  <1>8. ActivitiesPage(size, c) = page
    BY <1>1, <1>6, <1>7, Zenon DEF ActivitiesPage
  <1>9. page = [items |-> items, more |-> cut.more, cursor |-> cut.cursor, partial |-> {}]
    BY <1>7, Zenon DEF Page
  <1>10. /\ cut.keys \in SUBSET A /\ IsFiniteSet(cut.keys) /\ Cardinality(cut.keys) <= size
         /\ cut.more \in BOOLEAN
         /\ cut.keys = {} => cut.cursor = NoCursor
         /\ cut.keys # {} => IsLast(cut.keys, cut.cursor)
         /\ \A x \in A \ cut.keys : cut.more /\ \A y \in cut.keys : Newer(y, x)
    <2> HIDE DEF A
    <2> QED
      BY <1>1, <1>5, CutIs
  <1>11. \A k \in K : k[2] \in U /\ k = <<Of(k[2]).from, k[2]>>
    <2> HIDE DEF U
    <2> TAKE k \in K
    <2>1. PICK r \in U : k = <<Of(r).from, r>>
      OBVIOUS
    <2>2. k[2] = r
      BY <2>1
    <2> QED
      BY <2>1, <2>2
  <1>12. \A k \in A : k \in K /\ k \in Nat \X Nat /\ IsAfter(c, k)
    BY <1>4
  <1> HIDE DEF U, K, A
  <1>13. cut.keys # {} => cut.cursor \in cut.keys /\ cut.cursor \in A
    BY <1>10 DEF IsLast
  <1>14. Cardinality(cut.keys) \in Nat /\ IsFiniteSet(items) /\ Cardinality(items) <= Cardinality(cut.keys)
         /\ Cardinality(items) \in Nat
    <2>1. IsFiniteSet(items) /\ Cardinality(items) <= Cardinality(cut.keys)
      BY <1>6, <1>10, NamedItems, Zenon
    <2> QED
      BY <1>10, <2>1, FS_CardinalityType
  <1>15. GoodShape("activities", size, c, page)
    <2>1. items \in SUBSET ItemsOf("activities")
      <3>1. \A k \in cut.keys : k[2] \in ActivityRows
        BY <1>2, <1>10, <1>11, <1>12
      <3> QED
        BY <1>6, <3>1 DEF ItemsOf
    <2>2. cut.cursor \in Cursors /\ (cut.cursor # NoCursor => IsAfter(c, cut.cursor))
      BY <1>10, <1>12, <1>13 DEF Cursors
    <2>3. Cardinality(items) <= size
      BY <1>10, <1>14
    <2> QED
      BY <1>9, <1>10, <1>14, <2>1, <2>2, <2>3 DEF GoodShape
  <1>16. \A r \in ActivityRows : Marks("activities", <<r, 0>>) = {<<Of(r).from, r>>}
    BY DEF Marks
  <1>17. GoodItems("activities", c, page)
    <2> SUFFICES ASSUME NEW i \in items
                 PROVE  /\ Ahead("activities", c, i) /\ cut.cursor # NoCursor
                        /\ ~Ahead("activities", cut.cursor, i)
      BY <1>9 DEF GoodItems
    <2>1. PICK k \in cut.keys : i = <<k[2], 0>>
      BY <1>6
    <2>2. k \in A /\ k[2] \in ActivityRows /\ k = <<Of(k[2]).from, k[2]>> /\ IsAfter(c, k)
      BY <1>2, <1>10, <1>11, <1>12
    <2>3. Marks("activities", i) = {k}
      BY <1>16, <2>1, <2>2, Zenon
    <2>4. IsLast(cut.keys, cut.cursor) /\ cut.cursor # NoCursor
      BY <1>10, <1>12, <1>13, CursorIsNone
    <2>5. Ordered(cut.keys)
      BY <1>5, <1>10, PartsOrdered
    <2>6. ~Newer(cut.cursor, k)
      BY <2>4, <2>5, LeftBehind
    <2> QED
      BY <2>2, <2>3, <2>4, <2>6 DEF Ahead, IsAfter
  <1>18. GoodRest("activities", c, page)
    <2> SUFFICES ASSUME NEW i \in ShouldHold("activities"), i \notin items, Ahead("activities", c, i)
                 PROVE  cut.more /\ (cut.cursor = NoCursor \/ Ahead("activities", cut.cursor, i))
      BY <1>9 DEF GoodRest
    <2>1. PICK r \in U : i = <<r, 0>>
      BY DEF ShouldHold, U
    <2>2. PICK k : k = <<Of(r).from, r>>
      OBVIOUS
    <2>3. Marks("activities", i) = {k}
      BY <1>2, <1>16, <2>1, <2>2
    <2>4. k \in A
      BY <2>1, <2>2, <2>3, Zenon DEF A, K, Ahead
    <2>5. k \notin cut.keys
      BY <1>6, <2>1, <2>2
    <2>6. cut.more /\ \A y \in cut.keys : Newer(y, k)
      BY <1>10, <2>4, <2>5
    <2> QED
      BY <1>10, <1>13, <2>3, <2>6 DEF Ahead, IsAfter
  <1> QED
    BY <1>8, <1>15, <1>17, <1>18 DEF GoodPage

-----------------------------------------------------------------------------
(* The missions of a company: each at the start of its first activity.      *)

LEMMA MinIs ==
  ASSUME NEW S, IsFiniteSet(S), S \subseteq Nat, S # {}
  PROVE  Min(S) \in S /\ \A y \in S : Min(S) <= y
  <1>1. S \subseteq Int
    OBVIOUS
  <1>2. \E x \in S : \A y \in S : x <= y
    BY <1>1, LeastOfFinite
  <1> QED
    BY <1>2 DEF Min

StartsOf(rows) == {Of(r).from : r \in rows}

LEMMA FirstStart ==
  ASSUME NEW rows \in SUBSET ActivityRows, rows # {}
  PROVE  /\ Min(StartsOf(rows)) \in Nat
         /\ \E r \in rows : Of(r).from = Min(StartsOf(rows))
         /\ \A r \in rows : Min(StartsOf(rows)) <= Of(r).from
  <1>1. IsFiniteSet(rows)
    BY FS_Subset, PagingAssumption
  <1>2. IsFiniteSet(StartsOf(rows))
    <2> DEFINE f == [r \in rows |-> Of(r).from]
    <2>1. {f[r] : r \in rows} = StartsOf(rows) /\ DOMAIN f = rows
      BY DEF StartsOf
    <2> HIDE DEF f
    <2>2. IsFiniteSet({f[r] : r \in rows})
      BY <1>1, <2>1, FiniteValues
    <2> QED
      BY <2>1, <2>2
  <1>3. StartsOf(rows) \subseteq Nat /\ StartsOf(rows) # {}
    <2>1. \A r \in rows : Of(r).from \in Nat
      BY RowTypes
    <2> QED
      BY <2>1 DEF StartsOf
  <1>4. /\ Min(StartsOf(rows)) \in StartsOf(rows)
        /\ \A y \in StartsOf(rows) : Min(StartsOf(rows)) <= y
    BY <1>2, <1>3, MinIs
  <1>5. \A r \in rows : Of(r).from \in StartsOf(rows)
    BY DEF StartsOf
  <1>6. \E r \in rows : Of(r).from = Min(StartsOf(rows))
    BY <1>4 DEF StartsOf
  <1> QED
    BY <1>3, <1>4, <1>5, <1>6

FirmRows == {r \in Live : Of(r).firm = ReadFirm}

RowsFrom(c) == {r \in Live : Of(r).firm = ReadFirm /\ (c # NoCursor => Of(r).from <= c[1])}

CompanyKeys(c) ==
  {<<Min(StartsOf({q \in RowsFrom(c) : Of(q).mission = m})), m>> : m \in MissionsOfRows(RowsFrom(c))}

LEMMA CompanyPageIs ==
  ASSUME NEW size, NEW c
  PROVE  LET cut == Cut({k \in CompanyKeys(c) : IsAfter(c, k)}, size, FALSE)
         IN  CompanyMissionsPage(size, c) = Page({<<k[2], 0>> : k \in cut.keys}, cut.more, cut.cursor)
  BY Zenon DEF CompanyMissionsPage, CompanyKeys, RowsFrom, StartsOf

LEMMA CompanyKeyIs ==
  ASSUME RowsAreSound, NEW c \in Cursors
  PROVE  /\ IsFiniteSet(CompanyKeys(c))
         /\ \A k \in CompanyKeys(c) :
              /\ k \in Nat \X Nat
              /\ \E r \in FirmRows : Of(r).mission = k[2] /\ Of(r).from = k[1]
              /\ \A r \in FirmRows : Of(r).mission = k[2] => k[1] <= Of(r).from
         /\ \A r \in FirmRows : IsAfter(c, <<Of(r).from, Of(r).mission>>) =>
              \E k \in CompanyKeys(c) : k[2] = Of(r).mission /\ IsAfter(c, k)
  <1>1. RowsFrom(c) \in SUBSET FirmRows /\ FirmRows \in SUBSET ActivityRows
    BY DEF RowsFrom, FirmRows, Live
  <1>2. \A r \in FirmRows : Of(r).mission \in Nat /\ Of(r).from \in Nat
    BY <1>1, RowTypes
  <1> DEFINE Part(m) == {q \in RowsFrom(c) : Of(q).mission = m}
             key(m) == <<Min(StartsOf(Part(m))), m>>
             M == MissionsOfRows(RowsFrom(c))
  <1>3. \A r \in RowsFrom(c) : Of(r).mission \in M
    BY DEF MissionsOfRows
  <1>4. ASSUME NEW m \in M
        PROVE  /\ m \in Nat /\ Part(m) \in SUBSET ActivityRows /\ Part(m) # {}
               /\ \A r \in Part(m) : r \in RowsFrom(c) /\ Of(r).mission = m
    <2>1. PICK r \in RowsFrom(c) : Of(r).mission = m
      BY DEF MissionsOfRows
    <2>2. r \in Part(m)
      BY <2>1
    <2>3. Part(m) \in SUBSET ActivityRows
      BY <1>1
    <2> QED
      BY <1>1, <1>2, <2>1, <2>2, <2>3
  <1>5. CompanyKeys(c) = {key(m) : m \in M}
    BY Zenon DEF CompanyKeys
  <1>6. IsFiniteSet(M)
    <2> DEFINE f == [r \in RowsFrom(c) |-> Of(r).mission]
    <2>1. {f[r] : r \in RowsFrom(c)} = M /\ DOMAIN f = RowsFrom(c)
      BY DEF MissionsOfRows
    <2>2. IsFiniteSet(RowsFrom(c))
      <3>1. RowsFrom(c) \in SUBSET ActivityRows
        BY <1>1
      <3> QED
        BY <3>1, FS_Subset, PagingAssumption
    <2> HIDE DEF f, M
    <2>3. IsFiniteSet({f[r] : r \in RowsFrom(c)})
      BY <2>1, <2>2, FiniteValues
    <2> QED
      BY <2>1, <2>3
  <1> HIDE DEF M
  <1>7. IsFiniteSet(CompanyKeys(c))
    <2> DEFINE f == [m \in M |-> key(m)]
    <2>1. {f[m] : m \in M} = {key(m) : m \in M} /\ DOMAIN f = M
      OBVIOUS
    <2> HIDE DEF f, key
    <2>2. IsFiniteSet({f[m] : m \in M})
      BY <1>6, <2>1, FiniteValues
    <2> QED
      BY <1>5, <2>1, <2>2
  <1>8. ASSUME NEW m \in M
        PROVE  /\ Min(StartsOf(Part(m))) \in Nat
               /\ \E r \in Part(m) : Of(r).from = Min(StartsOf(Part(m)))
               /\ \A r \in Part(m) : Min(StartsOf(Part(m))) <= Of(r).from
    <2>1. Part(m) \in SUBSET ActivityRows /\ Part(m) # {}
      BY <1>4
    <2> HIDE DEF Part
    <2> QED
      BY <2>1, FirstStart
  <1>9. ASSUME NEW k \in CompanyKeys(c)
        PROVE  /\ k \in Nat \X Nat
               /\ \E r \in FirmRows : Of(r).mission = k[2] /\ Of(r).from = k[1]
               /\ \A r \in FirmRows : Of(r).mission = k[2] => k[1] <= Of(r).from
    <2>1. PICK m \in M : k = key(m)
      BY <1>5, Zenon
    <2>2. PICK a : a = Min(StartsOf(Part(m)))
      OBVIOUS
    <2>3. k = <<a, m>> /\ a \in Nat /\ m \in Nat
      BY <1>4, <1>8, <2>1, <2>2
    <2>4. PICK r \in Part(m) : Of(r).from = a
      BY <1>8, <2>2
    <2>5. r \in RowsFrom(c) /\ r \in FirmRows /\ Of(r).mission = m
      BY <1>1, <1>4, <2>4
    <2>6. ASSUME NEW q \in FirmRows, Of(q).mission = m
          PROVE  a <= Of(q).from
      <3>1. CASE q \in RowsFrom(c)
        <4>1. q \in Part(m)
          BY <2>6, <3>1
        <4> QED
          BY <1>8, <2>2, <4>1
      <3>2. CASE q \notin RowsFrom(c)
        <4>1. c # NoCursor /\ ~(Of(q).from <= c[1])
          BY <3>2 DEF RowsFrom, FirmRows
        <4>2. Of(r).from <= c[1]
          BY <2>5, <4>1 DEF RowsFrom
        <4>3. c[1] \in Nat
          BY <4>1 DEF Cursors
        <4> QED
          BY <1>2, <2>3, <2>4, <4>1, <4>2, <4>3
      <3> QED
        BY <3>1, <3>2
    <2> QED
      BY <2>3, <2>4, <2>5, <2>6
  <1>10. ASSUME NEW r \in FirmRows, IsAfter(c, <<Of(r).from, Of(r).mission>>)
         PROVE  \E k \in CompanyKeys(c) : k[2] = Of(r).mission /\ IsAfter(c, k)
    <2>1. PICK f, m : f = Of(r).from /\ m = Of(r).mission
      OBVIOUS
    <2>2. f \in Nat /\ m \in Nat
      BY <1>2, <2>1
    <2>3. c # NoCursor => f <= c[1]
      <3> SUFFICES ASSUME c # NoCursor PROVE f <= c[1]
        OBVIOUS
      <3>1. c = <<c[1], c[2]>> /\ c[1] \in Nat /\ c[2] \in Nat
        BY DEF Cursors
      <3>2. Newer(<<c[1], c[2]>>, <<f, m>>)
        BY <1>10, <2>1, <3>1 DEF IsAfter
      <3>3. c[1] > f \/ (c[1] = f /\ c[2] > m)
        BY <3>2, NewerPair
      <3> QED
        BY <2>2, <3>1, <3>3
    <2>4. r \in RowsFrom(c)
      BY <2>1, <2>3 DEF RowsFrom, FirmRows
    <2>5. m \in M /\ r \in Part(m)
      BY <1>3, <2>1, <2>4
    <2>6. PICK a : a = Min(StartsOf(Part(m)))
      OBVIOUS
    <2>7. a \in Nat /\ a <= f
      BY <1>8, <2>1, <2>5, <2>6
    <2>8. PICK k : k = <<a, m>>
      OBVIOUS
    <2>9. k \in CompanyKeys(c)
      BY <1>5, <2>5, <2>6, <2>8, Zenon
    <2>10. <<f, m>> \in Nat \X Nat /\ k \in Nat \X Nat
      BY <2>2, <2>7, <2>8
    <2>11. Newer(<<f, m>>, k) \/ <<f, m>> = k
      <3>1. Newer(<<f, m>>, <<a, m>>) <=> f > a \/ (f = a /\ m > m)
        BY NewerPair
      <3>2. f > a \/ f = a
        BY <2>2, <2>7
      <3> QED
        BY <2>8, <3>1, <3>2
    <2>12. IsAfter(c, k)
      BY <1>10, <2>1, <2>10, <2>11, AfterCursor
    <2> QED
      BY <2>1, <2>8, <2>9, <2>12
  <1> QED
    BY <1>7, <1>9, <1>10

LEMMA CompanyGood ==
  ASSUME RowsAreSound, NEW size \in Nat, NEW c \in Cursors
  PROVE  GoodPage("company", size, c, CompanyMissionsPage(size, c))
  <1> DEFINE A == {k \in CompanyKeys(c) : IsAfter(c, k)}
  <1>1. PICK cut : cut = Cut(A, size, FALSE)
    OBVIOUS
  <1>5. A \in SUBSET CompanyKeys(c) /\ IsFiniteSet(A) /\ Ordered(A)
    <2>1. A \in SUBSET CompanyKeys(c)
      OBVIOUS
    <2>2. IsFiniteSet(A)
      BY <2>1, CompanyKeyIs, FS_Subset
    <2>3. A \subseteq Nat \X Nat
      BY <2>1, CompanyKeyIs
    <2> HIDE DEF A
    <2> QED
      BY <2>1, <2>2, <2>3, PairsOrdered
  <1>6. PICK items : items = {<<k[2], 0>> : k \in cut.keys}
    OBVIOUS
  <1>7. PICK page : page = Page(items, cut.more, cut.cursor)
    OBVIOUS
  <1>8. CompanyMissionsPage(size, c) = page
    BY <1>1, <1>6, <1>7, CompanyPageIs, Zenon
  <1>9. page = [items |-> items, more |-> cut.more, cursor |-> cut.cursor, partial |-> {}]
    BY <1>7, Zenon DEF Page
  <1>12. \A k \in A : k \in CompanyKeys(c) /\ k \in Nat \X Nat /\ IsAfter(c, k)
    BY CompanyKeyIs
  <1>11. \A k \in CompanyKeys(c) : IsAfter(c, k) => k \in A
    OBVIOUS
  <1> HIDE DEF A
  <1>10. /\ cut.keys \in SUBSET A /\ IsFiniteSet(cut.keys) /\ Cardinality(cut.keys) <= size
         /\ cut.more \in BOOLEAN
         /\ cut.keys = {} => cut.cursor = NoCursor
         /\ cut.keys # {} => IsLast(cut.keys, cut.cursor)
         /\ \A x \in A \ cut.keys : cut.more /\ \A y \in cut.keys : Newer(y, x)
    BY <1>1, <1>5, CutIs
  <1>13. cut.keys # {} => cut.cursor \in cut.keys /\ cut.cursor \in A
    BY <1>10 DEF IsLast
  <1>14. Cardinality(cut.keys) \in Nat /\ IsFiniteSet(items) /\ Cardinality(items) <= Cardinality(cut.keys)
         /\ Cardinality(items) \in Nat
    <2>1. IsFiniteSet(items) /\ Cardinality(items) <= Cardinality(cut.keys)
      BY <1>6, <1>10, NamedItems, Zenon
    <2> QED
      BY <1>10, <2>1, FS_CardinalityType
  <1>15. GoodShape("company", size, c, page)
    <2>1. items \in SUBSET ItemsOf("company")
      <3>1. ASSUME NEW k \in cut.keys PROVE <<k[2], 0>> \in Missions
        <4>1. PICK r \in FirmRows : Of(r).mission = k[2]
          BY <1>10, <1>12, CompanyKeyIs
        <4>2. r \in ActivityRows
          BY DEF FirmRows, Live
        <4> QED
          BY <4>1, <4>2 DEF Missions
      <3> QED
        BY <1>6, <3>1 DEF ItemsOf
    <2>2. cut.cursor \in Cursors /\ (cut.cursor # NoCursor => IsAfter(c, cut.cursor))
      BY <1>10, <1>12, <1>13 DEF Cursors
    <2>3. Cardinality(items) <= size
      BY <1>10, <1>14
    <2> QED
      BY <1>9, <1>10, <1>14, <2>1, <2>2, <2>3 DEF GoodShape
  <1>16. \A m : Marks("company", <<m, 0>>) =
                {<<Of(r).from, m>> : r \in {q \in FirmRows : Of(q).mission = m}}
    <2> TAKE m
    <2>1. {q \in Live : Of(q).firm = ReadFirm /\ Of(q).mission = m} = {q \in FirmRows : Of(q).mission = m}
      BY DEF FirmRows
    <2>2. <<m, 0>>[1] = m
      OBVIOUS
    <2> QED
      BY <2>1, <2>2 DEF Marks
  <1>17. GoodItems("company", c, page)
    <2> SUFFICES ASSUME NEW i \in items
                 PROVE  /\ Ahead("company", c, i) /\ cut.cursor # NoCursor
                        /\ ~Ahead("company", cut.cursor, i)
      BY <1>9 DEF GoodItems
    <2>1. PICK k \in cut.keys : i = <<k[2], 0>>
      BY <1>6
    <2>2. k \in A /\ k \in CompanyKeys(c) /\ k \in Nat \X Nat /\ IsAfter(c, k)
      BY <1>10, <1>12
    <2>3. PICK r \in FirmRows : Of(r).mission = k[2] /\ Of(r).from = k[1]
      BY <2>2, CompanyKeyIs
    <2>4. k = <<k[1], k[2]>> /\ k[1] \in Nat /\ k[2] \in Nat
      BY <2>2
    <2>5. k \in Marks("company", i)
      <3>1. r \in {q \in FirmRows : Of(q).mission = k[2]}
        BY <2>3
      <3>2. k = <<Of(r).from, k[2]>>
        BY <2>3, <2>4
      <3> QED
        BY <1>16, <2>1, <3>1, <3>2, Zenon
    <2>6. IsLast(cut.keys, cut.cursor) /\ cut.cursor # NoCursor /\ cut.cursor \in Nat \X Nat
      BY <1>10, <1>12, <1>13, CursorIsNone
    <2>7. ~Newer(cut.cursor, k)
      <3>1. Ordered(cut.keys)
        BY <1>5, <1>10, PartsOrdered
      <3> QED
        BY <2>6, <3>1, LeftBehind
    <2>8. ASSUME NEW l \in Marks("company", i), Newer(cut.cursor, l)
          PROVE  FALSE
      <3>1. PICK q \in FirmRows : Of(q).mission = k[2] /\ l = <<Of(q).from, k[2]>>
        <4>1. l \in {<<Of(p).from, k[2]>> : p \in {t \in FirmRows : Of(t).mission = k[2]}}
          BY <1>16, <2>1, <2>8, Zenon
        <4> QED
          BY <4>1
      <3>2. k[1] <= Of(q).from /\ Of(q).from \in Nat
        <4>1. q \in ActivityRows
          BY DEF FirmRows, Live
        <4> QED
          BY <2>2, <3>1, <4>1, CompanyKeyIs, RowTypes
      <3>3. l \in Nat \X Nat
        BY <2>4, <3>1, <3>2
      <3>4. Newer(l, k) \/ l = k
        <4>1. Newer(<<Of(q).from, k[2]>>, <<k[1], k[2]>>) <=>
                Of(q).from > k[1] \/ (Of(q).from = k[1] /\ k[2] > k[2])
          BY NewerPair
        <4>2. Of(q).from > k[1] \/ Of(q).from = k[1]
          BY <2>4, <3>2
        <4> QED
          BY <2>4, <3>1, <4>1, <4>2
      <3>5. cut.cursor \in Cursors /\ IsAfter(cut.cursor, l)
        BY <2>6, <2>8 DEF Cursors, IsAfter
      <3>6. IsAfter(cut.cursor, k)
        BY <2>2, <3>3, <3>4, <3>5, AfterCursor
      <3> QED
        BY <2>6, <2>7, <3>6 DEF IsAfter
    <2> QED
      BY <2>2, <2>5, <2>6, <2>8 DEF Ahead, IsAfter
  <1>18. GoodRest("company", c, page)
    <2> SUFFICES ASSUME NEW i \in ShouldHold("company"), i \notin items, Ahead("company", c, i)
                 PROVE  cut.more /\ (cut.cursor = NoCursor \/ Ahead("company", cut.cursor, i))
      BY <1>9 DEF GoodRest
    <2>1. PICK m : i = <<m, 0>>
      BY DEF ShouldHold
    <2>2. PICK r \in FirmRows : Of(r).mission = m /\ IsAfter(c, <<Of(r).from, m>>)
      <3>1. PICK l \in Marks("company", i) : IsAfter(c, l)
        BY DEF Ahead
      <3>2. l \in {<<Of(r).from, m>> : r \in {q \in FirmRows : Of(q).mission = m}}
        BY <1>16, <2>1, <3>1, Zenon
      <3> QED
        BY <3>1, <3>2
    <2>3. PICK k \in CompanyKeys(c) : k[2] = m /\ IsAfter(c, k)
      BY <2>2, CompanyKeyIs
    <2>4. k \in A /\ k \notin cut.keys
      BY <1>6, <1>11, <2>1, <2>3
    <2>5. cut.more /\ \A y \in cut.keys : Newer(y, k)
      BY <1>10, <2>4
    <2>6. k \in Marks("company", i)
      <3>1. PICK q \in FirmRows : Of(q).mission = k[2] /\ Of(q).from = k[1]
        BY CompanyKeyIs
      <3>2. k = <<k[1], k[2]>>
        BY CompanyKeyIs
      <3>3. q \in {p \in FirmRows : Of(p).mission = m} /\ k = <<Of(q).from, m>>
        BY <2>3, <3>1, <3>2
      <3> QED
        BY <1>16, <2>1, <3>3, Zenon
    <2> QED
      BY <1>10, <1>13, <2>5, <2>6 DEF Ahead, IsAfter
  <1> QED
    BY <1>8, <1>15, <1>17, <1>18 DEF GoodPage

-----------------------------------------------------------------------------
(* The missions of a user: each at the start of the first of the rows read. *)

KeyOf(r) == <<Of(r).from, Of(r).mission, r>>

MissionKeys(deleted) == {KeyOf(r) : r \in UserRows(Reader, deleted)}

KeysAfter(c, deleted) == {k \in MissionKeys(deleted) : IsAfter(c, <<k[1], k[2]>>)}

KeysRead(size, c, deleted) == FirstOf(KeysAfter(c, deleted), 5 * size + 1)

KeysUsed(size, c, deleted) == FirstOf(KeysRead(size, c, deleted), 5 * size)

LatestKeys(size, c, deleted, firms) ==
  {k \in KeysUsed(size, c, deleted) :
     /\ Of(k[3]).firm \in firms
     /\ ~\E l \in KeysUsed(size, c, deleted) : l[2] = k[2] /\ Newer(l, k)}

NextStart(b, deleted) ==
  IF b = NoCursor THEN NoCursor ELSE <<CursorStart(Reader, b[2], deleted), b[2]>>

LEMMA UserPageIs ==
  ASSUME NEW size, NEW c, NEW deleted, NEW firms
  PROVE  LET more == Cardinality(KeysRead(size, c, deleted)) = 5 * size + 1
             cut == Cut(LatestKeys(size, c, deleted, firms), size, more)
         IN  UserMissionsPage(size, c, deleted, firms) =
               Page({<<k[2], 0>> : k \in cut.keys}, cut.more, NextStart(cut.cursor, deleted))
  BY Zenon DEF UserMissionsPage, KeyOf, MissionKeys, KeysAfter, KeysRead, KeysUsed, LatestKeys, NextStart

LEMMA MissionKeysAre ==
  ASSUME RowsAreSound, NEW deleted \in BOOLEAN
  PROVE  /\ Ordered(MissionKeys(deleted))
         /\ \A r \in UserRows(Reader, deleted) :
              r \in Standing /\ Of(r).user = Reader /\ KeyOf(r) \in MissionKeys(deleted)
         /\ \A k \in MissionKeys(deleted) :
              /\ k \in Nat \X Nat \X Nat
              /\ k[3] \in UserRows(Reader, deleted)
              /\ k[1] = Of(k[3]).from /\ k[2] = Of(k[3]).mission
  <1> DEFINE U == UserRows(Reader, deleted)
             K == MissionKeys(deleted)
  <1>1. U \in SUBSET Standing /\ U \in SUBSET ActivityRows /\ \A r \in U : Of(r).user = Reader
    <2>1. CASE deleted
      BY <2>1, ReadRows
    <2>2. CASE ~deleted
      BY <2>2, ReadRows
    <2> QED
      BY <2>1, <2>2
  <1>2. K = {KeyOf(r) : r \in U}
    BY Zenon DEF MissionKeys
  <1>3. \A r \in U : r \in Nat /\ Of(r).from \in Nat /\ Of(r).mission \in Nat
    BY <1>1, RowTypes
  <1> HIDE DEF U
  <1>4. \A r \in U : KeyOf(r) \in K
    BY <1>2, Zenon
  <1> HIDE DEF K
  <1>5. ASSUME NEW k \in K
        PROVE  /\ k \in Nat \X Nat \X Nat /\ k[3] \in U
               /\ k[1] = Of(k[3]).from /\ k[2] = Of(k[3]).mission
    <2>1. PICK r \in U : k = KeyOf(r)
      BY <1>2, Zenon
    <2>2. k = <<Of(r).from, Of(r).mission, r>>
      BY <2>1 DEF KeyOf
    <2>3. k[3] = r /\ k[1] = Of(r).from /\ k[2] = Of(r).mission
      BY <2>2
    <2> QED
      BY <1>3, <2>2, <2>3
  <1>6. IsFiniteSet(U)
    BY <1>1, FS_Subset, PagingAssumption
  <1>7. IsFiniteSet(K)
    <2> DEFINE f == [r \in U |-> KeyOf(r)]
    <2>1. {f[r] : r \in U} = K /\ DOMAIN f = U
      BY <1>2, Zenon
    <2> HIDE DEF f
    <2>2. IsFiniteSet({f[r] : r \in U})
      BY <1>6, <2>1, FiniteValues
    <2> QED
      BY <2>1, <2>2
  <1>8. K \subseteq Nat \X Nat \X Nat
    BY <1>5
  <1>9. Ordered(K)
    BY <1>7, <1>8, TriplesOrdered
  <1> QED
    BY <1>1, <1>4, <1>5, <1>9 DEF U, K

\* Rows are read up to a limit: those left out are older, and more follow.
LEMMA UsedAre ==
  ASSUME RowsAreSound, NEW deleted \in BOOLEAN, NEW size \in Nat, NEW c
  PROVE  /\ KeysUsed(size, c, deleted) \in SUBSET KeysAfter(c, deleted)
         /\ Ordered(KeysUsed(size, c, deleted))
         /\ \A x \in KeysAfter(c, deleted) \ KeysUsed(size, c, deleted) :
              /\ Cardinality(KeysRead(size, c, deleted)) = 5 * size + 1
              /\ \A y \in KeysUsed(size, c, deleted) : Newer(y, x)
  <1>1. PICK A : A = KeysAfter(c, deleted)
    OBVIOUS
  <1>2. PICK n : n = 5 * size
    OBVIOUS
  <1>3. n \in Nat /\ n + 1 \in Nat
    BY <1>2
  <1>4. PICK R : R = FirstOf(A, n + 1)
    OBVIOUS
  <1>5. PICK T : T = FirstOf(R, n)
    OBVIOUS
  <1>6. Ordered(A)
    <2>1. A \in SUBSET MissionKeys(deleted)
      BY <1>1 DEF KeysAfter
    <2> QED
      BY <2>1, MissionKeysAre, PartsOrdered
  <1>7. R \in SUBSET A /\ Ordered(R) /\ IsFiniteSet(R) /\ Cardinality(R) <= n + 1
    BY <1>3, <1>4, <1>6, FirstArePart, FirstAreFew
  <1>8. T \in SUBSET R /\ Ordered(T)
    BY <1>3, <1>5, <1>7, FirstArePart
  <1>9. ASSUME NEW x \in A \ T
        PROVE  Cardinality(R) = n + 1 /\ \A y \in T : Newer(y, x)
    <2>1. CASE x \notin R
      <3>1. Cardinality(R) = n + 1
        BY <1>3, <1>4, <1>6, <2>1, FirstAreEnough
      <3>2. \A y \in R : Newer(y, x)
        BY <1>3, <1>4, <1>6, <2>1, FirstAreNewer
      <3> QED
        BY <1>8, <3>1, <3>2
    <2>2. CASE x \in R
      <3>1. Cardinality(R) > n
        BY <1>3, <1>5, <1>7, <2>2, FirstAreEnough
      <3>2. \A y \in T : Newer(y, x)
        BY <1>3, <1>5, <1>7, <2>2, FirstAreNewer
      <3>3. Cardinality(R) \in Nat
        BY <1>7, FS_CardinalityType
      <3> QED
        BY <1>3, <1>7, <3>1, <3>2, <3>3
    <2> QED
      BY <2>1, <2>2
  <1>10. R = KeysRead(size, c, deleted)
    BY <1>1, <1>2, <1>4, Zenon DEF KeysRead
  <1>11. T = KeysUsed(size, c, deleted)
    BY <1>2, <1>5, <1>10, Zenon DEF KeysUsed
  <1> QED
    BY <1>1, <1>2, <1>7, <1>8, <1>9, <1>10, <1>11

\* Each mission read has its latest row, in the company of all its rows.
HasLatest(size, c, deleted, firms) ==
  \A k \in KeysUsed(size, c, deleted) : Of(k[3]).firm \in firms =>
    \E l \in LatestKeys(size, c, deleted, firms) : l[2] = k[2]

LEMMA LatestAre ==
  ASSUME RowsAreSound, NEW deleted \in BOOLEAN, NEW size \in Nat, NEW c, NEW firms
  PROVE  HasLatest(size, c, deleted, firms)
  <1> SUFFICES ASSUME NEW k \in KeysUsed(size, c, deleted), Of(k[3]).firm \in firms
               PROVE  \E l \in LatestKeys(size, c, deleted, firms) : l[2] = k[2]
    BY DEF HasLatest
  <1>1. PICK T : T = KeysUsed(size, c, deleted)
    OBVIOUS
  <1>2. PICK S : S = {l \in T : l[2] = k[2]}
    OBVIOUS
  <1>3. Ordered(T) /\ \A l \in T : l \in MissionKeys(deleted)
    BY <1>1, UsedAre DEF KeysAfter
  <1>4. Ordered(S) /\ S # {}
    <2>1. S \in SUBSET T /\ k \in S
      BY <1>1, <1>2
    <2> QED
      BY <1>3, <2>1, PartsOrdered
  <1>5. PICK l \in S : \A y \in S \ {l} : Newer(l, y)
    BY <1>4, NewestExists
  <1>6. l \in T /\ l[2] = k[2] /\ k \in T
    BY <1>1, <1>2
  <1>7. Of(l[3]).firm \in firms
    <2>1. /\ l[3] \in UserRows(Reader, deleted) /\ k[3] \in UserRows(Reader, deleted)
          /\ l[2] = Of(l[3]).mission /\ k[2] = Of(k[3]).mission
      BY <1>3, <1>6, MissionKeysAre
    <2>2. l[3] \in ActivityRows /\ k[3] \in ActivityRows
      BY <2>1 DEF UserRows
    <2>3. Of(l[3]).firm = Of(k[3]).firm
      BY <1>6, <2>1, <2>2, PagingAssumption
    <2> QED
      BY <2>3
  <1>8. ASSUME NEW y \in T, y[2] = l[2], Newer(y, l)
        PROVE  FALSE
    <2>1. y \in S /\ l \in S
      BY <1>2, <1>6, <1>8
    <2>2. y # l
      BY <1>4, <1>8, <2>1, Zenon DEF Ordered
    <2>3. Newer(l, y)
      BY <1>5, <2>1, <2>2
    <2> QED
      BY <1>4, <1>8, <2>1, <2>3, Zenon DEF Ordered
  <1>9. l \in LatestKeys(size, c, deleted, firms)
    BY <1>1, <1>6, <1>7, <1>8 DEF LatestKeys
  <1> QED
    BY <1>6, <1>9

\* Two rows of a user that are apart do not start at once.
LEMMA StartsApart ==
  ASSUME NEW r \in ActivityRows, NEW p \in ActivityRows, NEW q \in ActivityRows,
         Apart(r, p, q), Of(r).user = Reader, Of(p).user = Reader, Of(q).user = Reader, r # q
  PROVE  /\ Of(r).from # Of(q).from
         /\ Of(p).mission = Of(r).mission /\ Of(q).mission # Of(r).mission
              => ~(Of(r).from < Of(q).from /\ Of(q).from < Of(p).from)
  <1>1. Of(r).from < Of(r).to /\ Of(q).from < Of(q).to
    BY RowTypes
  <1>2. Of(r).to <= Of(q).from \/ Of(q).to <= Of(r).from
    BY Zenon DEF Apart
  <1>3. Of(r).from \in Nat /\ Of(r).to \in Nat /\ Of(q).from \in Nat /\ Of(q).to \in Nat
    BY RowTypes
  <1>4. Of(r).from # Of(q).from
    BY <1>1, <1>2, <1>3
  <1>5. Of(p).mission = Of(r).mission /\ Of(q).mission # Of(r).mission
           => ~(Of(r).from < Of(q).from /\ Of(q).from < Of(p).from)
    BY Zenon DEF Apart
  <1> QED
    BY <1>4, <1>5

\* The start of the first row of a mission read.
LEMMA StartIs ==
  ASSUME RowsAreSound, NEW deleted \in BOOLEAN, NEW b \in MissionKeys(deleted)
  PROVE  /\ NextStart(b, deleted) \in Nat \X Nat
         /\ NextStart(b, deleted) = <<NextStart(b, deleted)[1], b[2]>>
         /\ NextStart(b, deleted)[1] <= b[1]
         /\ \E q \in UserRows(Reader, deleted) :
              Of(q).mission = b[2] /\ Of(q).from = NextStart(b, deleted)[1]
         /\ \A r \in UserRows(Reader, deleted) :
              Of(r).mission = b[2] => NextStart(b, deleted)[1] <= Of(r).from
  <1> DEFINE U == UserRows(Reader, deleted)
             P == {q \in U : Of(q).mission = b[2]}
  <1>1. b[3] \in U /\ b[1] = Of(b[3]).from /\ b[2] = Of(b[3]).mission /\ b[2] \in Nat
    BY MissionKeysAre
  <1>2. P \in SUBSET ActivityRows /\ b[3] \in P
    BY <1>1 DEF UserRows
  <1> HIDE DEF U
  <1>3. PICK s : s = Min(StartsOf(P))
    OBVIOUS
  <1>4. /\ s \in Nat
        /\ \E r \in P : Of(r).from = s
        /\ \A r \in P : s <= Of(r).from
    <2> HIDE DEF P
    <2> QED
      BY <1>2, <1>3, FirstStart
  <1>5. CursorStart(Reader, b[2], deleted) = s
    BY <1>3, Zenon DEF CursorStart, StartsOf, U
  <1>6. b # NoCursor
    <2>1. b \in Nat \X Nat \X Nat
      BY MissionKeysAre
    <2>2. Len(b) = 3 /\ Len(<<>>) = 0
      BY <2>1
    <2> QED
      BY <2>2 DEF NoCursor
  <1>7. NextStart(b, deleted) = <<s, b[2]>>
    BY <1>5, <1>6, Zenon DEF NextStart
  <1>8. <<s, b[2]>>[1] = s /\ <<s, b[2]>> \in Nat \X Nat
    BY <1>1, <1>4
  <1>9. s <= b[1]
    BY <1>1, <1>2, <1>4
  <1> QED
    BY <1>4, <1>7, <1>8, <1>9 DEF U

\* What a list of missions should hold, a row of the reader stands for.
Holders(list, firms) ==
  \A i \in ShouldHold(list) : \E r \in UserRows(Reader, FALSE) :
    i = <<Of(r).mission, 0>> /\ Of(r).firm \in firms

LEMMA UserMissionsGood ==
  ASSUME RowsAreSound, NEW size \in Nat, NEW c \in Cursors,
         NEW list \in {"own", "withDeleted", "managed"},
         NEW deleted \in BOOLEAN, deleted = (list = "withDeleted"),
         NEW firms, Holders(list, firms)
  PROVE  GoodPage(list, size, c, UserMissionsPage(size, c, deleted, firms))
  <1>1. PICK A : A = KeysAfter(c, deleted)
    OBVIOUS
  <1>2. PICK T : T = KeysUsed(size, c, deleted)
    OBVIOUS
  <1>3. PICK L : L = LatestKeys(size, c, deleted, firms)
    OBVIOUS
  <1>4. PICK more : more = (Cardinality(KeysRead(size, c, deleted)) = 5 * size + 1)
    OBVIOUS
  <1>5. PICK cut : cut = Cut(L, size, more)
    OBVIOUS
  <1>6. PICK items : items = {<<k[2], 0>> : k \in cut.keys}
    OBVIOUS
  <1>7. PICK b : b = cut.cursor
    OBVIOUS
  <1>8. PICK nc : nc = NextStart(b, deleted)
    OBVIOUS
  <1>9. PICK page : page = Page(items, cut.more, nc)
    OBVIOUS
  <1>10. UserMissionsPage(size, c, deleted, firms) = page
    BY <1>3, <1>4, <1>5, <1>6, <1>7, <1>8, <1>9, UserPageIs, Zenon
  <1>11. page = [items |-> items, more |-> cut.more, cursor |-> nc, partial |-> {}]
    BY <1>9, Zenon DEF Page
  <1>12. /\ T \in SUBSET A /\ Ordered(T)
         /\ \A x \in A \ T : more /\ \A y \in T : Newer(y, x)
    BY <1>1, <1>2, <1>4, UsedAre
  <1>13. L \in SUBSET T /\ Ordered(L)
    <2>1. L \in SUBSET T
      BY <1>2, <1>3 DEF LatestKeys
    <2> QED
      BY <1>12, <2>1, PartsOrdered
  <1>14. \A k \in A : k \in MissionKeys(deleted) /\ IsAfter(c, <<k[1], k[2]>>)
    BY <1>1 DEF KeysAfter
  <1>15. more \in BOOLEAN
    BY <1>4
  <1>16. /\ cut.keys \in SUBSET L /\ IsFiniteSet(cut.keys) /\ Cardinality(cut.keys) <= size
         /\ cut.more \in BOOLEAN /\ (more => cut.more)
         /\ cut.keys = {} => b = NoCursor
         /\ cut.keys # {} => IsLast(cut.keys, b)
         /\ \A x \in L \ cut.keys : cut.more /\ \A y \in cut.keys : Newer(y, x)
    BY <1>5, <1>7, <1>13, <1>15, CutIs
  <1>17. Cardinality(cut.keys) \in Nat /\ IsFiniteSet(items) /\ Cardinality(items) <= Cardinality(cut.keys)
         /\ Cardinality(items) \in Nat
    <2>1. IsFiniteSet(items) /\ Cardinality(items) <= Cardinality(cut.keys)
      BY <1>6, <1>16, NamedItems, Zenon
    <2> QED
      BY <1>16, <2>1, FS_CardinalityType
  <1>18. \A k \in cut.keys : k \in T /\ k \in A /\ k \in MissionKeys(deleted)
    BY <1>12, <1>13, <1>14, <1>16
  <1>19. cut.keys # {} => b \in cut.keys
    BY <1>16 DEF IsLast
  <1>20. \A m : Marks(list, <<m, 0>>) =
                {<<Of(r).from, m>> : r \in {q \in Standing : Of(q).user = Reader /\ Of(q).mission = m}}
    <2> TAKE m
    <2>1. <<m, 0>>[1] = m
      OBVIOUS
    <2>2. list # "activities" /\ list # "stats" /\ list # "company"
      OBVIOUS
    <2> QED
      BY <2>1, <2>2 DEF Marks
  <1>21. ASSUME NEW r \in Standing, Of(r).user = Reader
         PROVE  <<Of(r).from, Of(r).mission>> \in Marks(list, <<Of(r).mission, 0>>)
    <2>1. PICK m : m = Of(r).mission
      OBVIOUS
    <2>2. r \in {q \in Standing : Of(q).user = Reader /\ Of(q).mission = m}
      BY <1>21, <2>1
    <2>3. <<Of(r).from, m>> \in Marks(list, <<m, 0>>)
      BY <1>20, <2>2, Zenon
    <2> QED
      BY <2>1, <2>3
  <1>22. ASSUME NEW m, NEW l \in Marks(list, <<m, 0>>)
         PROVE  \E r \in Standing : Of(r).user = Reader /\ Of(r).mission = m /\ l = <<Of(r).from, m>>
    <2>1. l \in {<<Of(r).from, m>> : r \in {q \in Standing : Of(q).user = Reader /\ Of(q).mission = m}}
      BY <1>20, <1>22, Zenon
    <2> QED
      BY <2>1
  <1>23. \A r \in Standing \ touched : Of(r).user = Reader => r \in UserRows(Reader, deleted) /\ r \in Live
    BY ReadRows
  <1>24. cut.keys # {} => /\ nc \in Nat \X Nat /\ nc = <<nc[1], b[2]>> /\ nc[1] <= b[1]
                          /\ nc # NoCursor
    BY <1>8, <1>18, <1>19, StartIs, CursorIsNone
  <1>25. GoodShape(list, size, c, page)
    <2>1. items \in SUBSET ItemsOf(list)
      <3>1. ItemsOf(list) = Missions
        BY DEF ItemsOf
      <3>2. ASSUME NEW k \in cut.keys PROVE <<k[2], 0>> \in Missions
        <4>1. k[3] \in UserRows(Reader, deleted) /\ k[2] = Of(k[3]).mission
          BY <1>18, MissionKeysAre
        <4>2. k[3] \in ActivityRows
          BY <4>1 DEF UserRows
        <4> QED
          BY <4>1, <4>2 DEF Missions
      <3> QED
        BY <1>6, <3>1, <3>2
    <2>2. CASE cut.keys = {}
      <3>1. nc = NoCursor
        BY <1>8, <1>16, <2>2 DEF NextStart
      <3> QED
        BY <1>11, <1>16, <1>17, <2>1, <3>1 DEF GoodShape, Cursors
    <2>3. CASE cut.keys # {}
      <3>1. nc \in Nat \X Nat /\ nc = <<nc[1], b[2]>> /\ nc[1] <= b[1]
        BY <1>24, <2>3
      <3>2. IsAfter(c, <<b[1], b[2]>>) /\ b \in Nat \X Nat \X Nat
        BY <1>14, <1>18, <1>19, <2>3, MissionKeysAre
      <3>3. Newer(<<b[1], b[2]>>, nc) \/ <<b[1], b[2]>> = nc
        <4>1. PICK s, n : s = nc[1] /\ n = b[2]
          OBVIOUS
        <4>2. Newer(<<b[1], n>>, <<s, n>>) <=> b[1] > s \/ (b[1] = s /\ n > n)
          BY NewerPair
        <4>3. s \in Nat /\ b[1] \in Nat /\ nc = <<s, n>>
          BY <3>1, <3>2, <4>1
        <4>4. b[1] > s \/ b[1] = s
          BY <3>1, <4>1, <4>3
        <4> QED
          BY <4>1, <4>2, <4>3, <4>4
      <3>4. <<b[1], b[2]>> \in Nat \X Nat
        BY <3>2
      <3>5. IsAfter(c, nc)
        BY <3>1, <3>2, <3>3, <3>4, AfterCursor
      <3>6. nc \in Cursors
        BY <3>1 DEF Cursors
      <3>7. Cardinality(items) <= size
        BY <1>16, <1>17
      <3> QED
        BY <1>11, <1>16, <1>17, <2>1, <3>5, <3>6, <3>7 DEF GoodShape
    <2> QED
      BY <2>2, <2>3
  <1>26. GoodItems(list, c, page)
    <2> SUFFICES ASSUME NEW i \in items \cap Still(list)
                 PROVE  Ahead(list, c, i) /\ nc # NoCursor /\ ~Ahead(list, nc, i)
      BY <1>11 DEF GoodItems
    <2>1. PICK k \in cut.keys : i = <<k[2], 0>>
      BY <1>6
    <2>2. k \in A /\ k \in MissionKeys(deleted) /\ b \in cut.keys /\ b \in MissionKeys(deleted)
      BY <1>18, <1>19
    <2>3. PICK p : p = k[3]
      OBVIOUS
    <2>4. PICK m : m = k[2]
      OBVIOUS
    <2>5. p \in UserRows(Reader, deleted) /\ m = Of(p).mission /\ k[1] = Of(p).from
          /\ p \in Standing /\ Of(p).user = Reader
      BY <2>2, <2>3, <2>4, MissionKeysAre
    <2>6. \A r \in Standing : Of(r).mission = m => r \notin touched
      <3>1. i \notin {<<Of(r).mission, 0>> : r \in touched}
        BY DEF Still
      <3> QED
        BY <2>1, <2>4, <3>1
    <2>7. Ahead(list, c, i)
      <3>1. IsAfter(c, <<k[1], k[2]>>)
        BY <1>14, <2>2
      <3>2. <<k[1], m>> \in Marks(list, i)
        BY <1>21, <2>1, <2>4, <2>5
      <3> QED
        BY <2>4, <3>1, <3>2 DEF Ahead
    <2>8. nc \in Nat \X Nat /\ nc = <<nc[1], b[2]>> /\ nc[1] <= b[1] /\ nc # NoCursor
      BY <1>24, <2>2
    <2>9. PICK s, n : s = nc[1] /\ n = b[2]
      OBVIOUS
    <2>10. PICK q \in UserRows(Reader, deleted) : Of(q).mission = n /\ Of(q).from = s
      BY <1>8, <2>2, <2>9, StartIs
    <2>11. \A r \in UserRows(Reader, deleted) : Of(r).mission = n => s <= Of(r).from
      BY <1>8, <2>2, <2>9, StartIs
    <2>12. q \in Standing /\ Of(q).user = Reader
      BY <2>10, MissionKeysAre
    <2>13. ASSUME NEW r \in Standing, Of(r).user = Reader, Of(r).mission = m,
                  Newer(nc, <<Of(r).from, m>>)
           PROVE  FALSE
      <3>1. s > Of(r).from \/ (s = Of(r).from /\ n > m)
        <4>1. Newer(<<s, n>>, <<Of(r).from, m>>) <=> s > Of(r).from \/ (s = Of(r).from /\ n > m)
          BY NewerPair
        <4>2. nc = <<s, n>>
          BY <2>8, <2>9
        <4> QED
          BY <2>13, <4>1, <4>2, Zenon
      <3>2. r \in UserRows(Reader, deleted) /\ r \in Live \ touched /\ p \in Live \ touched
        BY <1>23, <2>5, <2>6, <2>13
      <3>3. r \in ActivityRows /\ p \in ActivityRows /\ q \in ActivityRows
        BY <2>5, <2>12, <2>13 DEF Standing
      <3>4. /\ Of(r).from \in Nat /\ Of(p).from \in Nat /\ s \in Nat /\ b[1] \in Nat
            /\ m \in Nat /\ n \in Nat
        BY <2>2, <2>5, <2>9, <2>10, <3>3, RowTypes, MissionKeysAre
      <3>5. CASE m = n
        BY <2>11, <2>13, <3>1, <3>2, <3>4, <3>5
      <3>6. CASE m # n
        <4>1. Apart(r, p, q) /\ Apart(p, p, q)
          BY <2>12, <3>2 DEF RowsAreSound
        <4>2. r # q /\ p # q
          BY <2>5, <2>10, <2>13, <3>6
        <4>3. Of(r).from # s /\ Of(p).from # s /\ ~(Of(r).from < s /\ s < Of(p).from)
          BY <2>5, <2>10, <2>12, <2>13, <3>3, <3>6, <4>1, <4>2, StartsApart
        <4>4. b[1] <= Of(p).from
          <5>1. k # b
            BY <2>4, <2>9, <3>6
          <5>2. Newer(k, b)
            BY <1>16, <2>1, <5>1 DEF IsLast
          <5>3. k = <<k[1], k[2], k[3]>> /\ b = <<b[1], b[2], b[3]>>
            <6>1. k \in Nat \X Nat \X Nat /\ b \in Nat \X Nat \X Nat
              BY <2>2, MissionKeysAre
            <6> QED
              BY <6>1
          <5>4. k[1] > b[1] \/ (k[1] = b[1] /\ k[2] > b[2])
                  \/ (k[1] = b[1] /\ k[2] = b[2] /\ k[3] > b[3])
            <6>1. Newer(<<k[1], k[2], k[3]>>, <<b[1], b[2], b[3]>>) <=>
                    k[1] > b[1] \/ (k[1] = b[1] /\ k[2] > b[2])
                      \/ (k[1] = b[1] /\ k[2] = b[2] /\ k[3] > b[3])
              BY NewerTriple
            <6> QED
              BY <5>2, <5>3, <6>1, Zenon
          <5> QED
            BY <2>5, <3>4, <5>4
        <4> QED
          BY <2>8, <2>9, <3>1, <3>4, <4>3, <4>4
      <3> QED
        BY <3>5, <3>6
    <2>14. ASSUME Ahead(list, nc, i)
           PROVE  FALSE
      <3>1. PICK l \in Marks(list, <<m, 0>>) : IsAfter(nc, l)
        BY <2>1, <2>4, <2>14 DEF Ahead
      <3>2. Newer(nc, l)
        BY <2>8, <3>1 DEF IsAfter
      <3>3. PICK r \in Standing : Of(r).user = Reader /\ Of(r).mission = m /\ l = <<Of(r).from, m>>
        BY <1>22
      <3> QED
        BY <2>13, <3>2, <3>3
    <2> QED
      BY <2>7, <2>8, <2>14
  <1>27. HasLatest(size, c, deleted, firms)
    BY LatestAre
  <1>28. ASSUME list # "withDeleted" PROVE GoodRest(list, c, page)
    <2> SUFFICES ASSUME NEW i \in ShouldHold(list) \cap Still(list), i \notin items, Ahead(list, c, i)
                 PROVE  cut.more /\ (nc = NoCursor \/ Ahead(list, nc, i))
      BY <1>11 DEF GoodRest
    <2>1. deleted = FALSE
      BY <1>28
    <2>2. PICK r \in UserRows(Reader, FALSE) : i = <<Of(r).mission, 0>> /\ Of(r).firm \in firms
      BY DEF Holders
    <2>3. PICK m : m = Of(r).mission
      OBVIOUS
    <2>4. PICK l \in Marks(list, <<m, 0>>) : IsAfter(c, l)
      BY <2>2, <2>3 DEF Ahead
    <2>5. PICK p \in Standing : Of(p).user = Reader /\ Of(p).mission = m /\ l = <<Of(p).from, m>>
      BY <1>22
    <2>6. p \notin touched
      <3>1. i \notin {<<Of(q).mission, 0>> : q \in touched}
        BY DEF Still
      <3> QED
        BY <2>2, <2>3, <2>5, <3>1
    <2>7. p \in UserRows(Reader, deleted) /\ p \in ActivityRows
      BY <1>23, <2>5, <2>6 DEF Standing
    <2>8. PICK k : k = KeyOf(p)
      OBVIOUS
    <2>9. k[1] = Of(p).from /\ k[2] = m /\ k[3] = p
      BY <2>5, <2>8 DEF KeyOf
    <2>10. k \in MissionKeys(deleted)
      BY <2>7, <2>8, MissionKeysAre
    <2>11. k \in A
      BY <1>1, <2>4, <2>5, <2>9, <2>10 DEF KeysAfter
    <2>12. Of(p).firm \in firms
      <3>1. r \in ActivityRows
        BY DEF UserRows
      <3>2. Of(p).firm = Of(r).firm
        BY <2>3, <2>5, <2>7, <3>1, PagingAssumption
      <3> QED
        BY <2>2, <3>2
    \* A mission left out is older than the last one of the page, by some row.
    <2>13. cut.more /\ \E x \in MissionKeys(deleted) : x[2] = m /\ \A y \in cut.keys : Newer(y, x)
      <3>1. CASE k \in T
        <4>1. PICK x \in L : x[2] = m
          <5>1. k \in KeysUsed(size, c, deleted) /\ Of(k[3]).firm \in firms
            BY <1>2, <2>9, <2>12, <3>1
          <5>3. \E x \in LatestKeys(size, c, deleted, firms) : x[2] = k[2]
            BY <1>27, <5>1 DEF HasLatest
          <5> QED
            BY <1>3, <2>9, <5>3
        <4>2. x \notin cut.keys
          BY <1>6, <2>2, <2>3, <4>1
        <4>3. x \in MissionKeys(deleted)
          BY <1>12, <1>13, <1>14, <4>1
        <4> QED
          BY <1>16, <4>1, <4>2, <4>3
      <3>2. CASE k \notin T
        <4>1. more /\ \A y \in T : Newer(y, k)
          BY <1>12, <2>11, <3>2
        <4> QED
          BY <1>16, <1>18, <2>9, <2>10, <4>1
      <3> QED
        BY <3>1, <3>2
    <2>14. CASE cut.keys = {}
      BY <1>8, <1>16, <2>13, <2>14 DEF NextStart
    <2>15. CASE cut.keys # {}
      <3>1. PICK x \in MissionKeys(deleted) : x[2] = m /\ Newer(b, x)
        BY <1>19, <2>13, <2>15
      <3>2. b \in MissionKeys(deleted) /\ b[2] # m
        BY <1>6, <1>18, <1>19, <2>2, <2>3, <2>15
      <3>3. PICK q, t : q = x[3] /\ t = b[3]
        OBVIOUS
      <3>4. /\ q \in UserRows(Reader, deleted) /\ Of(q).mission = m /\ x[1] = Of(q).from
            /\ t \in UserRows(Reader, deleted) /\ Of(t).mission = b[2] /\ b[1] = Of(t).from
        BY <3>1, <3>2, <3>3, MissionKeysAre
      <3>5. nc \in Nat \X Nat /\ nc = <<nc[1], b[2]>> /\ nc[1] <= b[1] /\ nc # NoCursor
        BY <1>24, <2>15
      <3>6. PICK s, n : s = nc[1] /\ n = b[2]
        OBVIOUS
      <3>7. PICK u \in UserRows(Reader, deleted) : Of(u).mission = n /\ Of(u).from = s
        BY <1>8, <3>2, <3>6, StartIs
      <3>8. q \in Live /\ t \in Live /\ u \in Live /\ Of(q).user = Reader /\ Of(t).user = Reader
            /\ Of(u).user = Reader
        <4>1. UserRows(Reader, FALSE) = {v \in Live : Of(v).user = Reader}
          BY ReadRows
        <4>2. UserRows(Reader, deleted) = UserRows(Reader, FALSE)
          BY <2>1
        <4> QED
          BY <3>4, <3>7, <4>1, <4>2
      <3>9. q \in ActivityRows /\ t \in ActivityRows /\ u \in ActivityRows
        BY <3>8 DEF Live
      <3>10. Of(q).from \in Nat /\ Of(t).from \in Nat /\ s \in Nat
        BY <3>7, <3>9, RowTypes
      <3>11. Of(t).from >= Of(q).from
        <4>1. b = <<b[1], b[2], b[3]>> /\ x = <<x[1], x[2], x[3]>>
          <5>1. b \in Nat \X Nat \X Nat /\ x \in Nat \X Nat \X Nat
            BY <3>2, MissionKeysAre
          <5> QED
            BY <5>1
        <4>2. Newer(<<b[1], b[2], b[3]>>, <<x[1], x[2], x[3]>>) <=>
                b[1] > x[1] \/ (b[1] = x[1] /\ b[2] > x[2])
                  \/ (b[1] = x[1] /\ b[2] = x[2] /\ b[3] > x[3])
          BY NewerTriple
        <4>3. b[1] > x[1] \/ b[1] = x[1]
          BY <3>1, <4>1, <4>2, Zenon
        <4> QED
          BY <3>4, <3>10, <4>3
      <3>12. Apart(u, t, q) /\ Apart(t, t, q)
        BY <3>8 DEF RowsAreSound
      <3>13. u # q /\ t # q
        BY <3>2, <3>4, <3>6, <3>7
      <3>14. s # Of(q).from /\ Of(t).from # Of(q).from /\ ~(s < Of(q).from /\ Of(q).from < Of(t).from)
        BY <3>2, <3>4, <3>6, <3>7, <3>8, <3>9, <3>12, <3>13, StartsApart
      <3>15. s > Of(q).from
        BY <3>10, <3>11, <3>14
      <3>16. Newer(nc, <<Of(q).from, m>>)
        <4>1. Newer(<<s, n>>, <<Of(q).from, m>>) <=> s > Of(q).from \/ (s = Of(q).from /\ n > m)
          BY NewerPair
        <4>2. nc = <<s, n>>
          BY <3>5, <3>6
        <4> QED
          BY <3>15, <4>1, <4>2, Zenon
      <3>17. <<Of(q).from, m>> \in Marks(list, i)
        <4>1. q \in Standing
          BY <3>8, ReadRows
        <4> QED
          BY <1>21, <2>2, <2>3, <3>4, <3>8, <4>1
      <3> QED
        BY <2>13, <3>16, <3>17 DEF Ahead, IsAfter
    <2> QED
      BY <2>14, <2>15
  <1> QED
    BY <1>10, <1>25, <1>26, <1>28 DEF GoodPage

-----------------------------------------------------------------------------
(* The work days: rows are read up to a limit that falls anywhere in a day. *)

LEMMA DayBounds ==
  ASSUME NEW a \in Nat, NEW b \in Nat, NEW d \in Nat, a <= b
  PROVE  a * d <= b * d
  OBVIOUS

LEMMA DayIsNat ==
  ASSUME NEW a \in Nat, NEW d \in Nat \ {0}
  PROVE  a \div d \in Nat
  OBVIOUS

LEMMA LesserOf ==
  ASSUME NEW a \in Int, NEW b \in Int
  PROVE  Min({a, b}) \in Int /\ Min({a, b}) <= a /\ Min({a, b}) <= b
  <1>1. \E x \in {a, b} : \A y \in {a, b} : x <= y
    <2>1. CASE a <= b
      BY <2>1
    <2>2. CASE ~(a <= b)
      BY <2>2
    <2> QED
      BY <2>1, <2>2
  <1>2. Min({a, b}) \in {a, b} /\ \A y \in {a, b} : Min({a, b}) <= y
    BY <1>1 DEF Min
  <1> QED
    BY <1>2

LEMMA GreaterOf ==
  ASSUME NEW a \in Int, NEW b \in Int
  PROVE  Max({a, b}) \in {a, b} /\ Max({a, b}) >= a /\ Max({a, b}) >= b
  <1>1. \E x \in {a, b} : \A y \in {a, b} : x >= y
    <2>1. CASE a <= b
      BY <2>1
    <2>2. CASE ~(a <= b)
      BY <2>2
    <2> QED
      BY <2>1, <2>2
  <1>2. Max({a, b}) \in {a, b} /\ \A y \in {a, b} : Max({a, b}) >= y
    BY <1>1 DEF Max
  <1> QED
    BY <1>2

LEMMA DaysAre ==
  ASSUME NEW r \in ActivityRows
  PROVE  DaysOf(r) \subseteq Nat /\ IsFiniteSet(DaysOf(r))
  <1>1. PICK a, b : a = Of(r).from \div DayTime /\ b = Of(r).to \div DayTime
    OBVIOUS
  <1>2. Of(r).from \in Nat /\ Of(r).to \in Nat /\ DayTime \in Nat \ {0}
    BY PagingAssumption
  <1>3. a \in Nat /\ b \in Nat
    BY <1>1, <1>2, DayIsNat
  <1>4. IsFiniteSet(a..b)
    BY <1>3, FS_Interval
  <1>5. DaysOf(r) = a..b
    BY <1>1 DEF DaysOf
  <1> QED
    BY <1>3, <1>4, <1>5

\* A row that gives service time on a day begins before the end of it.
LEMMA ServiceBegins ==
  ASSUME NEW r \in ActivityRows, NEW d \in Nat, HasService({r}, d)
  PROVE  Of(r).from < (d + 1) * DayTime
  <1>1. PICK a, b, e, f : a = (d + 1) * DayTime /\ b = Of(r).to /\ e = d * DayTime /\ f = Of(r).from
    OBVIOUS
  <1>2. b \in Int /\ f \in Int /\ DayTime \in Nat
    BY <1>1, RowTypes, PagingAssumption
  <1>3. a \in Int /\ e \in Int
    BY <1>1, <1>2
  <1>4. Min({a, b}) > Max({e, f})
    <2>1. \E q, p \in {r} : Min({(d + 1) * DayTime, Of(q).to}) > Max({d * DayTime, Of(p).from})
      BY Zenon DEF HasService
    <2>2. Min({(d + 1) * DayTime, Of(r).to}) > Max({d * DayTime, Of(r).from})
      BY <2>1
    <2> QED
      BY <1>1, <2>2, Zenon
  <1>5. Min({a, b}) \in Int /\ Min({a, b}) <= a
    BY <1>2, <1>3, LesserOf
  <1>6. Max({e, f}) \in Int /\ Max({e, f}) >= f
    <2>1. Max({e, f}) \in {e, f} /\ Max({e, f}) >= f
      BY <1>2, <1>3, GreaterOf
    <2> QED
      BY <1>2, <1>3, <2>1
  <1>7. f < a
    BY <1>2, <1>3, <1>4, <1>5, <1>6
  <1> QED
    BY <1>1, <1>7

LEMMA MoreService ==
  ASSUME NEW S, NEW r \in S, NEW d, HasService({r}, d)
  PROVE  HasService(S, d)
  BY Zenon DEF HasService

DayRows(c) ==
  {r \in Live : /\ Of(r).firm = ReadFirm
                /\ c # NoCursor => Of(r).from < (c[1] + 1) * DayTime}

PartsOf(r) == {<<day, Of(r).user, r>> : day \in DaysOf(r)}

DayParts(c) == UNION {PartsOf(r) : r \in DayRows(c)}

PartLimit(size) == Max({5 * size, RowFloor})

PartsRead(size, c) == FirstOf(DayParts(c), PartLimit(size) + 1)

DayKeys(size, c) == {k \in {<<p[1], p[2]>> : p \in PartsRead(size, c)} : IsAfter(c, k)}

ShownDays(C, R) ==
  {k \in C : HasService({p[3] : p \in {q \in R : q[1] = k[1] /\ q[2] = k[2]}}, k[1])}

LEMMA WorkDaysPageIs ==
  ASSUME NEW size, NEW c
  PROVE  LET more == Cardinality(DayParts(c)) > PartLimit(size)
             cut == Cut(WithoutLast(DayKeys(size, c), more), size, more)
             shown == ShownDays(cut.keys, PartsRead(size, c))
         IN  WorkDaysPage(size, c) =
               [items |-> shown, more |-> cut.more,
                cursor |-> IF shown = {} THEN NoCursor ELSE LastOf(shown),
                partial |-> {k \in shown : \E p \in DayParts(c) \ PartsRead(size, c) :
                                             p[1] = k[1] /\ p[2] = k[2]}]
  <1> DEFINE more == Cardinality(DayParts(c)) > PartLimit(size)
             cut == Cut(WithoutLast(DayKeys(size, c), more), size, more)
             shown == ShownDays(cut.keys, PartsRead(size, c))
             next == IF shown = {} THEN NoCursor ELSE LastOf(shown)
             missing == {k \in shown : \E p \in DayParts(c) \ PartsRead(size, c) :
                                         p[1] = k[1] /\ p[2] = k[2]}
  <1>1. WorkDaysPage(size, c) = [Page(shown, cut.more, next) EXCEPT !.partial = missing]
    BY Zenon DEF WorkDaysPage, DayRows, PartsOf, DayParts, PartLimit, PartsRead, DayKeys, ShownDays
  <1> HIDE DEF shown, next, missing, cut
  <1>2. [Page(shown, cut.more, next) EXCEPT !.partial = missing] =
          [items |-> shown, more |-> cut.more, cursor |-> next, partial |-> missing]
    BY DEF Page
  <1>3. WorkDaysPage(size, c) =
          [items |-> shown, more |-> cut.more, cursor |-> next, partial |-> missing]
    BY <1>1, <1>2, Zenon
  <1> QED
    BY <1>3, Zenon DEF shown, next, missing, cut

\* The parts of a row, one for each of its days.
LEMMA PartsAre ==
  ASSUME NEW c
  PROVE  /\ Ordered(DayParts(c)) /\ IsFiniteSet(DayParts(c))
         /\ \A p \in DayParts(c) :
              /\ p \in Nat \X Nat \X Nat /\ p[3] \in DayRows(c) /\ p[3] \in ActivityRows
              /\ p[2] = Of(p[3]).user /\ p[1] \in DaysOf(p[3])
         /\ \A r \in DayRows(c) : \A d \in DaysOf(r) : <<d, Of(r).user, r>> \in DayParts(c)
  <1> DEFINE U == DayRows(c)
  <1>1. U \in SUBSET ActivityRows
    BY DEF DayRows, Live
  <1>2. IsFiniteSet(U)
    BY <1>1, FS_Subset, PagingAssumption
  <1> HIDE DEF U
  <1>3. ASSUME NEW r \in U
        PROVE  /\ IsFiniteSet(PartsOf(r)) /\ PartsOf(r) \subseteq Nat \X Nat \X Nat
               /\ \A p \in PartsOf(r) : p[3] = r /\ p[2] = Of(r).user /\ p[1] \in DaysOf(r)
    <2>1. r \in ActivityRows /\ r \in Nat /\ Of(r).user \in Nat
      BY <1>1, RowTypes
    <2>2. DaysOf(r) \subseteq Nat /\ IsFiniteSet(DaysOf(r))
      BY <2>1, DaysAre
    <2>3. PICK D, u : D = DaysOf(r) /\ u = Of(r).user
      OBVIOUS
    <2>4. PartsOf(r) = {<<d, u, r>> : d \in D}
      BY <2>3, Zenon DEF PartsOf
    <2>5. IsFiniteSet(PartsOf(r))
      <3> DEFINE f == [d \in D |-> <<d, u, r>>]
      <3>1. {f[d] : d \in D} = {<<d, u, r>> : d \in D} /\ DOMAIN f = D
        OBVIOUS
      <3> HIDE DEF f
      <3>2. IsFiniteSet({f[d] : d \in D})
        BY <2>2, <2>3, <3>1, FiniteValues
      <3> QED
        BY <2>4, <3>1, <3>2
    <2>6. ASSUME NEW p \in PartsOf(r)
          PROVE  /\ p \in Nat \X Nat \X Nat /\ p[3] = r /\ p[2] = u /\ p[1] \in D
      <3>1. PICK d \in D : p = <<d, u, r>>
        BY <2>4
      <3>2. d \in Nat /\ u \in Nat /\ r \in Nat
        BY <2>1, <2>2, <2>3
      <3> QED
        BY <3>1, <3>2
    <2> QED
      BY <2>3, <2>5, <2>6
  <1>4. PICK F : F = {PartsOf(r) : r \in U}
    OBVIOUS
  <1>5. DayParts(c) = UNION F
    BY <1>4, Zenon DEF DayParts, U
  <1>6. IsFiniteSet(F)
    <2> DEFINE f == [r \in U |-> PartsOf(r)]
    <2>1. {f[r] : r \in U} = F /\ DOMAIN f = U
      BY <1>4
    <2> HIDE DEF f
    <2>2. IsFiniteSet({f[r] : r \in U})
      BY <1>2, <2>1, FiniteValues
    <2> QED
      BY <2>1, <2>2
  <1>7. IsFiniteSet(UNION F)
    <2>1. \A T \in F : IsFiniteSet(T)
      BY <1>3, <1>4
    <2> QED
      BY <1>6, <2>1, FS_UNION
  <1>8. ASSUME NEW p \in UNION F
        PROVE  \E r \in U : p \in PartsOf(r)
    BY <1>4
  <1>9. ASSUME NEW p \in UNION F
        PROVE  /\ p \in Nat \X Nat \X Nat /\ p[3] \in U /\ p[3] \in ActivityRows
               /\ p[2] = Of(p[3]).user /\ p[1] \in DaysOf(p[3])
    <2>1. PICK r \in U : p \in PartsOf(r)
      BY <1>8
    <2>2. p[3] = r /\ p[2] = Of(r).user /\ p[1] \in DaysOf(r) /\ p \in Nat \X Nat \X Nat
      BY <1>3, <2>1
    <2> QED
      BY <1>1, <2>2
  <1>10. ASSUME NEW r \in U, NEW d \in DaysOf(r)
         PROVE  <<d, Of(r).user, r>> \in UNION F
    <2>1. <<d, Of(r).user, r>> \in PartsOf(r)
      BY DEF PartsOf
    <2>2. PartsOf(r) \in F
      BY <1>4
    <2> QED
      BY <2>1, <2>2
  <1>11. Ordered(UNION F)
    <2>1. UNION F \subseteq Nat \X Nat \X Nat
      BY <1>9
    <2> QED
      BY <1>7, <2>1, TriplesOrdered
  <1> QED
    BY <1>5, <1>7, <1>9, <1>10, <1>11 DEF U

LEMMA PartLimitIs ==
  ASSUME NEW size \in Nat
  PROVE  PartLimit(size) \in Nat
  <1>1. PICK a : a = 5 * size
    OBVIOUS
  <1>2. a \in Nat /\ RowFloor \in Nat
    BY <1>1, PagingAssumption
  <1>3. Max({a, RowFloor}) \in {a, RowFloor}
    BY <1>2, GreaterOf
  <1>4. PartLimit(size) = Max({a, RowFloor})
    BY <1>1, Zenon DEF PartLimit
  <1> QED
    BY <1>2, <1>3, <1>4

\* The parts left unread are the oldest, and more follow.
LEMMA PartsReadAre ==
  ASSUME NEW size \in Nat, NEW c
  PROVE  /\ PartsRead(size, c) \in SUBSET DayParts(c)
         /\ \A x \in DayParts(c) \ PartsRead(size, c) :
              /\ Cardinality(DayParts(c)) > PartLimit(size)
              /\ \A y \in PartsRead(size, c) : Newer(y, x)
  <1>1. PICK P : P = DayParts(c)
    OBVIOUS
  <1>2. PICK n : n = PartLimit(size)
    OBVIOUS
  <1>3. n \in Nat /\ n + 1 \in Nat
    BY <1>2, PartLimitIs
  <1>4. PICK R : R = FirstOf(P, n + 1)
    OBVIOUS
  <1>5. Ordered(P) /\ IsFiniteSet(P)
    BY <1>1, PartsAre
  <1>6. R \in SUBSET P
    BY <1>3, <1>4, <1>5, FirstArePart
  <1>7. ASSUME NEW x \in P \ R
        PROVE  Cardinality(P) > n /\ \A y \in R : Newer(y, x)
    <2>1. Cardinality(P) > n + 1
      BY <1>3, <1>4, <1>5, FirstAreEnough
    <2>2. \A y \in R : Newer(y, x)
      BY <1>3, <1>4, <1>5, FirstAreNewer
    <2>3. Cardinality(P) \in Nat
      BY <1>5, FS_CardinalityType
    <2> QED
      BY <1>3, <2>1, <2>2, <2>3
  <1>8. R = PartsRead(size, c)
    BY <1>1, <1>2, <1>4, Zenon DEF PartsRead
  <1> QED
    BY <1>1, <1>2, <1>6, <1>7, <1>8

LEMMA DayKeysAre ==
  ASSUME NEW size \in Nat, NEW c
  PROVE  /\ Ordered(DayKeys(size, c)) /\ IsFiniteSet(DayKeys(size, c))
         /\ \A k \in DayKeys(size, c) :
              /\ k \in Nat \X Nat /\ k = <<k[1], k[2]>> /\ IsAfter(c, k)
              /\ \E p \in PartsRead(size, c) : p[1] = k[1] /\ p[2] = k[2]
         /\ \A p \in PartsRead(size, c) :
              IsAfter(c, <<p[1], p[2]>>) => <<p[1], p[2]>> \in DayKeys(size, c)
  <1>1. PICK R : R = PartsRead(size, c)
    OBVIOUS
  <1>2. \A p \in R : p \in DayParts(c) /\ p \in Nat \X Nat \X Nat
    BY <1>1, PartsReadAre, PartsAre
  <1>3. PICK N : N = {<<p[1], p[2]>> : p \in R}
    OBVIOUS
  <1>4. PICK K : K = {k \in N : IsAfter(c, k)}
    OBVIOUS
  <1>5. K = DayKeys(size, c)
    BY <1>1, <1>3, <1>4, Zenon DEF DayKeys
  <1>6. IsFiniteSet(R)
    <2>1. R \in SUBSET DayParts(c) /\ IsFiniteSet(DayParts(c))
      BY <1>1, PartsReadAre, PartsAre
    <2> QED
      BY <2>1, FS_Subset
  <1>7. IsFiniteSet(N)
    <2> DEFINE f == [p \in R |-> <<p[1], p[2]>>]
    <2>1. {f[p] : p \in R} = N /\ DOMAIN f = R
      BY <1>3
    <2> HIDE DEF f
    <2>2. IsFiniteSet({f[p] : p \in R})
      BY <1>6, <2>1, FiniteValues
    <2> QED
      BY <2>1, <2>2
  <1>8. IsFiniteSet(K)
    <2>1. K \in SUBSET N
      BY <1>4
    <2> QED
      BY <1>7, <2>1, FS_Subset
  <1>9. ASSUME NEW k \in K
        PROVE  /\ k \in Nat \X Nat /\ k = <<k[1], k[2]>> /\ IsAfter(c, k)
               /\ \E p \in R : p[1] = k[1] /\ p[2] = k[2]
    <2>1. PICK p \in R : k = <<p[1], p[2]>>
      BY <1>3, <1>4
    <2>2. p[1] \in Nat /\ p[2] \in Nat
      BY <1>2
    <2> QED
      BY <1>4, <2>1, <2>2
  <1>10. Ordered(K)
    <2>1. K \subseteq Nat \X Nat
      BY <1>9
    <2> QED
      BY <1>8, <2>1, PairsOrdered
  <1>11. \A p \in R : IsAfter(c, <<p[1], p[2]>>) => <<p[1], p[2]>> \in K
    BY <1>3, <1>4
  <1> QED
    BY <1>1, <1>5, <1>8, <1>9, <1>10, <1>11

LEMMA WithoutLastIs ==
  ASSUME NEW K, Ordered(K), NEW more \in BOOLEAN
  PROVE  /\ WithoutLast(K, more) \in SUBSET K
         /\ \A x \in K \ WithoutLast(K, more) : more /\ \A y \in WithoutLast(K, more) : Newer(y, x)
         /\ more => \A x \in WithoutLast(K, more) : \E y \in K : Newer(x, y)
  <1>1. CASE ~(more /\ K # {})
    BY <1>1, Zenon DEF WithoutLast
  <1>2. CASE more /\ K # {}
    <2>1. PICK l : l = LastOf(K)
      OBVIOUS
    <2>2. l \in K /\ \A y \in K \ {l} : Newer(y, l)
      BY <1>2, <2>1, LastIsOldest DEF IsLast
    <2>3. WithoutLast(K, more) = K \ {l}
      BY <1>2, <2>1, Zenon DEF WithoutLast
    <2> QED
      BY <1>2, <2>2, <2>3
  <1> QED
    BY <1>1, <1>2

\* What a page of work days is made of: no day kept has a part unread, and a
\* part of a day not kept is behind the page.
LEMMA DaysKept ==
  ASSUME NEW size \in Nat, NEW c \in Cursors, NEW more \in BOOLEAN, NEW cut,
         Cardinality(DayParts(c)) > PartLimit(size) => more,
         cut = Cut(WithoutLast(DayKeys(size, c), more), size, more)
  PROVE  /\ cut.keys \in SUBSET DayKeys(size, c) /\ Ordered(cut.keys)
         /\ IsFiniteSet(cut.keys) /\ Cardinality(cut.keys) <= size /\ cut.more \in BOOLEAN
         /\ \A p \in DayParts(c) : IsAfter(c, <<p[1], p[2]>>) =>
              \/ <<p[1], p[2]>> \in cut.keys /\ p \in PartsRead(size, c)
              \/ /\ <<p[1], p[2]>> \notin cut.keys
                 /\ cut.more /\ \A y \in cut.keys : Newer(y, <<p[1], p[2]>>)
  <1>1. PICK K : K = DayKeys(size, c)
    OBVIOUS
  <1>2. PICK R : R = PartsRead(size, c)
    OBVIOUS
  <1>3. PICK W : W = WithoutLast(K, more)
    OBVIOUS
  <1>4. more \in BOOLEAN
    OBVIOUS
  <1>5. /\ Ordered(K) /\ IsFiniteSet(K)
        /\ \A k \in K : /\ k \in Nat \X Nat /\ k = <<k[1], k[2]>>
                        /\ \E p \in R : p[1] = k[1] /\ p[2] = k[2]
        /\ \A p \in R : IsAfter(c, <<p[1], p[2]>>) => <<p[1], p[2]>> \in K
    BY <1>1, <1>2, DayKeysAre
  <1>6. /\ W \in SUBSET K
        /\ \A x \in K \ W : more /\ \A y \in W : Newer(y, x)
        /\ more => \A x \in W : \E y \in K : Newer(x, y)
    BY <1>3, <1>4, <1>5, WithoutLastIs
  <1>7. Ordered(W)
    BY <1>5, <1>6, PartsOrdered
  <1>8. cut = Cut(W, size, more)
    BY <1>1, <1>3, Zenon
  <1>9. /\ cut.keys \in SUBSET W /\ IsFiniteSet(cut.keys) /\ Cardinality(cut.keys) <= size
        /\ cut.more \in BOOLEAN /\ (more => cut.more)
        /\ \A x \in W \ cut.keys : cut.more /\ \A y \in cut.keys : Newer(y, x)
    BY <1>4, <1>7, <1>8, CutIs
  <1>10. cut.keys \in SUBSET K /\ Ordered(cut.keys)
    BY <1>6, <1>7, <1>9, PartsOrdered
  <1>11. ASSUME NEW x \in K, x \notin cut.keys
         PROVE  cut.more /\ \A y \in cut.keys : Newer(y, x)
    BY <1>6, <1>9, <1>11
  \* A key of a part unread comes after all the keys read, or is the last.
  <1>12. ASSUME NEW p \in DayParts(c) \ R, NEW k \in K
         PROVE  more /\ (Newer(k, <<p[1], p[2]>>) \/ k = <<p[1], p[2]>>)
    <2>1. PICK q \in R : q[1] = k[1] /\ q[2] = k[2]
      BY <1>5
    <2>2. more /\ Newer(q, p)
      BY <1>2, PartsReadAre
    <2>3. q \in DayParts(c)
      BY <1>2, PartsReadAre
    <2>4. q = <<q[1], q[2], q[3]>> /\ p = <<p[1], p[2], p[3]>>
      <3>1. q \in Nat \X Nat \X Nat /\ p \in Nat \X Nat \X Nat
        BY <2>3, PartsAre
      <3> QED
        BY <3>1
    <2>5. Newer(<<q[1], q[2], q[3]>>, <<p[1], p[2], p[3]>>) <=>
            q[1] > p[1] \/ (q[1] = p[1] /\ q[2] > p[2])
              \/ (q[1] = p[1] /\ q[2] = p[2] /\ q[3] > p[3])
      BY NewerTriple
    <2>6. k[1] > p[1] \/ (k[1] = p[1] /\ k[2] > p[2]) \/ (k[1] = p[1] /\ k[2] = p[2])
      BY <2>1, <2>2, <2>4, <2>5, Zenon
    <2>7. k = <<k[1], k[2]>>
      BY <1>5
    <2>8. Newer(<<k[1], k[2]>>, <<p[1], p[2]>>) <=>
            k[1] > p[1] \/ (k[1] = p[1] /\ k[2] > p[2])
      BY NewerPair
    <2> QED
      BY <2>2, <2>6, <2>7, <2>8, Zenon
  <1>13. ASSUME NEW p \in DayParts(c), IsAfter(c, <<p[1], p[2]>>)
         PROVE  \/ <<p[1], p[2]>> \in cut.keys /\ p \in R
                \/ /\ <<p[1], p[2]>> \notin cut.keys
                   /\ cut.more /\ \A y \in cut.keys : Newer(y, <<p[1], p[2]>>)
    <2>1. PICK x : x = <<p[1], p[2]>>
      OBVIOUS
    <2>2. CASE p \in R
      <3>1. x \in K
        BY <1>5, <1>13, <2>1, <2>2
      <3> QED
        BY <1>11, <2>1, <2>2, <3>1
    <2>3. CASE p \notin R
      <3>1. ASSUME x \in cut.keys PROVE FALSE
        <4>1. x \in K /\ x \in W
          BY <1>6, <1>9, <3>1
        <4>2. more
          BY <1>12, <2>3, <4>1
        <4>3. PICK y \in K : Newer(x, y)
          BY <1>6, <4>1, <4>2
        <4>4. Newer(y, x) \/ y = x
          BY <1>12, <2>1, <2>3
        <4> QED
          BY <1>5, <4>1, <4>3, <4>4, Zenon DEF Ordered
      <3>2. \A y \in cut.keys : Newer(y, x)
        <4> TAKE y \in cut.keys
        <4>1. y \in K /\ y # x
          BY <1>10, <3>1
        <4>2. Newer(y, x) \/ y = x
          BY <1>12, <2>1, <2>3, <4>1
        <4> QED
          BY <4>1, <4>2
      <3>3. cut.more
        <4>1. Cardinality(DayParts(c)) > PartLimit(size)
          BY <1>2, <2>3, PartsReadAre
        <4> QED
          BY <1>9, <4>1
      <3> QED
        BY <2>1, <3>1, <3>2, <3>3
    <2> QED
      BY <2>2, <2>3
  <1> QED
    BY <1>1, <1>2, <1>9, <1>10, <1>13

LEMMA StatsGood ==
  ASSUME RowsAreSound, NEW size \in Nat, NEW c \in Cursors
  PROVE  GoodPage("stats", size, c, WorkDaysPage(size, c))
  <1>1. PICK more : more = (Cardinality(DayParts(c)) > PartLimit(size))
    OBVIOUS
  <1>2. PICK cut : cut = Cut(WithoutLast(DayKeys(size, c), more), size, more)
    OBVIOUS
  <1>3. PICK R : R = PartsRead(size, c)
    OBVIOUS
  <1>4. PICK C : C = cut.keys
    OBVIOUS
  <1>5. PICK shown : shown = ShownDays(C, R)
    OBVIOUS
  <1>6. PICK nc : nc = IF shown = {} THEN NoCursor ELSE LastOf(shown)
    OBVIOUS
  <1>7. PICK left : left = {k \in shown : \E p \in DayParts(c) \ R : p[1] = k[1] /\ p[2] = k[2]}
    OBVIOUS
  <1>8. PICK page : page = WorkDaysPage(size, c)
    OBVIOUS
  <1>9. page = [items |-> shown, more |-> cut.more, cursor |-> nc, partial |-> left]
    BY <1>1, <1>2, <1>3, <1>4, <1>5, <1>6, <1>7, <1>8, WorkDaysPageIs, Zenon
  <1>10. /\ C \in SUBSET DayKeys(size, c) /\ Ordered(C)
         /\ IsFiniteSet(C) /\ Cardinality(C) <= size /\ cut.more \in BOOLEAN
         /\ \A p \in DayParts(c) : IsAfter(c, <<p[1], p[2]>>) =>
              \/ <<p[1], p[2]>> \in C /\ p \in R
              \/ /\ <<p[1], p[2]>> \notin C
                 /\ cut.more /\ \A y \in C : Newer(y, <<p[1], p[2]>>)
    <2>1. more \in BOOLEAN /\ (Cardinality(DayParts(c)) > PartLimit(size) => more)
      <3>1. Cardinality(DayParts(c)) \in Nat /\ PartLimit(size) \in Nat
        BY PartsAre, PartLimitIs, FS_CardinalityType
      <3>2. PICK a, b : a = Cardinality(DayParts(c)) /\ b = PartLimit(size)
        OBVIOUS
      <3>3. a \in Nat /\ b \in Nat /\ more = (a > b)
        BY <1>1, <3>1, <3>2
      <3>4. more \in BOOLEAN /\ (a > b => more)
        <4>1. (a > b) \in BOOLEAN
          BY <3>3
        <4> QED
          BY <3>3, <4>1, Zenon
      <3> QED
        BY <3>2, <3>4
    <2> QED
      BY <1>2, <1>3, <1>4, <2>1, DaysKept
  <1>11. shown \in SUBSET C
    BY <1>5 DEF ShownDays
  <1>12. IsFiniteSet(shown) /\ Cardinality(shown) <= size /\ Ordered(shown)
    <2>1. IsFiniteSet(shown) /\ Cardinality(shown) <= Cardinality(C)
      BY <1>10, <1>11, FS_Subset
    <2>2. Cardinality(shown) \in Nat /\ Cardinality(C) \in Nat
      BY <1>10, <2>1, FS_CardinalityType
    <2>3. Ordered(shown)
      BY <1>10, <1>11, PartsOrdered
    <2> QED
      BY <1>10, <2>1, <2>2, <2>3
  <1>13. \A k \in C : /\ k \in Nat \X Nat /\ k = <<k[1], k[2]>> /\ IsAfter(c, k)
                      /\ \E p \in DayParts(c) : p[1] = k[1] /\ p[2] = k[2]
    BY <1>10, DayKeysAre, PartsReadAre
  <1>14. left = {}
    <2> SUFFICES ASSUME NEW k \in shown, NEW p \in DayParts(c) \ R, p[1] = k[1], p[2] = k[2]
                 PROVE  FALSE
      BY <1>7
    <2>1. k \in C /\ IsAfter(c, k) /\ k = <<p[1], p[2]>>
      BY <1>11, <1>13
    <2> QED
      BY <1>10, <2>1
  <1>15. shown # {} => IsLast(shown, nc) /\ nc \in shown
    <2> SUFFICES ASSUME shown # {} PROVE IsLast(shown, nc) /\ nc \in shown
      OBVIOUS
    <2>1. IsLast(shown, nc)
      BY <1>6, <1>12, LastIsOldest
    <2> QED
      BY <2>1 DEF IsLast
  <1>16. GoodShape("stats", size, c, page)
    <2>1. shown \in SUBSET ItemsOf("stats")
      <3>1. ASSUME NEW k \in shown PROVE k \in ItemsOf("stats")
        <4>1. k \in C /\ k = <<k[1], k[2]>>
          BY <1>11, <1>13
        <4>2. PICK p \in DayParts(c) : p[1] = k[1] /\ p[2] = k[2]
          BY <1>13, <4>1
        <4>3. p[3] \in ActivityRows /\ p[2] = Of(p[3]).user /\ p[1] \in DaysOf(p[3])
          BY PartsAre
        <4>4. k \in {<<day, Of(p[3]).user>> : day \in DaysOf(p[3])}
          BY <4>1, <4>2, <4>3
        <4>5. ItemsOf("stats") = UNION {{<<day, Of(r).user>> : day \in DaysOf(r)} : r \in ActivityRows}
          BY DEF ItemsOf
        <4> QED
          BY <4>3, <4>4, <4>5
      <3> QED
        BY <3>1
    <2>2. nc \in Cursors /\ (nc # NoCursor => IsAfter(c, nc))
      BY <1>6, <1>11, <1>13, <1>15 DEF Cursors
    <2> QED
      BY <1>9, <1>10, <1>12, <1>14, <2>1, <2>2 DEF GoodShape
  <1>17. \A i : Marks("stats", i) = {i}
    BY DEF Marks
  <1>18. GoodItems("stats", c, page)
    <2> SUFFICES ASSUME NEW i \in shown
                 PROVE  Ahead("stats", c, i) /\ nc # NoCursor /\ ~Ahead("stats", nc, i)
      BY <1>9 DEF GoodItems
    <2>1. IsLast(shown, nc) /\ nc # NoCursor
      <3>1. nc \in shown /\ IsLast(shown, nc)
        BY <1>15
      <3>2. nc \in Nat \X Nat
        BY <1>11, <1>13, <3>1
      <3> QED
        BY <3>1, <3>2, CursorIsNone
    <2>2. ~Newer(nc, i)
      BY <1>12, <2>1, LeftBehind
    <2>3. IsAfter(c, i)
      BY <1>11, <1>13
    <2> QED
      BY <1>17, <2>1, <2>2, <2>3 DEF Ahead, IsAfter
  <1>19. GoodRest("stats", c, page)
    <2> SUFFICES ASSUME NEW i \in ShouldHold("stats"), i \notin shown, Ahead("stats", c, i)
                 PROVE  cut.more /\ (nc = NoCursor \/ Ahead("stats", nc, i))
      BY <1>9 DEF GoodRest
    <2>1. PICK r \in {q \in Live : Of(q).firm = ReadFirm} :
            i \in {<<d, Of(r).user>> : d \in {e \in DaysOf(r) : HasService({r}, e)}}
      BY DEF ShouldHold
    <2>2. PICK d \in DaysOf(r) : i = <<d, Of(r).user>> /\ HasService({r}, d)
      BY <2>1
    <2>3. r \in ActivityRows /\ r \in Live /\ Of(r).firm = ReadFirm
      BY <2>1 DEF Live
    <2>4. d \in Nat /\ Of(r).user \in Nat /\ Of(r).from \in Nat
      BY <2>2, <2>3, DaysAre, RowTypes
    <2>5. IsAfter(c, i)
      BY <1>17 DEF Ahead
    <2>6. r \in DayRows(c)
      <3>1. ASSUME c # NoCursor
            PROVE  Of(r).from < (c[1] + 1) * DayTime
        <4>1. c = <<c[1], c[2]>> /\ c[1] \in Nat /\ c[2] \in Nat
          BY <3>1 DEF Cursors
        <4>2. c[1] >= d
          <5>1. Newer(<<c[1], c[2]>>, <<d, Of(r).user>>)
            BY <2>2, <2>5, <3>1, <4>1 DEF IsAfter
          <5>2. c[1] > d \/ (c[1] = d /\ c[2] > Of(r).user)
            BY <5>1, NewerPair
          <5> QED
            BY <2>4, <4>1, <5>2
        <4>3. PICK a, b : a = (d + 1) * DayTime /\ b = (c[1] + 1) * DayTime
          OBVIOUS
        <4>4. DayTime \in Nat
          BY PagingAssumption
        <4>5. a \in Nat /\ b \in Nat
          BY <2>4, <4>1, <4>3, <4>4
        <4>6. a <= b
          <5>1. d + 1 \in Nat /\ c[1] + 1 \in Nat /\ d + 1 <= c[1] + 1
            BY <2>4, <4>1, <4>2
          <5>2. (d + 1) * DayTime <= (c[1] + 1) * DayTime
            BY <4>4, <5>1, DayBounds
          <5> QED
            BY <4>3, <5>2
        <4>7. Of(r).from < a
          BY <2>2, <2>3, <2>4, <4>3, ServiceBegins
        <4>8. Of(r).from < b
          BY <2>4, <4>5, <4>6, <4>7
        <4> QED
          BY <4>3, <4>8
      <3> QED
        BY <2>3, <3>1 DEF DayRows
    <2>7. PICK p : p = <<d, Of(r).user, r>>
      OBVIOUS
    <2>8. p \in DayParts(c) /\ i = <<p[1], p[2]>> /\ p[3] = r
      BY <2>2, <2>6, <2>7, PartsAre
    <2>9. (i \in C /\ p \in R) \/ (i \notin C /\ cut.more /\ \A y \in C : Newer(y, i))
      BY <1>10, <2>5, <2>8
    <2>10. i \notin C
      <3> SUFFICES ASSUME i \in C, p \in R PROVE FALSE
        BY <2>9
      <3>1. PICK S : S = {q[3] : q \in {t \in R : t[1] = i[1] /\ t[2] = i[2]}}
        OBVIOUS
      <3>2. i[1] = d /\ p[1] = i[1] /\ p[2] = i[2]
        BY <2>2, <2>7
      <3>3. r \in S
        BY <2>8, <3>1, <3>2
      <3>4. HasService(S, i[1])
        BY <2>2, <3>2, <3>3, MoreService
      <3>5. i \in shown
        BY <1>5, <3>1, <3>4 DEF ShownDays
      <3> QED
        BY <3>5
    <2>11. CASE shown = {}
      BY <1>6, <2>9, <2>10, <2>11
    <2>12. CASE shown # {}
      <3>1. Newer(nc, i)
        BY <1>11, <1>15, <2>9, <2>10, <2>12
      <3> QED
        BY <1>17, <2>9, <2>10, <3>1 DEF Ahead, IsAfter
    <2> QED
      BY <2>11, <2>12
  <1> QED
    BY <1>8, <1>16, <1>18, <1>19 DEF GoodPage

-----------------------------------------------------------------------------
\* Whatever the list, a page is good.
LEMMA PageIsGood ==
  ASSUME RowsAreSound, NEW list \in ListNames, NEW size \in Nat, NEW c \in Cursors
  PROVE  GoodPage(list, size, c, PageOf(list, size, c))
  <1> DEFINE firms == {Of(r).firm : r \in ActivityRows}
  <1>0. PICK all : all = firms
    OBVIOUS
  <1>1. CASE list = "activities"
    <2>1. PageOf(list, size, c) = ActivitiesPage(size, c)
      BY <1>1 DEF PageOf
    <2> QED
      BY <1>1, <2>1, ActivitiesGood
  <1>2. CASE list = "company"
    <2>1. PageOf(list, size, c) = CompanyMissionsPage(size, c)
      BY <1>2 DEF PageOf
    <2> QED
      BY <1>2, <2>1, CompanyGood
  <1>3. CASE list = "stats"
    <2>1. PageOf(list, size, c) = WorkDaysPage(size, c)
      BY <1>3 DEF PageOf
    <2> QED
      BY <1>3, <2>1, StatsGood
  <1>4. CASE list = "own"
    <2>1. PageOf(list, size, c) = UserMissionsPage(size, c, FALSE, all)
      BY <1>0, <1>4 DEF PageOf
    <2>2. Holders("own", all)
      <3>1. ASSUME NEW i \in ShouldHold("own")
            PROVE  \E r \in UserRows(Reader, FALSE) : i = <<Of(r).mission, 0>> /\ Of(r).firm \in all
        <4>1. i \in {<<m, 0>> : m \in MissionsOfRows(UserRows(Reader, FALSE))}
          BY <3>1 DEF ShouldHold
        <4>2. PICK r \in UserRows(Reader, FALSE) : i = <<Of(r).mission, 0>>
          BY <4>1 DEF MissionsOfRows
        <4>3. Of(r).firm \in all
          BY <1>0 DEF UserRows
        <4> QED
          BY <4>2, <4>3
      <3> QED
        BY <3>1 DEF Holders
    <2> QED
      BY <1>4, <2>1, <2>2, UserMissionsGood
  <1>5. CASE list = "withDeleted"
    <2>1. PageOf(list, size, c) = UserMissionsPage(size, c, TRUE, all)
      BY <1>0, <1>5 DEF PageOf
    <2>2. Holders("withDeleted", all)
      <3>1. ShouldHold("withDeleted") = {}
        BY DEF ShouldHold
      <3> QED
        BY <3>1 DEF Holders
    <2> QED
      BY <1>5, <2>1, <2>2, UserMissionsGood
  <1>6. CASE list = "managed"
    <2>1. PageOf(list, size, c) = UserMissionsPage(size, c, FALSE, {ReadFirm})
      BY <1>6 DEF PageOf
    <2>2. Holders("managed", {ReadFirm})
      <3>1. ASSUME NEW i \in ShouldHold("managed")
            PROVE  \E r \in UserRows(Reader, FALSE) : i = <<Of(r).mission, 0>> /\ Of(r).firm \in {ReadFirm}
        <4>1. i \in {<<m, 0>> : m \in MissionsOfRows({r \in UserRows(Reader, FALSE) : Of(r).firm = ReadFirm})}
          BY <3>1 DEF ShouldHold
        <4>2. PICK r \in {q \in UserRows(Reader, FALSE) : Of(q).firm = ReadFirm} : i = <<Of(r).mission, 0>>
          BY <4>1 DEF MissionsOfRows
        <4> QED
          BY <4>2
      <3> QED
        BY <3>1 DEF Holders
    <2> QED
      BY <1>6, <2>1, <2>2, UserMissionsGood
  <1> QED
    BY <1>1, <1>2, <1>3, <1>4, <1>5, <1>6 DEF ListNames

-----------------------------------------------------------------------------
(* The invariant.  What was listed is behind the cursor, and what was not is *)
(* ahead of it.                                                              *)

ReadingIsSound ==
  /\ reading \in [list : ListNames, size : PageSizes, cursor : Cursors,
                  page : SUBSET ItemsOf(reading.list), partial : {{}},
                  asked : BOOLEAN, more : BOOLEAN]
  /\ IsFiniteSet(reading.page) /\ Cardinality(reading.page) <= reading.size
  /\ listed \in [ItemsOf(reading.list) -> Nat]
  /\ ~reading.asked => /\ reading.cursor = NoCursor /\ reading.more /\ touched = {}
                       /\ \A i \in ItemsOf(reading.list) : listed[i] = 0

ListedIsBehind ==
  \A list \in ListNames : reading.list = list =>
    \A i \in Still(list) :
      /\ listed[i] <= 1
      /\ listed[i] = 1 /\ reading.cursor # NoCursor =>
           \A k \in Marks(list, i) : ~IsAfter(reading.cursor, k)

RestIsAhead ==
  \A list \in ListNames \ {"withDeleted"} : reading.list = list =>
    \A i \in ShouldHold(list) \cap Still(list) :
      \/ listed[i] = 1
      \/ /\ reading.more
         /\ reading.cursor = NoCursor \/ \E k \in Marks(list, i) : IsAfter(reading.cursor, k)

PagingInv == RowsAreSound /\ ReadingIsSound /\ ListedIsBehind /\ RestIsAhead

LEMMA StillAreItems ==
  ASSUME NEW list \in ListNames
  PROVE  Still(list) \in SUBSET ItemsOf(list)
  <1>1. CASE list = "activities"
    BY <1>1 DEF Still, ItemsOf
  <1>2. CASE list # "activities"
    BY <1>2 DEF Still
  <1> QED
    BY <1>1, <1>2

LEMMA MissionItems ==
  ASSUME NEW list \in ListNames, list # "activities", list # "stats", NEW i \in ItemsOf(list)
  PROVE  \E m \in Nat : i = <<m, 0>> /\ i[1] = m
  <1>1. i \in Missions
    BY DEF ItemsOf
  <1>2. PICK r \in ActivityRows : i = <<Of(r).mission, 0>>
    BY <1>1 DEF Missions
  <1> QED
    BY <1>2, RowTypes

LEMMA MarksAre ==
  ASSUME NEW list \in ListNames, NEW i \in ItemsOf(list), NEW k \in Marks(list, i)
  PROVE  k \in Nat \X Nat
  <1>1. CASE list = "activities"
    <2>1. k \in {<<Of(r).from, r>> : r \in {q \in ActivityRows : q = i[1]}}
      BY <1>1 DEF Marks
    <2> QED
      BY <2>1, RowTypes
  <1>2. CASE list = "stats"
    <2>1. k = i
      BY <1>2 DEF Marks
    <2>2. PICK r \in ActivityRows : i \in {<<day, Of(r).user>> : day \in DaysOf(r)}
      BY <1>2 DEF ItemsOf
    <2>3. PICK day \in DaysOf(r) : i = <<day, Of(r).user>>
      BY <2>2
    <2> QED
      BY <2>1, <2>3, DaysAre, RowTypes
  <1>3. CASE list # "activities" /\ list # "stats"
    <2>1. PICK m \in Nat : i[1] = m
      BY <1>3, MissionItems
    <2>2. \E r \in ActivityRows : k = <<Of(r).from, i[1]>>
      <3>1. CASE list = "company"
        <4>1. k \in {<<Of(r).from, i[1]>> : r \in {q \in Live : Of(q).firm = ReadFirm /\ Of(q).mission = i[1]}}
          BY <3>1 DEF Marks
        <4> QED
          BY <4>1 DEF Live
      <3>2. CASE list # "company"
        <4>1. k \in {<<Of(r).from, i[1]>> : r \in
                       {q \in Standing : Of(q).user = Reader /\ Of(q).mission = i[1]}}
          BY <1>3, <3>2 DEF Marks
        <4> QED
          BY <4>1 DEF Standing
      <3> QED
        BY <3>1, <3>2
    <2> QED
      BY <2>1, <2>2, RowTypes
  <1> QED
    BY <1>1, <1>2, <1>3

\* What a list should hold has a place in it.
LEMMA HeldIsMarked ==
  ASSUME RowsAreSound, NEW list \in ListNames, NEW i \in ShouldHold(list)
  PROVE  Marks(list, i) # {}
  <1>1. CASE list = "activities"
    <2>1. PICK r \in UserRows(Reader, FALSE) : i = <<r, 0>>
      BY <1>1 DEF ShouldHold
    <2>2. r \in ActivityRows /\ i[1] = r
      BY <2>1 DEF UserRows
    <2>3. Marks(list, i) = {<<Of(q).from, q>> : q \in {p \in ActivityRows : p = i[1]}}
      BY <1>1 DEF Marks
    <2> QED
      BY <2>2, <2>3
  <1>2. CASE list = "stats"
    BY <1>2 DEF Marks
  <1>3. CASE list = "company"
    <2>1. PICK r \in {q \in Live : Of(q).firm = ReadFirm} : i = <<Of(r).mission, 0>>
      <3>1. i \in {<<m, 0>> : m \in MissionsOfRows({q \in Live : Of(q).firm = ReadFirm})}
        BY <1>3 DEF ShouldHold
      <3> QED
        BY <3>1 DEF MissionsOfRows
    <2>2. r \in Live /\ Of(r).firm = ReadFirm /\ Of(r).mission = i[1]
      BY <2>1
    <2>3. Marks(list, i) =
            {<<Of(q).from, i[1]>> : q \in {p \in Live : Of(p).firm = ReadFirm /\ Of(p).mission = i[1]}}
      BY <1>3 DEF Marks
    <2> QED
      BY <2>2, <2>3
  <1>4. CASE list \in {"own", "managed"}
    <2>1. PICK r \in UserRows(Reader, FALSE) : i = <<Of(r).mission, 0>>
      <3>1. CASE list = "own"
        <4>1. i \in {<<m, 0>> : m \in MissionsOfRows(UserRows(Reader, FALSE))}
          BY <3>1 DEF ShouldHold
        <4> QED
          BY <4>1 DEF MissionsOfRows
      <3>2. CASE list = "managed"
        <4>1. i \in {<<m, 0>> : m \in MissionsOfRows({q \in UserRows(Reader, FALSE) : Of(q).firm = ReadFirm})}
          BY <3>2 DEF ShouldHold
        <4> QED
          BY <4>1 DEF MissionsOfRows
      <3> QED
        BY <1>4, <3>1, <3>2
    <2>2. r \in Standing /\ Of(r).user = Reader /\ Of(r).mission = i[1]
      BY <2>1, ReadRows
    <2>3. Marks(list, i) =
            {<<Of(q).from, i[1]>> : q \in {p \in Standing : Of(p).user = Reader /\ Of(p).mission = i[1]}}
      BY <1>4 DEF Marks
    <2> QED
      BY <2>2, <2>3
  <1>5. CASE list = "withDeleted"
    BY <1>5 DEF ShouldHold
  <1> QED
    BY <1>1, <1>2, <1>3, <1>4, <1>5 DEF ListNames

\* While no row changes, nothing moves.
LEMMA RowsStay ==
  ASSUME UNCHANGED <<rowState, touched>>
  PROVE  /\ RowsAreSound => RowsAreSound'
         /\ \A list \in ListNames :
              /\ Still(list)' = Still(list) /\ ShouldHold(list)' = ShouldHold(list)
              /\ \A i : Marks(list, i)' = Marks(list, i)
  <1>1. Live' = Live /\ Standing' = Standing
    BY DEF Live, Standing
  <1>2. RowsAreSound => RowsAreSound'
    BY <1>1, Zenon DEF RowsAreSound
  <1>3. \A list : Still(list)' = Still(list)
    BY Zenon DEF Still
  <1>4. \A u, d : UserRows(u, d)' = UserRows(u, d)
    BY Zenon DEF UserRows
  <1>5. \A list : ShouldHold(list)' = ShouldHold(list)
    BY <1>1, <1>4, Zenon DEF ShouldHold
  <1>6. \A list, i : Marks(list, i)' = Marks(list, i)
    BY <1>1, Zenon DEF Marks
  <1> QED
    BY <1>2, <1>3, <1>5, <1>6

RowChanges(r) ==
  /\ rowState' \in [ActivityRows -> {"absent", "live", "dismissed"}]
  /\ \A q \in ActivityRows \ {r} : rowState'[q] = rowState[q]
  /\ touched' = touched \cup {r}

\* A row that changes leaves the items of others where they are.
LEMMA OthersStay ==
  ASSUME RowsAreSound, NEW r \in ActivityRows, RowChanges(r),
         NEW list \in ListNames, NEW i \in Still(list)'
  PROVE  /\ i \in Still(list)
         /\ Marks(list, i)' = Marks(list, i)
         /\ i \in ShouldHold(list)' => i \in ShouldHold(list)
  <1>1. touched \in SUBSET touched' /\ r \in touched'
    BY DEF RowChanges
  <1>2. \A q \in ActivityRows : q # r => (q \in Live' <=> q \in Live) /\ (q \in Standing' <=> q \in Standing)
    BY DEF RowChanges, Live, Standing
  <1>3. Live \in SUBSET ActivityRows /\ Live' \in SUBSET ActivityRows
        /\ Standing \in SUBSET ActivityRows /\ Standing' \in SUBSET ActivityRows
    BY DEF Live, Standing
  <1>4. UserRows(Reader, FALSE) = {q \in Live : Of(q).user = Reader}
        /\ UserRows(Reader, FALSE)' = {q \in Live' : Of(q).user = Reader}
    BY DEF UserRows, Live
  <1>5. CASE list = "activities"
    <2>1. PICK p \in ActivityRows \ touched' : i = <<p, 0>>
      BY <1>5 DEF Still
    <2>2. i \in Still(list)
      BY <1>1, <1>5, <2>1 DEF Still
    <2>3. Marks(list, i)' = Marks(list, i)
      BY <1>5, Zenon DEF Marks
    <2>4. ASSUME i \in ShouldHold(list)' PROVE i \in ShouldHold(list)
      <3>1. PICK q \in UserRows(Reader, FALSE)' : i = <<q, 0>>
        BY <1>5, <2>4 DEF ShouldHold
      <3>2. q = p /\ q # r /\ q \in ActivityRows
        BY <1>1, <2>1, <3>1
      <3>3. q \in UserRows(Reader, FALSE)
        BY <1>2, <1>4, <3>1, <3>2
      <3> QED
        BY <1>5, <3>1, <3>3 DEF ShouldHold
    <2> QED
      BY <2>2, <2>3, <2>4
  <1>6. CASE list = "stats"
    <2>1. i \in ItemsOf(list) /\ i \notin UNION {{<<d, Of(q).user>> : d \in DaysOf(q)} : q \in touched'}
      BY <1>6 DEF Still
    <2>2. i \in Still(list)
      BY <1>1, <1>6, <2>1 DEF Still
    <2>3. Marks(list, i)' = Marks(list, i)
      BY <1>6, Zenon DEF Marks
    <2>4. ASSUME i \in ShouldHold(list)' PROVE i \in ShouldHold(list)
      <3>1. PICK q \in {p \in Live' : Of(p).firm = ReadFirm} :
              i \in {<<d, Of(q).user>> : d \in {e \in DaysOf(q) : HasService({q}, e)}}
        BY <1>6, <2>4 DEF ShouldHold
      <3>2. q # r
        <4>1. i \in {<<d, Of(q).user>> : d \in DaysOf(q)}
          BY <3>1
        <4> QED
          BY <1>1, <2>1, <4>1
      <3>3. q \in {p \in Live : Of(p).firm = ReadFirm}
        BY <1>2, <1>3, <3>1, <3>2
      <3>4. ShouldHold(list) =
              UNION {{<<d, Of(p).user>> : d \in {e \in DaysOf(p) : HasService({p}, e)}} :
                     p \in {v \in Live : Of(v).firm = ReadFirm}}
        BY <1>6, Zenon DEF ShouldHold
      <3> QED
        BY <3>1, <3>3, <3>4
    <2> QED
      BY <2>2, <2>3, <2>4
  <1>7. CASE list # "activities" /\ list # "stats"
    <2>1. i \in ItemsOf(list) /\ i \notin {<<Of(q).mission, 0>> : q \in touched'}
      BY <1>7 DEF Still
    <2>2. i \in Still(list)
      BY <1>1, <1>7, <2>1 DEF Still
    <2>3. PICK m \in Nat : i = <<m, 0>> /\ i[1] = m
      BY <1>7, <2>1, MissionItems
    <2>4. Of(r).mission # m
      BY <1>1, <2>1, <2>3
    <2>5. \A q : Of(q).mission = m => (q \in Live' <=> q \in Live) /\ (q \in Standing' <=> q \in Standing)
      BY <1>2, <1>3, <2>4
    <2>6. Marks(list, i)' = Marks(list, i)
      <3>1. CASE list = "company"
        <4>1. {q \in Live' : Of(q).firm = ReadFirm /\ Of(q).mission = i[1]} =
                {q \in Live : Of(q).firm = ReadFirm /\ Of(q).mission = i[1]}
          BY <2>3, <2>5
        <4> QED
          BY <3>1, <4>1, Zenon DEF Marks
      <3>2. CASE list # "company"
        <4>1. {q \in Standing' : Of(q).user = Reader /\ Of(q).mission = i[1]} =
                {q \in Standing : Of(q).user = Reader /\ Of(q).mission = i[1]}
          BY <2>3, <2>5
        <4> QED
          BY <1>7, <3>2, <4>1, Zenon DEF Marks
      <3> QED
        BY <3>1, <3>2
    <2>7. ASSUME i \in ShouldHold(list)' PROVE i \in ShouldHold(list)
      <3>1. CASE list = "own"
        <4>1. i \in {<<n, 0>> : n \in MissionsOfRows(UserRows(Reader, FALSE)')}
          BY <2>7, <3>1 DEF ShouldHold
        <4>2. PICK q \in UserRows(Reader, FALSE)' : i = <<Of(q).mission, 0>>
          BY <4>1 DEF MissionsOfRows
        <4>3. q \in UserRows(Reader, FALSE)
          <5>1. q \in Live' /\ Of(q).user = Reader
            BY <1>4, <4>2
          <5>2. q \in Live
            BY <2>3, <2>5, <4>2, <5>1
          <5> QED
            BY <1>4, <5>1, <5>2
        <4> QED
          BY <3>1, <4>2, <4>3 DEF ShouldHold, MissionsOfRows
      <3>2. CASE list = "managed"
        <4>1. i \in {<<n, 0>> : n \in MissionsOfRows({q \in UserRows(Reader, FALSE)' : Of(q).firm = ReadFirm})}
          BY <2>7, <3>2 DEF ShouldHold
        <4>2. PICK q \in {p \in UserRows(Reader, FALSE)' : Of(p).firm = ReadFirm} : i = <<Of(q).mission, 0>>
          BY <4>1 DEF MissionsOfRows
        <4>3. q \in {p \in UserRows(Reader, FALSE) : Of(p).firm = ReadFirm}
          <5>1. q \in Live' /\ Of(q).user = Reader
            BY <1>4, <4>2
          <5>2. q \in Live
            BY <2>3, <2>5, <4>2, <5>1
          <5> QED
            BY <1>4, <4>2, <5>1, <5>2
        <4> QED
          BY <3>2, <4>2, <4>3 DEF ShouldHold, MissionsOfRows
      <3>3. CASE list = "company"
        <4>1. i \in {<<n, 0>> : n \in MissionsOfRows({q \in Live' : Of(q).firm = ReadFirm})}
          BY <2>7, <3>3 DEF ShouldHold
        <4>2. PICK q \in {p \in Live' : Of(p).firm = ReadFirm} : i = <<Of(q).mission, 0>>
          BY <4>1 DEF MissionsOfRows
        <4>3. q \in {p \in Live : Of(p).firm = ReadFirm}
          BY <2>3, <2>5, <4>2
        <4> QED
          BY <3>3, <4>2, <4>3 DEF ShouldHold, MissionsOfRows
      <3>4. CASE list = "withDeleted"
        BY <2>7, <3>4 DEF ShouldHold
      <3> QED
        BY <1>7, <3>1, <3>2, <3>3, <3>4 DEF ListNames
    <2> QED
      BY <2>2, <2>6, <2>7
  <1> QED
    BY <1>5, <1>6, <1>7

\* Where the list stands for an item already given, and one not yet given.
Behind(list, i, c) == c # NoCursor => \A k \in Marks(list, i) : ~IsAfter(c, k)

AskReading(page) ==
  reading' = [reading EXCEPT !.asked = TRUE, !.more = page.more, !.cursor = page.cursor,
                             !.page = page.items, !.partial = page.partial]

AskListed(page) ==
  listed' = [i \in DOMAIN listed |-> listed[i] + IF i \in page.items THEN 1 ELSE 0]

LEMMA AskKeeps ==
  ASSUME PagingInv, AskPage
  PROVE  PagingInv'
  <1>1. PICK list : list = reading.list
    OBVIOUS
  <1>2. PICK size : size = reading.size
    OBVIOUS
  <1>3. PICK c : c = reading.cursor
    OBVIOUS
  <1>4. PICK page : page = PageOf(list, size, c)
    OBVIOUS
  <1>5. /\ reading.more /\ (reading.asked => c # NoCursor)
        /\ AskReading(page) /\ AskListed(page) /\ UNCHANGED <<rowState, touched>>
    BY <1>1, <1>2, <1>3, <1>4, Zenon DEF AskPage, AskReading, AskListed
  <1>6. list \in ListNames /\ size \in Nat /\ c \in Cursors /\ size \in PageSizes
    BY <1>1, <1>2, <1>3, PagingAssumption DEF PagingInv, ReadingIsSound
  <1>7. RowsAreSound /\ ReadingIsSound
    BY DEF PagingInv
  <1>8. GoodPage(list, size, c, page)
    BY <1>4, <1>6, <1>7, PageIsGood
  <1>9. PICK items, more, next : items = page.items /\ more = page.more /\ next = page.cursor
    OBVIOUS
  <1>10. /\ items \in SUBSET ItemsOf(list) /\ IsFiniteSet(items) /\ Cardinality(items) <= size
         /\ more \in BOOLEAN /\ next \in Cursors /\ (next # NoCursor => IsAfter(c, next))
         /\ page.partial = {}
    BY <1>8, <1>9 DEF GoodPage, GoodShape
  <1>11. /\ reading' = [reading EXCEPT !.asked = TRUE, !.more = more, !.cursor = next,
                                      !.page = items, !.partial = {}]
         /\ listed' = [i \in DOMAIN listed |-> listed[i] + IF i \in items THEN 1 ELSE 0]
    BY <1>5, <1>9, <1>10 DEF AskReading, AskListed
  <1>12. /\ reading'.list = list /\ reading'.size = size /\ reading'.cursor = next
         /\ reading'.page = items /\ reading'.partial = {} /\ reading'.more = more
         /\ reading'.asked = TRUE
    BY <1>1, <1>2, <1>7, <1>11 DEF ReadingIsSound
  <1>13. listed \in [ItemsOf(list) -> Nat]
    BY <1>1, <1>7 DEF ReadingIsSound
  <1>14. \A i \in ItemsOf(list) :
           listed[i] \in Nat /\ listed'[i] = IF i \in items THEN listed[i] + 1 ELSE listed[i]
    BY <1>11, <1>13
  <1>15. listed' \in [ItemsOf(list) -> Nat]
    <2>1. DOMAIN listed = ItemsOf(list)
      BY <1>13
    <2>2. listed' = [i \in ItemsOf(list) |-> listed[i] + IF i \in items THEN 1 ELSE 0]
      BY <1>11, <2>1
    <2>3. \A i \in ItemsOf(list) : listed[i] + (IF i \in items THEN 1 ELSE 0) \in Nat
      BY <1>14
    <2> QED
      BY <2>2, <2>3
  <1>16. RowsAreSound'
    BY <1>5, <1>7, RowsStay
  <1>17. ReadingIsSound'
    <2>1. reading' \in [list : ListNames, size : PageSizes, cursor : Cursors,
                        page : SUBSET ItemsOf(list), partial : {{}},
                        asked : BOOLEAN, more : BOOLEAN]
      BY <1>1, <1>6, <1>7, <1>10, <1>11 DEF ReadingIsSound
    <2> QED
      BY <1>10, <1>12, <1>15, <2>1 DEF ReadingIsSound
  <1>18. /\ Still(list)' = Still(list) /\ ShouldHold(list)' = ShouldHold(list)
         /\ \A i : Marks(list, i)' = Marks(list, i)
    BY <1>5, <1>6, RowsStay
  <1>19. \A i \in Still(list) : i \in ItemsOf(list)
    BY <1>6, StillAreItems
  <1>20. \A i \in Still(list) : listed[i] <= 1 /\ (listed[i] = 1 => Behind(list, i, c))
    BY <1>1, <1>3, <1>6 DEF PagingInv, ListedIsBehind, Behind
  <1>21. \A i \in Still(list) : listed[i] = 1 => c # NoCursor
    <2>1. ~reading.asked => \A i \in ItemsOf(list) : listed[i] = 0
      BY <1>1, <1>7 DEF ReadingIsSound
    <2> QED
      BY <1>5, <1>19, <2>1
  <1>22. ASSUME NEW i \in Still(list)
         PROVE  listed'[i] <= 1 /\ (listed'[i] = 1 => Behind(list, i, next))
    <2>1. CASE i \in items
      <3>1. Ahead(list, c, i) /\ next # NoCursor /\ ~Ahead(list, next, i)
        BY <1>8, <1>9, <2>1 DEF GoodPage, GoodItems
      <3>2. listed[i] # 1
        <4>1. ASSUME listed[i] = 1 PROVE FALSE
          BY <1>20, <1>21, <3>1, <4>1 DEF Behind, Ahead
        <4> QED
          BY <4>1
      <3>3. listed[i] \in Nat /\ listed[i] <= 1 /\ listed'[i] = listed[i] + 1
        BY <1>14, <1>19, <1>20, <2>1
      <3>4. listed'[i] = 1
        BY <3>2, <3>3
      <3> QED
        BY <3>1, <3>4 DEF Behind, Ahead
    <2>2. CASE i \notin items
      <3>1. listed'[i] = listed[i] /\ listed[i] <= 1
        BY <1>14, <1>19, <1>20, <2>2
      <3>2. ASSUME listed[i] = 1, next # NoCursor, NEW k \in Marks(list, i), IsAfter(next, k)
            PROVE  FALSE
        <4>1. c # NoCursor /\ ~IsAfter(c, k)
          BY <1>20, <1>21, <3>2 DEF Behind
        <4>2. k \in Nat \X Nat /\ next \in Nat \X Nat
          BY <1>6, <1>10, <1>19, <3>2, MarksAre DEF Cursors
        <4>3. Newer(next, k) /\ IsAfter(c, next)
          BY <1>10, <3>2 DEF IsAfter
        <4>4. IsAfter(c, k)
          BY <1>6, <4>2, <4>3, AfterCursor
        <4> QED
          BY <4>1, <4>4
      <3> QED
        BY <3>1, <3>2 DEF Behind
    <2> QED
      BY <2>1, <2>2
  <1>23. ListedIsBehind'
    <2> SUFFICES ASSUME NEW i \in Still(list)'
                 PROVE  /\ listed'[i] <= 1
                        /\ listed'[i] = 1 /\ next # NoCursor =>
                             \A k \in Marks(list, i)' : ~IsAfter(next, k)
      BY <1>12 DEF ListedIsBehind
    <2>1. i \in Still(list) /\ Marks(list, i)' = Marks(list, i)
      BY <1>18
    <2> QED
      BY <1>22, <2>1 DEF Behind
  <1>24. ASSUME list # "withDeleted", NEW i \in ShouldHold(list) \cap Still(list)
         PROVE  listed'[i] = 1 \/ (more /\ (next = NoCursor \/ Ahead(list, next, i)))
    <2>1. listed[i] = 1 \/ c = NoCursor \/ Ahead(list, c, i)
      BY <1>1, <1>3, <1>6, <1>24 DEF PagingInv, RestIsAhead, Ahead
    <2>2. listed'[i] <= 1 /\ listed[i] \in Nat /\ (i \in items => listed'[i] = listed[i] + 1)
          /\ (i \notin items => listed'[i] = listed[i])
      BY <1>14, <1>19, <1>22
    <2>3. CASE i \in items
      BY <2>2, <2>3
    <2>4. CASE i \notin items /\ listed[i] = 1
      BY <2>2, <2>4
    <2>5. CASE i \notin items /\ listed[i] # 1
      <3>1. Ahead(list, c, i)
        <4>1. CASE c = NoCursor
          <5>1. Marks(list, i) # {}
            BY <1>6, <1>7, HeldIsMarked
          <5> QED
            BY <4>1, <5>1 DEF Ahead, IsAfter
        <4> QED
          BY <2>1, <2>5, <4>1
      <3> QED
        BY <1>8, <1>9, <1>24, <2>5, <3>1 DEF GoodPage, GoodRest
    <2> QED
      BY <2>3, <2>4, <2>5
  <1>25. RestIsAhead'
    <2> SUFFICES ASSUME list # "withDeleted", NEW i \in ShouldHold(list)' \cap Still(list)'
                 PROVE  \/ listed'[i] = 1
                        \/ more /\ (next = NoCursor \/ \E k \in Marks(list, i)' : IsAfter(next, k))
      BY <1>12 DEF RestIsAhead
    <2>1. i \in ShouldHold(list) \cap Still(list) /\ Marks(list, i)' = Marks(list, i)
      BY <1>18
    <2> QED
      BY <1>24, <2>1 DEF Ahead
  <1> QED
    BY <1>16, <1>17, <1>23, <1>25 DEF PagingInv

LEMMA ChangeKeeps ==
  ASSUME PagingInv, NEW r \in ActivityRows, RowChanges(r), RowsAreSound', reading.asked,
         UNCHANGED <<reading, listed>>
  PROVE  PagingInv'
  <1>1. RowsAreSound
    BY DEF PagingInv
  <1>2. ReadingIsSound'
    BY DEF PagingInv, ReadingIsSound
  <1>3. ListedIsBehind'
    <2> SUFFICES ASSUME NEW list \in ListNames, reading.list = list, NEW i \in Still(list)'
                 PROVE  /\ listed[i] <= 1
                        /\ listed[i] = 1 /\ reading.cursor # NoCursor =>
                             \A k \in Marks(list, i)' : ~IsAfter(reading.cursor, k)
      BY DEF ListedIsBehind
    <2>1. i \in Still(list) /\ Marks(list, i)' = Marks(list, i)
      BY <1>1, OthersStay
    <2> QED
      BY <2>1 DEF PagingInv, ListedIsBehind
  <1>4. RestIsAhead'
    <2> SUFFICES ASSUME NEW list \in ListNames \ {"withDeleted"}, reading.list = list,
                        NEW i \in ShouldHold(list)' \cap Still(list)'
                 PROVE  \/ listed[i] = 1
                        \/ /\ reading.more
                           /\ \/ reading.cursor = NoCursor
                              \/ \E k \in Marks(list, i)' : IsAfter(reading.cursor, k)
      BY DEF RestIsAhead
    <2>1. i \in Still(list) /\ Marks(list, i)' = Marks(list, i) /\ i \in ShouldHold(list)
      BY <1>1, OthersStay
    <2> QED
      BY <2>1 DEF PagingInv, RestIsAhead
  <1> QED
    BY <1>2, <1>3, <1>4 DEF PagingInv

LEMMA ConsistentApart ==
  ASSUME NEW S, Consistent(S)
  PROVE  \A x, p, q \in S : Apart(x, p, q)
  BY Zenon DEF Consistent, Apart

LEMMA LogKeeps ==
  ASSUME PagingInv, NEW r \in ActivityRows, LogRow(r)
  PROVE  PagingInv'
  <1>1. RowsAreSound
    BY DEF PagingInv
  <1>2. /\ reading.asked /\ rowState[r] = "absent" /\ Consistent(Live \cup {r})
        /\ rowState' = [rowState EXCEPT ![r] = "live"] /\ touched' = touched \cup {r}
        /\ UNCHANGED <<reading, listed>>
    BY DEF LogRow, MayTouch
  <1>3. rowState \in [ActivityRows -> {"absent", "live", "dismissed"}]
    BY <1>1 DEF RowsAreSound
  <1>4. RowChanges(r) /\ rowState'[r] = "live"
    BY <1>2, <1>3 DEF RowChanges
  <1>5. Live' = Live \cup {r} /\ Standing' = Standing \cup {r}
    BY <1>4 DEF RowChanges, Live, Standing
  <1>6. \A x, p, q \in Live' : Apart(x, p, q)
    <2>1. \A x, p, q \in Live \cup {r} : Apart(x, p, q)
      BY <1>2, ConsistentApart
    <2> QED
      BY <1>5, <2>1
  <1>7. ASSUME NEW x \in Live' \ touched', NEW p \in Live' \ touched', NEW q \in Standing'
        PROVE  Apart(x, p, q)
    <2>1. CASE q = r
      BY <1>5, <1>6, <2>1
    <2>2. CASE q # r
      <3>1. x \in Live \ touched /\ p \in Live \ touched /\ q \in Standing
        BY <1>2, <1>5, <2>2
      <3> QED
        BY <1>1, <3>1 DEF RowsAreSound
    <2> QED
      BY <2>1, <2>2
  <1>8. \A q \in ActivityRows \ touched' : rowState'[q] # "dismissed"
    BY <1>1, <1>2, <1>4 DEF RowChanges, RowsAreSound
  <1>9. touched' \in SUBSET ActivityRows
    BY <1>1, <1>2 DEF RowsAreSound
  <1>10. RowsAreSound'
    BY <1>4, <1>6, <1>7, <1>8, <1>9 DEF RowChanges, RowsAreSound
  <1> QED
    BY <1>2, <1>4, <1>10, ChangeKeeps

LEMMA DismissKeeps ==
  ASSUME PagingInv, NEW r \in ActivityRows, DismissRow(r)
  PROVE  PagingInv'
  <1>1. RowsAreSound
    BY DEF PagingInv
  <1>2. /\ reading.asked /\ rowState[r] = "live"
        /\ rowState' = [rowState EXCEPT ![r] = "dismissed"] /\ touched' = touched \cup {r}
        /\ UNCHANGED <<reading, listed>>
    BY DEF DismissRow, MayTouch
  <1>3. rowState \in [ActivityRows -> {"absent", "live", "dismissed"}]
    BY <1>1 DEF RowsAreSound
  <1>4. RowChanges(r) /\ rowState'[r] = "dismissed"
    BY <1>2, <1>3 DEF RowChanges
  <1>5. Live' \in SUBSET Live /\ Standing' \in SUBSET Standing
    BY <1>2, <1>4 DEF RowChanges, Live, Standing
  <1>6. \A x, p, q \in Live' : Apart(x, p, q)
    BY <1>1, <1>5 DEF RowsAreSound
  <1>7. \A x, p \in Live' \ touched', q \in Standing' : Apart(x, p, q)
    <2>1. Live' \ touched' \in SUBSET (Live \ touched)
      BY <1>2, <1>5
    <2> QED
      BY <1>1, <1>5, <2>1 DEF RowsAreSound
  <1>8. \A q \in ActivityRows \ touched' : rowState'[q] # "dismissed"
    BY <1>1, <1>2, <1>4 DEF RowChanges, RowsAreSound
  <1>9. touched' \in SUBSET ActivityRows
    BY <1>1, <1>2 DEF RowsAreSound
  <1>10. RowsAreSound'
    BY <1>4, <1>6, <1>7, <1>8, <1>9 DEF RowChanges, RowsAreSound
  <1> QED
    BY <1>2, <1>4, <1>10, ChangeKeeps

LEMMA PagingStarts == PagingInit => PagingInv
  <1> SUFFICES ASSUME PagingInit PROVE PagingInv
    OBVIOUS
  <1>1. /\ rowState \in [ActivityRows -> {"absent", "live"}] /\ Consistent(Live) /\ touched = {}
        /\ reading \in [list : ListNames, size : PageSizes, cursor : {NoCursor}, page : {{}},
                        partial : {{}}, asked : {FALSE}, more : {TRUE}]
        /\ listed = [i \in ItemsOf(reading.list) |-> 0]
    BY DEF PagingInit
  <1>2. \A r \in ActivityRows : rowState[r] \in {"absent", "live"}
    BY <1>1
  <1>3. Standing = Live
    BY <1>2 DEF Standing, Live
  <1>4. \A x, p, q \in Live : Apart(x, p, q)
    BY <1>1, ConsistentApart
  <1>5. RowsAreSound
    <2>1. rowState \in [ActivityRows -> {"absent", "live", "dismissed"}]
      BY <1>1
    <2>2. \A r \in ActivityRows \ touched : rowState[r] # "dismissed"
      BY <1>2
    <2>3. \A x, p \in Live \ touched, q \in Standing : Apart(x, p, q)
      BY <1>3, <1>4
    <2> QED
      BY <1>1, <1>4, <2>1, <2>2, <2>3 DEF RowsAreSound
  <1>6. /\ reading.list \in ListNames /\ reading.size \in PageSizes /\ reading.cursor = NoCursor
        /\ reading.page = {} /\ reading.more = TRUE /\ reading.asked = FALSE
    BY <1>1
  <1>7. \A i \in ItemsOf(reading.list) : listed[i] = 0
    BY <1>1
  <1>8. ReadingIsSound
    <2>1. reading \in [list : ListNames, size : PageSizes, cursor : Cursors,
                       page : SUBSET ItemsOf(reading.list), partial : {{}},
                       asked : BOOLEAN, more : BOOLEAN]
      BY <1>1 DEF Cursors
    <2>2. IsFiniteSet(reading.page) /\ Cardinality(reading.page) <= reading.size
      <3>1. reading.size \in Nat
        BY <1>6, PagingAssumption
      <3>2. IsFiniteSet({}) /\ Cardinality({}) = 0
        BY FS_EmptySet
      <3> QED
        BY <1>6, <3>1, <3>2
    <2>3. listed \in [ItemsOf(reading.list) -> Nat]
      BY <1>1
    <2> QED
      BY <1>1, <1>6, <1>7, <2>1, <2>2, <2>3 DEF ReadingIsSound
  <1>9. ListedIsBehind
    <2> SUFFICES ASSUME NEW list \in ListNames, reading.list = list, NEW i \in Still(list)
                 PROVE  listed[i] = 0
      BY DEF ListedIsBehind
    <2>1. i \in ItemsOf(list)
      BY StillAreItems
    <2> QED
      BY <1>7, <2>1
  <1>10. RestIsAhead
    BY <1>6 DEF RestIsAhead
  <1> QED
    BY <1>5, <1>8, <1>9, <1>10 DEF PagingInv

LEMMA PagingSteps == PagingInv /\ [PagingNext]_pagingVars => PagingInv'
  <1> SUFFICES ASSUME PagingInv, [PagingNext]_pagingVars PROVE PagingInv'
    OBVIOUS
  <1>1. CASE AskPage
    BY <1>1, AskKeeps
  <1>2. ASSUME NEW r \in ActivityRows, LogRow(r) PROVE PagingInv'
    BY <1>2, LogKeeps
  <1>3. ASSUME NEW r \in ActivityRows, DismissRow(r) PROVE PagingInv'
    BY <1>3, DismissKeeps
  <1>4. CASE UNCHANGED pagingVars
    <2>1. UNCHANGED <<rowState, touched>> /\ UNCHANGED <<reading, listed>>
      BY <1>4 DEF pagingVars
    <2>2. RowsAreSound'
      BY <2>1, RowsStay DEF PagingInv
    <2>3. ReadingIsSound'
      BY <2>1 DEF PagingInv, ReadingIsSound
    <2>4. \A list \in ListNames :
            /\ Still(list)' = Still(list) /\ ShouldHold(list)' = ShouldHold(list)
            /\ \A i : Marks(list, i)' = Marks(list, i)
      BY <2>1, RowsStay
    <2>5. ListedIsBehind'
      BY <2>1, <2>4 DEF PagingInv, ListedIsBehind
    <2>6. RestIsAhead'
      BY <2>1, <2>4 DEF PagingInv, RestIsAhead
    <2> QED
      BY <2>2, <2>3, <2>5, <2>6 DEF PagingInv
  <1> QED
    BY <1>1, <1>2, <1>3, <1>4 DEF PagingNext

LEMMA ListsFollow == PagingInv => ListsAreWhole
  <1> SUFFICES ASSUME PagingInv PROVE ListsAreWhole
    OBVIOUS
  <1>1. RowsAreSound /\ ReadingIsSound
    BY DEF PagingInv
  <1>2. DOMAIN listed = ItemsOf(reading.list) /\ reading.list \in ListNames /\ reading.partial = {}
    BY <1>1 DEF ReadingIsSound
  <1>3. PagingTypeOK
    BY <1>1, <1>2 DEF PagingTypeOK, ReadingIsSound, RowsAreSound
  <1>4. PICK list : list = reading.list
    OBVIOUS
  <1>5. Untouched(list) = Still(list)
    BY <1>2, <1>4, Zenon DEF Untouched, Still
  <1>6. \A i \in Untouched(list) : listed[i] <= 1
    BY <1>2, <1>4, <1>5 DEF PagingInv, ListedIsBehind
  <1>7. list # "withDeleted" /\ ~reading.more =>
          \A i \in ShouldHold(list) \cap Untouched(list) : listed[i] = 1
    BY <1>2, <1>4, <1>5 DEF PagingInv, RestIsAhead
  <1>8. UntouchedIsListedOnce
    BY <1>4, <1>6, <1>7, Zenon DEF UntouchedIsListedOnce
  <1> QED
    BY <1>2, <1>3, <1>8 DEF ListsAreWhole, WorkDaysAreWhole

\* A client who reads the activities, missions or work days of a user or of a
\* company page by page is given each item that nobody changed meanwhile, and
\* none of these twice, and no work day without all the rows it has, whatever
\* the rows, the size of the pages and the rows logged or cancelled between
\* two of them.
THEOREM ListsStayWhole == PagingSpec => []ListsAreWhole
  <1>1. PagingSpec => []PagingInv
    BY PagingStarts, PagingSteps, PTL DEF PagingSpec
  <1> QED
    BY <1>1, ListsFollow, PTL
=============================================================================
