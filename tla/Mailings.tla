------------------------------ MODULE Mailings ------------------------------
(***************************************************************************)
(* The daily campaigns of e-mails (jobs/emails/bizdev), the table email    *)
(* that remembers what was sent, and the requests that change, while the   *)
(* job runs, what its queries look for.                                    *)
(*                                                                         *)
(* A company has one administrator, employed since day 0; its staff is     *)
(* invited by e-mail.  A user is known by an address.  The job asks one    *)
(* query a campaign, then sends to each row it got: a mail that Mailjet    *)
(* accepts is recorded and committed, one that it refuses is skipped, and  *)
(* the job may stop at any point, between a mail and its commit included.  *)
(***************************************************************************)
EXTENDS Integers, Sequences, FiniteSets

CONSTANTS
  MailCompany,      \* bound: the companies that are written to, those of
                    \* COMPANY_EXCLUDE_ONBOARDING_EMAILS left out
  Staff,            \* bound: the identifiers of the staff's employments
  FirmOf,             \* the company of each of Staff
  Mailbox,          \* the address of each of Staff
  LastMailDay,      \* bound: the days are 0..LastMailDay
  MaxResent,        \* bound: the activation mails a user asks for again
  StaffDelay,       \* days before an invitation is recalled: 3 in the code
  FirstDelay,       \* days before a company is written to: 2 or 7
  ReminderDelay,    \* days before it is reminded: 7
  PendingDelay,     \* days before its administrators hear of a recall: 2
  SecondDay,        \* the day of the first activation reminder: 2
  FourthDay         \* the day of the last one: 4

VARIABLES
  mailDay,     \* date.today()
  invitees,       \* the rows of table employment
  accounts,    \* the users, by address
  active,      \* the companies with a mission
  emails,      \* the rows of table email
  mailJob,     \* the campaign the job runs, whom it still writes to
  recalled,    \* the recalls that have left and are not committed
  unsent,      \* those that were refused, to be deleted at the commit
  letters      \* history: how many mails of a type have left for an address

held == <<recalled, unsent>>

mailingVars ==
  <<mailDay, invitees, accounts, active, emails, mailJob, held, letters>>

Addresses == {Mailbox[e] : e \in Staff}

MailDays == 0..LastMailDay

\* What each method of Mailer records; all but the recalls commit at once.
OnboardingMail == "worker_onboarding_second_info"
NoInvitationMail == "company_without_any_invitation"
NoActivityMail == "company_without_activity"
NoActivityReminder == "company_without_activity_reminder"
NoInvitationReminder == "company_reminder_no_invitation"
RecallMail == "scheduled_invitation"
PendingMail == "company_pending_invitation"
D2Mail == "activation_reminder_employee_d2"
D4Mail == "activation_reminder_employee_d4"
InvitationMail == "invitation"
ActivationMail == "account_activation"

\* send_daily_emails, in its order.
CampaignTypes ==
  <<OnboardingMail, NoInvitationMail, NoActivityMail, NoActivityReminder,
    NoInvitationReminder, RecallMail, PendingMail, D2Mail, D4Mail>>

EmailTypes == {CampaignTypes[n] : n \in 1..Len(CampaignTypes)}
              \cup {InvitationMail, ActivationMail}

NoUser == "nobody"

Posts == EmailTypes \X (Addresses \cup MailCompany)

ASSUME MailAssumption ==
  /\ IsFiniteSet(Staff)
  /\ NoUser \notin Addresses
  /\ LastMailDay \in Nat
  /\ FirstDelay \in Nat \ {0}

-----------------------------------------------------------------------------
(* What table email says.                                                  *)

\* The Email that Mailer.send_batch inserts for the mail of this rank among
\* those of its type and address.  A company stands for the employment and the
\* address of its administrator.
EmailSent(type, address, employment, rank) ==
  [type |-> type, address |-> address, employment |-> employment,
   day |-> mailDay, rank |-> rank]

WrittenTo(type, address) ==
  \E m \in emails : m.type = type /\ m.address = address

WrittenBefore(type, address, day) ==
  \E m \in emails : m.type = type /\ m.address = address /\ m.day <= day

WrittenOn(type, address, day) ==
  \E m \in emails : m.type = type /\ m.address = address /\ m.day = day

-----------------------------------------------------------------------------
(* The queries.  A cancelled employment keeps its row and its status.      *)

StaffOf(c) == {e \in Staff : FirmOf[e] = c /\ invitees[e].state # "none"}

Unanswered(e) == invitees[e].state = "pending" /\ invitees[e].user = NoUser

\* Both users of one day are found; the loop of the job skips the second.
Onboarded ==
  {e \in Staff :
     /\ invitees[e].state = "approved" /\ ~invitees[e].dismissed
     /\ FirmOf[e] \in MailCompany
     /\ invitees[e].validated = mailDay - FirstDelay
     /\ ~WrittenTo(OnboardingMail, invitees[e].user)}

CompaniesWithoutStaff == {c \in MailCompany : StaffOf(c) = {}}

WithoutInvitations ==
  {c \in CompaniesWithoutStaff :
     /\ mailDay >= FirstDelay
     /\ ~WrittenTo(NoInvitationMail, c)}

\* Seeded fault: the date of the invitation is not looked at.
WithoutActivityAtOnce ==
  {c \in MailCompany \ active :
     StaffOf(c) # {} /\ ~WrittenTo(NoActivityMail, c)}

WithoutActivity ==
  {c \in MailCompany \ active :
     /\ \E e \in StaffOf(c) : invitees[e].created <= mailDay - FirstDelay
     /\ ~WrittenTo(NoActivityMail, c)}

StillWithoutActivity ==
  {c \in MailCompany \ active :
     /\ WrittenBefore(NoActivityMail, c, mailDay - ReminderDelay)
     /\ ~WrittenTo(NoActivityReminder, c)}

StillWithoutInvitations ==
  {c \in CompaniesWithoutStaff :
     /\ WrittenBefore(NoInvitationMail, c,
                      mailDay - ReminderDelay)
     /\ ~WrittenTo(NoInvitationReminder, c)}

\* The invitation is looked for by address: another company's counts.
InvitedLongAgo ==
  {e \in Staff :
     /\ Unanswered(e)
     /\ WrittenBefore(InvitationMail, Mailbox[e], mailDay - StaffDelay)
     /\ ~WrittenTo(RecallMail, Mailbox[e])}

\* DISTINCT ON (address): one employment of each address, any of them.
OneEach(found) ==
  {picked \in SUBSET found :
     \A e \in found : Cardinality({p \in picked : Mailbox[p] = Mailbox[e]}) = 1}

\* The addresses recalled long enough ago, then the companies where one of
\* them is still expected: not always the company that recalled it.
PendingInvitations ==
  {c \in MailCompany :
     /\ \E e \in Staff :
          /\ FirmOf[e] = c /\ Unanswered(e)
          /\ WrittenBefore(RecallMail, Mailbox[e],
                           mailDay - PendingDelay)
     /\ ~WrittenTo(PendingMail, c)}

\* What _find_users_for_activation_reminder asks of a user.
ToRemind(type, day) ==
  {a \in Addresses :
     /\ accounts[a].exists /\ ~accounts[a].activated
     /\ WrittenOn(ActivationMail, a, day)
     /\ ~WrittenTo(type, a)
     /\ \E e \in Staff : invitees[e].user = a /\ ~invitees[e].dismissed
     /\ ~\E e \in Staff, m \in emails :
           /\ invitees[e].user = a /\ m.employment = e /\ m.day >= day
           /\ m.type \in {InvitationMail, RecallMail}}

RemindersD2 == ToRemind(D2Mail, mailDay - SecondDay)

RemindersD4 ==
  {a \in ToRemind(D4Mail, mailDay - FourthDay) :
     WrittenTo(D2Mail, a)}

-----------------------------------------------------------------------------
MailingInit ==
  /\ mailDay = 0
  /\ invitees = [e \in Staff |-> [state |-> "none", created |-> 0, validated |-> 0,
                               user |-> NoUser, dismissed |-> FALSE]]
  /\ accounts = [a \in Addresses |-> [exists |-> FALSE, activated |-> FALSE,
                                      since |-> 0]]
  /\ active = {}
  /\ emails = {}
  /\ mailJob = [campaign |-> 0, todo |-> {}, ran |-> FALSE]
  /\ recalled = {} /\ unsent = {}
  /\ letters = [k \in Posts |-> 0]

NoCampaign == [campaign |-> 0, todo |-> {}, ran |-> TRUE]

\* A mail leaves, for each of these types and addresses.
Leaves(ks) ==
  letters' = [k \in Posts |-> IF k \in ks THEN letters[k] + 1 ELSE letters[k]]

Record(type, address, employment) ==
  /\ Leaves({<<type, address>>})
  /\ emails' = emails \cup {EmailSent(type, address, employment,
                                     letters[<<type, address>>] + 1)}

\* A campaign asks its query once the one before has written to everyone.
Campaign(n, lists) ==
  /\ mailJob.campaign = n - 1 /\ mailJob.todo = {} /\ held = <<{}, {}>>
  /\ n = 1 => ~mailJob.ran
  /\ \E l \in lists : mailJob' = [campaign |-> n, todo |-> l, ran |-> TRUE]
  /\ UNCHANGED <<mailDay, invitees, accounts, active, emails, held, letters>>

SendOnboarding == Campaign(1, {Onboarded})

SendWithoutInvitation == Campaign(2, {WithoutInvitations})

SendWithoutActivities == Campaign(3, {WithoutActivity})

SendWithoutActivityReminder == Campaign(4, {StillWithoutActivity})

SendReminderNoInvitation == Campaign(5, {StillWithoutInvitations})

SendInvitationRecalls == Campaign(6, OneEach(InvitedLongAgo))

SendPendingInvitation == Campaign(7, {PendingInvitations})

SendActivationD2 == Campaign(8, {RemindersD2})

SendActivationD4 == Campaign(9, {RemindersD4})

EndDailyEmails ==
  /\ mailJob.campaign = Len(CampaignTypes) /\ mailJob.todo = {}
  /\ mailJob' = NoCampaign
  /\ UNCHANGED <<mailDay, invitees, accounts, active, emails, held, letters>>

Type == CampaignTypes[mailJob.campaign]

\* The second employment of a user written to in this run is passed over.
Recipient(to) == IF mailJob.campaign = 1 THEN invitees[to].user ELSE to

Skipped(to) ==
  mailJob.campaign = 1 /\ WrittenOn(Type, Recipient(to), mailDay)

SendNext(to, accepted) ==
  /\ mailJob.campaign \notin {0, 6} /\ to \in mailJob.todo
  /\ mailJob' = [mailJob EXCEPT !.todo = @ \ {to}]
  /\ IF accepted /\ ~Skipped(to) THEN Record(Type, Recipient(to), NoUser)
     ELSE UNCHANGED <<emails, letters>>
  /\ UNCHANGED <<mailDay, invitees, accounts, active, held>>

\* Mailjet has the mail, and the job dies before it commits the Email.
DiesUnrecorded(to) ==
  /\ mailJob.campaign \notin {0, 6} /\ to \in mailJob.todo /\ ~Skipped(to)
  /\ Leaves({<<Type, Recipient(to)>>})
  /\ mailJob' = NoCampaign
  /\ UNCHANGED <<mailDay, invitees, accounts, active, emails, held>>

Forgotten(e) == [invitees[e] EXCEPT !.state = "none", !.user = NoUser]

\* All the recalls in one transaction, their mails in batches before it.
SendInvitations(batch, refused) ==
  /\ mailJob.campaign = 6 /\ batch # {} /\ batch \subseteq mailJob.todo
  /\ refused \subseteq batch
  /\ Leaves({<<RecallMail, Mailbox[e]>> : e \in batch \ refused})
  /\ recalled' = recalled \cup (batch \ refused)
  /\ unsent' = unsent \cup refused
  /\ mailJob' = [mailJob EXCEPT !.todo = @ \ batch]
  /\ UNCHANGED <<mailDay, invitees, accounts, active, emails>>

\* An employment whose mail was refused is deleted, as it is by then, and its
\* mails no longer say whose they were.
CommitInvitations ==
  /\ mailJob.campaign = 6 /\ mailJob.todo = {} /\ held # <<{}, {}>>
  /\ invitees' = [e \in Staff |-> IF e \in unsent THEN Forgotten(e) ELSE invitees[e]]
  /\ emails' = {[m EXCEPT !.employment = IF @ \in unsent THEN NoUser ELSE @] :
                   m \in emails}
                \cup {EmailSent(RecallMail, Mailbox[e], e,
                                letters[<<RecallMail, Mailbox[e]>>]) : e \in recalled}
  /\ recalled' = {} /\ unsent' = {}
  /\ UNCHANGED <<mailDay, accounts, active, mailJob, letters>>

\* The job is killed, or a request for the recalls fails, which rolls them
\* back, those that have left included, and ends the command: the campaigns
\* that follow wait for the next day.
JobStops ==
  /\ mailJob.campaign > 0
  /\ mailJob' = NoCampaign
  /\ recalled' = {} /\ unsent' = {}
  /\ UNCHANGED <<mailDay, invitees, accounts, active, emails, letters>>

NewDay ==
  /\ mailJob.campaign = 0 /\ mailDay < LastMailDay
  /\ mailDay' = mailDay + 1
  /\ mailJob' = [mailJob EXCEPT !.ran = FALSE]
  /\ UNCHANGED <<invitees, accounts, active, emails, held, letters>>

-----------------------------------------------------------------------------
(* The requests.                                                           *)

Others == UNCHANGED <<mailDay, mailJob, held>>

\* A user that exists is attached at once; the mail goes out in the request.
SendInvitation(e) ==
  /\ invitees[e].state = "none"
  /\ invitees' = [invitees EXCEPT ![e] =
        [state |-> "pending", created |-> mailDay, validated |-> 0,
         user |-> IF accounts[Mailbox[e]].exists THEN Mailbox[e] ELSE NoUser,
         dismissed |-> FALSE]]
  /\ Record(InvitationMail, Mailbox[e], e)
  /\ UNCHANGED <<accounts, active>> /\ Others

Approve(e, a) ==
  [invitees[e] EXCEPT !.state = "approved", !.validated = mailDay, !.user = a]

\* Signing up with the token of the invitation accepts it and, the address
\* being the employer's, activates the account.
SignUpWithToken(e) ==
  LET a == Mailbox[e] IN
  /\ Unanswered(e) /\ ~invitees[e].dismissed /\ ~accounts[a].exists
  /\ accounts' = [accounts EXCEPT ![a] = [exists |-> TRUE, activated |-> TRUE,
                                          since |-> mailDay]]
  /\ invitees' = [invitees EXCEPT ![e] = Approve(e, a)]
  /\ UNCHANGED <<active, emails, letters>> /\ Others

\* Without it every employment of the address is bound, and a mail asks for
\* the activation.
SignUpAlone(a) ==
  /\ ~accounts[a].exists
  /\ accounts' = [accounts EXCEPT ![a].exists = TRUE]
  /\ invitees' = [e \in Staff |->
        IF Mailbox[e] = a /\ invitees[e].state # "none"
        THEN [invitees[e] EXCEPT !.user = a] ELSE invitees[e]]
  /\ Record(ActivationMail, a, NoUser)
  /\ UNCHANGED active /\ Others

ResendActivation(a) ==
  /\ accounts[a].exists /\ ~accounts[a].activated
  /\ Cardinality({m \in emails : m.type = ActivationMail /\ m.address = a})
       <= MaxResent
  /\ Record(ActivationMail, a, NoUser)
  /\ UNCHANGED <<invitees, accounts, active>> /\ Others

Activate(a) ==
  /\ accounts[a].exists /\ ~accounts[a].activated
  /\ accounts' = [accounts EXCEPT ![a].activated = TRUE, ![a].since = mailDay]
  /\ UNCHANGED <<invitees, active, emails, letters>> /\ Others

Accept(e) ==
  /\ invitees[e].state = "pending" /\ invitees[e].user # NoUser
  /\ ~invitees[e].dismissed /\ accounts[Mailbox[e]].activated
  /\ invitees' = [invitees EXCEPT ![e] = Approve(e, @.user)]
  /\ UNCHANGED <<accounts, active, emails, letters>> /\ Others

Cancel(e) ==
  /\ invitees[e].state # "none" /\ ~invitees[e].dismissed
  /\ invitees' = [invitees EXCEPT ![e].dismissed = TRUE]
  /\ UNCHANGED <<accounts, active, emails, letters>> /\ Others

FirstMission(e) ==
  /\ invitees[e].state = "approved" /\ ~invitees[e].dismissed
  /\ FirmOf[e] \notin active
  /\ active' = active \cup {FirmOf[e]}
  /\ UNCHANGED <<invitees, accounts, emails, letters>> /\ Others

MailingRequest ==
  \/ \E e \in Staff : SendInvitation(e) \/ SignUpWithToken(e) \/ Accept(e)
                      \/ Cancel(e) \/ FirstMission(e)
  \/ \E a \in Addresses : SignUpAlone(a) \/ ResendActivation(a) \/ Activate(a)

MailingJob ==
  \/ SendOnboarding \/ SendWithoutInvitation \/ SendWithoutActivities
  \/ SendWithoutActivityReminder \/ SendReminderNoInvitation
  \/ SendInvitationRecalls \/ SendPendingInvitation
  \/ SendActivationD2 \/ SendActivationD4
  \/ EndDailyEmails \/ JobStops \/ NewDay
  \/ \E to \in mailJob.todo, accepted \in BOOLEAN : SendNext(to, accepted)
  \/ \E to \in mailJob.todo : DiesUnrecorded(to)
  \/ \E batch, refused \in SUBSET mailJob.todo : SendInvitations(batch, refused)
  \/ CommitInvitations

MailingNext == MailingRequest \/ MailingJob

MailingSpec == MailingInit /\ [][MailingNext]_mailingVars

-----------------------------------------------------------------------------
(* Properties.                                                             *)

\* Every variable holds a value of its type; a bound employment is bound to
\* the user of its address, and only such an employment is approved.
MailingTypeOK ==
  /\ mailDay \in MailDays
  /\ invitees \in [Staff -> [state : {"none", "pending", "approved"},
                          created : MailDays, validated : MailDays,
                          user : Addresses \cup {NoUser}, dismissed : BOOLEAN]]
  /\ accounts \in [Addresses -> [exists : BOOLEAN, activated : BOOLEAN, since : MailDays]]
  /\ \A a \in Addresses : accounts[a].activated => accounts[a].exists
  /\ \A e \in Staff : invitees[e].user # NoUser =>
        invitees[e].user = Mailbox[e] /\ accounts[Mailbox[e]].exists
  /\ \A e \in Staff : invitees[e].state = "approved" => invitees[e].user # NoUser
  /\ \A m \in emails : /\ m.type \in EmailTypes /\ m.day \in MailDays
                      /\ m.address \in Addresses \cup MailCompany
                      /\ m.employment \in Staff \cup {NoUser}
  /\ mailJob.campaign \in 0..Len(CampaignTypes)
  /\ letters \in [Posts -> Nat]

\* No mail of a campaign leaves for somebody after one that was recorded:
\* who gets it again owes it to a run that died between the mail and the
\* commit, or to a request for recalls that failed after others had left
\* (send_invitation_emails).  Nor is a campaign recorded twice, whatever mails
\* are refused and however many employments an address has.
WrittenToOnce ==
  \A m \in emails :
    m.type \notin {InvitationMail, ActivationMail} =>
      /\ m.rank = letters[<<m.type, m.address>>]
      /\ \A n \in emails : m.type = n.type /\ m.address = n.address => m = n

\* No company is recorded to have been told on one day that it invited nobody
\* and that those it invited record nothing, though requests run between the
\* two campaigns.
OneStoryADay ==
  \A c \in MailCompany, d \in MailDays :
     ~(/\ WrittenOn(NoInvitationMail, c, d)
       /\ WrittenOn(NoActivityMail, c, d))

\* No reminder of the activation is recorded on the days after it was done.
NoReminderOnceActivated ==
  \A a \in Addresses, m \in emails :
     /\ m.address = a /\ accounts[a].activated
     /\ m.type \in {D2Mail,
                    D4Mail}
     => m.day <= accounts[a].since

\* Nobody is written to by a campaign after a mail of it was recorded, told
\* two stories on one day, or reminded of what he did, over runs that are cut
\* short and requests between two campaigns.
MailsAreFew ==
  /\ MailingTypeOK
  /\ WrittenToOnce
  /\ OneStoryADay
  /\ NoReminderOnceActivated
=============================================================================
