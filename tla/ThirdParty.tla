----------------------------- MODULE ThirdParty -----------------------------
(***************************************************************************)
(* The software of a third party and one employee of one company: how the  *)
(* company lets the software in, how the software declares the employee,   *)
(* which creates the account, the employment and a link to accept, how     *)
(* the employee accepts the link by the mail he received, how either takes *)
(* the access back, and how the company ends, cancels and gives back an    *)
(* employment.  Requests of the software and of the mails read in one step *)
(* and commit in another; the tables of links have no constraint between   *)
(* rows.                                                                   *)
(***************************************************************************)
EXTENDS Integers, FiniteSets

CONSTANTS
  SyncServer,  \* the worker processes of the server
  MaxRows,   \* bound: the rows ever inserted in each table
  MaxMails   \* bound: the invitation tokens ever generated

ASSUME ThirdPartyAssumption == MaxRows \in Nat \ {0} /\ MaxMails \in Nat

VARIABLES
  software,     \* undismissed rows of third_party_client_company
  person,       \* status of the employee's account
  contracts,    \* table employment: the rows of the employee, by id
  clientLinks,  \* table third_party_client_employment, by id
  tokensMade,   \* the number of the last invitation token
  inbox,        \* the invitations that were delivered, by token
  serving,      \* what each worker is at
  givenBack,    \* history: the employments an administrator gave back
  lapsed,       \* history: the invitations that expired
  opened        \* history: the invitations that opened an access

thirdPartyVars == <<software, person, contracts, clientLinks, tokensMade,
                    inbox, serving, givenBack, lapsed, opened>>

-----------------------------------------------------------------------------
(* Rows.  A link without invitation_token has invite 0.  The address on an *)
(* employment is left out; an end is of today or of a day before (bound).  *)

RowId == 1..MaxRows

Contract == [status : {"pending", "approved", "rejected"},
             end : {"none", "today", "past"}, dismissed : BOOLEAN,
             admin : BOOLEAN]

ClientLink == [of : RowId, access : BOOLEAN, invite : 0..MaxMails,
               late : BOOLEAN, dismissed : BOOLEAN]

FreshLink(e, token) == [of |-> e, access |-> FALSE, invite |-> token,
                      late |-> FALSE, dismissed |-> FALSE]

NoTask == [task |-> "none"]

Tasks ==
  {NoTask}
    \cup [task : {"link"}, found : 0..1]
    \cup [task : {"sync"}, person : BOOLEAN, contract : {0} \cup RowId,
          link : {0} \cup RowId, renew : BOOLEAN, admin : BOOLEAN]
    \cup [task : {"accept"}, link : RowId, invite : 1..MaxMails]

\* What one_or_none returns, 0 for none; two rows raise.
OneOrNone(S) == IF S = {} THEN {0} ELSE IF Cardinality(S) = 1 THEN S ELSE {}

\* The rows create_employment_by_third_party_if_needed looks for.
Current == {e \in DOMAIN contracts :
              ~contracts[e].dismissed /\ contracts[e].end # "past"}

LinksOf(e) ==
  {l \in DOMAIN clientLinks :
     clientLinks[l].of = e /\ ~clientLinks[l].dismissed}

\* no_simultaneous_employments_for_the_same_company: rows begin in their
\* order, on the day they are inserted, and their last day counts.
NoneTwice(C) ==
  LET counts(e) == ~C[e].dismissed /\ C[e].status # "rejected"
  IN \A d, e \in DOMAIN C :
       d < e /\ counts(d) /\ counts(e) => C[d].end = "past"

\* check_protected_client_id_company_id.
LetsIn == software = 1

StartTask(w, t) == serving[w] = NoTask /\ serving' = [serving EXCEPT ![w] = t]

EndTask(w) == serving' = [serving EXCEPT ![w] = NoTask]

WithRow(f, x, v) == [y \in DOMAIN f \cup {x} |-> IF y = x THEN v ELSE f[y]]

-----------------------------------------------------------------------------
ThirdPartyInit ==
  /\ software = 0
  /\ person \in {"absent", "active"}
  /\ contracts = << >>
  /\ clientLinks = << >>
  /\ tokensMade = 0
  /\ inbox = {}
  /\ serving = [w \in SyncServer |-> NoTask]
  /\ givenBack = {}
  /\ lapsed = {}
  /\ opened = {}

(* The company.                                                            *)

\* link_company_to_software, called by GenerateCompanyToken and
\* CompanySoftwareRegistration; two undismissed rows make it raise.
BeginLinkCompany(w) ==
  /\ software <= 1
  /\ StartTask(w, [task |-> "link", found |-> software])
  /\ UNCHANGED <<software, person, contracts, clientLinks, tokensMade, inbox,
                 givenBack, lapsed, opened>>

CommitLinkCompany(w) ==
  /\ serving[w].task = "link"
  /\ software' = IF serving[w].found = 0 THEN software + 1 ELSE software
  /\ software' <= MaxRows
  /\ EndTask(w)
  /\ UNCHANGED <<person, contracts, clientLinks, tokensMade, inbox, givenBack,
                 lapsed, opened>>

DismissCompanyToken ==
  /\ software = 1
  /\ software' = 0
  /\ UNCHANGED <<person, contracts, clientLinks, tokensMade, inbox, serving,
                 givenBack, lapsed, opened>>

-----------------------------------------------------------------------------
(* SyncThirdPartyEmployees.                                                *)

\* The link was not accepted and its invitation expired.
NeedsRenewal(l) == ~clientLinks[l].access /\ clientLinks[l].late

\* A new account has no employment, a new employment no link; the software
\* says whether the employee administers.
BeginSync(w) ==
  /\ LetsIn
  /\ \E e \in OneOrNone(Current) :
       \E l \in OneOrNone(IF e = 0 THEN {} ELSE LinksOf(e)) :
       \E admin \in BOOLEAN :
         StartTask(w, [task |-> "sync", person |-> person = "absent",
                   contract |-> e, link |-> l,
                   renew |-> l # 0 /\ NeedsRenewal(l), admin |-> admin])
  /\ UNCHANGED <<software, person, contracts, clientLinks, tokensMade, inbox,
                 givenBack, lapsed, opened>>

ContractRow(status, admin) ==
  [status |-> status, end |-> "none", dismissed |-> FALSE, admin |-> admin]

Declared(admin) == ContractRow("pending", admin)

\* The rights of an employment that was found are overwritten, approved or
\* not.  The unique address of the account and the constraint on employments
\* hold for what is inserted.  Mails leave before the commit and may be
\* refused by Mailjet one by one, which send_batch does not report.
CommitSync(w) ==
  LET t == serving[w]
      e == IF t.contract = 0 THEN Cardinality(DOMAIN contracts) + 1
                             ELSE t.contract
      l == IF t.link = 0 THEN Cardinality(DOMAIN clientLinks) + 1 ELSE t.link
      token == tokensMade + 1
  IN /\ t.task = "sync"
     /\ t.person => person = "absent"
     /\ person' = IF t.person THEN "third_party" ELSE person
     /\ e \in RowId
     /\ contracts' = IF t.contract = 0
                       THEN WithRow(contracts, e, Declared(t.admin))
                       ELSE [contracts EXCEPT ![e].admin = t.admin]
     /\ NoneTwice(contracts')
     /\ l \in RowId
     /\ IF t.link = 0 \/ t.renew
          THEN /\ token <= MaxMails
               /\ tokensMade' = token
               /\ clientLinks' = WithRow(clientLinks, l,
                    IF t.link = 0 THEN FreshLink(e, token)
                    ELSE [clientLinks[l] EXCEPT !.invite = token,
                                                !.late = FALSE])
               /\ inbox' \in {inbox, inbox \cup {<<l, token>>}}
          ELSE UNCHANGED <<clientLinks, tokensMade, inbox>>
     /\ EndTask(w)
     /\ UNCHANGED <<software, givenBack, lapsed, opened>>

-----------------------------------------------------------------------------
(* The employee.                                                           *)

\* Seeded fault: fetch compares the invitation but not its age.
IsAcceptableLate(l, m) ==
  /\ LinksOf(clientLinks[l].of) = {l}
  /\ ~clientLinks[l].access
  /\ clientLinks[l].invite = m

\* fetch_third_party_employment_link.
IsAcceptable(l, m) ==
  /\ LinksOf(clientLinks[l].of) = {l}
  /\ ~clientLinks[l].access
  /\ clientLinks[l].invite = m
  /\ ~clientLinks[l].late

\* GenerateEmploymentToken, by the link of a mail, old mails included.
BeginAccept(w) ==
  /\ \E mail \in inbox :
       /\ IsAcceptable(mail[1], mail[2])
       /\ StartTask(w, [task |-> "accept", link |-> mail[1],
                    invite |-> mail[2]])
  /\ UNCHANGED <<software, person, contracts, clientLinks, tokensMade, inbox,
                 givenBack, lapsed, opened>>

\* activate_user and validate_employment: every employment that is not
\* approved is, refused and ended ones included.
CommitAccept(w) ==
  LET t == serving[w]
  IN /\ t.task = "accept"
     /\ clientLinks' = [clientLinks EXCEPT ![t.link].access = TRUE,
                                           ![t.link].invite = 0]
     /\ person' = IF person = "third_party" THEN "active" ELSE person
     /\ contracts' =
          [contracts EXCEPT ![clientLinks[t.link].of].status = "approved"]
     /\ NoneTwice(contracts')
     /\ opened' = opened \cup {t.invite}
     /\ EndTask(w)
     /\ UNCHANGED <<software, tokensMade, inbox, givenBack, lapsed>>

DismissEmploymentToken ==
  /\ \E l \in DOMAIN clientLinks :
       /\ LinksOf(clientLinks[l].of) = {l}
       /\ clientLinks' = [clientLinks EXCEPT ![l].dismissed = TRUE]
  /\ person = "active"
  /\ UNCHANGED <<software, person, contracts, tokensMade, inbox, serving,
                 givenBack, lapsed, opened>>

\* A request that raised or violates a constraint is rolled back.
RollBack(w) ==
  /\ serving[w] # NoTask
  /\ EndTask(w)
  /\ UNCHANGED <<software, person, contracts, clientLinks, tokensMade, inbox,
                 givenBack, lapsed, opened>>

-----------------------------------------------------------------------------
(* What others do meanwhile: the mutations on employments, and time.       *)

AnswerContract ==
  /\ person = "active"
  /\ \E e \in Current :
       /\ contracts[e].status = "pending"
       /\ \E s \in {"approved", "rejected"} :
            contracts' = [contracts EXCEPT ![e].status = s]
  /\ UNCHANGED <<software, person, clientLinks, tokensMade, inbox, serving,
                 givenBack, lapsed, opened>>

\* _terminate_single_employment.
EndContract ==
  /\ \E e \in DOMAIN contracts, day \in {"today", "past"} :
       /\ ~contracts[e].dismissed
       /\ contracts[e].status = "approved" /\ contracts[e].end = "none"
       /\ contracts' = [contracts EXCEPT ![e].end = day]
  /\ UNCHANGED <<software, person, clientLinks, tokensMade, inbox, serving,
                 givenBack, lapsed, opened>>

CancelContract ==
  /\ \E e \in DOMAIN contracts :
       /\ ~contracts[e].dismissed
       /\ contracts' = [contracts EXCEPT ![e].dismissed = TRUE]
  /\ UNCHANGED <<software, person, clientLinks, tokensMade, inbox, serving,
                 givenBack, lapsed, opened>>

DayGoesBy ==
  /\ \E e \in DOMAIN contracts : contracts[e].end = "today"
  /\ contracts' = [e \in DOMAIN contracts |->
                    [contracts[e] EXCEPT !.end = IF @ = "today" THEN "past"
                                                               ELSE @]]
  /\ UNCHANGED <<software, person, clientLinks, tokensMade, inbox, serving,
                 givenBack, lapsed, opened>>

(* ReattachEmployment: an administrator gives an employment back without   *)
(* the employee, whatever the state of his account.                        *)

\* The contracts cancelled and without an end.
CancelledContracts ==
  {e \in DOMAIN contracts :
     contracts[e].dismissed /\ contracts[e].end = "none"}

EndedOn(day) == {e \in DOMAIN contracts : contracts[e].end = day}

Attached ==
  {e \in DOMAIN contracts :
     /\ ~contracts[e].dismissed
     /\ contracts[e].end = "none" /\ contracts[e].status = "approved"}

\* A cancelled employment is approved, pending or refused as it may be; an
\* end of today is taken back; after an older one a new row is inserted.
ReattachContract ==
  /\ \E e \in RowId :
       /\ \/ /\ e \in CancelledContracts
             /\ contracts' = [contracts EXCEPT ![e].dismissed = FALSE,
                                               ![e].status = "approved"]
          \/ /\ CancelledContracts = {} /\ Attached = {}
             /\ e \in EndedOn("today")
             /\ contracts' = [contracts EXCEPT ![e].end = "none"]
          \/ /\ CancelledContracts = {} /\ Attached = {} /\ EndedOn("today") = {}
             /\ e = Cardinality(DOMAIN contracts) + 1
             /\ \E d \in EndedOn("past") :
                  contracts' =
                    WithRow(contracts, e,
                            ContractRow("approved", contracts[d].admin))
       /\ givenBack' = givenBack \cup {e}
  /\ NoneTwice(contracts')
  /\ UNCHANGED <<software, person, clientLinks, tokensMade, inbox, serving,
                 lapsed, opened>>

\* EMAIL_ACTIVATION_TOKEN_EXPIRATION has passed.
ExpireInvitation ==
  /\ \E l \in DOMAIN clientLinks :
       /\ clientLinks[l].invite # 0 /\ ~clientLinks[l].late
       /\ clientLinks' = [clientLinks EXCEPT ![l].late = TRUE]
       /\ lapsed' =
            IF \E w \in SyncServer : /\ serving[w].task = "accept"
                                 /\ serving[w].link = l
              THEN lapsed ELSE lapsed \cup {clientLinks[l].invite}
  /\ UNCHANGED <<software, person, contracts, tokensMade, inbox, serving,
                 givenBack, opened>>

-----------------------------------------------------------------------------
ThirdPartyNext ==
  \/ \E w \in SyncServer :
       \/ BeginLinkCompany(w) \/ CommitLinkCompany(w)
       \/ BeginSync(w) \/ CommitSync(w)
       \/ BeginAccept(w) \/ CommitAccept(w)
       \/ RollBack(w)
  \/ DismissCompanyToken
  \/ DismissEmploymentToken
  \/ AnswerContract
  \/ EndContract
  \/ CancelContract
  \/ DayGoesBy
  \/ ReattachContract
  \/ ExpireInvitation

ThirdPartySpec == ThirdPartyInit /\ [][ThirdPartyNext]_thirdPartyVars

-----------------------------------------------------------------------------
(* Properties.                                                             *)

ThirdPartyTypeOK ==
  /\ software \in 0..MaxRows
  /\ person \in {"absent", "third_party", "active"}
  /\ \E n \in 0..MaxRows : contracts \in [1..n -> Contract]
  /\ \E n \in 0..MaxRows : clientLinks \in [1..n -> ClientLink]
  /\ tokensMade \in 0..MaxMails
  /\ inbox \subseteq RowId \X (1..tokensMade)
  /\ serving \in [SyncServer -> Tasks]
  /\ givenBack \subseteq RowId
  /\ lapsed \cup opened \subseteq 1..tokensMade

\* A mail that was left unanswered until it expired opens no access, though
\* a later synchronisation gives the same link a new life: the invitation it
\* carries was replaced (fetch_third_party_employment_link,
\* create_third_party_employment_link_if_needed).
LapsedMailOpensNothing == opened \cap lapsed = {}

\* Nobody is attached by the software: while an employee whose account it
\* created has followed no mail, the software has no access to him, and the
\* only employments he is attached by are those an administrator of the
\* company gave back himself (GenerateEmploymentToken, ReattachEmployment).
NobodyIsAttachedUnasked ==
  person = "third_party" =>
    /\ \A e \in DOMAIN contracts :
         contracts[e].status = "approved" => e \in givenBack
    /\ \A l \in DOMAIN clientLinks : ~clientLinks[l].access

\* What a mail opens was asked for: one that expired before it was followed
\* opens nothing, and before any was followed the software has no access and
\* attached nobody, over synchronisations that overlap or are sent again and
\* employments that are ended, cancelled and given back between them.
AccessIsAsked ==
  /\ ThirdPartyTypeOK
  /\ LapsedMailOpensNothing
  /\ NobodyIsAttachedUnasked
=============================================================================
