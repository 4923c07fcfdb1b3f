------------------------------ MODULE Account ------------------------------
(***************************************************************************)
(* The account of one user: how it is created, by a sign-up, by France     *)
(* Connect or by the software of a third party, how its address is         *)
(* activated and changed, how bad passwords and bad codes block it, and    *)
(* how a password is replaced.  Passwords and codes are tried by requests  *)
(* that read the counter in one step and write it in another, without a    *)
(* lock; the other requests do both at once.                               *)
(*                                                                         *)
(* Links that were mailed may expire, which is a link nobody follows.      *)
(***************************************************************************)
EXTENDS Integers, FiniteSets

CONSTANTS
  Address,
  Employer,     \* the address an employer sent an invitation link to
  LoginCall,    \* the requests with a password or a code served at once
  None,         \* SQL NULL
  MaxTries,     \* NB_BAD_PASSWORD_TRIES_BEFORE_BLOCKING
  MaxAttempts,  \* TOTP_MAX_ATTEMPTS
  MaxLinks,     \* bound: the activation links ever created
  MaxPasswords  \* bound: the passwords ever set

ASSUME EmployerAssumption == Employer \in Address /\ None \notin Address

ASSUME LimitAssumption == MaxTries \in Nat \ {0} /\ MaxAttempts \in Nat \ {0}

ASSUME AccountBounds == MaxLinks \in Nat /\ MaxPasswords \in Nat \ {0}

VARIABLES
  account,     \* the row of table user
  invitation,  \* the row of the invitation: the address and who is bound
  totp,        \* table totp_credential
  mailed,      \* the activation links in the mail boxes
  resets,      \* the password each reset link was made for
  links,       \* how many activation links were created
  login,       \* the columns each login is about to write
  code,        \* the code each request looked at, and what it had read
  tried,       \* history: bad passwords since a good or a new one
  misses,      \* history: bad codes since a good one or a pause
  proven,      \* history: the addresses that showed they read their mail
  trusted      \* history: the address taken from an invitation

tryVars == <<totp, code, tried, misses>>

mailVars == <<mailed, resets, links>>

history == <<proven, trusted>>

accountVars ==
  <<account, invitation, tryVars, mailVars, login, history>>

-----------------------------------------------------------------------------
(* Rows.  The first password is 1, a row without password has 0; a row     *)
(* without activation_email_token has link 0.                              *)

Absent == [status |-> "absent", email |-> None, link |-> 0,
           confirmed |-> FALSE, activated |-> FALSE, connect |-> FALSE,
           password |-> 0, tries |-> 0]

Accounts ==
  [status : {"absent", "active", "blocked", "pending"},
   email : Address \cup {None}, link : 0..MaxLinks, confirmed : BOOLEAN,
   activated : BOOLEAN, connect : BOOLEAN, password : 0..MaxPasswords,
   tries : 0..MaxTries]

\* recent: the last failure is less than TOTP_RATE_LIMIT_WINDOW ago, which is
\* longer than a request.
Credential == [secret : BOOLEAN, enabled : BOOLEAN,
               failed : 0..MaxAttempts, recent : BOOLEAN]

\* What a request that looked at a code has read.
Attempt == [good : BOOLEAN, read : 0..MaxAttempts, recent : BOOLEAN]

\* How many were bad, and how many failures another write then erased.
NoMisses == [bad |-> 0, lost |-> 0]

Missed(m, read, now) ==
  [bad |-> m.bad + 1, lost |-> m.lost + IF now > read THEN now - read ELSE 0]

Exists == account.status # "absent"

Link(a, n) == [to |-> a, token |-> n]

\* User.create_activation_link.
NewLink(r) == [r EXCEPT !.link = links + 1, !.activated = FALSE]

\* Employment.bind writes the address of the user on the invitation.
BoundTo(a) == [email |-> a, bound |-> TRUE]

-----------------------------------------------------------------------------
AccountInit ==
  /\ account = Absent
  /\ invitation = [email |-> Employer, bound |-> FALSE]
  /\ totp = [secret |-> FALSE, enabled |-> FALSE, failed |-> 0,
             recent |-> FALSE]
  /\ code = [p \in LoginCall |-> <<>>]
  /\ tried = NoMisses
  /\ misses = NoMisses
  /\ mailed = {}
  /\ resets = {}
  /\ links = 0
  /\ login = [p \in LoginCall |-> <<>>]
  /\ proven = {}
  /\ trusted = {}

(* Creation. *)

\* UserSignUp.  The row, with a link, is committed before the mail is sent;
\* the mail may fail, or the server stop.
SignUpAlone(a) ==
  /\ ~Exists
  /\ links < MaxLinks
  /\ account' = NewLink([Absent EXCEPT !.status = "active", !.email = a,
                                       !.confirmed = TRUE, !.password = 1])
  /\ links' = links + 1
  /\ mailed' \in {mailed, mailed \cup {Link(a, links + 1)}}
  /\ invitation' = IF invitation.email = a THEN BoundTo(a) ELSE invitation
  /\ UNCHANGED <<tryVars, resets, login, history>>

\* UserSignUp by the link of an invitation.  The employment is bound to the
\* new user before its address is compared with the address of the user: they
\* are equal, and the account is activated, unless the server stops first.
SignUpByLink(a) ==
  LET row == NewLink([Absent EXCEPT !.status = "active", !.email = a,
                                    !.confirmed = TRUE, !.password = 1])
  IN /\ ~Exists /\ ~invitation.bound
     /\ links < MaxLinks
     /\ links' = links + 1
     /\ invitation' = BoundTo(a)
     /\ proven' = proven \cup {invitation.email}
     /\ trusted' = trusted \cup {a}
     /\ account' \in {row, [row EXCEPT !.activated = TRUE, !.link = 0]}
     /\ UNCHANGED mailed
     /\ UNCHANGED <<tryVars, resets, login>>

\* FranceConnectLogin with create: no password and nothing confirmed.
SignUpByConnect(a) ==
  /\ ~Exists
  /\ account' = [Absent EXCEPT !.status = "active", !.email = a,
                               !.connect = TRUE]
  /\ invitation' = IF invitation.email = a THEN BoundTo(a) ELSE invitation
  /\ UNCHANGED <<tryVars, mailVars, login, history>>

\* create_user_by_third_party_if_needed; the software mails a link.
CreateByThirdParty(a) ==
  /\ ~Exists
  /\ account' = [Absent EXCEPT !.status = "pending", !.email = a]
  /\ UNCHANGED <<invitation, tryVars, mailVars, login, history>>

(* The address. *)

\* ConfirmFranceConnectEmail, while there is no password.
ConfirmConnectEmail(a, password) ==
  /\ account.connect /\ account.password = 0
  /\ links < MaxLinks
  /\ account' = NewLink([account EXCEPT !.email = a, !.confirmed = TRUE,
                                        !.password = password])
  /\ links' = links + 1
  /\ mailed' \in {mailed, mailed \cup {Link(a, links + 1)}}
  /\ UNCHANGED <<invitation, tryVars, resets, login, history>>

\* ChangeEmail: the mail is sent inside the transaction.  The invitation of
\* the new address is bound in another one, which may fail.
ChangeEmail(a) ==
  /\ Exists /\ account.email # a
  /\ links < MaxLinks
  /\ account' = NewLink([account EXCEPT !.email = a, !.confirmed = TRUE])
  /\ links' = links + 1
  /\ mailed' = mailed \cup {Link(a, links + 1)}
  /\ invitation' \in {invitation, IF invitation.email = a THEN BoundTo(a)
                                                        ELSE invitation}
  /\ UNCHANGED <<tryVars, resets, login, history>>

\* ResendActivationEmail: an account without a link gets one.
ResendActivationEmail ==
  /\ Exists
  /\ account.link = 0 => links < MaxLinks
  /\ account' = IF account.link = 0 THEN NewLink(account) ELSE account
  /\ links' = IF account.link = 0 THEN links + 1 ELSE links
  /\ mailed' = mailed \cup {Link(account.email, account'.link)}
  /\ UNCHANGED <<invitation, tryVars, resets, login, history>>

\* ActivateEmail: the link stays valid.
ActivateEmail(l) ==
  /\ l \in mailed
  /\ l.to = account.email
  /\ l.token = account.link /\ account.link # 0
  /\ account' = [account EXCEPT !.activated = TRUE]
  /\ proven' = proven \cup {l.to}
  /\ UNCHANGED <<invitation, tryVars, mailVars, login, trusted>>

\* Seeded fault: a blocked account is active again.
ActivatedAnyway(r) ==
  [r EXCEPT !.confirmed = TRUE, !.activated = TRUE, !.status = "active",
            !.tries = 0]

\* activate_user.
Activated(r) ==
  [r EXCEPT !.confirmed = TRUE, !.activated = TRUE,
            !.status = IF r.status = "pending" THEN "active" ELSE r.status]

\* GenerateEmploymentToken, once the user followed the link of the software.
ActivateByThirdParty ==
  /\ Exists
  /\ account' = Activated(account)
  /\ trusted' = trusted \cup {account.email}
  /\ UNCHANGED <<invitation, tryVars, mailVars, login, proven>>

(* Passwords. *)

\* change_user_password.
NewPassword(r) ==
  [r EXCEPT !.password = r.password + 1, !.tries = 0, !.status = "active"]

RequestPasswordReset ==
  /\ Exists
  /\ resets' = resets \cup {account.password}
  /\ UNCHANGED <<account, invitation, tryVars, mailed, links, login,
                 history>>

\* ResetPassword: the link holds the hash of the password it replaces.
ResetPassword(h) ==
  /\ h \in resets /\ h = account.password
  /\ account.password < MaxPasswords
  /\ account' = NewPassword(account)
  /\ tried' = NoMisses
  /\ UNCHANGED <<invitation, totp, code, misses, mailVars, login, history>>

\* ResetPasswordConnected, of whoever is logged in.
ResetPasswordConnected ==
  /\ Exists
  /\ account.password < MaxPasswords
  /\ account' = NewPassword(account)
  /\ tried' = NoMisses
  /\ UNCHANGED <<invitation, totp, code, misses, mailVars, login, history>>

(* Logins.  Only the columns that changed are written.                     *)

MayTry(p) ==
  /\ login[p] = <<>>
  /\ Exists /\ account.password # 0
  /\ account.status # "blocked"

\* increment_user_password_tries.
Increment(r) ==
  IF r.tries + 1 >= MaxTries
    THEN [tries |-> r.tries + 1, status |-> "blocked"]
    ELSE [tries |-> r.tries + 1]

BadPassword(p) ==
  /\ MayTry(p)
  /\ login' = [login EXCEPT ![p] = Increment(account)]
  /\ UNCHANGED <<account, invitation, tryVars, mailVars, history>>

\* With a second factor the counter is set back in a session nobody commits.
GoodPassword(p) ==
  /\ MayTry(p)
  /\ ~totp.enabled
  /\ account.tries # 0
  /\ login' = [login EXCEPT ![p] = [tries |-> 0]]
  /\ UNCHANGED <<account, invitation, tryVars, mailVars, history>>

\* A bad password writes one more than it read, a good one nothing but 0.
CommitLogin(p) ==
  /\ login[p] # <<>>
  /\ account' = [f \in DOMAIN account |->
                   IF f \in DOMAIN login[p] THEN login[p][f] ELSE account[f]]
  /\ tried' = IF login[p].tries = 0 THEN NoMisses
              ELSE Missed(tried, login[p].tries - 1, account.tries)
  /\ login' = [login EXCEPT ![p] = <<>>]
  /\ UNCHANGED <<invitation, totp, code, misses, mailVars, history>>

\* The mail on the block is sent before the commit: if it fails, nothing is
\* written.
AbandonLogin(p) ==
  /\ login[p] # <<>>
  /\ login' = [login EXCEPT ![p] = <<>>]
  /\ UNCHANGED <<account, invitation, tryVars, mailVars, history>>

(* The second factor, of support staff.                                    *)

SetupTotp ==
  /\ Exists
  /\ totp' = [totp EXCEPT !.secret = TRUE, !.enabled = FALSE]
  /\ UNCHANGED <<account, invitation, code, tried, misses, mailVars, login,
                 history>>

VerifyTotp ==
  /\ totp.secret /\ ~totp.enabled
  /\ totp' = [totp EXCEPT !.enabled = TRUE]
  /\ UNCHANGED <<account, invitation, code, tried, misses, mailVars, login,
                 history>>

IsLimited == totp.failed >= MaxAttempts /\ totp.recent

\* After the window the count starts again, not before.
Counted(failed) == IF failed >= MaxAttempts THEN 0 ELSE failed

\* ValidateTOTPLogin looks at the code of an account it read.
ValidateTotpLogin(p, good) ==
  /\ code[p] = <<>>
  /\ totp.secret
  /\ ~IsLimited
  /\ code' = [code EXCEPT ![p] = [good |-> good, read |-> totp.failed,
                                  recent |-> totp.recent]]
  /\ UNCHANGED <<account, invitation, totp, tried, misses, mailVars, login,
                 history>>

\* The failures of this window, as they were read or are.
InWindow(failed, recent) == IF recent THEN failed ELSE 0

\* It writes what it counted, and answers; a good code found without failure
\* changes no column.
CommitCode(p) ==
  LET c == code[p]
  IN /\ c # <<>>
     /\ totp' = IF ~c.good
                  THEN [totp EXCEPT !.failed = Counted(c.read) + 1,
                                    !.recent = TRUE]
                ELSE IF c.read = 0 THEN totp
                  ELSE [totp EXCEPT !.failed = 0, !.recent = FALSE]
     /\ misses' = IF c.good THEN NoMisses
                  ELSE Missed(misses, InWindow(c.read, c.recent),
                              InWindow(totp.failed, totp.recent))
     /\ code' = [code EXCEPT ![p] = <<>>]
     /\ UNCHANGED <<account, invitation, tried, mailVars, login, history>>

\* The request dies before it answers.
AbandonCode(p) ==
  /\ code[p] # <<>>
  /\ code' = [code EXCEPT ![p] = <<>>]
  /\ UNCHANGED <<account, invitation, totp, tried, misses, mailVars, login,
                 history>>

WindowPasses ==
  /\ totp.recent
  /\ totp' = [totp EXCEPT !.recent = FALSE]
  /\ misses' = NoMisses
  /\ UNCHANGED <<account, invitation, code, tried, mailVars, login, history>>

-----------------------------------------------------------------------------
CreateAccount ==
  \E a \in Address :
    \/ SignUpAlone(a) \/ SignUpByLink(a)
    \/ SignUpByConnect(a) \/ CreateByThirdParty(a)

ChangeAddress ==
  \/ \E a \in Address :
       ChangeEmail(a) \/ \E pw \in {0, 1} : ConfirmConnectEmail(a, pw)
  \/ ResendActivationEmail
  \/ \E l \in mailed : ActivateEmail(l)
  \/ ActivateByThirdParty

ChangePassword ==
  \/ RequestPasswordReset
  \/ \E h \in resets : ResetPassword(h)
  \/ ResetPasswordConnected

LogIn ==
  \E p \in LoginCall :
    BadPassword(p) \/ GoodPassword(p) \/ CommitLogin(p) \/ AbandonLogin(p)

SecondFactor ==
  \/ SetupTotp \/ VerifyTotp \/ WindowPasses
  \/ \E p \in LoginCall :
       \/ \E good \in BOOLEAN : ValidateTotpLogin(p, good)
       \/ CommitCode(p) \/ AbandonCode(p)

AccountNext ==
  CreateAccount \/ ChangeAddress \/ ChangePassword \/ LogIn \/ SecondFactor

AccountSpec == AccountInit /\ [][AccountNext]_accountVars

-----------------------------------------------------------------------------
(* Properties.                                                             *)

AccountTypeOK ==
  /\ account \in Accounts
  /\ totp \in Credential
  /\ code \in [LoginCall -> {<<>>} \cup Attempt]
  /\ mailed \subseteq [to : Address, token : 1..MaxLinks]
  /\ resets \subseteq 0..MaxPasswords
  /\ proven \subseteq Address

\* An address is activated only when somebody followed a link mailed to it,
\* came with an invitation, or was vouched for by a software: changes of the
\* address, links mailed again, late links and failed mails never leave the
\* account activated under another one.
ActivatedIsTrusted ==
  account.activated => account.email \in proven \cup trusted

\* A blocked account stays blocked until its password is replaced: neither a
\* login that read it before, nor an activation, nor a new address gives it
\* back (LoginMutation, BlockedAccountError).
BlockedUntilNewPassword ==
  [][account.status = "blocked" /\ account'.status # "blocked" =>
       account'.password # account.password]_accountVars

\* The counter of bad passwords and the block agree whatever logins overlap:
\* an account that is not blocked may still be tried.
UnblockedHasTriesLeft ==
  Exists /\ account.status # "blocked" => account.tries < MaxTries

\* No more bad passwords are counted before a good or a new one than block an
\* account, but for those that a login served at the same time wrote over
\* (increment_user_password_tries reads and writes without a lock).
BadPasswordsAreLimited == tried.bad <= MaxTries + tried.lost

\* No more than TOTP_MAX_ATTEMPTS bad codes are counted before a good one or
\* a pause of TOTP_RATE_LIMIT_WINDOW, over any number of logins and of new
\* secrets, but for those that a request served at the same time wrote over
\* (ValidateTOTPLogin reads and writes without a lock).
BadCodesAreLimited == misses.bad <= MaxAttempts + misses.lost

\* An account is activated, blocked and given back for its reasons alone, and
\* bad passwords and codes stay within the limits as far as the counters were
\* not written over, over links mailed again and logins that overlap.
AccountIsGuarded ==
  /\ []AccountTypeOK
  /\ []ActivatedIsTrusted
  /\ []UnblockedHasTriesLeft
  /\ []BadPasswordsAreLimited
  /\ []BadCodesAreLimited
  /\ BlockedUntilNewPassword
=============================================================================
