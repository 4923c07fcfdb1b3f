------------------------------- MODULE Connect -------------------------------
(***************************************************************************)
(* Signing in through FranceConnect, for users, and through AgentConnect,  *)
(* for controllers: the way to the provider and back, the account found or *)
(* created for the identity it answers, and the cookies of the browser.    *)
(*                                                                         *)
(* The tabs of one browser share its cookies.  An account is committed in  *)
(* one transaction, its tokens in another, and the cookies of the response *)
(* reach the browser later still, in any order.  A provider's answer, a    *)
(* row of the tokens and a signature are as good as the step that follows  *)
(* them; a provider that fails ends the request.                           *)
(***************************************************************************)
EXTENDS Integers, Sequences, FiniteSets

CONSTANTS
  Citizen,       \* sub of FranceConnect, and who has it
  Agent,         \* who signs in with AgentConnect
  CardOf(_),     \* what AgentConnect says at first: sub, mail, unit, idp
  MailOf(_),     \* the address FranceConnect has of a citizen
  AllowedIdps,   \* PC_ALLOWED_IDP_IDS
  NoValue,       \* NULL, an empty string and a cookie that is not there
  InviteLink,
  SignInTab,
  MaxMoves,      \* bound: the changes of the directory
  MaxAccounts    \* bound: the accounts of each table

\* A value of AgentConnect is a name and a number, and the names of two agents
\* differ.
ASSUME ConnectAssumption ==
  /\ NoValue \notin {"user", "controller"}
  /\ \A a \in Agent :
       CardOf(a) = [sub |-> CardOf(a).sub, mail |-> CardOf(a).mail,
                    unit |-> CardOf(a).unit, idp |-> CardOf(a).idp,
                    moves |-> CardOf(a).moves]
  /\ \A a, b \in Agent : a # b =>
       /\ CardOf(a).sub[1] # CardOf(b).sub[1]
       /\ NoValue \notin {CardOf(a).mail, CardOf(b).mail} =>
            CardOf(a).mail[1] # CardOf(b).mail[1]

VARIABLES
  users,         \* table user: sub, mail, invite; and the invite asked for
  controllers,   \* table controller_user; and whose row it is
  directory,     \* what AgentConnect says of each agent
  cookies,       \* the cookies of the browser
  tabs           \* what each tab is waiting for

connectVars == <<users, controllers, directory, cookies, tabs>>

-----------------------------------------------------------------------------
(* Accounts and cookies.  `by` is history: who opened the session.         *)

NoSession == [kind |-> NoValue, id |-> 0, by |-> NoValue]

Session(kind, id, by) == [kind |-> kind, id |-> id, by |-> by]

EmptyJar == [session |-> NoSession, userId |-> 0, controllerId |-> 0,
             fct |-> NoValue, act |-> NoValue]

\* set_auth_cookies_helper.  What it is not given it leaves as it is.
WithCookies(jar, s, hint) ==
  [session |-> s,
   userId |-> IF s.kind = "user" THEN s.id ELSE jar.userId,
   controllerId |-> IF s.kind = "controller" THEN s.id ELSE jar.controllerId,
   fct |-> IF s.kind = "user" /\ hint # NoValue THEN hint ELSE jar.fct,
   act |-> IF s.kind = "controller" /\ hint # NoValue THEN hint ELSE jar.act]

\* unset_auth_cookies leaves the tokens of the providers.
WithoutCookies(jar) ==
  [jar EXCEPT !.session = NoSession, !.userId = 0, !.controllerId = 0]

Answer(s, hint) == [step |-> "answer", session |-> s, hint |-> hint]

Clearing == [step |-> "clear"]

Resting == [step |-> "rest"]

EnterTab(t, request) ==
  /\ tabs[t] = Resting
  /\ tabs' = [tabs EXCEPT ![t] = request]

Go(t, request) == tabs' = [tabs EXCEPT ![t] = request]

-----------------------------------------------------------------------------
ConnectInit ==
  /\ users \in {<<>>} \cup
       {<<[sub |-> NoValue, mail |-> MailOf(c), invite |-> NoValue,
           asked |-> NoValue]>> : c \in Citizen}
  /\ controllers = <<>>
  /\ directory = [a \in Agent |-> CardOf(a)]
  /\ cookies = EmptyJar
  /\ tabs = [t \in SignInTab |-> Resting]

(* The way to FranceConnect.  What the sign-in is for travels in the state, *)
(* which is signed and lives ten minutes.                                   *)

\* redirect_to_fc_authorize, as citizen c who is asked there who he is.
AuthorizeCitizen(t, c, create, invite) ==
  /\ EnterTab(t, [step |-> "away", who |-> c, create |-> create,
               invite |-> invite, expired |-> FALSE, asked |-> invite])
  /\ UNCHANGED <<users, controllers, directory, cookies>>

StateExpires(t) ==
  /\ tabs[t].step = "away"
  /\ ~tabs[t].expired
  /\ Go(t, [tabs[t] EXCEPT !.expired = TRUE])
  /\ UNCHANGED <<users, controllers, directory, cookies>>

\* Seeded fault: the sign-in is for what any tab went away for.
LatestState(t) ==
  LET away == {s \in SignInTab : tabs[s].step = "away"}
  IN tabs[CHOOSE s \in away : TRUE]

\* _build_jwt_state_data, decoded again.
StateOf(t) == tabs[t]

\* get_user_from_fc_info.
UserOf(c) == {i \in DOMAIN users : users[i].sub = c}

\* FranceConnectLogin up to its commit.  An account is found, or is about to
\* be inserted; a citizen without an address cannot have one.
LoginCitizen(t) ==
  LET state == StateOf(t)
      found == UserOf(tabs[t].who)
  IN /\ tabs[t].step = "away"
     /\ ~state.expired
     /\ found = {} => state.create /\ MailOf(tabs[t].who) # NoValue
     /\ found # {} /\ state.create =>
          \A i \in found : users[i].mail = NoValue
     /\ IF found = {}
        THEN Go(t, [step |-> "insert", kind |-> "user", who |-> tabs[t].who,
                    row |-> [sub |-> tabs[t].who,
                             mail |-> MailOf(tabs[t].who),
                             invite |-> state.invite,
                             asked |-> tabs[t].asked]])
        ELSE \E i \in found :
               Go(t, [step |-> "tokens", kind |-> "user", id |-> i,
                      who |-> tabs[t].who])
     /\ UNCHANGED <<users, controllers, directory, cookies>>

\* The unique constraints of table user.
IsTaken(row) ==
  \E i \in DOMAIN users : users[i].sub = row.sub \/ users[i].mail = row.mail

\* The commit of create_user.
InsertUser(t) ==
  /\ tabs[t].step = "insert" /\ tabs[t].kind = "user"
  /\ ~IsTaken(tabs[t].row)
  /\ Len(users) < MaxAccounts
  /\ users' = Append(users, tabs[t].row)
  /\ Go(t, [step |-> "tokens", kind |-> "user", id |-> Len(users) + 1,
            who |-> tabs[t].who])
  /\ UNCHANGED <<controllers, directory, cookies>>

-----------------------------------------------------------------------------
(* The way to AgentConnect. *)

\* redirect_to_ac_authorize.
AuthorizeAgent(t, a) ==
  /\ EnterTab(t, [step |-> "agent", who |-> a])
  /\ UNCHANGED <<users, controllers, directory, cookies>>

\* get_controller_from_ac_info: by sub, or else by address.
ControllerOf(card) ==
  LET same == {i \in DOMAIN controllers : controllers[i].sub = card.sub}
  IN IF same # {}
     THEN same
     ELSE {i \in DOMAIN controllers :
             card.mail # NoValue /\ controllers[i].mail = card.mail}

\* update_controller_user: neither the sub nor the address.
Updated(row, card) ==
  IF card.unit = NoValue THEN row ELSE [row EXCEPT !.unit = card.unit]

\* AgentConnectLogin up to its commit.  one_or_none raises when two rows have
\* the address; who has no unit cannot have a row.
LoginAgent(t) ==
  LET card == directory[tabs[t].who]
      found == ControllerOf(card)
  IN /\ tabs[t].step = "agent"
     /\ card.idp \in AllowedIdps
     /\ Cardinality(found) <= 1
     /\ found = {} => card.unit # NoValue
     /\ IF found = {}
        THEN /\ Go(t, [step |-> "insert", kind |-> "controller",
                       who |-> tabs[t].who,
                       row |-> [sub |-> card.sub, mail |-> card.mail,
                                unit |-> card.unit, of |-> tabs[t].who]])
             /\ UNCHANGED controllers
        ELSE \E i \in found :
               /\ controllers' = [controllers EXCEPT ![i] = Updated(@, card)]
               /\ Go(t, [step |-> "tokens", kind |-> "controller", id |-> i,
                         who |-> tabs[t].who])
     /\ UNCHANGED <<users, directory, cookies>>

\* The commit of create_controller_user: agent_connect_id is unique.
InsertController(t) ==
  /\ tabs[t].step = "insert" /\ tabs[t].kind = "controller"
  /\ \A i \in DOMAIN controllers : controllers[i].sub # tabs[t].row.sub
  /\ Len(controllers) < MaxAccounts
  /\ controllers' = Append(controllers, tabs[t].row)
  /\ Go(t, [step |-> "tokens", kind |-> "controller",
            id |-> Len(controllers) + 1, who |-> tabs[t].who])
  /\ UNCHANGED <<users, directory, cookies>>

-----------------------------------------------------------------------------
(* Tokens and responses. *)

\* create_access_tokens_for and create_access_tokens_for_controller.
CommitTokens(t) ==
  /\ tabs[t].step = "tokens"
  /\ Go(t, Answer(Session(tabs[t].kind, tabs[t].id, tabs[t].who),
                  tabs[t].who))
  /\ UNCHANGED <<users, controllers, directory, cookies>>

\* refresh_token and refresh_controller_token, for the session of the
\* cookies.  The new pair comes without a token of the provider.
Refresh(t) ==
  /\ cookies.session # NoSession
  /\ EnterTab(t, Answer(cookies.session, NoValue))
  /\ UNCHANGED <<users, controllers, directory, cookies>>

\* A refresh that is refused, and rest_logout, whatever becomes of it.
RefuseOrLogOut(t) ==
  /\ EnterTab(t, Clearing)
  /\ UNCHANGED <<users, controllers, directory, cookies>>

\* LoginMutation; the address of the account is enough here.
LoginByPassword(t) ==
  /\ \E i \in DOMAIN users :
       /\ users[i].sub = NoValue
       /\ EnterTab(t, Answer(Session("user", i, NoValue), NoValue))
  /\ UNCHANGED <<users, controllers, directory, cookies>>

Arrive(t) ==
  /\ \/ /\ tabs[t].step = "answer"
        /\ cookies' = WithCookies(cookies, tabs[t].session, tabs[t].hint)
     \/ /\ tabs[t].step = "clear"
        /\ cookies' = WithoutCookies(cookies)
  /\ Go(t, Resting)
  /\ UNCHANGED <<users, controllers, directory>>

\* The provider refuses the code, does not answer or signs with an unknown
\* key, a guard of the login refuses, or the tab is closed.
FailAtProvider(t) ==
  /\ tabs[t].step \in {"away", "agent"}
  /\ Go(t, Resting)
  /\ UNCHANGED <<users, controllers, directory, cookies>>

\* A constraint refuses the row, or the server stops: the account stays if it
\* was committed.
GiveUp(t) ==
  /\ tabs[t].step \in {"insert", "tokens"}
  /\ Go(t, Resting)
  /\ UNCHANGED <<users, controllers, directory, cookies>>

\* redirect_to_fc_logout: the provider is told to end the session of fct.
LogOutOfFranceConnect ==
  /\ cookies.fct # NoValue
  /\ cookies' = [cookies EXCEPT !.fct = NoValue]
  /\ UNCHANGED <<users, controllers, directory, tabs>>

\* redirect_to_ac_logout.
LogOutOfAgentConnect ==
  /\ cookies.act # NoValue
  /\ cookies' = [cookies EXCEPT !.act = NoValue]
  /\ UNCHANGED <<users, controllers, directory, tabs>>

\* A value of an agent, his name and a number.
Renewed(v) == IF v = NoValue THEN v ELSE <<v[1], v[2] + 1>>

\* An agent gets another identity provider's sub, another address or another
\* unit, while he is not signing in.  No address is given to somebody else.
Move(a) ==
  LET card == directory[a]
  IN /\ \A t \in SignInTab :
          tabs[t].step \in {"agent", "insert", "tokens"} => tabs[t].who # a
     /\ card.moves < MaxMoves
     /\ \E change \in {[card EXCEPT !.sub = Renewed(@)],
                       [card EXCEPT !.mail = Renewed(@)],
                       [card EXCEPT !.unit = NoValue]} :
          directory' = [directory EXCEPT
                          ![a] = [change EXCEPT !.moves = @ + 1]]
     /\ UNCHANGED <<users, controllers, cookies, tabs>>

ConnectNext ==
  \/ \E t \in SignInTab :
       \/ \E c \in Citizen, create \in BOOLEAN,
             invite \in InviteLink \cup {NoValue} :
            AuthorizeCitizen(t, c, create, invite)
       \/ StateExpires(t) \/ LoginCitizen(t) \/ InsertUser(t)
       \/ \E a \in Agent : AuthorizeAgent(t, a)
       \/ LoginAgent(t) \/ InsertController(t)
       \/ CommitTokens(t) \/ Refresh(t) \/ RefuseOrLogOut(t)
       \/ LoginByPassword(t) \/ Arrive(t)
       \/ FailAtProvider(t) \/ GiveUp(t)
  \/ LogOutOfFranceConnect \/ LogOutOfAgentConnect
  \/ \E a \in Agent : Move(a)

ConnectSpec == ConnectInit /\ [][ConnectNext]_connectVars

-----------------------------------------------------------------------------
(* Properties. *)

\* The rows and the cookies are of the kinds the columns allow, and a session
\* is of a row that exists.
ConnectTypeOK ==
  /\ \A i \in DOMAIN users :
       /\ users[i].sub \in Citizen \cup {NoValue}
       /\ {users[i].invite, users[i].asked} \subseteq InviteLink \cup {NoValue}
  /\ \A i \in DOMAIN controllers :
       controllers[i].of \in Agent /\ controllers[i].unit # NoValue
  /\ cookies.fct \in Citizen \cup {NoValue}
  /\ cookies.act \in Agent \cup {NoValue}
  /\ cookies.session.kind \in {"user", "controller", NoValue}
  /\ cookies.session.kind = "user" => cookies.session.id \in DOMAIN users
  /\ cookies.session.kind = "controller" =>
       cookies.session.id \in DOMAIN controllers

\* A session is of the account of who signed in: of the user with his
\* FranceConnect identity, though another account has his address, and of the
\* controller whose sub or address he had when the row was made, however the
\* tabs and the responses interleave.
SessionIsOfWhoSignedIn ==
  LET s == cookies.session
  IN /\ s.kind = "user" => users[s.id].sub = s.by
     /\ s.kind = "controller" => controllers[s.id].of = s.by

\* The cookie of the id, which the web application reads, names the account
\* of the tokens, whatever order the responses came in and whoever the
\* browser was signed in as before.
CookiesAgree ==
  LET s == cookies.session
  IN /\ s.kind = "user" => cookies.userId = s.id
     /\ s.kind = "controller" => cookies.controllerId = s.id

\* Two accounts have neither the address nor the identity in common, though
\* two sign-ins that found none may both go on to insert one.
AccountsAreDistinct ==
  \A i, j \in DOMAIN users : i # j =>
    /\ users[i].mail # users[j].mail
    /\ users[i].sub = users[j].sub => users[i].sub = NoValue

\* An agent who keeps his address over a change of identity provider keeps
\* his row, on which his controls hang: two rows of his differ in both.
AgentKeepsRow ==
  \A i, j \in DOMAIN controllers :
    i # j /\ controllers[i].of = controllers[j].of =>
      /\ controllers[i].sub # controllers[j].sub
      /\ controllers[i].mail = controllers[j].mail =>
           controllers[i].mail = NoValue

\* An account made by a sign-up uses the invitation the sign-up was begun
\* with, though other tabs went to FranceConnect meanwhile.
InvitationIsKept ==
  \A i \in DOMAIN users : users[i].invite = users[i].asked

\* Whoever signs in gets his own account, with cookies that agree and the
\* invitation he came with, and no account is made twice, over tabs and
\* responses in any order.
SignInIsSound ==
  /\ ConnectTypeOK
  /\ SessionIsOfWhoSignedIn
  /\ CookiesAgree
  /\ AccountsAreDistinct
  /\ AgentKeepsRow
  /\ InvitationIsKept
=============================================================================
