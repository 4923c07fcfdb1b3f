------------------------------ MODULE MCPeople ------------------------------
(***************************************************************************)
(* Who works for whom, who signs in, who acts for whom, and what other     *)
(* programs may see, on small instances.  Each behaviour works one scene,  *)
(* while what is not in it stays as it began, so one run explores them     *)
(* all: the scenes "employment" and "agreement" share the rows of table    *)
(* employment, the others have no state in common.                         *)
(***************************************************************************)
EXTENDS UserAgreement, Sessions, Account, ThirdParty, Connect, StaffRequests,
        Support, OAuth, TLC

CONSTANTS boss, worker, acme, e1, e2, e3, f1, g1, x1, x2, y1, y2, c1

VARIABLE scene

peopleVars ==
  <<vars, avars, sessionVars, accountVars, thirdPartyVars, connectVars,
    staffVars, supportVars, oauthVars, scene>>

Scenes == {"employment", "agreement", "session", "account",
           "software", "connect", "staff", "support", "oauth"}

-----------------------------------------------------------------------------
(* Constants. *)

FoundedByBoss == [c \in Company |-> boss]

\* Two agents, the second without an address.
Cards(a) ==
  [sub |-> <<IF a = g1 THEN "s1" ELSE "s2", 0>>,
   mail |-> IF a = g1 THEN <<"m1", 0>> ELSE NoValue,
   unit |-> IF a = g1 THEN "north" ELSE "south", idp |-> "police", moves |-> 0]

Mails(c) == IF c = f1 THEN "a" ELSE "b"

\* The requests and worker processes of every scene are x1 and x2, the browsers
\* y1 and y2.
ActorSymmetry == Permutations({x1, x2}) \cup Permutations({y1, y2})

-----------------------------------------------------------------------------
(* Bounds: the states each scene goes through. *)

\* Rows are inserted in order, the last one as a plain employment of this
\* day.
EmploymentIsSmall ==
  /\ employments[e3] # Null =>
       /\ employments[e2] # Null /\ ~employments[e2].admin
       /\ ~employments[e3].admin
       /\ employments[e3].start = today \/ employments[e3].end = Null
       /\ Cardinality(work) <= 1
  /\ scene = "agreement" =>
       /\ Cardinality(work) <= 1 /\ employments[e3] = Null
       /\ agreements[boss] # Null => agreements[worker] = Null
       /\ employments[e2] # Null => ~employments[e2].admin

\* Two links of the company to the software, a second contract, or one that was
\* given back, are met by one worker process at a time and one invitation.
SoftwareIsSmall ==
  software = 2 \/ 2 \in DOMAIN contracts \/ givenBack # {} =>
    /\ tokensMade <= 1
    /\ \E y \in SyncServer : serving[y] = NoTask

\* A second factor is tried on an account of one link and no reset, while
\* nobody signs in.  A second link, or a reset, is met by one login at a time,
\* both by none.
AccountIsSmall ==
  LET busy == Cardinality({l \in LoginCall : login[l] # <<>>})
  IN /\ totp.secret => /\ links < 2 /\ resets = {} /\ busy = 0
                       /\ account.password < 2 /\ ~account.connect
     /\ links = 2 \/ resets # {} => busy <= 1
     /\ links = 2 /\ resets # {} => busy = 0

\* Four rows are those of logins that nothing revoked.
SessionIsSmall ==
  created = 4 => /\ revoked = 0 /\ spent = {}
                 /\ \A x \in Server : request[x].step # "delete"

ConnectIsSmall ==
  /\ Len(users) + Len(controllers) <= 2
  /\ users # <<>> => directory[g1].moves = 0
  /\ \A a \in Agent \ {g1} : directory[a].moves = 0
  /\ directory[g1].moves = 2 => Len(controllers) <= 1
  /\ cookies.fct = NoValue \/ cookies.act = NoValue
  /\ controllers # <<>> \/ cookies # EmptyJar \/ Len(users) = 2 =>
       Cardinality({t \in SignInTab : tabs[t].step = "away"}) <= 1
  /\ directory[g1].moves = 2 => \E t \in SignInTab : tabs[t] = Resting
  /\ \A t \in SignInTab :
       tabs[t].step = "away" /\ tabs[t].expired =>
         ~tabs[t].create /\ \A u \in SignInTab \ {t} : tabs[u].step # "away"

\* What was asked of a company so far is of one kind.
Topic(k) == IF k \in {"details", "hire"} THEN "business" ELSE k

Topics ==
  {Topic(asks[q].kind) : q \in {q \in StaffRequest : asks[q].kind # "none"}}
    \cup {x \in {"remind"} : \E h \in Hire : IsHired(h) /\ hires[h].invited # Never}
    \cup {x \in {"detach"} : \E h \in Hire : told[h] # Never}
    \cup {x \in {"business"} : firm.workers # 0 \/ \E h \in Hire : meant[h] # "goods"}
    \cup {x \in {"edit"} : \E s \in Setting : firm.settings[s]}

StaffIsSmall ==
  /\ Cardinality(Topics) <= 1
  /\ served = MaxStaffRequests => ~IsHired("h2") \/ turn < LastTurn
  /\ IsHired("h2") => /\ hires["h2"].status = "pending" /\ ~hires["h2"].dismissed
                      /\ Topics \subseteq {"remind", "business"}
  /\ {"business", "edit"} \cap Topics # {} => turn = 0 /\ served <= 2
  /\ Topics # {} /\ Topics # {"detach"} =>
       \A h \in Hire : IsHired(h) => hires[h].worked = Never /\ hires[h].end = Never

SupportIsSmall ==
  /\ Cardinality({t \in Tab : call[t].step = "work"}) <= 1
  /\ \A t \in Tab : call[t].step = "work" /\ call[t].by = Nobody =>
       call[t].pending = {}
  /\ changes # {} => /\ guarded = Supporter
                     /\ \A a \in Supporter : revokedAt[a] = 0 /\ startedAt[a] = 0
                     /\ \E t \in Tab : call[t].step # "answer"
  /\ \A a \in Supporter :
       /\ revokedAt[a] \in {0, 1}
       /\ revokedAt[a] = 1 \/ startedAt[a] = LastTick =>
            \E t \in Tab : call[t].step = "none"

-----------------------------------------------------------------------------
\* What is not in the scene begins in one way.
PeopleInit ==
  /\ scene \in Scenes
  /\ AInit
  /\ SessionInit /\ AccountInit /\ ThirdPartyInit /\ ConnectInit /\ StaffInit
  /\ SupportInit /\ OAuthInit
  /\ employments[e1] # Null
  /\ scene # "software" => person = "active"
  /\ scene # "connect" => users = <<>>
  /\ scene # "staff" => /\ firm.business = "goods"
                        /\ \A h \in Hire : hires[h] = Unhired

\* The scene stays, and so does what is not in it.
Keep(scenes, componentVars) ==
  IF scene \in scenes THEN TRUE ELSE UNCHANGED componentVars

RestStays ==
  /\ UNCHANGED scene
  /\ Keep({"employment", "agreement"}, vars)
  /\ Keep({"agreement"}, avars)
  /\ Keep({"session"}, sessionVars) /\ Keep({"account"}, accountVars)
  /\ Keep({"software"}, thirdPartyVars) /\ Keep({"connect"}, connectVars)
  /\ Keep({"staff"}, staffVars) /\ Keep({"support"}, supportVars)
  /\ Keep({"oauth"}, oauthVars)

PeopleNext ==
  /\ RestStays
  /\ \/ scene = "employment" /\ Next /\ EmploymentIsSmall'
     \/ scene = "agreement" /\ ANext /\ EmploymentIsSmall'
     \/ scene = "session" /\ SessionNext /\ SessionIsSmall'
     \/ scene = "account" /\ AccountNext /\ AccountIsSmall'
     \/ scene = "software" /\ ThirdPartyNext /\ SoftwareIsSmall'
     \/ scene = "connect" /\ ConnectNext /\ ConnectIsSmall'
     \/ scene = "staff" /\ StaffNext /\ StaffIsSmall'
     \/ scene = "support" /\ SupportNext /\ SupportIsSmall'
     \/ scene = "oauth" /\ OAuthNext

PeopleSpec == PeopleInit /\ [][PeopleNext]_peopleVars

\* What tells two states apart: what is not in the scene never changes.
InScene ==
  <<scene,
    CASE scene = "employment" -> vars
      [] scene = "agreement" -> allVars
      [] scene = "session" -> sessionVars
      [] scene = "account" -> accountVars
      [] scene = "software" -> thirdPartyVars
      [] scene = "connect" -> connectVars
      [] scene = "staff" -> staffVars
      [] scene = "support" -> supportVars
      [] scene = "oauth" -> oauthVars>>
=============================================================================
