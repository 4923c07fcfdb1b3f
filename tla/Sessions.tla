------------------------------ MODULE Sessions ------------------------------
(***************************************************************************)
(* The refresh tokens of one user, or of one controller, whose table and   *)
(* functions are the same.  A browser presents its refresh token to get a  *)
(* new pair; the new row is committed first and the old one deleted in a   *)
(* second transaction.  At most MaxTokens rows are meant to stay.          *)
(*                                                                         *)
(* Rows are numbered in the order in which they are created.  A request    *)
(* reads the table in one step and commits in others; what it read may     *)
(* have changed by then, and deleting a row that is gone is no error.      *)
(***************************************************************************)
EXTENDS Integers, FiniteSets

CONSTANTS
  Browser,     \* what holds the tokens of one session
  Server,      \* the worker processes
  MaxTokens,   \* MAX_TOKENS_PER_USER
  MaxCreated   \* bound: the rows ever created

ASSUME TokenAssumption == MaxTokens \in Nat \ {0} /\ MaxCreated \in Nat
ASSUME ServerAssumption == IsFiniteSet(Server)

VARIABLES
  tokens,    \* table refresh_token: the numbers of its rows
  created,   \* the number of the last row
  holds,     \* the token of each browser, 0 for none
  revoked,   \* tokens issued up to this one fall before
             \* latest_token_revocation_time
  request,   \* what each server is at
  spent      \* history: the tokens whose refresh was completed

sessionVars == <<tokens, created, holds, revoked, request, spent>>

Token == 1..MaxCreated

-----------------------------------------------------------------------------
(* Requests.  Idle servers have no browser.                                *)

Nothing == [step |-> "idle"]

Creating(b, old, gone) ==
  [step |-> "create", browser |-> b, old |-> old, gone |-> gone]

Deleting(b, old, new, gone) ==
  [step |-> "delete", browser |-> b, old |-> old, new |-> new, gone |-> gone]

Requests ==
  {Nothing}
    \cup [step : {"create"}, browser : Browser, old : Token \cup {0},
          gone : SUBSET Token]
    \cup [step : {"delete"}, browser : Browser, old : Token \cup {0},
          new : Token \cup {0}, gone : SUBSET Token]

\* Seeded fault: the newest are deleted.
Newest(T) ==
  {t \in T : Cardinality({s \in T : s < t}) >= MaxTokens - 1}

\* The rows that create_refresh_token deletes: all but the MaxTokens - 1
\* newest.
Oldest(T) ==
  {t \in T : Cardinality({s \in T : s > t}) >= MaxTokens - 1}

\* The signature is valid and the user was not revoked since.
IsAccepted(t) == t # 0 /\ t > revoked

Enter(s, r) ==
  /\ request[s] = Nothing
  /\ request' = [request EXCEPT ![s] = r]

Leave(s) == request' = [request EXCEPT ![s] = Nothing]

-----------------------------------------------------------------------------
SessionInit ==
  /\ tokens = {}
  /\ created = 0
  /\ holds = [b \in Browser |-> 0]
  /\ revoked = 0
  /\ request = [s \in Server |-> Nothing]
  /\ spent = {}

\* A login by password, by a code or by France Connect, a sign-up and an
\* activation all end in create_access_tokens_for.
BeginLogin(s, b) ==
  /\ Enter(s, Creating(b, 0, Oldest(tokens)))
  /\ UNCHANGED <<tokens, created, holds, revoked, spent>>

\* refresh_token: the row of the token must be there.
BeginRefresh(s, b) ==
  /\ IsAccepted(holds[b])
  /\ holds[b] \in tokens
  /\ Enter(s, Creating(b, holds[b], Oldest(tokens)))
  /\ UNCHANGED <<tokens, created, holds, revoked, spent>>

\* Without its row a token is refused and the cookies of the browser go.
RefuseRefresh(b) ==
  /\ holds[b] # 0
  /\ ~IsAccepted(holds[b]) \/ holds[b] \notin tokens
  /\ holds' = [holds EXCEPT ![b] = 0]
  /\ UNCHANGED <<tokens, created, revoked, request, spent>>

\* A refresh has the old row still to delete.
AfterCreation(r, new) ==
  IF r.old = 0 THEN Nothing ELSE Deleting(r.browser, r.old, new, {r.old})

\* The first commit, of the new row and of the deletions.  The response of a
\* login follows it.
CommitCreation(s) ==
  LET r == request[s]
      new == created + 1
  IN /\ r.step = "create"
     /\ created < MaxCreated
     /\ created' = new
     /\ tokens' = (tokens \ r.gone) \cup {new}
     /\ request' = [request EXCEPT ![s] = AfterCreation(r, new)]
     /\ holds' = IF request'[s] = Nothing
                   THEN [holds EXCEPT ![r.browser] = new] ELSE holds
     /\ spent' = IF request'[s] = Nothing /\ r.old # 0
                   THEN spent \cup {r.old} ELSE spent
     /\ UNCHANGED revoked

\* The second commit of a refresh, or the only one of a logout, and the
\* response.
CommitDeletion(s) ==
  LET r == request[s]
  IN /\ r.step = "delete"
     /\ tokens' = tokens \ r.gone
     /\ holds' = [holds EXCEPT ![r.browser] = r.new]
     /\ spent' = IF r.old = 0 THEN spent ELSE spent \cup {r.old}
     /\ Leave(s)
     /\ UNCHANGED <<created, revoked>>

\* An error rolls back and clears the cookies; a server that dies or a lost
\* response leaves the browser as it was.
Abandon(s) ==
  /\ request[s] # Nothing
  /\ holds' \in {holds, [holds EXCEPT ![request[s].browser] = 0]}
  /\ Leave(s)
  /\ UNCHANGED <<tokens, created, revoked, spent>>

\* delete_refresh_token: the row of the token or, without one, every row.
BeginLogout(s, b) ==
  /\ IsAccepted(holds[b])
  /\ Enter(s, Deleting(b, 0, 0, IF holds[b] \in tokens THEN {holds[b]}
                                                       ELSE tokens))
  /\ UNCHANGED <<tokens, created, holds, revoked, spent>>

\* revoke_all_tokens, in the transaction that changes the password; the
\* browser that did it logs in again.  Rows that others commit meanwhile stay.
RevokeAllTokens ==
  /\ revoked' \in (revoked + 1)..created
  /\ tokens' \in SUBSET tokens
  /\ UNCHANGED <<created, holds, request, spent>>

-----------------------------------------------------------------------------
SessionNext ==
  \/ \E s \in Server, b \in Browser :
       BeginLogin(s, b) \/ BeginRefresh(s, b) \/ BeginLogout(s, b)
  \/ \E b \in Browser : RefuseRefresh(b)
  \/ \E s \in Server : CommitCreation(s) \/ CommitDeletion(s) \/ Abandon(s)
  \/ RevokeAllTokens

SessionSpec == SessionInit /\ [][SessionNext]_sessionVars

-----------------------------------------------------------------------------
(* Properties.                                                             *)

SessionTypeOK ==
  /\ tokens \subseteq 1..created
  /\ created \in 0..MaxCreated
  /\ holds \in [Browser -> 0..created]
  /\ revoked \in 0..created
  /\ request \in [Server -> Requests]
  /\ spent \subseteq 1..created

\* Requests that create tokens at once each count the rows without those of
\* the others: the limit of MAX_TOKENS_PER_USER is exceeded by one row for
\* each request beside the first and never further, whatever comes after.
TokensStayFew ==
  Cardinality(tokens) <= MaxTokens + Cardinality(Server) - 1

\* A token whose refresh was completed is not in the table any more, so no
\* refresh that begins later finds it, after crashes and lost responses
\* included.  Two refreshes of one token that overlap both succeed: each read
\* the row before either deleted it (refresh_token), which "can only be used
\* once" (RefreshMutation) does not tell.
SpentTokenIsGone == spent \cap tokens = {}

\* The session that has to make room for a new one is the oldest: no row
\* that a creation deletes is newer than one it leaves, though the request
\* chose them among the rows it had read (create_refresh_token).
OldestMakeRoom ==
  [][created' # created =>
       \A t \in tokens \ tokens', k \in tokens \cap tokens' : t < k]_sessionVars

\* Sessions stay few, a spent token opens no later refresh, and the oldest
\* make room, over logins, refreshes, logouts and revocations of several
\* browsers, the two transactions of each, and crashes between them.
SessionsAreSound ==
  /\ []SessionTypeOK
  /\ []TokensStayFew
  /\ []SpentTokenIsGone
  /\ OldestMakeRoom
=============================================================================
