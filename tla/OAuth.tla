-------------------------------- MODULE OAuth --------------------------------
(***************************************************************************)
(* The token by which the software of a third party acts for a user who    *)
(* consented: authorization codes, exchanged once each, and table          *)
(* oauth2_token, where a constraint keeps one row per user and client that *)
(* is not revoked.  One user and one client.                               *)
(*                                                                         *)
(* A request that exchanges a code, or the user's own CreateOauthToken,    *)
(* reads the active token, inserts one if there is none and starts again   *)
(* when the insertion meets that of another request.                       *)
(***************************************************************************)
EXTENDS Integers, FiniteSets

CONSTANTS
  TokenServer,   \* the worker processes of the server
  MaxTokenRows,  \* bound: tokens are revoked until there are as many rows
  MaxCodes       \* bound: the codes ever issued

ASSUME OAuthAssumption == MaxTokenRows \in Nat \ {0} /\ MaxCodes \in Nat

VARIABLES
  rows,       \* the rows of oauth2_token are 1..rows
  active,     \* those without revoked_at
  codes,      \* table oauth2_authorization_code
  lastCode,   \* the number of the last code
  exchange,   \* what each process is at
  given       \* the tokens the client or the user was given

oauthVars == <<rows, active, codes, lastCode, exchange, given>>

NoExchange == [at |-> "idle", code |-> 0, token |-> 0]

Exchange == [at : {"idle", "read", "insert", "answer"}, code : 0..MaxCodes,
             token : 0..MaxTokenRows]

Goto(p, step, nb, token) ==
  exchange' = [exchange EXCEPT ![p] = [at |-> step, code |-> nb,
                                       token |-> token]]

-----------------------------------------------------------------------------
OAuthInit ==
  /\ active = {}
  /\ rows = 0
  /\ codes = {}
  /\ lastCode = 0
  /\ exchange = [p \in TokenServer |-> NoExchange]
  /\ given = {}

\* The user consents: save_authorization_code.
Authorize ==
  /\ lastCode < MaxCodes
  /\ lastCode' = lastCode + 1
  /\ codes' = codes \cup {lastCode'}
  /\ UNCHANGED <<rows, active, exchange, given>>

\* The code expires: query_authorization_code does not return it any more.
ExpireCode ==
  /\ \E c \in codes : codes' = codes \ {c}
  /\ UNCHANGED <<rows, active, lastCode, exchange, given>>

\* issue_token with a code, or CreateOauthToken by the user without one.
BeginExchange(p) ==
  /\ exchange[p] = NoExchange
  /\ \E c \in codes \cup {0} : Goto(p, "read", c, 0)
  /\ UNCHANGED <<rows, active, codes, lastCode, given>>

\* get_or_create_token: one_or_none finds the active token or none.
ReadToken(p) ==
  /\ exchange[p].at = "read"
  /\ Cardinality(active) <= 1
  /\ IF active = {} THEN Goto(p, "insert", exchange[p].code, 0)
     ELSE \E t \in active : Goto(p, "answer", exchange[p].code, t)
  /\ UNCHANGED <<rows, active, codes, lastCode, given>>

\* Seeded fault: the token that was not inserted is given.
AfterConflictGiven(p) == Goto(p, "answer", exchange[p].code, rows + 1)

\* IntegrityError: roll back and start again.
AfterConflict(p) == Goto(p, "read", exchange[p].code, 0)

\* only_one_active_token_per_user_and_client decides.
InsertToken(p) ==
  /\ exchange[p].at = "insert"
  /\ \/ /\ active = {}
        /\ rows' = rows + 1
        /\ active' = {rows'}
        /\ Goto(p, "answer", exchange[p].code, rows')
     \/ /\ active # {}
        /\ AfterConflict(p)
        /\ UNCHANGED <<rows, active>>
  /\ UNCHANGED <<codes, lastCode, given>>

\* delete_authorization_code, and the response.
AnswerToken(p) ==
  /\ exchange[p].at = "answer"
  /\ codes' = codes \ {exchange[p].code}
  /\ given' = given \cup {exchange[p].token}
  /\ Goto(p, "idle", 0, 0)
  /\ UNCHANGED <<rows, active, lastCode>>

\* The process dies; what was committed stays, the code too.
Die(p) ==
  /\ exchange[p] # NoExchange
  /\ Goto(p, "idle", 0, 0)
  /\ UNCHANGED <<rows, active, codes, lastCode, given>>

\* RevokeOauthToken.
RevokeToken ==
  /\ rows < MaxTokenRows
  /\ \E t \in active : active' = active \ {t}
  /\ UNCHANGED <<rows, codes, lastCode, exchange, given>>

OAuthNext ==
  \/ Authorize
  \/ ExpireCode
  \/ RevokeToken
  \/ \E p \in TokenServer : \/ BeginExchange(p) \/ ReadToken(p) \/ InsertToken(p)
                        \/ AnswerToken(p) \/ Die(p)

OAuthSpec == OAuthInit /\ [][OAuthNext]_oauthVars

-----------------------------------------------------------------------------
(* Properties.                                                             *)

\* Every variable holds a value of its type: the tokens that are active and
\* the codes that can be exchanged are among those numbered so far.
OAuthTypeOK ==
  /\ rows \in 0..MaxTokenRows
  /\ active \subseteq 1..rows
  /\ codes \subseteq 1..lastCode
  /\ lastCode \in 0..MaxCodes
  /\ exchange \in [TokenServer -> Exchange]
  /\ given \subseteq 0..MaxTokenRows

\* No token is given that is not in the table, where
\* verify_oauth_token_in_request looks for it: of several requests that
\* insert one at once, those that fail are given the token of the one that
\* succeeded (get_or_create_token).
GivenTokenExists == given \subseteq 1..rows

\* The codes and tokens are numbered as rows are, and no token is given that
\* is not in the table.
TokensAreSound == OAuthTypeOK /\ GivenTokenExists
=============================================================================
