------------------------------- MODULE Support -------------------------------
(***************************************************************************)
(* The support of the service acts for a user: StartImpersonation and      *)
(* StopImpersonation, the identity each request runs with                  *)
(* (get_user_from_token_identity), the tables it may then write            *)
(* (guard_impersonation_scope) and the audit of what it wrote              *)
(* (log_impersonation_actions).                                            *)
(*                                                                         *)
(* One browser with several tabs: a request takes the cookies it leaves    *)
(* with and the answer replaces them, whatever came between.               *)
(***************************************************************************)
EXTENDS Integers, FiniteSets

CONSTANTS
  Supporter,          \* the users with the admin flag
  Client,             \* the users they act for
  Nobody,             \* no user
  Tab,                \* the requests in flight
  LogTable,           \* the tables
  QuietTable,         \* AUDIT_IGNORED_TABLES
  AllowedTable,       \* IMPERSONATION_ALLOWED_TABLES, {} for no limit
  AccessTime,         \* ACCESS_TOKEN_EXPIRATION
  ImpersonationTime,  \* IMPERSONATION_EXPIRATION
  LogLife,            \* SUPPORT_LOG_RETENTION_MONTHS
  LastTick,           \* bound: the clock
  MaxChanges          \* bound: the changes

ASSUME SupportAssumption ==
  /\ Nobody \notin Supporter \cup Client
  /\ {AccessTime, ImpersonationTime, LogLife, LastTick} \subseteq Nat

VARIABLES
  tick,         \* the clock
  jar,          \* the cookies of the browser
  session,      \* whose refresh token the browser holds
  guarded,      \* the supporters whose second factor is enabled
  revokedAt,    \* latest_token_revocation_time of the supporters
  call,         \* the request of each tab
  changes,      \* history: the changes committed
  supportLog,   \* table support_action_log: the changes it tells of
  startedAt     \* history: when each supporter last started to act

supportVars ==
  <<tick, jar, session, guarded, revokedAt, call, changes, supportLog, startedAt>>

-----------------------------------------------------------------------------
(* Tokens.  `as` is the impersonate_as claim; the subject stays the          *)
(* supporter.                                                                *)

NoAccess == [id |-> Nobody, as |-> Nobody, issued |-> 0, until |-> 0]

AccessToken(a, as, life) == [id |-> a, as |-> as, issued |-> tick, until |-> tick + life]

\* The user a request runs for.
Acting(token) == IF token.as = Nobody THEN token.id ELSE token.as

\* The revocations of the supporter count; those of the user do not.
IsValid(token) ==
  /\ token.id # Nobody
  /\ tick < token.until
  /\ token.issued >= revokedAt[token.id]

Free(t) == call[t].step = "none"

NoCall == [step |-> "none"]

\* The answer with new cookies is on its way.
Answers(t, token, user, keeps) ==
  call' = [call EXCEPT ![t] =
    [step |-> "answer", token |-> token, userId |-> user, session |-> keeps]]

\* A login, with the password and the second factor.
LoginSupport(t, a) ==
  /\ Free(t)
  /\ Answers(t, AccessToken(a, Nobody, AccessTime), a, a)
  /\ UNCHANGED <<tick, jar, session, guarded, revokedAt, changes, supportLog, startedAt>>

\* admin_only and validate_impersonation_prerequisites, of the user the
\* request runs for: the user acted for is no admin.
StartImpersonation(t, c) ==
  /\ Free(t)
  /\ IsValid(jar.token)
  /\ Acting(jar.token) \in Supporter \cap guarded
  /\ Answers(t, AccessToken(jar.token.id, c, ImpersonationTime), c, session)
  /\ startedAt' = [startedAt EXCEPT ![jar.token.id] = tick]
  /\ UNCHANGED <<tick, jar, session, guarded, revokedAt, changes, supportLog>>

StopImpersonation(t) ==
  /\ Free(t)
  /\ IsValid(jar.token)
  /\ jar.token.as # Nobody
  /\ Answers(t, AccessToken(jar.token.id, Nobody, AccessTime), jar.token.id, session)
  /\ UNCHANGED <<tick, jar, session, guarded, revokedAt, changes, supportLog, startedAt>>

\* The refresh token stayed the supporter's: a refresh ends the impersonation.
RefreshSupport(t) ==
  /\ Free(t)
  /\ session # Nobody
  /\ Answers(t, AccessToken(session, Nobody, AccessTime), session, session)
  /\ UNCHANGED <<tick, jar, session, guarded, revokedAt, changes, supportLog, startedAt>>

Answered(t) ==
  /\ call[t].step = "answer"
  /\ jar' = [token |-> call[t].token, userId |-> call[t].userId]
  /\ session' = call[t].session
  /\ call' = [call EXCEPT ![t] = NoCall]
  /\ UNCHANGED <<tick, guarded, revokedAt, changes, supportLog, startedAt>>

-----------------------------------------------------------------------------
(* Requests that write.  What they run as is decided when they begin.        *)

Begin(t) ==
  /\ Free(t)
  /\ IsValid(jar.token)
  /\ call' = [call EXCEPT ![t] =
       [step |-> "work", user |-> Acting(jar.token), begun |-> tick,
        by |-> IF jar.token.as = Nobody THEN Nobody ELSE jar.token.id,
        pending |-> {}, logs |-> {}]]
  /\ UNCHANGED <<tick, jar, session, guarded, revokedAt, changes, supportLog, startedAt>>

\* guard_impersonation_scope: session.new, session.dirty and session.deleted.
IsInScope(by, table, action) ==
  by = Nobody \/ AllowedTable = {} \/ table \in AllowedTable

\* Seeded fault: what is deleted is not logged.
IsLoggedButDeleted(by, table, action) ==
  by # Nobody /\ table \notin QuietTable /\ action # "DELETE"

\* log_impersonation_actions
IsLogged(by, table, action) == by # Nobody /\ table \notin QuietTable

MadeBy(t) == Cardinality(changes) + Cardinality(UNION {call[s].pending : s \in
               {r \in Tab : call[r].step = "work"}})

\* A write of the request: bySession when the session flushes an object, not
\* when a statement goes to the database around it.
Change(t, table, action, bySession) ==
  [n |-> MadeBy(t) + 1, by |-> call[t].by, user |-> call[t].user,
   table |-> table, action |-> action, bySession |-> bySession, at |-> tick]

Writes(t, c, logged) ==
  /\ MadeBy(t) < MaxChanges
  /\ call' = [call EXCEPT ![t].pending = @ \cup {c},
                          ![t].logs = IF logged THEN @ \cup {c} ELSE @]
  /\ UNCHANGED <<tick, jar, session, guarded, revokedAt, changes, supportLog, startedAt>>

\* A flush of the session.
Flush(t, table, action) ==
  /\ call[t].step = "work"
  /\ IsInScope(call[t].by, table, action)
  /\ Writes(t, Change(t, table, action, TRUE), IsLogged(call[t].by, table, action))

\* Query.update, Query.delete and session.execute: the events of the session
\* see no object, so that neither the guard nor the audit knows of it (teams
\* of employments, managers of teams, the queue of validations, alerts).
Execute(t, table, action) ==
  /\ call[t].step = "work"
  /\ Writes(t, Change(t, table, action, FALSE), FALSE)

\* The rows of the log are of the same transaction.
CommitChange(t) ==
  /\ call[t].step = "work"
  /\ changes' = changes \cup call[t].pending
  /\ supportLog' = supportLog \cup call[t].logs
  /\ call' = [call EXCEPT ![t] = NoCall]
  /\ UNCHANGED <<tick, jar, session, guarded, revokedAt, startedAt>>

\* An error, that of the guard included, rolls everything back.
FailChange(t) ==
  /\ call[t].step # "none"
  /\ call' = [call EXCEPT ![t] = NoCall]
  /\ UNCHANGED <<tick, jar, session, guarded, revokedAt, changes, supportLog, startedAt>>

-----------------------------------------------------------------------------
\* revoke_all_tokens, from another browser; the refresh tokens go too.
Revoke(a) ==
  /\ revokedAt' = [revokedAt EXCEPT ![a] = tick]
  /\ session' = IF session = a THEN Nobody ELSE session
  /\ UNCHANGED <<tick, jar, guarded, call, changes, supportLog, startedAt>>

RestartSecondFactor(a) ==
  /\ guarded' = IF a \in guarded THEN guarded \ {a} ELSE guarded \cup {a}
  /\ UNCHANGED <<tick, jar, session, revokedAt, call, changes, supportLog, startedAt>>

OutOfLife == {c \in supportLog : c.at < tick - LogLife}

\* purge_expired_support_action_logs
Purge ==
  /\ OutOfLife # {}
  /\ supportLog' = supportLog \ OutOfLife
  /\ UNCHANGED <<tick, jar, session, guarded, revokedAt, call, changes, startedAt>>

NextTick ==
  /\ tick < LastTick
  /\ tick' = tick + 1
  /\ UNCHANGED <<jar, session, guarded, revokedAt, call, changes, supportLog, startedAt>>

SupportInit ==
  /\ tick = 0
  /\ jar = [token |-> NoAccess, userId |-> Nobody]
  /\ session = Nobody
  /\ guarded = Supporter
  /\ revokedAt = [a \in Supporter |-> 0]
  /\ call = [t \in Tab |-> NoCall]
  /\ changes = {}
  /\ supportLog = {}
  /\ startedAt = [a \in Supporter |-> 0]

SupportNext ==
  \/ \E t \in Tab :
       \/ \E a \in Supporter : LoginSupport(t, a)
       \/ \E c \in Client : StartImpersonation(t, c)
       \/ StopImpersonation(t)
       \/ RefreshSupport(t)
       \/ Answered(t)
       \/ Begin(t)
       \/ \E table \in LogTable, action \in {"INSERT", "UPDATE", "DELETE"} :
            Flush(t, table, action) \/ Execute(t, table, action)
       \/ CommitChange(t)
       \/ FailChange(t)
  \/ \E a \in Supporter : Revoke(a) \/ RestartSecondFactor(a)
  \/ Purge
  \/ NextTick

SupportSpec == SupportInit /\ [][SupportNext]_supportVars

-----------------------------------------------------------------------------
\* Every variable has its type; who is acted for is never an admin.
SupportTypeOK ==
  /\ tick \in 0..LastTick
  /\ jar.token.id \in Supporter \cup {Nobody}
  /\ jar.token.as \in Client \cup {Nobody}
  /\ session \in Supporter \cup {Nobody}
  /\ guarded \subseteq Supporter
  /\ revokedAt \in [Supporter -> 0..LastTick]
  /\ \A c \in changes \cup supportLog :
       /\ c.at \in 0..tick
       /\ IF c.by = Nobody THEN c.user \in Supporter ELSE c.user \in Client

\* The cookie from which the client tells who is logged in names the user the
\* next request runs for, whatever requests of several tabs are answered in
\* what order.
CookieIsWhoActs == jar.token.id # Nobody => jar.userId = Acting(jar.token)

\* The log tells of every change that a session made for the support to an
\* audited table in the last LogLife, and of nothing else: no change that was
\* rolled back, none of its own account.  What statements change around the
\* session it does not tell.
LogIsWhatSupportDid ==
  /\ supportLog \subseteq {c \in changes : c.by # Nobody /\ c.bySession}
  /\ \A c \in changes :
       (/\ c.by # Nobody /\ c.bySession
        /\ c.table \notin QuietTable /\ c.at >= tick - LogLife) =>
         c \in supportLog

\* With a list of tables a session writes for the support in no other, and
\* deletes there neither.
SupportStaysInScope ==
  AllowedTable # {} =>
    \A c \in changes : c.by # Nobody /\ c.bySession => c.table \in AllowedTable

\* A request that acts for a user began within ImpersonationTime of a
\* StartImpersonation of the supporter, and not after he was revoked unless
\* he started anew.
ImpersonationIsBounded ==
  \A t \in Tab :
    (call[t].step = "work" /\ call[t].by # Nobody) =>
      /\ call[t].begun < startedAt[call[t].by] + ImpersonationTime
      /\ call[t].begun > revokedAt[call[t].by] =>
           startedAt[call[t].by] >= revokedAt[call[t].by]

\* What the support does for a client is bounded in time, the client always
\* sees for whom it acts, and what the session writes for it is in scope and
\* logged as long as the log is kept.
SupportIsAccountable ==
  /\ SupportTypeOK
  /\ CookieIsWhoActs
  /\ LogIsWhatSupportDid
  /\ SupportStaysInScope
  /\ ImpersonationIsBounded
=============================================================================
