---------------------------- MODULE AccessProofs ----------------------------
(***************************************************************************)
(* Proofs about who is let in and as whom, for every number of browsers,   *)
(* worker processes, requests at once and rows ever created: the refresh   *)
(* tokens of Sessions, the account of Account, the codes and tokens of     *)
(* OAuth, the impersonations of Support, the links of ThirdParty, the      *)
(* sign-ins of Connect and the requests of StaffRequests.                  *)
(***************************************************************************)
EXTENDS Sessions, Account, OAuth, Support, ThirdParty, Connect,
        StaffRequests, FiniteSetTheorems, SequenceTheorems, TLAPS

-----------------------------------------------------------------------------
(* Sessions.  What a request holds names rows that exist or existed, and a *)
(* refresh deletes the row it was asked with.                              *)

HeldIsKnown ==
  \A s \in Server :
    LET r == request[s]
    IN /\ r.step = "create" => r.old \in 0..created /\ r.gone \subseteq 1..created
       /\ r.step = "delete" =>
            /\ r.old \in 0..created /\ r.new \in 0..created
            /\ r.gone \subseteq 1..created
            /\ r.old # 0 => r.old \in r.gone

\* Among the rows that stand, those a request chose to delete are older than
\* those it spares.
ChosenAreOldest ==
  \A s \in Server : request[s].step = "create" =>
    \A t \in tokens \cap request[s].gone, k \in tokens \ request[s].gone : t < k

NewerThan(t) == {k \in tokens : k > t}

\* The requests that will add a row and leave t.
Sparing(t) == {s \in Server : request[s].step = "create" /\ t \notin request[s].gone}

\* Each request that spares a row will add one newer than it: together with
\* those added already they are bounded.
FewAreNewer ==
  \A t \in tokens :
    Cardinality(NewerThan(t)) + Cardinality(Sparing(t))
      <= MaxTokens + Cardinality(Server) - 2

SessionInv ==
  /\ SessionTypeOK
  /\ HeldIsKnown
  /\ SpentTokenIsGone
  /\ ChosenAreOldest
  /\ FewAreNewer

LEMMA RequestShape ==
  ASSUME NEW r \in Requests
  PROVE  \/ r = Nothing /\ r.step = "idle"
         \/ r.step = "create" /\ r.browser \in Browser /\ r.old \in Token \cup {0}
            /\ r.gone \in SUBSET Token
         \/ r.step = "delete" /\ r.browser \in Browser /\ r.old \in Token \cup {0}
            /\ r.new \in Token \cup {0} /\ r.gone \in SUBSET Token
BY DEF Requests, Nothing

LEMMA FreshShape ==
  ASSUME NEW b \in Browser, NEW old \in Token \cup {0}, NEW gone \in SUBSET Token
  PROVE  /\ Creating(b, old, gone) \in Requests
         /\ \A new \in Token \cup {0} : Deleting(b, old, new, gone) \in Requests
BY DEF Requests, Creating, Deleting

LEMMA TokensFinite ==
  ASSUME SessionTypeOK
  PROVE  /\ IsFiniteSet(tokens)
         /\ \A t : IsFiniteSet(NewerThan(t)) /\ Cardinality(NewerThan(t)) \in Nat
         /\ \A t : IsFiniteSet(Sparing(t)) /\ Cardinality(Sparing(t)) \in Nat
         /\ \A t : Cardinality(Sparing(t)) <= Cardinality(Server)
         /\ Cardinality(tokens) \in Nat /\ Cardinality(Server) \in Nat
<1>1. IsFiniteSet(tokens)
  <2>1. IsFiniteSet(1..created) /\ tokens \subseteq 1..created
    BY FS_Interval DEF SessionTypeOK
  <2> QED
    BY <2>1, FS_Subset
<1>2. \A t : NewerThan(t) \subseteq tokens /\ Sparing(t) \subseteq Server
  BY DEF NewerThan, Sparing
<1> QED
  BY <1>1, <1>2, FS_Subset, FS_CardinalityType, ServerAssumption

\* The rows create_refresh_token chooses are older than the others, and each
\* of the others has at most MaxTokens - 2 newer rows.
LEMMA OldestAreOldest ==
  ASSUME SessionTypeOK
  PROVE  /\ Oldest(tokens) \subseteq tokens
         /\ \A t \in Oldest(tokens), k \in tokens \ Oldest(tokens) : t < k
         /\ \A k \in tokens \ Oldest(tokens) : Cardinality(NewerThan(k)) <= MaxTokens - 2
<1>1. MaxTokens \in Nat \ {0} /\ tokens \subseteq Int
  BY TokenAssumption DEF SessionTypeOK
<1>2. \A t : t \in Oldest(tokens) <=> t \in tokens /\ Cardinality(NewerThan(t)) >= MaxTokens - 1
  BY DEF Oldest, NewerThan
<1>3. \A t : Cardinality(NewerThan(t)) \in Nat
  BY TokensFinite
<1>4. \A k \in tokens \ Oldest(tokens) : Cardinality(NewerThan(k)) <= MaxTokens - 2
  BY <1>1, <1>2, <1>3
<1>5. ASSUME NEW t \in Oldest(tokens), NEW k \in tokens \ Oldest(tokens), ~(t < k)
      PROVE  FALSE
  <2>0. t \in tokens /\ t \in Int /\ k \in tokens /\ k \in Int /\ t # k
    BY <1>1, <1>2
  <2>1. k < t
    BY <2>0, <1>5
  <2>2. NewerThan(t) \subseteq NewerThan(k)
    <3> SUFFICES ASSUME NEW j \in NewerThan(t) PROVE j \in NewerThan(k)
      OBVIOUS
    <3>1. j \in tokens /\ j > t /\ j \in Int
      BY <1>1 DEF NewerThan
    <3> QED
      BY <2>0, <2>1, <3>1 DEF NewerThan
  <2>3. Cardinality(NewerThan(t)) <= Cardinality(NewerThan(k))
    BY <2>2, TokensFinite, FS_Subset
  <2> QED
    BY <1>1, <1>2, <1>3, <1>4, <1>5, <2>3
<1> QED
  BY <1>2, <1>4, <1>5

-----------------------------------------------------------------------------
(* The three ways in which a step may change the rows. *)

Chooses(s) ==
  /\ UNCHANGED <<tokens, created, spent>>
  /\ request[s].step = "idle"
  /\ request'[s].step = "create"
  /\ request'[s].gone = Oldest(tokens)
  /\ \A q \in Server \ {s} : request'[q] = request[q]

OnlyDeletes ==
  /\ tokens' \subseteq tokens
  /\ created' = created
  /\ \A s \in Server : request'[s] = request[s] \/ request'[s].step # "create"
  /\ spent' \cap tokens' \subseteq spent

LEMMA TypesStay ==
  ASSUME SessionTypeOK, HeldIsKnown, [SessionNext]_sessionVars
  PROVE  SessionTypeOK' /\ HeldIsKnown'
<1>0. created \in Nat /\ MaxCreated \in Nat /\ 1..created \subseteq Token
      /\ 0..created \subseteq Token \cup {0}
  BY TokenAssumption DEF SessionTypeOK, Token
<1>1. ASSUME NEW s \in Server, NEW b \in Browser, NEW old \in 0..created,
             request[s] = Nothing,
             request' = [request EXCEPT ![s] = Creating(b, old, Oldest(tokens))],
             UNCHANGED <<tokens, created, holds, revoked, spent>>
      PROVE  SessionTypeOK' /\ HeldIsKnown'
  <2>1. Oldest(tokens) \in SUBSET (1..created)
    BY OldestAreOldest DEF SessionTypeOK
  <2>2. Creating(b, old, Oldest(tokens)) \in Requests
    BY <1>0, <2>1, FreshShape
  <2>3. SessionTypeOK'
    BY <1>1, <2>2 DEF SessionTypeOK
  <2>4. HeldIsKnown'
    BY <1>1, <2>1 DEF HeldIsKnown, Creating, SessionTypeOK
  <2> QED
    BY <2>3, <2>4
<1>2. ASSUME NEW s \in Server, NEW b \in Browser, BeginLogin(s, b)
      PROVE  SessionTypeOK' /\ HeldIsKnown'
  <2>1. 0 \in 0..created
    BY <1>0
  <2> QED
    BY <1>1, <1>2, <2>1 DEF BeginLogin, Enter
<1>3. ASSUME NEW s \in Server, NEW b \in Browser, BeginRefresh(s, b)
      PROVE  SessionTypeOK' /\ HeldIsKnown'
  <2>1. holds[b] \in 0..created
    BY DEF SessionTypeOK
  <2> QED
    BY <1>1, <1>3, <2>1 DEF BeginRefresh, Enter
<1>4. ASSUME NEW s \in Server, NEW b \in Browser, BeginLogout(s, b)
      PROVE  SessionTypeOK' /\ HeldIsKnown'
  <2> DEFINE gone == IF holds[b] \in tokens THEN {holds[b]} ELSE tokens
             r == Deleting(b, 0, 0, gone)
  <2>1. gone \in SUBSET (1..created)
    BY DEF SessionTypeOK
  <2>2. r \in Requests
    BY <1>0, <2>1, FreshShape
  <2>3. r.step = "delete" /\ r.old = 0 /\ r.new = 0 /\ r.gone = gone /\ 0 \in 0..created
    BY <1>0 DEF Deleting
  <2>4. /\ request' = [request EXCEPT ![s] = r]
        /\ UNCHANGED <<tokens, created, holds, revoked, spent>>
    BY <1>4 DEF BeginLogout, Enter
  <2> HIDE DEF r, gone
  <2>5. SessionTypeOK'
    BY <2>2, <2>4 DEF SessionTypeOK
  <2>6. HeldIsKnown'
    BY <2>1, <2>3, <2>4 DEF HeldIsKnown, SessionTypeOK
  <2> QED
    BY <2>5, <2>6
<1>5. ASSUME NEW b \in Browser, RefuseRefresh(b)
      PROVE  SessionTypeOK' /\ HeldIsKnown'
  BY <1>0, <1>5 DEF RefuseRefresh, SessionTypeOK, HeldIsKnown
<1>6. ASSUME NEW s \in Server, CommitCreation(s)
      PROVE  SessionTypeOK' /\ HeldIsKnown'
  <2> DEFINE r == request[s]
             new == created + 1
             a == AfterCreation(r, new)
  <2>1. /\ r.step = "create" /\ r.browser \in Browser
        /\ r.old \in 0..created /\ r.gone \subseteq 1..created
    BY <1>6, RequestShape DEF CommitCreation, SessionTypeOK, HeldIsKnown, Nothing
  <2>2. /\ created' = new /\ new \in 0..MaxCreated /\ new \in 1..new
        /\ 1..created \subseteq 1..new /\ 0..created \subseteq 0..new
        /\ new \in Token \cup {0}
    BY <1>0, <1>6 DEF CommitCreation, Token
  <2>3. \/ a = Nothing
        \/ r.old # 0 /\ a = Deleting(r.browser, r.old, new, {r.old})
    BY DEF AfterCreation
  <2>4. a \in Requests
    <3>1. Nothing \in Requests
      BY DEF Requests
    <3>2. r.old # 0 => {r.old} \in SUBSET Token /\ r.old \in Token \cup {0}
      BY <1>0, <2>1
    <3> HIDE DEF r, new, a
    <3>3. r.old # 0 => Deleting(r.browser, r.old, new, {r.old}) \in Requests
      BY <2>1, <2>2, <3>2, FreshShape
    <3> QED
      BY <2>3, <3>1, <3>3
  <2>5. /\ a.step # "create"
        /\ a.step = "delete" => /\ a.old \in 0..new /\ a.new \in 0..new
                                /\ a.gone \subseteq 1..new /\ a.old \in a.gone
    BY <1>0, <2>1, <2>2, <2>3 DEF Nothing, Deleting
  <2>6. /\ tokens' = (tokens \ r.gone) \cup {new}
        /\ request' = [request EXCEPT ![s] = a]
        /\ holds' \in {holds, [holds EXCEPT ![r.browser] = new]}
        /\ spent' \in {spent, spent \cup {r.old}}
        /\ (spent' = spent \/ r.old # 0)
        /\ revoked' = revoked
    BY <1>6 DEF CommitCreation
  <2> HIDE DEF r, new, a
  <2>7. tokens' \subseteq 1..created' /\ spent' \subseteq 1..created'
    <3>1. r.old # 0 => r.old \in 1..created
      BY <1>0, <2>1
    <3> QED
      BY <2>2, <2>6, <3>1 DEF SessionTypeOK
  <2>8. holds' \in [Browser -> 0..created']
    BY <2>1, <2>2, <2>6 DEF SessionTypeOK
  <2>9. SessionTypeOK'
    BY <2>2, <2>4, <2>6, <2>7, <2>8 DEF SessionTypeOK
  <2>10. HeldIsKnown'
    <3> SUFFICES ASSUME NEW q \in Server
                 PROVE  LET p == request'[q]
                        IN /\ p.step = "create" => p.old \in 0..new /\ p.gone \subseteq 1..new
                           /\ p.step = "delete" =>
                                /\ p.old \in 0..new /\ p.new \in 0..new
                                /\ p.gone \subseteq 1..new
                                /\ p.old # 0 => p.old \in p.gone
      BY <2>2 DEF HeldIsKnown
    <3>1. CASE q = s
      BY <2>5, <2>6, <3>1 DEF SessionTypeOK
    <3>2. CASE q # s
      BY <2>2, <2>6, <3>2 DEF HeldIsKnown, SessionTypeOK
    <3> QED
      BY <3>1, <3>2
  <2> QED
    BY <2>9, <2>10
<1>7. ASSUME NEW s \in Server, CommitDeletion(s)
      PROVE  SessionTypeOK' /\ HeldIsKnown'
  <2>1. /\ request[s].browser \in Browser
        /\ request[s].old \in 0..created /\ request[s].new \in 0..created
    BY <1>7, RequestShape DEF CommitDeletion, SessionTypeOK, HeldIsKnown, Nothing
  <2>2. Nothing \in Requests /\ Nothing.step = "idle"
    BY DEF Requests, Nothing
  <2> QED
    BY <1>0, <1>7, <2>1, <2>2 DEF CommitDeletion, Leave, SessionTypeOK, HeldIsKnown
<1>8. ASSUME NEW s \in Server, Abandon(s)
      PROVE  SessionTypeOK' /\ HeldIsKnown'
  <2>2. Nothing \in Requests /\ Nothing.step = "idle"
    BY DEF Requests, Nothing
  <2> QED
    BY <1>0, <1>8, <2>2 DEF Abandon, Leave, SessionTypeOK, HeldIsKnown
<1>9. ASSUME RevokeAllTokens
      PROVE  SessionTypeOK' /\ HeldIsKnown'
  BY <1>0, <1>9 DEF RevokeAllTokens, SessionTypeOK, HeldIsKnown
<1>10. ASSUME UNCHANGED sessionVars
       PROVE  SessionTypeOK' /\ HeldIsKnown'
  BY <1>10 DEF sessionVars, SessionTypeOK, HeldIsKnown
<1> QED
  BY <1>2, <1>3, <1>4, <1>5, <1>6, <1>7, <1>8, <1>9, <1>10 DEF SessionNext

LEMMA KindsOfSteps ==
  ASSUME SessionTypeOK, HeldIsKnown, [SessionNext]_sessionVars
  PROVE  \/ OnlyDeletes
         \/ \E s \in Server : Chooses(s) \/ CommitCreation(s)
<1>0. request \in [Server -> Requests]
  BY DEF SessionTypeOK
<1>1. ASSUME NEW s \in Server, NEW b \in Browser, BeginLogin(s, b) \/ BeginRefresh(s, b)
      PROVE  Chooses(s)
  BY <1>0, <1>1 DEF BeginLogin, BeginRefresh, Enter, Creating, Nothing, Chooses
<1>2. ASSUME NEW s \in Server, NEW b \in Browser, BeginLogout(s, b)
      PROVE  OnlyDeletes
  BY <1>0, <1>2 DEF BeginLogout, Enter, Deleting, OnlyDeletes
<1>3. ASSUME NEW b \in Browser, RefuseRefresh(b)
      PROVE  OnlyDeletes
  BY <1>3 DEF RefuseRefresh, OnlyDeletes
<1>4. ASSUME NEW s \in Server, CommitDeletion(s)
      PROVE  OnlyDeletes
  <2>1. request[s].old # 0 => request[s].old \in request[s].gone
    BY <1>4 DEF CommitDeletion, HeldIsKnown
  <2> QED
    BY <1>0, <1>4, <2>1 DEF CommitDeletion, Leave, Nothing, OnlyDeletes
<1>5. ASSUME NEW s \in Server, Abandon(s)
      PROVE  OnlyDeletes
  BY <1>0, <1>5 DEF Abandon, Leave, Nothing, OnlyDeletes
<1>6. CASE RevokeAllTokens
  BY <1>6 DEF RevokeAllTokens, OnlyDeletes
<1>7. CASE UNCHANGED sessionVars
  BY <1>7 DEF sessionVars, OnlyDeletes
<1> QED
  BY <1>1, <1>2, <1>3, <1>4, <1>5, <1>6, <1>7 DEF SessionNext

\* What the first commit of a request does to the rows and to the requests.
LEMMA CreationAdds ==
  ASSUME SessionTypeOK, HeldIsKnown, NEW s \in Server, CommitCreation(s)
  PROVE  /\ request[s].step = "create" /\ request[s].gone \subseteq 1..created
         /\ created' = created + 1 /\ created \in Nat
         /\ tokens' = (tokens \ request[s].gone) \cup {created + 1}
         /\ tokens \subseteq 1..created
         /\ request'[s].step # "create"
         /\ \A q \in Server \ {s} : request'[q] = request[q]
         /\ spent' = spent
<1>1. request \in [Server -> Requests] /\ created \in Nat /\ tokens \subseteq 1..created
  BY DEF SessionTypeOK
<1>2. request[s].step = "create" /\ request[s].gone \subseteq 1..created
  BY <1>1 DEF CommitCreation, HeldIsKnown
<1>3. /\ AfterCreation(request[s], created + 1).step # "create"
      /\ AfterCreation(request[s], created + 1) = Nothing => request[s].old = 0
  BY DEF AfterCreation, Nothing, Deleting
<1> QED
  BY <1>1, <1>2, <1>3 DEF CommitCreation

LEMMA SpentStayGone ==
  ASSUME SessionTypeOK, HeldIsKnown, SpentTokenIsGone, [SessionNext]_sessionVars
  PROVE  SpentTokenIsGone'
<1>1. CASE OnlyDeletes
  BY <1>1 DEF OnlyDeletes, SpentTokenIsGone
<1>2. ASSUME NEW s \in Server, Chooses(s)
      PROVE  SpentTokenIsGone'
  BY <1>2 DEF Chooses, SpentTokenIsGone
<1>3. ASSUME NEW s \in Server, CommitCreation(s)
      PROVE  SpentTokenIsGone'
  <2>1. created + 1 \notin spent
    BY DEF SessionTypeOK
  <2> QED
    BY <1>3, <2>1, CreationAdds DEF SpentTokenIsGone
<1> QED
  BY <1>1, <1>2, <1>3, KindsOfSteps

LEMMA ChosenStayOldest ==
  ASSUME SessionTypeOK, HeldIsKnown, ChosenAreOldest, [SessionNext]_sessionVars
  PROVE  ChosenAreOldest'
<1>1. CASE OnlyDeletes
  BY <1>1 DEF OnlyDeletes, ChosenAreOldest
<1>2. ASSUME NEW s \in Server, Chooses(s)
      PROVE  ChosenAreOldest'
  BY <1>2, OldestAreOldest DEF Chooses, ChosenAreOldest
<1>3. ASSUME NEW s \in Server, CommitCreation(s)
      PROVE  ChosenAreOldest'
  <2> SUFFICES ASSUME NEW q \in Server, request'[q].step = "create",
                      NEW t \in tokens' \cap request'[q].gone,
                      NEW k \in tokens' \ request'[q].gone
               PROVE  t < k
    BY DEF ChosenAreOldest
  <2>1. q # s /\ request'[q] = request[q]
    BY <1>3, CreationAdds
  <2>2. request[q].gone \subseteq 1..created
    BY <2>1 DEF HeldIsKnown
  <2>3. t \in tokens /\ t \in 1..created /\ created \in Nat
    BY <1>3, <2>1, <2>2, CreationAdds
  <2>4. CASE k = created + 1
    BY <2>3, <2>4
  <2>5. CASE k # created + 1
    <3>1. k \in tokens \ request[q].gone
      BY <1>3, <2>1, <2>5, CreationAdds
    <3> QED
      BY <2>1, <2>3, <3>1 DEF ChosenAreOldest
  <2> QED
    BY <2>4, <2>5
<1> QED
  BY <1>1, <1>2, <1>3, KindsOfSteps

LEMMA NewerStayFew ==
  ASSUME SessionTypeOK, HeldIsKnown, FewAreNewer, [SessionNext]_sessionVars
  PROVE  FewAreNewer'
<1>0. MaxTokens \in Nat \ {0}
  BY TokenAssumption
<1>1. SessionTypeOK' /\ HeldIsKnown'
  BY TypesStay
<1> SUFFICES ASSUME NEW t \in tokens'
             PROVE  Cardinality(NewerThan(t)') + Cardinality(Sparing(t)')
                      <= MaxTokens + Cardinality(Server) - 2
  BY DEF FewAreNewer
<1>2. /\ IsFiniteSet(NewerThan(t)) /\ Cardinality(NewerThan(t)) \in Nat
      /\ IsFiniteSet(Sparing(t)) /\ Cardinality(Sparing(t)) \in Nat
      /\ IsFiniteSet(Server) /\ Cardinality(Server) \in Nat
  BY TokensFinite, ServerAssumption
<1>3. /\ IsFiniteSet(NewerThan(t)') /\ Cardinality(NewerThan(t)') \in Nat
      /\ IsFiniteSet(Sparing(t)') /\ Cardinality(Sparing(t)') \in Nat
  <2>1. IsFiniteSet(tokens')
    <3>1. IsFiniteSet(1..created') /\ tokens' \subseteq 1..created'
      BY <1>1, FS_Interval DEF SessionTypeOK
    <3> QED
      BY <3>1, FS_Subset
  <2>2. NewerThan(t)' \subseteq tokens' /\ Sparing(t)' \subseteq Server
    BY DEF NewerThan, Sparing
  <2> QED
    BY <1>2, <2>1, <2>2, FS_Subset, FS_CardinalityType
<1>4. CASE OnlyDeletes
  <2>1. t \in tokens /\ NewerThan(t)' \subseteq NewerThan(t) /\ Sparing(t)' \subseteq Sparing(t)
    BY <1>4 DEF OnlyDeletes, NewerThan, Sparing
  <2>2. /\ Cardinality(NewerThan(t)') <= Cardinality(NewerThan(t))
        /\ Cardinality(Sparing(t)') <= Cardinality(Sparing(t))
    BY <1>2, <2>1, FS_Subset
  <2>3. Cardinality(NewerThan(t)) + Cardinality(Sparing(t))
          <= MaxTokens + Cardinality(Server) - 2
    BY <2>1 DEF FewAreNewer
  <2> QED
    BY <1>0, <1>2, <1>3, <2>2, <2>3
<1>5. ASSUME NEW s \in Server, Chooses(s)
      PROVE  Cardinality(NewerThan(t)') + Cardinality(Sparing(t)')
               <= MaxTokens + Cardinality(Server) - 2
  <2>1. t \in tokens /\ NewerThan(t)' = NewerThan(t)
    BY <1>5 DEF Chooses, NewerThan
  <2>2. CASE t \in Oldest(tokens)
    <3>1. Sparing(t)' = Sparing(t)
      BY <1>5, <2>2 DEF Chooses, Sparing
    <3> QED
      BY <2>1, <3>1 DEF FewAreNewer
  <2>3. CASE t \notin Oldest(tokens)
    <3>1. Cardinality(NewerThan(t)) <= MaxTokens - 2
      BY <2>1, <2>3, OldestAreOldest
    <3>2. Sparing(t)' \subseteq Server
      BY DEF Sparing
    <3>3. Cardinality(Sparing(t)') <= Cardinality(Server)
      BY <1>2, <3>2, FS_Subset
    <3> QED
      BY <1>0, <1>2, <1>3, <2>1, <3>1, <3>3
  <2> QED
    BY <2>2, <2>3
<1>6. ASSUME NEW s \in Server, CommitCreation(s)
      PROVE  Cardinality(NewerThan(t)') + Cardinality(Sparing(t)')
               <= MaxTokens + Cardinality(Server) - 2
  <2>1. CASE t = created + 1
    <3>1. NewerThan(t)' = {}
      BY <1>6, <2>1, CreationAdds DEF NewerThan
    <3>2. Sparing(t)' \subseteq Server \ {s}
      BY <1>6, CreationAdds DEF Sparing
    <3>3. /\ IsFiniteSet(Server \ {s})
          /\ Cardinality(Server \ {s}) = Cardinality(Server) - 1
      BY <1>2, FS_RemoveElement
    <3>4. Cardinality(Sparing(t)') <= Cardinality(Server) - 1
      BY <3>2, <3>3, FS_Subset
    <3> QED
      BY <1>0, <1>2, <1>3, <3>1, <3>4, FS_EmptySet
  <2>2. CASE t # created + 1
    <3>1. t \in tokens /\ t \notin request[s].gone
      BY <1>6, <2>2, CreationAdds
    <3>2. NewerThan(t)' \subseteq NewerThan(t) \cup {created + 1}
      BY <1>6, CreationAdds DEF NewerThan
    <3>3. Cardinality(NewerThan(t)') <= Cardinality(NewerThan(t)) + 1
      <4>1. /\ IsFiniteSet(NewerThan(t) \cup {created + 1})
            /\ Cardinality(NewerThan(t) \cup {created + 1}) <= Cardinality(NewerThan(t)) + 1
        <5>1. Cardinality(NewerThan(t) \cup {created + 1})
                \in {Cardinality(NewerThan(t)), Cardinality(NewerThan(t)) + 1}
          BY <1>2, FS_AddElement
        <5> QED
          BY <1>2, <5>1, FS_AddElement
      <4>2. Cardinality(NewerThan(t)') <= Cardinality(NewerThan(t) \cup {created + 1})
        BY <3>2, <4>1, FS_Subset
      <4> QED
        BY <1>2, <1>3, <4>1, <4>2, FS_CardinalityType
    <3>4. s \in Sparing(t) /\ Sparing(t)' \subseteq Sparing(t) \ {s}
      BY <1>6, <3>1, CreationAdds DEF Sparing
    <3>5. Cardinality(Sparing(t)') <= Cardinality(Sparing(t)) - 1
      <4>1. /\ IsFiniteSet(Sparing(t) \ {s})
            /\ Cardinality(Sparing(t) \ {s}) = Cardinality(Sparing(t)) - 1
        BY <1>2, <3>4, FS_RemoveElement
      <4> QED
        BY <3>4, <4>1, FS_Subset
    <3>6. Cardinality(NewerThan(t)) + Cardinality(Sparing(t))
            <= MaxTokens + Cardinality(Server) - 2
      BY <3>1 DEF FewAreNewer
    <3> QED
      BY <1>0, <1>2, <1>3, <3>3, <3>5, <3>6
  <2> QED
    BY <2>1, <2>2
<1> QED
  BY <1>4, <1>5, <1>6, KindsOfSteps

LEMMA SessionInvHolds == SessionSpec => []SessionInv
<1>1. SessionInit => SessionInv
  <2> SUFFICES ASSUME SessionInit PROVE SessionInv
    OBVIOUS
  <2>1. Nothing \in Requests /\ Nothing.step = "idle"
    BY DEF Nothing, Requests
  <2>2. 1..0 = {} /\ 0 \in 0..MaxCreated
    BY TokenAssumption
  <2>3. SessionTypeOK
    BY <2>1, <2>2 DEF SessionInit, SessionTypeOK
  <2>4. \A s \in Server : request[s].step = "idle"
    BY <2>1 DEF SessionInit
  <2>5. HeldIsKnown /\ ChosenAreOldest
    BY <2>4 DEF HeldIsKnown, ChosenAreOldest
  <2>6. SpentTokenIsGone /\ FewAreNewer
    BY DEF SessionInit, SpentTokenIsGone, FewAreNewer
  <2> QED
    BY <2>3, <2>5, <2>6 DEF SessionInv
<1>2. SessionInv /\ [SessionNext]_sessionVars => SessionInv'
  BY TypesStay, SpentStayGone, ChosenStayOldest, NewerStayFew DEF SessionInv
<1> QED
  BY <1>1, <1>2, PTL DEF SessionSpec

\* A finite set of numbers has a least element.
LEMMA LeastExists ==
  ASSUME NEW S, IsFiniteSet(S), S # {}, S \subseteq Int
  PROVE  \E x \in S : \A y \in S : x <= y
<1> DEFINE Below(x) == {z \in S : z < x}
           Fam == {Below(x) : x \in S}
           R == StrictSubsetOrdering(S)
<1>1. IsWellFoundedOn(R, SUBSET S)
  BY FS_StrictSubsetOrderingWellFounded, FS_FiniteSubsetsOfFinite
<1>2. Fam \subseteq SUBSET S /\ Fam # {}
  OBVIOUS
<1>3. \E D \in Fam : \A E \in Fam : ~ (<<E, D>> \in R)
  <2> HIDE DEF Fam, R
  <2> QED
    BY <1>1, <1>2, WFMin
<1>4. PICK x \in S : \A E \in Fam : ~ (<<E, Below(x)>> \in R)
  BY <1>3
<1>5. ASSUME NEW y \in S, ~(x <= y)
      PROVE  FALSE
  <2>1. y < x /\ x \in Int /\ y \in Int /\ \A z \in S : z \in Int
    BY <1>5
  <2> HIDE DEF Fam, R
  <2>2. Below(y) \subseteq Below(x) /\ y \in Below(x) /\ y \notin Below(y)
    <3>1. y \in Below(x) /\ y \notin Below(y)
      BY <2>1
    <3>2. \A z \in S : z < y => z < x
      BY <2>1
    <3> QED
      BY <3>1, <3>2
  <2>3. <<Below(y), Below(x)>> \in R
    BY <2>2 DEF StrictSubsetOrdering, R
  <2>4. Below(y) \in Fam
    BY DEF Fam
  <2> QED
    BY <2>3, <2>4, <1>4
<1> QED
  BY <1>5

LEMMA InvKeepsFew ==
  ASSUME SessionTypeOK, FewAreNewer
  PROVE  TokensStayFew
<1>0. MaxTokens \in Nat \ {0} /\ Cardinality(Server) \in Nat /\ Cardinality(tokens) \in Nat
      /\ IsFiniteSet(tokens)
  BY TokenAssumption, TokensFinite
<1>1. CASE tokens = {}
  BY <1>0, <1>1, FS_EmptySet DEF TokensStayFew
<1>2. CASE tokens # {}
  <2>1. tokens \subseteq Int
    BY DEF SessionTypeOK
  <2>2. PICK t \in tokens : \A k \in tokens : t <= k
    BY <1>0, <1>2, <2>1, LeastExists
  <2>3. tokens = NewerThan(t) \cup {t} /\ t \notin NewerThan(t)
    <3>1. \A k \in tokens : k = t \/ k > t
      BY <2>1, <2>2
    <3>2. NewerThan(t) \subseteq tokens /\ t \notin NewerThan(t)
      BY <2>1 DEF NewerThan
    <3>3. \A k \in tokens : k \in NewerThan(t) \cup {t}
      BY <3>1 DEF NewerThan
    <3> QED
      BY <3>2, <3>3
  <2>4. Cardinality(tokens) = Cardinality(NewerThan(t)) + 1
    BY <2>3, TokensFinite, FS_AddElement
  <2>5. Cardinality(NewerThan(t)) + Cardinality(Sparing(t))
          <= MaxTokens + Cardinality(Server) - 2
    BY DEF FewAreNewer
  <2>6. Cardinality(NewerThan(t)) \in Nat /\ Cardinality(Sparing(t)) \in Nat
    BY TokensFinite
  <2> QED
    BY <1>0, <2>4, <2>5, <2>6 DEF TokensStayFew
<1> QED
  BY <1>1, <1>2

\* Sessions stay few, a spent token opens no later refresh (two that overlap
\* may both succeed) and the oldest make room, whatever the numbers of browsers
\* and of worker processes, the limit of tokens and the order of the
\* transactions (create_refresh_token, refresh_token, delete_refresh_token,
\* revoke_all_tokens).
THEOREM SessionsStaySound == SessionSpec => SessionsAreSound
<1>1. SessionInv => SessionTypeOK /\ TokensStayFew /\ SpentTokenIsGone
  BY InvKeepsFew DEF SessionInv
<1>2. SessionInv /\ [SessionNext]_sessionVars =>
        [created' # created =>
           \A t \in tokens \ tokens', k \in tokens \cap tokens' : t < k]_sessionVars
  <2> SUFFICES ASSUME SessionInv, [SessionNext]_sessionVars, created' # created,
                      NEW t \in tokens \ tokens', NEW k \in tokens \cap tokens'
               PROVE  t < k
    OBVIOUS
  <2>1. PICK s \in Server : CommitCreation(s)
    BY KindsOfSteps DEF SessionInv, OnlyDeletes, Chooses
  <2>2. t \in request[s].gone /\ k \notin request[s].gone /\ request[s].step = "create"
    BY <2>1, CreationAdds DEF SessionInv
  <2> QED
    BY <2>2 DEF SessionInv, ChosenAreOldest
<1>3. SessionSpec => []SessionInv /\ [][SessionNext]_sessionVars
  BY SessionInvHolds, PTL DEF SessionSpec
<1> QED
  BY <1>1, <1>2, <1>3, PTL DEF SessionsAreSound, OldestMakeRoom

-----------------------------------------------------------------------------
(* The account.  A login writes the counter below the limit, or the limit  *)
(* with the block; an account that exists has an address; bad passwords    *)
(* and bad codes are those of their counters and those written over.       *)

CounterWrites == {[tries |-> k] : k \in 0..(MaxTries - 1)}

BlockWrite == [tries |-> MaxTries, status |-> "blocked"]

LoginsWriteInOrder ==
  /\ login \in [LoginCall -> {<<>>, BlockWrite} \cup CounterWrites]
  /\ \A p \in LoginCall : login[p] # <<>> => Exists

ExistingHasAddress ==
  /\ IF Exists THEN account.email \in Address ELSE account = Absent
  /\ resets # {} => Exists

TriesAreCounted ==
  /\ tried \in [bad : Nat, lost : Nat]
  /\ tried.bad <= account.tries + tried.lost

MissesAreCounted ==
  /\ misses \in [bad : Nat, lost : Nat]
  /\ misses.bad <= InWindow(totp.failed, totp.recent) + misses.lost

CodesWereAllowed ==
  \A p \in LoginCall :
    code[p] # <<>> => ~(code[p].read >= MaxAttempts /\ code[p].recent)

AccountInv ==
  /\ AccountTypeOK
  /\ links \in 0..MaxLinks
  /\ invitation \in [email : Address, bound : BOOLEAN]
  /\ LoginsWriteInOrder
  /\ ExistingHasAddress
  /\ ActivatedIsTrusted
  /\ UnblockedHasTriesLeft
  /\ TriesAreCounted
  /\ MissesAreCounted
  /\ CodesWereAllowed

\* One more bad try is counted, as what is written and what is written over.
LEMMA OneMoreIsCounted ==
  ASSUME NEW m \in [bad : Nat, lost : Nat], NEW read \in Nat, NEW now \in Nat,
         m.bad <= now + m.lost
  PROVE  /\ Missed(m, read, now) \in [bad : Nat, lost : Nat]
         /\ Missed(m, read, now).bad <= read + 1 + Missed(m, read, now).lost
BY DEF Missed

\* The row has its columns, an address, and room for another try unless it is
\* blocked.
Sound(r) ==
  /\ r \in Accounts
  /\ r.status # "absent" => r.email \in Address
  /\ r.status \notin {"absent", "blocked"} => r.tries < MaxTries

LEMMA AccountIsSound ==
  ASSUME AccountInv
  PROVE  /\ Sound(account) /\ links \in Nat
         /\ account.activated => account.email \in proven \cup trusted
BY AccountBounds DEF AccountInv, AccountTypeOK, Sound, ExistingHasAddress,
   UnblockedHasTriesLeft, Exists, ActivatedIsTrusted

\* What a login writes leaves the address, its proof and the password alone.
LEMMA LoginWrites ==
  ASSUME NEW r \in Accounts, NEW w \in {BlockWrite} \cup CounterWrites
  PROVE  LET n == [f \in DOMAIN r |-> IF f \in DOMAIN w THEN w[f] ELSE r[f]]
         IN \/ \E k \in 0..(MaxTries - 1) : n = [r EXCEPT !.tries = k]
            \/ n = [r EXCEPT !.tries = MaxTries, !.status = "blocked"]
<1> DEFINE n == [f \in DOMAIN r |-> IF f \in DOMAIN w THEN w[f] ELSE r[f]]
<1>1. DOMAIN r = {"status", "email", "link", "confirmed", "activated",
                  "connect", "password", "tries"}
  BY DEF Accounts
<1>2. ASSUME NEW k \in 0..(MaxTries - 1), w = [tries |-> k]
      PROVE  n = [r EXCEPT !.tries = k]
  <2>1. DOMAIN w = {"tries"} /\ w["tries"] = k
    BY <1>2
  <2>2. \A f \in DOMAIN r : n[f] = IF f = "tries" THEN k ELSE r[f]
    BY <2>1
  <2>3. [r EXCEPT !.tries = k] = [f \in DOMAIN r |-> IF f = "tries" THEN k ELSE r[f]]
    BY <1>1 DEF Accounts
  <2> QED
    BY <2>2, <2>3
<1>3. ASSUME w = BlockWrite
      PROVE  n = [r EXCEPT !.tries = MaxTries, !.status = "blocked"]
  <2>1. DOMAIN w = {"tries", "status"} /\ w["tries"] = MaxTries /\ w["status"] = "blocked"
    BY <1>3 DEF BlockWrite
  <2>2. \A f \in DOMAIN r : n[f] = IF f = "tries" THEN MaxTries
                                   ELSE IF f = "status" THEN "blocked" ELSE r[f]
    BY <2>1
  <2>3. [r EXCEPT !.tries = MaxTries, !.status = "blocked"]
          = [f \in DOMAIN r |-> IF f = "tries" THEN MaxTries
                                ELSE IF f = "status" THEN "blocked" ELSE r[f]]
    BY <1>1 DEF Accounts
  <2> QED
    BY <2>2, <2>3
<1> QED
  BY <1>2, <1>3 DEF CounterWrites

Invitation == [email : Address, bound : BOOLEAN]

Mail == [to : Address, token : 1..MaxLinks]

\* A request that leaves a sound row, activated for a reason, keeps the
\* invariant whatever it does to the links.
LEMMA SoundRowKeepsInv ==
  ASSUME AccountInv, Sound(account'), account'.status # "absent",
         UNCHANGED <<login, totp, code, misses>>, links' \in 0..MaxLinks,
         \/ tried' = NoMisses
         \/ tried' = tried /\ account'.tries = account.tries,
         invitation' \in Invitation, mailed' \subseteq Mail,
         resets' \subseteq 0..MaxPasswords, proven' \subseteq Address,
         account'.activated => account'.email \in proven' \cup trusted'
  PROVE  AccountInv'
<1>1. AccountTypeOK'
  BY DEF AccountInv, AccountTypeOK, Mail, Sound
<1>2. LoginsWriteInOrder' /\ ExistingHasAddress'
  BY DEF AccountInv, LoginsWriteInOrder, ExistingHasAddress, Exists, Sound
<1>3. ActivatedIsTrusted' /\ UnblockedHasTriesLeft'
  BY DEF ActivatedIsTrusted, UnblockedHasTriesLeft, Exists, Sound
<1>4. MissesAreCounted'
  BY DEF AccountInv, MissesAreCounted
<1>6. CodesWereAllowed'
  BY DEF AccountInv, CodesWereAllowed
<1>5. TriesAreCounted'
  <2>1. account'.tries \in Nat
    BY LimitAssumption DEF Sound, Accounts
  <2> QED
    BY <2>1 DEF AccountInv, TriesAreCounted, NoMisses
<1> QED
  BY <1>1, <1>2, <1>3, <1>4, <1>5, <1>6 DEF AccountInv, Invitation

LEMMA NewLinkIsSound ==
  ASSUME AccountInv, NEW r, Sound(r), links < MaxLinks
  PROVE  /\ Sound(NewLink(r)) /\ ~NewLink(r).activated
         /\ NewLink(r).email = r.email /\ NewLink(r).status = r.status
         /\ NewLink(r).link = links + 1 /\ links + 1 \in 1..MaxLinks
         /\ NewLink(r).password = r.password /\ NewLink(r).tries = r.tries
<1> DEFINE n == NewLink(r)
<1>1. links + 1 \in 1..MaxLinks /\ links + 1 \in 0..MaxLinks /\ r \in Accounts
  BY AccountBounds DEF AccountInv, Sound
<1>2. n \in Accounts
  BY <1>1 DEF NewLink, Accounts
<1>3. /\ ~n.activated /\ n.email = r.email /\ n.status = r.status
      /\ n.link = links + 1 /\ n.password = r.password /\ n.tries = r.tries
  BY <1>1 DEF NewLink, Accounts
<1> HIDE DEF n
<1>4. Sound(n)
  BY <1>2, <1>3 DEF Sound
<1> QED
  BY <1>1, <1>3, <1>4 DEF n

LEMMA SmallNumbers ==
  /\ 0 \in 0..MaxLinks /\ {0, 1} \subseteq 0..MaxPasswords
  /\ 0 \in 0..MaxTries /\ 0 < MaxTries /\ MaxTries \in 0..MaxTries
BY AccountBounds, LimitAssumption

LEMMA AbsentIsAccount == Absent \in Accounts /\ Absent.tries = 0 /\ ~Absent.activated
BY SmallNumbers DEF Absent, Accounts

\* A new row, with a password of its own or none.
LEMMA NewRowIsSound ==
  ASSUME NEW r \in Accounts, r.tries = 0, r.email \in Address
  PROVE  Sound(r)
BY SmallNumbers DEF Sound

LEMMA CreateStep ==
  ASSUME AccountInv, CreateAccount
  PROVE  AccountInv'
<1>0. /\ links \in 0..MaxLinks /\ invitation \in Invitation
      /\ mailed \subseteq Mail /\ resets \subseteq 0..MaxPasswords
      /\ proven \subseteq Address
      /\ ~Exists => account.tries = 0
  BY AbsentIsAccount DEF AccountInv, AccountTypeOK, Invitation, Mail, ExistingHasAddress
<1>1. \A a \in Address : BoundTo(a) \in Invitation
  BY DEF BoundTo, Invitation
<1>2. ASSUME NEW a \in Address, SignUpAlone(a) PROVE AccountInv'
  <2> DEFINE r == [Absent EXCEPT !.status = "active", !.email = a,
                                 !.confirmed = TRUE, !.password = 1]
  <2>1. Sound(r) /\ r.email = a /\ r.status = "active" /\ r.tries = 0
    <3>1. r \in Accounts /\ r.tries = 0 /\ r.email = a /\ r.status = "active"
      BY AbsentIsAccount, SmallNumbers DEF Accounts
    <3> QED
      BY <3>1, NewRowIsSound
  <2> HIDE DEF r
  <2>2. account' = NewLink(r) /\ links < MaxLinks
    BY <1>2 DEF SignUpAlone, r
  <2>3. /\ Sound(account') /\ ~account'.activated /\ account'.status = "active"
        /\ links + 1 \in 1..MaxLinks /\ account'.tries = 0
    BY <2>1, <2>2, NewLinkIsSound
  <2>4. Link(a, links + 1) \in Mail
    BY <2>3 DEF Link, Mail
  <2>5. /\ links' = links + 1 /\ mailed' \subseteq Mail /\ invitation' \in Invitation
        /\ UNCHANGED <<tryVars, resets, login, history>> /\ ~Exists
    BY <1>0, <1>1, <1>2, <2>4 DEF SignUpAlone
  <2> QED
    BY <1>0, <2>3, <2>5, SoundRowKeepsInv DEF history, tryVars
<1>3. ASSUME NEW a \in Address, SignUpByLink(a) PROVE AccountInv'
  <2> DEFINE r == [Absent EXCEPT !.status = "active", !.email = a,
                                 !.confirmed = TRUE, !.password = 1]
             n == NewLink(r)
  <2>1. Sound(r) /\ r.email = a /\ r.status = "active" /\ r.tries = 0
    <3>1. r \in Accounts /\ r.tries = 0 /\ r.email = a /\ r.status = "active"
      BY AbsentIsAccount, SmallNumbers DEF Accounts
    <3> QED
      BY <3>1, NewRowIsSound
  <2> HIDE DEF r
  <2>2. account' \in {n, [n EXCEPT !.activated = TRUE, !.link = 0]} /\ links < MaxLinks
    BY <1>3 DEF SignUpByLink, r
  <2>3. /\ Sound(n) /\ ~n.activated /\ n.status = "active" /\ n.email = a
        /\ links + 1 \in 1..MaxLinks /\ n.tries = 0
    BY <2>1, <2>2, NewLinkIsSound
  <2> HIDE DEF n
  <2>4. /\ Sound(account') /\ account'.status = "active" /\ account'.email = a
        /\ account'.tries = 0
    <3> DEFINE on == [n EXCEPT !.activated = TRUE, !.link = 0]
    <3>1. /\ on \in Accounts /\ on.status = n.status /\ on.email = n.email
          /\ on.tries = n.tries
      BY <2>3, SmallNumbers DEF Sound, Accounts
    <3> HIDE DEF on
    <3>2. Sound(on)
      BY <2>3, <3>1 DEF Sound
    <3> QED
      BY <2>2, <2>3, <3>1, <3>2 DEF on
  <2>5. /\ links' = links + 1 /\ mailed' = mailed /\ invitation' \in Invitation
        /\ proven' \subseteq Address /\ a \in trusted'
        /\ UNCHANGED <<tryVars, resets, login>> /\ ~Exists
    BY <1>0, <1>1, <1>3 DEF SignUpByLink, Invitation
  <2> QED
    BY <1>0, <2>3, <2>4, <2>5, SoundRowKeepsInv DEF tryVars
<1>4. ASSUME NEW a \in Address, SignUpByConnect(a) PROVE AccountInv'
  <2>1. /\ Sound(account') /\ ~account'.activated /\ account'.status = "active"
        /\ account'.tries = 0
    <3>1. /\ account' \in Accounts /\ account'.tries = 0 /\ account'.email = a
          /\ account'.status = "active" /\ ~account'.activated
      BY <1>4, AbsentIsAccount DEF SignUpByConnect, Accounts
    <3> QED
      BY <3>1, NewRowIsSound
  <2>2. /\ UNCHANGED <<tryVars, mailVars, login, history>> /\ invitation' \in Invitation
        /\ ~Exists
    BY <1>0, <1>1, <1>4 DEF SignUpByConnect
  <2> QED
    BY <1>0, <2>1, <2>2, SoundRowKeepsInv DEF mailVars, history, tryVars
<1>5. ASSUME NEW a \in Address, CreateByThirdParty(a) PROVE AccountInv'
  <2>1. /\ Sound(account') /\ ~account'.activated /\ account'.status = "pending"
        /\ account'.tries = 0
    <3>1. /\ account' \in Accounts /\ account'.tries = 0 /\ account'.email = a
          /\ account'.status = "pending" /\ ~account'.activated
      BY <1>5, AbsentIsAccount DEF CreateByThirdParty, Accounts
    <3> QED
      BY <3>1, NewRowIsSound
  <2> QED
    BY <1>0, <1>5, <2>1, SoundRowKeepsInv DEF CreateByThirdParty, mailVars, history, tryVars
<1> QED
  BY <1>2, <1>3, <1>4, <1>5 DEF CreateAccount

LEMMA AddressStep ==
  ASSUME AccountInv, ChangeAddress
  PROVE  AccountInv'
<1>0. /\ links \in 0..MaxLinks /\ invitation \in Invitation
      /\ mailed \subseteq Mail /\ resets \subseteq 0..MaxPasswords
      /\ proven \subseteq Address /\ Sound(account) /\ links \in Nat
      /\ account.activated => account.email \in proven \cup trusted
      /\ Exists => account.email \in Address
  BY AccountIsSound DEF AccountInv, AccountTypeOK, Invitation, Mail, ExistingHasAddress
<1>1. \A a \in Address : BoundTo(a) \in Invitation
  BY DEF BoundTo, Invitation
<1>2. ASSUME NEW a \in Address, ChangeEmail(a) PROVE AccountInv'
  <2> DEFINE r == [account EXCEPT !.email = a, !.confirmed = TRUE]
  <2>1. /\ Sound(r) /\ r.email = a /\ r.status = account.status
        /\ r.tries = account.tries
    BY <1>0 DEF Sound, Accounts
  <2> HIDE DEF r
  <2>2. account' = NewLink(r) /\ links < MaxLinks /\ account.status # "absent"
    BY <1>2 DEF ChangeEmail, r, Exists
  <2>3. /\ Sound(account') /\ ~account'.activated /\ account'.status # "absent"
        /\ links + 1 \in 1..MaxLinks /\ account'.tries = account.tries
    BY <2>1, <2>2, NewLinkIsSound
  <2>4. Link(a, links + 1) \in Mail
    BY <2>3 DEF Link, Mail
  <2>5. /\ links' = links + 1 /\ mailed' \subseteq Mail /\ invitation' \in Invitation
        /\ UNCHANGED <<tryVars, resets, login, history>>
    BY <1>0, <1>1, <1>2, <2>4 DEF ChangeEmail
  <2> QED
    BY <1>0, <2>3, <2>5, SoundRowKeepsInv DEF history, tryVars
<1>3. ASSUME NEW a \in Address, NEW pw \in {0, 1}, ConfirmConnectEmail(a, pw)
      PROVE  AccountInv'
  <2> DEFINE r == [account EXCEPT !.email = a, !.confirmed = TRUE, !.password = pw]
  <2>0. account.status # "absent"
    BY <1>3 DEF ConfirmConnectEmail, AccountInv, ExistingHasAddress, Exists, Absent
  <2>1. /\ Sound(r) /\ r.email = a /\ r.status = account.status
        /\ r.tries = account.tries
    <3>1. /\ r \in Accounts /\ r.email = a /\ r.status = account.status
          /\ r.tries = account.tries
      BY <1>0, SmallNumbers DEF Sound, Accounts
    <3> QED
      BY <1>0, <3>1 DEF Sound
  <2> HIDE DEF r
  <2>2. account' = NewLink(r) /\ links < MaxLinks
    BY <1>3 DEF ConfirmConnectEmail, r
  <2>3. /\ Sound(account') /\ ~account'.activated /\ account'.status # "absent"
        /\ links + 1 \in 1..MaxLinks /\ account'.tries = account.tries
    BY <2>0, <2>1, <2>2, NewLinkIsSound
  <2>4. Link(a, links + 1) \in Mail
    BY <2>3 DEF Link, Mail
  <2>5. /\ links' = links + 1 /\ mailed' \subseteq Mail /\ invitation' = invitation
        /\ UNCHANGED <<tryVars, resets, login, history>>
    BY <1>0, <1>3, <2>4 DEF ConfirmConnectEmail
  <2> QED
    BY <1>0, <2>3, <2>5, SoundRowKeepsInv DEF history, tryVars
<1>4. ASSUME ResendActivationEmail PROVE AccountInv'
  <2>0. account.status # "absent" /\ account.email \in Address
    BY <1>0, <1>4 DEF ResendActivationEmail, Exists
  <2>1. /\ Sound(account') /\ account'.status # "absent" /\ account'.email = account.email
        /\ account'.activated => account.activated
        /\ account'.tries = account.tries
        /\ account'.link \in 1..MaxLinks /\ links' \in 0..MaxLinks
    <3>1. CASE account.link = 0
      <4>1. account' = NewLink(account) /\ links' = links + 1 /\ links < MaxLinks
        BY <1>4, <3>1 DEF ResendActivationEmail
      <4> QED
        BY <1>0, <2>0, <4>1, NewLinkIsSound
    <3>2. CASE account.link # 0
      <4>1. account' = account /\ links' = links
        BY <1>4, <3>2 DEF ResendActivationEmail
      <4>2. account.link \in 0..MaxLinks
        BY <1>0 DEF Sound, Accounts
      <4> QED
        BY <1>0, <2>0, <3>2, <4>1, <4>2, AccountBounds
    <3> QED
      BY <3>1, <3>2
  <2>2. Link(account.email, account'.link) \in Mail
    BY <2>0, <2>1 DEF Link, Mail
  <2>3. /\ mailed' \subseteq Mail
        /\ UNCHANGED <<invitation, tryVars, resets, login, history>>
    BY <1>0, <1>4, <2>2 DEF ResendActivationEmail
  <2> QED
    BY <1>0, <2>1, <2>3, SoundRowKeepsInv DEF history, tryVars
<1>5. ASSUME NEW l \in mailed, ActivateEmail(l) PROVE AccountInv'
  <2>1. l.to \in Address /\ l.to = account.email /\ account.link # 0
    BY <1>0, <1>5 DEF ActivateEmail, Mail
  <2>2. account.status # "absent"
    BY <2>1 DEF AccountInv, ExistingHasAddress, Exists, Absent
  <2>3. /\ Sound(account') /\ account'.status # "absent" /\ account'.email \in proven'
        /\ proven' \subseteq Address /\ account'.tries = account.tries
    BY <1>0, <1>5, <2>1, <2>2 DEF ActivateEmail, Sound, Accounts
  <2> QED
    BY <1>0, <1>5, <2>3, SoundRowKeepsInv DEF ActivateEmail, mailVars, tryVars
<1>6. ASSUME ActivateByThirdParty PROVE AccountInv'
  <2>1. /\ Sound(account') /\ account'.status # "absent" /\ account'.email \in trusted'
        /\ account'.tries = account.tries
    BY <1>0, <1>6 DEF ActivateByThirdParty, Activated, Sound, Accounts, Exists
  <2> QED
    BY <1>0, <1>6, <2>1, SoundRowKeepsInv DEF ActivateByThirdParty, mailVars, tryVars
<1> QED
  BY <1>2, <1>3, <1>4, <1>5, <1>6 DEF ChangeAddress

LEMMA PasswordStep ==
  ASSUME AccountInv, ChangePassword
  PROVE  AccountInv'
<1>0. /\ links \in 0..MaxLinks /\ invitation \in Invitation
      /\ mailed \subseteq Mail /\ resets \subseteq 0..MaxPasswords
      /\ proven \subseteq Address /\ Sound(account) /\ account \in Accounts
      /\ account.activated => account.email \in proven \cup trusted
      /\ resets # {} => Exists
  BY AccountIsSound DEF AccountInv, AccountTypeOK, Invitation, Mail, ExistingHasAddress
<1>1. CASE RequestPasswordReset
  <2>1. account.password \in 0..MaxPasswords /\ account.status # "absent"
    BY <1>0, <1>1 DEF Accounts, RequestPasswordReset, Exists
  <2>2. /\ Sound(account') /\ resets' \subseteq 0..MaxPasswords
        /\ UNCHANGED <<account, invitation, tryVars, mailed, links, login, history>>
    BY <1>0, <1>1, <2>1 DEF RequestPasswordReset, Sound
  <2> QED
    BY <1>0, <2>1, <2>2, SoundRowKeepsInv DEF history, tryVars
<1>2. CASE ResetPasswordConnected \/ \E h \in resets : ResetPassword(h)
  <2>1. /\ account' = NewPassword(account) /\ account.status # "absent"
        /\ account.password < MaxPasswords /\ tried' = NoMisses
        /\ UNCHANGED <<invitation, totp, code, misses, mailVars, login, history>>
    BY <1>0, <1>2 DEF ResetPasswordConnected, ResetPassword, Exists
  <2>2. account.password + 1 \in 0..MaxPasswords
    BY <1>0, <2>1, AccountBounds DEF Accounts
  <2>3. /\ account' \in Accounts /\ account'.status = "active" /\ account'.tries = 0
        /\ account'.email = account.email /\ account'.activated = account.activated
    BY <1>0, <2>1, <2>2, SmallNumbers DEF NewPassword, Accounts
  <2>4. Sound(account')
    BY <1>0, <2>1, <2>3, SmallNumbers DEF Sound
  <2> QED
    BY <1>0, <2>1, <2>3, <2>4, SoundRowKeepsInv DEF history, mailVars
<1> QED
  BY <1>1, <1>2 DEF ChangePassword

\* A login that read the row writes the next count, or the limit and the
\* block.
LEMMA IncrementIsWrite ==
  ASSUME AccountInv, Exists, account.status # "blocked"
  PROVE  Increment(account) \in {BlockWrite} \cup CounterWrites
<1>1. account.tries \in 0..MaxTries /\ account.tries < MaxTries
  BY DEF AccountInv, AccountTypeOK, Accounts, UnblockedHasTriesLeft
<1>2. CASE account.tries + 1 >= MaxTries
  <2>1. account.tries + 1 = MaxTries
    BY <1>1, <1>2, LimitAssumption
  <2> QED
    BY <1>2, <2>1 DEF Increment, BlockWrite
<1>3. CASE ~(account.tries + 1 >= MaxTries)
  <2>1. account.tries + 1 \in 0..(MaxTries - 1)
    BY <1>1, <1>3, LimitAssumption
  <2> QED
    BY <1>3, <2>1 DEF Increment, CounterWrites
<1> QED
  BY <1>2, <1>3

LEMMA CommitIsWrite ==
  ASSUME AccountInv, NEW p \in LoginCall, CommitLogin(p)
  PROVE  /\ \/ \E k \in 0..(MaxTries - 1) : account' = [account EXCEPT !.tries = k]
            \/ account' = [account EXCEPT !.tries = MaxTries, !.status = "blocked"]
         /\ login[p].tries \in 0..MaxTries /\ account'.tries = login[p].tries
<1> DEFINE w == login[p]
<1>1. account \in Accounts
  BY DEF AccountInv, AccountTypeOK
<1>2. /\ w \in {BlockWrite} \cup CounterWrites
      /\ account' = [f \in DOMAIN account |->
                       IF f \in DOMAIN w THEN w[f] ELSE account[f]]
  BY DEF CommitLogin, AccountInv, LoginsWriteInOrder
<1> DEFINE n == [f \in DOMAIN account |-> IF f \in DOMAIN w THEN w[f] ELSE account[f]]
<1> HIDE DEF w
<1>3. \/ \E k \in 0..(MaxTries - 1) : n = [account EXCEPT !.tries = k]
      \/ n = [account EXCEPT !.tries = MaxTries, !.status = "blocked"]
  BY <1>1, <1>2, LoginWrites
<1>4. account' = n
  BY <1>2
<1>5. w.tries \in 0..MaxTries /\ "tries" \in DOMAIN w
  <2>1. CASE w = BlockWrite
    BY <2>1, SmallNumbers DEF BlockWrite
  <2>2. CASE w \in CounterWrites
    <3>1. PICK k \in 0..(MaxTries - 1) : w = [tries |-> k]
      BY <2>2 DEF CounterWrites
    <3> QED
      BY <3>1, LimitAssumption
  <2> QED
    BY <1>2, <2>1, <2>2
<1>6. n.tries = w.tries
  <2>1. "tries" \in DOMAIN account
    BY <1>1 DEF Accounts
  <2>2. n["tries"] = w["tries"]
    BY <1>5, <2>1
  <2> QED
    BY <2>2
<1> HIDE DEF n
<1> QED
  BY <1>3, <1>4, <1>5, <1>6 DEF w

LEMMA LogInStep ==
  ASSUME AccountInv, LogIn
  PROVE  AccountInv'
<1>0. /\ links \in 0..MaxLinks /\ invitation \in Invitation
      /\ mailed \subseteq Mail /\ resets \subseteq 0..MaxPasswords
      /\ proven \subseteq Address /\ Sound(account) /\ account \in Accounts
      /\ account.activated => account.email \in proven \cup trusted
      /\ login \in [LoginCall -> {<<>>, BlockWrite} \cup CounterWrites]
      /\ \A p \in LoginCall : login[p] # <<>> => Exists
  BY AccountIsSound DEF AccountInv, AccountTypeOK, Invitation, Mail, LoginsWriteInOrder
<1>1. ASSUME NEW w \in {<<>>, BlockWrite} \cup CounterWrites, NEW p \in LoginCall,
             w # <<>> => Exists, login' = [login EXCEPT ![p] = w],
             UNCHANGED <<account, invitation, tryVars, mailVars, history>>
      PROVE  AccountInv'
  <2>1. LoginsWriteInOrder'
    BY <1>0, <1>1 DEF LoginsWriteInOrder, Exists
  <2> QED
    BY <1>1, <2>1 DEF AccountInv, AccountTypeOK, ExistingHasAddress, Exists, Absent,
       ActivatedIsTrusted, UnblockedHasTriesLeft, MissesAreCounted, TriesAreCounted,
       CodesWereAllowed, mailVars, history, tryVars
<1>2. ASSUME NEW p \in LoginCall, BadPassword(p) PROVE AccountInv'
  <2>1. Exists /\ account.status # "blocked"
    BY <1>2 DEF BadPassword, MayTry
  <2>2. Increment(account) \in {BlockWrite} \cup CounterWrites
    BY <2>1, IncrementIsWrite
  <2> QED
    BY <1>1, <1>2, <2>1, <2>2 DEF BadPassword
<1>3. ASSUME NEW p \in LoginCall, GoodPassword(p) PROVE AccountInv'
  <2>1. 0 \in 0..(MaxTries - 1)
    BY LimitAssumption
  <2>2. [tries |-> 0] \in CounterWrites
    BY <2>1 DEF CounterWrites
  <2> QED
    BY <1>1, <1>3, <2>2 DEF GoodPassword, MayTry
<1>4. ASSUME NEW p \in LoginCall, AbandonLogin(p) PROVE AccountInv'
  BY <1>1, <1>4 DEF AbandonLogin
<1>5. ASSUME NEW p \in LoginCall, CommitLogin(p) PROVE AccountInv'
  <2>1. /\ Exists /\ login' = [login EXCEPT ![p] = <<>>]
        /\ UNCHANGED <<invitation, totp, code, misses, mailVars, history>>
        /\ tried' = IF login[p].tries = 0 THEN NoMisses
                    ELSE Missed(tried, login[p].tries - 1, account.tries)
    BY <1>0, <1>5 DEF CommitLogin
  <2>2. \/ \E k \in 0..(MaxTries - 1) : account' = [account EXCEPT !.tries = k]
        \/ account' = [account EXCEPT !.tries = MaxTries, !.status = "blocked"]
    BY <1>5, CommitIsWrite
  <2>11. login[p].tries \in 0..MaxTries /\ account'.tries = login[p].tries
    BY <1>5, CommitIsWrite
  <2>3. \A k \in 0..(MaxTries - 1) : k \in 0..MaxTries /\ k < MaxTries
    BY LimitAssumption
  <2>4. /\ account' \in Accounts
        /\ account'.status = "blocked"
             \/ (account'.status = account.status /\ account'.tries < MaxTries)
        /\ account'.status # "absent" /\ account'.email = account.email
        /\ account'.activated = account.activated
    BY <1>0, <2>1, <2>2, <2>3, SmallNumbers DEF Accounts, Exists
  <2>5. Sound(account')
    BY <1>0, <2>1, <2>4 DEF Sound, Exists
  <2>6. LoginsWriteInOrder'
    BY <1>0, <2>1, <2>4 DEF LoginsWriteInOrder, Exists
  <2>7. AccountTypeOK'
    BY <2>1, <2>4 DEF AccountInv, AccountTypeOK, mailVars, history
  <2>8. ExistingHasAddress'
    BY <2>4, <2>5 DEF ExistingHasAddress, Exists, Sound
  <2>9. ActivatedIsTrusted' /\ UnblockedHasTriesLeft'
    BY <1>0, <2>1, <2>4, <2>5 DEF ActivatedIsTrusted, UnblockedHasTriesLeft, Exists, Sound,
       history
  <2>10. MissesAreCounted' /\ CodesWereAllowed'
    BY <2>1 DEF AccountInv, MissesAreCounted, CodesWereAllowed
  <2>12. TriesAreCounted'
    <3> DEFINE k == login[p].tries
    <3>1. /\ tried \in [bad : Nat, lost : Nat] /\ tried.bad <= account.tries + tried.lost
          /\ account.tries \in Nat /\ k \in Nat
      BY <1>0, <2>11, LimitAssumption DEF AccountInv, TriesAreCounted, Accounts
    <3> HIDE DEF k
    <3>2. CASE k = 0
      BY <2>1, <2>11, <3>1, <3>2 DEF TriesAreCounted, NoMisses, k
    <3>3. CASE k # 0
      <4>1. tried' = Missed(tried, k - 1, account.tries) /\ account'.tries = k
        BY <2>1, <2>11, <3>3 DEF k
      <4>2. k - 1 \in Nat
        BY <3>1, <3>3
      <4>3. /\ tried' \in [bad : Nat, lost : Nat]
            /\ tried'.bad <= (k - 1) + 1 + tried'.lost
        BY <3>1, <4>1, <4>2, OneMoreIsCounted
      <4> QED
        BY <3>1, <4>1, <4>3 DEF TriesAreCounted
    <3> QED
      BY <3>2, <3>3
  <2> QED
    BY <2>1, <2>6, <2>7, <2>8, <2>9, <2>10, <2>12 DEF AccountInv, mailVars
<1> QED
  BY <1>2, <1>3, <1>4, <1>5 DEF LogIn

LEMMA SecondFactorStep ==
  ASSUME AccountInv, SecondFactor
  PROVE  AccountInv'
<1>0. /\ totp \in Credential /\ MissesAreCounted /\ CodesWereAllowed
      /\ code \in [LoginCall -> {<<>>} \cup Attempt]
      /\ totp.failed \in 0..MaxAttempts /\ totp.recent \in BOOLEAN
  BY DEF AccountInv, AccountTypeOK, Credential
<1>1. UNCHANGED <<account, invitation, tried, mailVars, login, history>>
  BY DEF SecondFactor, SetupTotp, VerifyTotp, WindowPasses, ValidateTotpLogin, CommitCode,
     AbandonCode
<1>2. ASSUME totp' \in Credential, MissesAreCounted', CodesWereAllowed',
             code' \in [LoginCall -> {<<>>} \cup Attempt]
      PROVE  AccountInv'
  BY <1>1, <1>2 DEF AccountInv, AccountTypeOK, ExistingHasAddress, Exists, Absent,
     ActivatedIsTrusted, UnblockedHasTriesLeft, LoginsWriteInOrder, TriesAreCounted,
     mailVars, history
<1>3. CASE SetupTotp \/ VerifyTotp
  <2>1. /\ totp' \in Credential /\ totp'.recent = totp.recent
        /\ totp'.failed = totp.failed /\ misses' = misses /\ code' = code
    BY <1>0, <1>3 DEF SetupTotp, VerifyTotp, Credential
  <2> QED
    BY <1>0, <1>2, <2>1 DEF MissesAreCounted, CodesWereAllowed, InWindow
<1>4. CASE WindowPasses
  <2>1. totp' \in Credential /\ ~totp'.recent /\ misses' = NoMisses /\ code' = code
    BY <1>0, <1>4 DEF WindowPasses, Credential
  <2> QED
    BY <1>0, <1>2, <2>1 DEF MissesAreCounted, CodesWereAllowed, InWindow, NoMisses
<1>5. ASSUME NEW p \in LoginCall, NEW good \in BOOLEAN, ValidateTotpLogin(p, good)
      PROVE  AccountInv'
  <2> DEFINE c == [good |-> good, read |-> totp.failed, recent |-> totp.recent]
  <2>1. c \in Attempt /\ c.read = totp.failed /\ c.recent = totp.recent
    BY <1>0 DEF Attempt
  <2> HIDE DEF c
  <2>2. /\ code' = [code EXCEPT ![p] = c] /\ ~(c.read >= MaxAttempts /\ c.recent)
        /\ UNCHANGED <<totp, misses>>
    BY <1>5, <2>1 DEF ValidateTotpLogin, IsLimited, c
  <2>3. code' \in [LoginCall -> {<<>>} \cup Attempt] /\ CodesWereAllowed'
    BY <1>0, <2>1, <2>2 DEF CodesWereAllowed
  <2> QED
    BY <1>0, <1>2, <2>2, <2>3 DEF MissesAreCounted, InWindow
<1>6. ASSUME NEW p \in LoginCall, code' = [code EXCEPT ![p] = <<>>]
      PROVE  code' \in [LoginCall -> {<<>>} \cup Attempt] /\ CodesWereAllowed'
  BY <1>0, <1>6 DEF CodesWereAllowed
<1>7. ASSUME NEW p \in LoginCall, AbandonCode(p) PROVE AccountInv'
  BY <1>0, <1>2, <1>6, <1>7 DEF AbandonCode, MissesAreCounted, InWindow
<1>8. ASSUME NEW p \in LoginCall, CommitCode(p) PROVE AccountInv'
  <2> DEFINE c == code[p]
             now == InWindow(totp.failed, totp.recent)
             then == InWindow(c.read, c.recent)
  <2>1. /\ c \in Attempt /\ c.read \in 0..MaxAttempts /\ c.recent \in BOOLEAN
        /\ c.good \in BOOLEAN /\ ~(c.read >= MaxAttempts /\ c.recent)
    BY <1>0, <1>8 DEF CommitCode, CodesWereAllowed, Attempt
  <2>2. code' = [code EXCEPT ![p] = <<>>]
    BY <1>8 DEF CommitCode
  <2>3. code' \in [LoginCall -> {<<>>} \cup Attempt] /\ CodesWereAllowed'
    BY <1>6, <2>2
  <2>4. CASE c.good
    <3>1. /\ misses' = NoMisses
          /\ totp' \in {totp, [totp EXCEPT !.failed = 0, !.recent = FALSE]}
      BY <1>8, <2>4 DEF CommitCode
    <3>2. totp' \in Credential /\ InWindow(totp'.failed, totp'.recent) \in Nat
      <4>1. [totp EXCEPT !.failed = 0, !.recent = FALSE] \in Credential
        <5>1. 0 \in 0..MaxAttempts
          BY LimitAssumption
        <5> QED
          BY <1>0, <5>1 DEF Credential
      <4>2. totp' \in Credential
        BY <1>0, <3>1, <4>1
      <4>3. totp'.failed \in Nat
        BY <4>2, LimitAssumption DEF Credential
      <4> QED
        BY <4>2, <4>3 DEF InWindow
    <3>3. MissesAreCounted'
      BY <3>1, <3>2 DEF MissesAreCounted, NoMisses
    <3> QED
      BY <1>2, <2>3, <3>2, <3>3
  <2>5. CASE ~c.good
    <3>1. /\ totp' = [totp EXCEPT !.failed = Counted(c.read) + 1, !.recent = TRUE]
          /\ misses' = Missed(misses, then, now)
      BY <1>8, <2>5 DEF CommitCode
    <3>2. /\ Counted(c.read) + 1 \in 0..MaxAttempts /\ then <= Counted(c.read)
          /\ then \in Nat /\ now \in Nat /\ Counted(c.read) \in Nat
      BY <1>0, <2>1, LimitAssumption DEF Counted, InWindow
    <3>3. /\ totp' \in Credential /\ totp'.failed = Counted(c.read) + 1
          /\ totp'.recent
      BY <1>0, <3>1, <3>2 DEF Credential
    <3>4. misses \in [bad : Nat, lost : Nat] /\ misses.bad <= now + misses.lost
      BY <1>0 DEF MissesAreCounted
    <3> HIDE DEF c, now, then
    <3>5. misses' \in [bad : Nat, lost : Nat] /\ misses'.bad <= then + 1 + misses'.lost
      BY <3>1, <3>2, <3>4, OneMoreIsCounted
    <3>6. misses'.bad <= Counted(c.read) + 1 + misses'.lost
      BY <3>2, <3>5
    <3>7. MissesAreCounted'
      BY <3>3, <3>5, <3>6 DEF MissesAreCounted, InWindow
    <3> QED
      BY <1>2, <2>3, <3>3, <3>7
  <2> QED
    BY <2>1, <2>4, <2>5
<1> QED
  BY <1>3, <1>4, <1>5, <1>7, <1>8 DEF SecondFactor

LEMMA AccountStep == AccountInv /\ [AccountNext]_accountVars => AccountInv'
<1> SUFFICES ASSUME AccountInv, [AccountNext]_accountVars PROVE AccountInv'
  OBVIOUS
<1>1. CASE UNCHANGED accountVars
  BY <1>1 DEF accountVars, AccountInv, AccountTypeOK, ExistingHasAddress, Exists, Absent,
     ActivatedIsTrusted, UnblockedHasTriesLeft, LoginsWriteInOrder, MissesAreCounted,
     TriesAreCounted, CodesWereAllowed, mailVars, history, tryVars
<1> QED
  BY <1>1, CreateStep, AddressStep, PasswordStep, LogInStep, SecondFactorStep
     DEF AccountNext

LEMMA AccountInitially == AccountInit => AccountInv
<1> SUFFICES ASSUME AccountInit PROVE AccountInv
  OBVIOUS
<1>1. AccountTypeOK
  <2>1. 0 \in 0..MaxAttempts
    BY LimitAssumption
  <2> QED
    BY <2>1, AbsentIsAccount DEF AccountInit, AccountTypeOK, Credential
<1>2. ~Exists /\ ~account.activated /\ account = Absent
  BY DEF AccountInit, Exists, Absent
<1>3. MissesAreCounted /\ TriesAreCounted /\ CodesWereAllowed
  BY AbsentIsAccount
     DEF AccountInit, MissesAreCounted, TriesAreCounted, CodesWereAllowed, InWindow, NoMisses
<1>4. LoginsWriteInOrder
  BY DEF AccountInit, LoginsWriteInOrder
<1> QED
  BY <1>1, <1>2, <1>3, <1>4, EmployerAssumption, SmallNumbers
     DEF AccountInv, AccountInit, ExistingHasAddress, ActivatedIsTrusted, UnblockedHasTriesLeft

StaysBlocked ==
  account.status = "blocked" /\ account'.status # "blocked" =>
    account'.password # account.password

LEMMA BlockedStep == AccountInv /\ [AccountNext]_accountVars => [StaysBlocked]_accountVars
<1> SUFFICES ASSUME AccountInv, AccountNext, account.status = "blocked",
                    account'.status # "blocked"
             PROVE  account'.password # account.password
  BY DEF StaysBlocked
<1>0. account \in Accounts /\ Exists
  BY DEF AccountInv, AccountTypeOK, Exists
<1>1. CASE CreateAccount
  BY <1>0, <1>1 DEF CreateAccount, SignUpAlone, SignUpByLink, SignUpByConnect, CreateByThirdParty
<1>2. CASE ChangeAddress
  <2>1. ASSUME NEW r \in Accounts PROVE NewLink(r).status = r.status
    BY DEF NewLink, Accounts
  <2>2. ASSUME NEW a \in Address, ChangeEmail(a) PROVE FALSE
    <3> DEFINE r == [account EXCEPT !.email = a, !.confirmed = TRUE]
    <3>1. r \in Accounts /\ r.status = account.status
      BY <1>0 DEF Accounts
    <3> QED
      BY <2>1, <2>2, <3>1 DEF ChangeEmail
  <2>3. ASSUME NEW a \in Address, NEW pw \in {0, 1}, ConfirmConnectEmail(a, pw) PROVE FALSE
    <3> DEFINE r == [account EXCEPT !.email = a, !.confirmed = TRUE, !.password = pw]
    <3>1. r \in Accounts /\ r.status = account.status
      BY <1>0, SmallNumbers DEF Accounts
    <3> QED
      BY <2>1, <2>3, <3>1 DEF ConfirmConnectEmail
  <2>4. CASE ResendActivationEmail
    BY <1>0, <2>1, <2>4 DEF ResendActivationEmail
  <2>5. CASE ActivateByThirdParty \/ \E l \in mailed : ActivateEmail(l)
    BY <1>0, <2>5 DEF ActivateByThirdParty, ActivateEmail, Activated, Accounts
  <2> QED
    BY <1>2, <2>2, <2>3, <2>4, <2>5 DEF ChangeAddress
<1>3. CASE ChangePassword
  <2>1. account' = NewPassword(account)
    BY <1>3 DEF ChangePassword, RequestPasswordReset, ResetPassword, ResetPasswordConnected
  <2>2. account.password \in Nat
    BY <1>0, AccountBounds DEF Accounts
  <2>3. account'.password = account.password + 1
    BY <1>0, <2>1 DEF NewPassword, Accounts
  <2> QED
    BY <2>2, <2>3
<1>4. CASE LogIn
  <2>1. PICK p \in LoginCall : CommitLogin(p)
    BY <1>4 DEF LogIn, BadPassword, GoodPassword, AbandonLogin
  <2>3. \/ \E k \in 0..(MaxTries - 1) : account' = [account EXCEPT !.tries = k]
        \/ account' = [account EXCEPT !.tries = MaxTries, !.status = "blocked"]
    BY <2>1, CommitIsWrite
  <2> QED
    BY <1>0, <2>3 DEF Accounts
<1>5. CASE SecondFactor
  BY <1>5 DEF SecondFactor, SetupTotp, VerifyTotp, WindowPasses, ValidateTotpLogin,
     CommitCode, AbandonCode
<1> QED
  BY <1>1, <1>2, <1>3, <1>4, <1>5 DEF AccountNext

\* An account is activated, blocked and given back for its reasons alone, and
\* bad passwords and codes stay within the limits but for those that requests
\* served at the same time wrote over (AccountIsGuarded).
THEOREM AccountStaysGuarded == AccountSpec => AccountIsGuarded
<1>1. AccountInv => /\ AccountTypeOK /\ ActivatedIsTrusted /\ UnblockedHasTriesLeft
                    /\ BadPasswordsAreLimited /\ BadCodesAreLimited
  <2> SUFFICES ASSUME AccountInv
               PROVE  BadPasswordsAreLimited /\ BadCodesAreLimited
    BY DEF AccountInv
  <2>1. /\ account.tries \in 0..MaxTries
        /\ InWindow(totp.failed, totp.recent) \in 0..MaxAttempts
    BY LimitAssumption DEF AccountInv, AccountTypeOK, Accounts, Credential, InWindow
  <2> QED
    BY <2>1, LimitAssumption
       DEF AccountInv, TriesAreCounted, MissesAreCounted, BadPasswordsAreLimited,
           BadCodesAreLimited
<1>2. AccountInv /\ [AccountNext]_accountVars => AccountInv' /\ [StaysBlocked]_accountVars
  BY AccountStep, BlockedStep
<1> QED
  BY <1>1, <1>2, AccountInitially, PTL
     DEF AccountSpec, AccountIsGuarded, BlockedUntilNewPassword, StaysBlocked

-----------------------------------------------------------------------------
(* OAuth.  An answer names a row that was inserted, and a row can be       *)
(* inserted while none is active: only then was one revoked below the      *)
(* bound.                                                                  *)

OAuthInv ==
  /\ OAuthTypeOK
  /\ GivenTokenExists
  /\ active = {} => rows < MaxTokenRows
  /\ \A p \in TokenServer : exchange[p].at = "answer" => exchange[p].token \in 1..rows

\* Where a process goes is of the type of exchange.
LEMMA GotoKeepsType ==
  ASSUME exchange \in [TokenServer -> Exchange], NEW p \in TokenServer,
         NEW step \in {"idle", "read", "insert", "answer"},
         NEW nb \in 0..MaxCodes, NEW token \in 0..MaxTokenRows,
         Goto(p, step, nb, token)
  PROVE  /\ exchange' \in [TokenServer -> Exchange]
         /\ exchange'[p] = [at |-> step, code |-> nb, token |-> token]
         /\ \A q \in TokenServer \ {p} : exchange'[q] = exchange[q]
  <1>1. [at |-> step, code |-> nb, token |-> token] \in Exchange
    BY DEF Exchange
  <1> QED BY <1>1 DEF Goto

LEMMA OAuthInitially == OAuthInit => OAuthInv
  <1> SUFFICES ASSUME OAuthInit PROVE OAuthInv OBVIOUS
  <1>1. MaxTokenRows \in Nat \ {0} /\ MaxCodes \in Nat
    BY OAuthAssumption
  <1>2. 0 \in 0..MaxTokenRows /\ 0 \in 0..MaxCodes /\ 0 < MaxTokenRows
    BY <1>1
  <1>3. NoExchange \in Exchange
    BY <1>2 DEF NoExchange, Exchange
  <1>4. OAuthTypeOK
    BY <1>2, <1>3 DEF OAuthInit, OAuthTypeOK
  <1> QED
    BY <1>2, <1>4 DEF OAuthInit, OAuthInv, GivenTokenExists, NoExchange

LEMMA OAuthStep == OAuthInv /\ [OAuthNext]_oauthVars => OAuthInv'
  <1> SUFFICES ASSUME OAuthInv, [OAuthNext]_oauthVars PROVE OAuthInv'
    OBVIOUS
  <1> USE OAuthAssumption
  <1>1. /\ rows \in 0..MaxTokenRows /\ lastCode \in 0..MaxCodes
        /\ rows \in Nat /\ lastCode \in Nat
        /\ active \subseteq 1..rows /\ codes \subseteq 1..lastCode
        /\ exchange \in [TokenServer -> Exchange]
        /\ given \subseteq 1..rows
        /\ active = {} => rows < MaxTokenRows
        /\ \A p \in TokenServer : exchange[p].at = "answer" => exchange[p].token \in 1..rows
    BY DEF OAuthInv, OAuthTypeOK, GivenTokenExists
  <1>2. /\ \A p \in TokenServer : exchange[p].code \in 0..MaxCodes
        /\ \A t \in 1..rows : t \in 0..MaxTokenRows
        /\ \A c \in codes \cup {0} : c \in 0..MaxCodes
        /\ 0 \in 0..MaxCodes /\ 0 \in 0..MaxTokenRows
    BY <1>1 DEF Exchange
  \* Requests that leave the tables and go nowhere near an answer.
  <1>3. ASSUME NEW p \in TokenServer, NEW step \in {"idle", "read", "insert"},
               NEW nb \in 0..MaxCodes, Goto(p, step, nb, 0),
               UNCHANGED <<rows, active, lastCode, given>>, codes' = codes
        PROVE  OAuthInv'
    <2>1. /\ exchange' \in [TokenServer -> Exchange]
          /\ exchange'[p] = [at |-> step, code |-> nb, token |-> 0]
          /\ \A q \in TokenServer \ {p} : exchange'[q] = exchange[q]
      BY <1>1, <1>2, <1>3, GotoKeepsType
    <2> QED BY <1>1, <1>2, <1>3, <2>1 DEF OAuthInv, OAuthTypeOK, GivenTokenExists
  <1>4. CASE Authorize
    <2>1. lastCode' \in 0..MaxCodes /\ codes' \subseteq 1..lastCode'
      BY <1>1, <1>4 DEF Authorize
    <2> QED BY <1>1, <1>2, <1>4, <2>1 DEF Authorize, OAuthInv, OAuthTypeOK, GivenTokenExists
  <1>5. CASE ExpireCode
    BY <1>1, <1>2, <1>5 DEF ExpireCode, OAuthInv, OAuthTypeOK, GivenTokenExists
  <1>6. CASE RevokeToken
    BY <1>1, <1>2, <1>6 DEF RevokeToken, OAuthInv, OAuthTypeOK, GivenTokenExists
  <1>7. ASSUME NEW p \in TokenServer, BeginExchange(p) PROVE OAuthInv'
    BY <1>2, <1>3, <1>7 DEF BeginExchange
  <1>8. ASSUME NEW p \in TokenServer, ReadToken(p) PROVE OAuthInv'
    <2>1. CASE active = {}
      BY <1>2, <1>3, <1>8, <2>1 DEF ReadToken
    <2>2. CASE active # {}
      <3>1. PICK t \in active : Goto(p, "answer", exchange[p].code, t)
        BY <1>8, <2>2 DEF ReadToken
      <3>2. t \in 1..rows /\ t \in 0..MaxTokenRows
        BY <1>1, <1>2
      <3>3. /\ exchange' \in [TokenServer -> Exchange]
            /\ exchange'[p] = [at |-> "answer", code |-> exchange[p].code, token |-> t]
            /\ \A q \in TokenServer \ {p} : exchange'[q] = exchange[q]
        BY <1>1, <1>2, <3>1, <3>2, GotoKeepsType
      <3> QED
        BY <1>1, <1>2, <1>8, <3>2, <3>3
        DEF ReadToken, OAuthInv, OAuthTypeOK, GivenTokenExists
    <2> QED BY <2>1, <2>2
  <1>9. ASSUME NEW p \in TokenServer, InsertToken(p) PROVE OAuthInv'
    <2>1. CASE active # {}
      BY <1>2, <1>3, <1>9, <2>1 DEF InsertToken, AfterConflict
    <2>2. CASE active = {}
      <3>1. /\ rows' = rows + 1 /\ active' = {rows'}
            /\ Goto(p, "answer", exchange[p].code, rows + 1)
            /\ UNCHANGED <<codes, lastCode, given>>
        BY <1>9, <2>2 DEF InsertToken
      <3>2. /\ rows' \in 0..MaxTokenRows /\ rows' \in 1..rows'
            /\ \A t \in 1..rows : t \in 1..rows'
            /\ active' \subseteq 1..rows' /\ active' # {}
        BY <1>1, <2>2, <3>1
      <3>3. /\ exchange' \in [TokenServer -> Exchange]
            /\ exchange'[p] = [at |-> "answer", code |-> exchange[p].code, token |-> rows']
            /\ \A q \in TokenServer \ {p} : exchange'[q] = exchange[q]
        BY <1>1, <1>2, <3>1, <3>2, GotoKeepsType
      <3>4. given' \subseteq 1..rows' /\ given' \subseteq 0..MaxTokenRows
        BY <1>1, <1>2, <3>1, <3>2
      <3> QED
        BY <1>1, <3>1, <3>2, <3>3, <3>4
        DEF OAuthInv, OAuthTypeOK, GivenTokenExists
    <2> QED BY <2>1, <2>2
  <1>10. ASSUME NEW p \in TokenServer, AnswerToken(p) PROVE OAuthInv'
    <2>1. /\ exchange' \in [TokenServer -> Exchange]
          /\ exchange'[p] = [at |-> "idle", code |-> 0, token |-> 0]
          /\ \A q \in TokenServer \ {p} : exchange'[q] = exchange[q]
      BY <1>1, <1>2, <1>10, GotoKeepsType DEF AnswerToken
    <2>2. exchange[p].token \in 1..rows
      BY <1>1, <1>10 DEF AnswerToken
    <2>3. /\ UNCHANGED <<rows, active, lastCode>>
          /\ codes' \subseteq codes /\ given' = given \cup {exchange[p].token}
      BY <1>10 DEF AnswerToken
    <2>4. given' \subseteq 1..rows' /\ given' \subseteq 0..MaxTokenRows
      BY <1>1, <1>2, <2>2, <2>3
    <2>5. \A q \in TokenServer : exchange'[q].at = "answer" => exchange'[q].token \in 1..rows'
      BY <1>1, <2>1, <2>3
    <2> QED
      BY <1>1, <2>1, <2>3, <2>4, <2>5
      DEF OAuthInv, OAuthTypeOK, GivenTokenExists
  <1>11. ASSUME NEW p \in TokenServer, Die(p) PROVE OAuthInv'
    BY <1>2, <1>3, <1>11 DEF Die
  <1>12. CASE UNCHANGED oauthVars
    BY <1>12 DEF oauthVars, OAuthInv, OAuthTypeOK, GivenTokenExists
  <1> QED
    BY <1>4, <1>5, <1>6, <1>7, <1>8, <1>9, <1>10, <1>11, <1>12 DEF OAuthNext

\* Whatever number of requests exchange codes at once, be they interrupted or
\* beaten to the insertion (get_or_create_token), the client is given no
\* token that is not in the table.
THEOREM TokensStaySound == OAuthSpec => []TokensAreSound
  <1>1. OAuthInv => TokensAreSound
    BY DEF OAuthInv, TokensAreSound
  <1> QED
    BY <1>1, OAuthInitially, OAuthStep, PTL DEF OAuthSpec

-----------------------------------------------------------------------------
(* Support.  Every token, on its way or in the jar, that lets a supporter  *)
(* act was made by his last StartImpersonation or an earlier one, and what *)
(* a request holds back is logged as it will be committed.                 *)

TokenIsSound(token) ==
  /\ token.id \in Supporter \cup {Nobody} /\ token.as \in Client \cup {Nobody}
  /\ token.issued \in 0..tick /\ token.until \in Nat
  /\ token.as # Nobody =>
       /\ token.id # Nobody
       /\ token.until = token.issued + ImpersonationTime
       /\ token.issued <= startedAt[token.id]

ChangeIsSound(c) ==
  /\ c.at \in 0..tick
  /\ IF c.by = Nobody THEN c.user \in Supporter ELSE c.user \in Client
  /\ AllowedTable # {} /\ c.by # Nobody /\ c.bySession => c.table \in AllowedTable

\* What is logged of a set of changes.
LoggedOf(C, L) ==
  /\ L \subseteq {c \in C : c.by # Nobody /\ c.bySession}
  /\ \A c \in C : c.by # Nobody /\ c.bySession /\ c.table \notin QuietTable => c \in L

AnswerIsSound(r) ==
  /\ TokenIsSound(r.token) /\ r.token.id # Nobody
  /\ r.userId = Acting(r.token)
  /\ r.session \in Supporter \cup {Nobody}

WorkIsSound(r) ==
  /\ r = [step |-> "work", user |-> r.user, begun |-> r.begun, by |-> r.by,
          pending |-> r.pending, logs |-> r.logs]
  /\ r.by \in Supporter \cup {Nobody} /\ r.begun \in 0..tick
  /\ IF r.by = Nobody THEN r.user \in Supporter ELSE r.user \in Client
  /\ r.by # Nobody =>
       /\ r.begun < startedAt[r.by] + ImpersonationTime
       /\ r.begun > revokedAt[r.by] => startedAt[r.by] >= revokedAt[r.by]
  /\ \A c \in r.pending : ChangeIsSound(c)
  /\ LoggedOf(r.pending, r.logs)

CallIsSound(r) ==
  /\ r.step \in {"none", "answer", "work"}
  /\ r.step = "answer" => AnswerIsSound(r)
  /\ r.step = "work" => WorkIsSound(r)

JarIsSound(j) ==
  /\ TokenIsSound(j.token)
  /\ j.token.id # Nobody => j.userId = Acting(j.token)

SupportInv ==
  /\ tick \in 0..LastTick
  /\ guarded \subseteq Supporter /\ session \in Supporter \cup {Nobody}
  /\ revokedAt \in [Supporter -> 0..tick] /\ startedAt \in [Supporter -> 0..tick]
  /\ JarIsSound(jar)
  /\ DOMAIN call = Tab /\ call = [t \in Tab |-> call[t]]
  /\ \A t \in Tab : CallIsSound(call[t])
  /\ \A c \in changes : ChangeIsSound(c)
  /\ LogIsWhatSupportDid

LEMMA SupportInitially == SupportInit => SupportInv
  <1> SUFFICES ASSUME SupportInit PROVE SupportInv OBVIOUS
  <1>1. 0 \in 0..LastTick /\ 0 \in 0..0
    BY SupportAssumption
  <1>2. JarIsSound(jar)
    BY <1>1 DEF SupportInit, JarIsSound, TokenIsSound, NoAccess
  <1>3. \A t \in Tab : CallIsSound(call[t])
    BY DEF SupportInit, CallIsSound, NoCall
  <1> QED
    BY <1>1, <1>2, <1>3 DEF SupportInit, SupportInv, LogIsWhatSupportDid

\* What was sound stays so as time passes and supporters start again; a
\* supporter who is revoked has no request that began since.
LEMMA SoundnessStays ==
  ASSUME tick \in Nat, tick' \in Nat, tick <= tick',
         startedAt \in [Supporter -> 0..tick], startedAt' \in [Supporter -> 0..tick'],
         revokedAt \in [Supporter -> 0..tick],
         \A a \in Supporter : startedAt[a] <= startedAt'[a],
         \A a \in Supporter : revokedAt'[a] \in {revokedAt[a], tick}
  PROVE  /\ \A token : TokenIsSound(token) => TokenIsSound(token)'
         /\ \A c : ChangeIsSound(c) => ChangeIsSound(c)'
         /\ \A r : CallIsSound(r) => CallIsSound(r)'
         /\ \A j : JarIsSound(j) => JarIsSound(j)'
  <1> USE SupportAssumption
  <1>0. \A k \in 0..tick : k \in 0..tick'
    OBVIOUS
  <1>1. ASSUME NEW token, TokenIsSound(token) PROVE TokenIsSound(token)'
    <2>1. ASSUME token.as # Nobody PROVE token.issued <= startedAt'[token.id]
      <3>1. /\ token.id \in Supporter /\ token.issued \in Nat
            /\ token.issued <= startedAt[token.id]
            /\ startedAt[token.id] <= startedAt'[token.id]
        BY <1>1, <2>1 DEF TokenIsSound
      <3>2. startedAt[token.id] \in Nat /\ startedAt'[token.id] \in Nat
        BY <3>1
      <3> QED BY <3>1, <3>2
    <2> QED BY <1>0, <1>1, <2>1 DEF TokenIsSound
  <1>2. ASSUME NEW c, ChangeIsSound(c) PROVE ChangeIsSound(c)'
    BY <1>0, <1>2 DEF ChangeIsSound
  <1>3. ASSUME NEW r, AnswerIsSound(r) PROVE AnswerIsSound(r)'
    BY <1>1, <1>3 DEF AnswerIsSound, Acting
  <1>4. ASSUME NEW r, WorkIsSound(r) PROVE WorkIsSound(r)'
    <2>1. ASSUME r.by # Nobody
          PROVE  /\ r.begun < startedAt'[r.by] + ImpersonationTime
                 /\ r.begun > revokedAt'[r.by] => startedAt'[r.by] >= revokedAt'[r.by]
      <3>1. /\ r.by \in Supporter /\ r.begun \in 0..tick
            /\ r.begun < startedAt[r.by] + ImpersonationTime
            /\ r.begun > revokedAt[r.by] => startedAt[r.by] >= revokedAt[r.by]
        BY <1>4, <2>1 DEF WorkIsSound
      <3>2. /\ startedAt[r.by] \in Nat /\ startedAt'[r.by] \in Nat
            /\ startedAt[r.by] <= startedAt'[r.by]
            /\ revokedAt[r.by] \in Nat /\ revokedAt'[r.by] \in {revokedAt[r.by], tick}
        BY <3>1
      <3> QED BY <3>1, <3>2
    <2>2. \A c \in r.pending : ChangeIsSound(c)'
      BY <1>2, <1>4 DEF WorkIsSound
    <2> QED BY <1>0, <1>4, <2>1, <2>2 DEF WorkIsSound, LoggedOf
  <1>5. ASSUME NEW r, CallIsSound(r) PROVE CallIsSound(r)'
    BY <1>3, <1>4, <1>5 DEF CallIsSound
  <1>6. ASSUME NEW j, JarIsSound(j) PROVE JarIsSound(j)'
    BY <1>1, <1>6 DEF JarIsSound, Acting
  <1> QED BY <1>1, <1>2, <1>5, <1>6

\* A step that replaces the request of one tab and leaves the clock, the
\* tables and the jar.
LEMMA CallStep ==
  ASSUME SupportInv, NEW t \in Tab, NEW r, call' = [call EXCEPT ![t] = r],
         UNCHANGED <<tick, jar, session, guarded, revokedAt, changes, supportLog>>,
         startedAt' \in [Supporter -> 0..tick],
         \A a \in Supporter : startedAt[a] <= startedAt'[a],
         CallIsSound(r)'
  PROVE  SupportInv'
  <1> USE SupportAssumption
  <1>1. /\ tick \in Nat /\ tick' \in Nat /\ tick <= tick'
        /\ startedAt \in [Supporter -> 0..tick] /\ startedAt' \in [Supporter -> 0..tick']
        /\ revokedAt \in [Supporter -> 0..tick]
        /\ \A a \in Supporter : revokedAt'[a] \in {revokedAt[a], tick}
    BY DEF SupportInv
  <1>2. /\ \A c : ChangeIsSound(c) => ChangeIsSound(c)'
        /\ \A s : CallIsSound(s) => CallIsSound(s)'
        /\ \A j : JarIsSound(j) => JarIsSound(j)'
    BY <1>1, SoundnessStays
  <1>3. \A s \in Tab : CallIsSound(call[s])'
    <2>1. SUFFICES ASSUME NEW s \in Tab PROVE CallIsSound(call[s])'
      OBVIOUS
    <2>2. CASE s = t
      <3>1. call'[s] = r
        BY <2>2 DEF SupportInv
      <3> QED BY <3>1
    <2>3. CASE s # t
      <3> DEFINE old == call[s]
      <3>1. call'[s] = old /\ CallIsSound(old)
        BY <2>3 DEF SupportInv
      <3> QED BY <1>2, <3>1
    <2> QED BY <2>2, <2>3
  <1>4. JarIsSound(jar)' /\ \A c \in changes' : ChangeIsSound(c)'
    BY <1>2 DEF SupportInv
  <1>5. DOMAIN call' = Tab /\ call' = [s \in Tab |-> call'[s]]
    BY DEF SupportInv
  <1>6. LogIsWhatSupportDid'
    BY DEF SupportInv, LogIsWhatSupportDid
  <1> QED
    BY <1>1, <1>3, <1>4, <1>5, <1>6 DEF SupportInv

\* A step that changes no request and leaves the jar.
LEMMA QuietStep ==
  ASSUME SupportInv, UNCHANGED <<jar, call, startedAt, changes>>,
         tick' \in 0..LastTick, tick <= tick',
         revokedAt' \in [Supporter -> 0..tick'],
         \A a \in Supporter : revokedAt'[a] \in {revokedAt[a], tick},
         guarded' \subseteq Supporter, session' \in Supporter \cup {Nobody},
         supportLog' \subseteq supportLog,
         \A c \in supportLog : c.at >= tick' - LogLife => c \in supportLog'
  PROVE  SupportInv'
  <1> USE SupportAssumption
  <1>1. /\ tick \in Nat /\ tick' \in Nat
        /\ startedAt \in [Supporter -> 0..tick] /\ revokedAt \in [Supporter -> 0..tick]
        /\ \A a \in Supporter : startedAt[a] \in Nat
    BY DEF SupportInv
  <1>2. \A k \in 0..tick : k \in 0..tick'
    BY <1>1
  <1>3. startedAt' \in [Supporter -> 0..tick'] /\ \A a \in Supporter : startedAt[a] <= startedAt'[a]
    BY <1>1, <1>2
  <1>4. /\ \A c : ChangeIsSound(c) => ChangeIsSound(c)'
        /\ \A s : CallIsSound(s) => CallIsSound(s)'
        /\ \A j : JarIsSound(j) => JarIsSound(j)'
    BY <1>1, <1>3, SoundnessStays
  <1>5. \A s \in Tab : CallIsSound(call[s])'
    <2>1. SUFFICES ASSUME NEW s \in Tab PROVE CallIsSound(call[s])'
      OBVIOUS
    <2> DEFINE old == call[s]
    <2>2. call'[s] = old /\ CallIsSound(old)
      BY DEF SupportInv
    <2> QED BY <1>4, <2>2
  <1>6. JarIsSound(jar)' /\ \A c \in changes' : ChangeIsSound(c)'
    BY <1>4 DEF SupportInv
  <1>7. LogIsWhatSupportDid'
    <2>1. supportLog' \subseteq {c \in changes' : c.by # Nobody /\ c.bySession}
      BY DEF SupportInv, LogIsWhatSupportDid
    <2>2. ASSUME NEW c \in changes, c.by # Nobody, c.bySession,
                 c.table \notin QuietTable, c.at >= tick' - LogLife
          PROVE  c \in supportLog'
      <3>1. c.at \in Nat
        BY <1>1 DEF SupportInv, ChangeIsSound
      <3>2. c.at >= tick - LogLife
        BY <1>1, <2>2, <3>1
      <3> QED BY <2>2, <3>2 DEF SupportInv, LogIsWhatSupportDid
    <2> QED BY <2>1, <2>2 DEF LogIsWhatSupportDid
  <1> QED BY <1>3, <1>5, <1>6, <1>7 DEF SupportInv

\* New cookies on their way.
LEMMA AnswerStep ==
  ASSUME SupportInv, NEW t \in Tab, NEW token, NEW user,
         NEW keeps \in Supporter \cup {Nobody}, Answers(t, token, user, keeps),
         UNCHANGED <<tick, jar, session, guarded, revokedAt, changes, supportLog>>,
         startedAt' \in [Supporter -> 0..tick],
         \A a \in Supporter : startedAt[a] <= startedAt'[a],
         TokenIsSound(token)', token.id # Nobody, user = Acting(token)
  PROVE  SupportInv'
  <1> DEFINE r == [step |-> "answer", token |-> token, userId |-> user, session |-> keeps]
  <1>1. CallIsSound(r)'
    BY DEF CallIsSound, AnswerIsSound, Acting
  <1>2. call' = [call EXCEPT ![t] = r]
    BY DEF Answers
  <1> HIDE DEF r
  <1> QED BY <1>1, <1>2, CallStep

\* Requests that answer with other cookies.
LEMMA SupportCookiesStep ==
  ASSUME SupportInv, NEW t \in Tab,
         \/ \E a \in Supporter : LoginSupport(t, a)
         \/ \E c \in Client : StartImpersonation(t, c)
         \/ StopImpersonation(t)
         \/ RefreshSupport(t)
  PROVE  SupportInv'
  <1> USE SupportAssumption
  <1>1. /\ tick \in Nat /\ tick \in 0..tick /\ tick + AccessTime \in Nat
        /\ tick + ImpersonationTime \in Nat
        /\ startedAt \in [Supporter -> 0..tick]
        /\ \A a \in Supporter : startedAt[a] \in Nat /\ startedAt[a] <= tick
        /\ session \in Supporter \cup {Nobody}
        /\ jar.token.id \in Supporter \cup {Nobody}
        /\ jar.token.as # Nobody => jar.token.id # Nobody
    BY DEF SupportInv, JarIsSound, TokenIsSound
  \* A token of the supporter himself.
  <1>2. ASSUME NEW a \in Supporter, NEW keeps \in Supporter \cup {Nobody},
               Answers(t, AccessToken(a, Nobody, AccessTime), a, keeps),
               UNCHANGED <<tick, jar, session, guarded, revokedAt, changes, supportLog, startedAt>>
        PROVE  SupportInv'
    <2>0. PICK token : token = [id |-> a, as |-> Nobody, issued |-> tick, until |-> tick + AccessTime]
      OBVIOUS
    <2>1. TokenIsSound(token)'
      BY <1>1, <1>2, <2>0 DEF TokenIsSound
    <2>2. token.id # Nobody /\ a = Acting(token)
      BY <2>0 DEF Acting
    <2>3. Answers(t, token, a, keeps)
      BY <1>2, <2>0 DEF AccessToken
    <2>4. /\ startedAt' \in [Supporter -> 0..tick]
          /\ \A b \in Supporter : startedAt[b] <= startedAt'[b]
      BY <1>1, <1>2
    <2> QED BY <1>2, <2>1, <2>2, <2>3, <2>4, AnswerStep
  <1>3. ASSUME NEW a \in Supporter, LoginSupport(t, a) PROVE SupportInv'
    BY <1>2, <1>3 DEF LoginSupport
  <1>4. ASSUME StopImpersonation(t) PROVE SupportInv'
    <2>1. jar.token.id \in Supporter
      BY <1>1, <1>4 DEF StopImpersonation, IsValid
    <2> QED BY <1>1, <1>2, <1>4, <2>1 DEF StopImpersonation
  <1>5. ASSUME RefreshSupport(t) PROVE SupportInv'
    BY <1>1, <1>2, <1>5 DEF RefreshSupport
  <1>6. ASSUME NEW c \in Client, StartImpersonation(t, c) PROVE SupportInv'
    <2>0. PICK a \in Supporter : a = jar.token.id
      BY <1>1, <1>6 DEF StartImpersonation, IsValid
    <2>1. PICK token : token = [id |-> a, as |-> c, issued |-> tick,
                                until |-> tick + ImpersonationTime]
      OBVIOUS
    <2>2. /\ UNCHANGED <<tick, jar, session, guarded, revokedAt, changes, supportLog>>
          /\ startedAt' = [startedAt EXCEPT ![a] = tick]
      BY <1>6, <2>0 DEF StartImpersonation
    <2>3. /\ startedAt' \in [Supporter -> 0..tick] /\ startedAt'[a] = tick
          /\ \A b \in Supporter : startedAt[b] <= startedAt'[b]
      BY <1>1, <2>2
    <2>4. Answers(t, token, c, session)
      BY <1>6, <2>0, <2>1 DEF StartImpersonation, AccessToken
    <2>5. TokenIsSound(token)'
      BY <1>1, <2>1, <2>2, <2>3 DEF TokenIsSound
    <2>6. token.id # Nobody /\ c = Acting(token)
      BY <2>1 DEF Acting
    <2>7. PICK keeps \in Supporter \cup {Nobody} : keeps = session
      BY <1>1
    <2> QED BY <2>2, <2>3, <2>4, <2>5, <2>6, <2>7, AnswerStep
  <1> QED BY <1>3, <1>4, <1>5, <1>6

\* The answer arrives: the cookies are its own.
LEMMA ArrivalStep ==
  ASSUME SupportInv, NEW t \in Tab, Answered(t)
  PROVE  SupportInv'
  <1>1. /\ AnswerIsSound(call[t]) /\ call' = [call EXCEPT ![t] = NoCall]
        /\ jar' = [token |-> call[t].token, userId |-> call[t].userId]
        /\ session' = call[t].session
        /\ UNCHANGED <<tick, guarded, revokedAt, changes, supportLog, startedAt>>
    BY DEF Answered, SupportInv, CallIsSound
  <1>2. JarIsSound(jar)' /\ session' \in Supporter \cup {Nobody}
    BY <1>1 DEF JarIsSound, AnswerIsSound, TokenIsSound, Acting
  <1>3. \A s \in Tab : CallIsSound(call[s])'
    <2>1. SUFFICES ASSUME NEW s \in Tab PROVE CallIsSound(call[s])'
      OBVIOUS
    <2>2. call'[s] \in {call[s], NoCall} /\ CallIsSound(call[s])
      BY <1>1 DEF SupportInv
    <2> QED
      BY <1>1, <2>2
      DEF CallIsSound, NoCall, AnswerIsSound, WorkIsSound, TokenIsSound, ChangeIsSound, Acting
  <1>4. DOMAIN call' = Tab /\ call' = [s \in Tab |-> call'[s]]
    BY <1>1 DEF SupportInv
  <1>5. LogIsWhatSupportDid' /\ \A c \in changes' : ChangeIsSound(c)'
    BY <1>1 DEF SupportInv, LogIsWhatSupportDid, ChangeIsSound
  <1> QED BY <1>1, <1>2, <1>3, <1>4, <1>5 DEF SupportInv

\* A request runs for whom the jar named when it began.
LEMMA BeginStep ==
  ASSUME SupportInv, NEW t \in Tab, Begin(t)
  PROVE  SupportInv'
  <1> USE SupportAssumption
  <1>1. PICK r : r = [step |-> "work", user |-> Acting(jar.token), begun |-> tick,
                      by |-> IF jar.token.as = Nobody THEN Nobody ELSE jar.token.id,
                      pending |-> {}, logs |-> {}]
    OBVIOUS
  <1>2. /\ call' = [call EXCEPT ![t] = r]
        /\ UNCHANGED <<tick, jar, session, guarded, revokedAt, changes, supportLog, startedAt>>
    BY <1>1 DEF Begin
  <1>3. /\ jar.token.id \in Supporter /\ jar.token.as \in Client \cup {Nobody}
        /\ tick < jar.token.until /\ jar.token.issued >= revokedAt[jar.token.id]
        /\ TokenIsSound(jar.token)
    BY DEF Begin, IsValid, SupportInv, JarIsSound, TokenIsSound
  <1>4. /\ tick \in Nat /\ startedAt \in [Supporter -> 0..tick]
        /\ revokedAt \in [Supporter -> 0..tick]
        /\ \A a \in Supporter : startedAt[a] \in Nat /\ revokedAt[a] \in Nat
    BY DEF SupportInv
  <1>5. r.by # Nobody =>
          /\ r.begun < startedAt[r.by] + ImpersonationTime
          /\ r.begun > revokedAt[r.by] => startedAt[r.by] >= revokedAt[r.by]
    <2>1. SUFFICES ASSUME r.by # Nobody
                   PROVE  /\ tick < startedAt[r.by] + ImpersonationTime
                          /\ startedAt[r.by] >= revokedAt[r.by]
      BY <1>1
    <2>2. r.by = jar.token.id /\ jar.token.as # Nobody
      BY <1>1, <2>1
    <2>3. /\ jar.token.until = jar.token.issued + ImpersonationTime
          /\ jar.token.issued <= startedAt[r.by] /\ jar.token.issued \in Nat
          /\ startedAt[r.by] \in Nat /\ revokedAt[r.by] \in Nat
      BY <1>3, <1>4, <2>2 DEF TokenIsSound
    <2> QED BY <1>3, <1>4, <2>2, <2>3
  <1>6. /\ r.by \in Supporter \cup {Nobody} /\ r.begun \in 0..tick
        /\ IF r.by = Nobody THEN r.user \in Supporter ELSE r.user \in Client
    BY <1>1, <1>3, <1>4 DEF Acting
  <1>7. WorkIsSound(r)'
    BY <1>1, <1>2, <1>5, <1>6 DEF WorkIsSound, LoggedOf
  <1>8. CallIsSound(r)'
    BY <1>1, <1>7 DEF CallIsSound
  <1>9. /\ startedAt' \in [Supporter -> 0..tick]
        /\ \A a \in Supporter : startedAt[a] <= startedAt'[a]
    BY <1>2, <1>4
  <1> QED BY <1>2, <1>8, <1>9, CallStep

\* What a request holds back is sound, and logged when the session wrote it.
LEMMA WriteStep ==
  ASSUME SupportInv, NEW t \in Tab, NEW c, NEW logged \in BOOLEAN,
         call[t].step = "work", Writes(t, c, logged),
         ChangeIsSound(c),
         logged => c.by # Nobody /\ c.bySession,
         c.by # Nobody /\ c.bySession /\ c.table \notin QuietTable => logged
  PROVE  SupportInv'
  <1>1. PICK old : old = call[t] OBVIOUS
  <1>2. PICK r : r = [old EXCEPT !.pending = @ \cup {c},
                                 !.logs = IF logged THEN @ \cup {c} ELSE @]
    OBVIOUS
  <1>3. /\ old.step = "work"
        /\ UNCHANGED <<tick, jar, session, guarded, revokedAt, changes, supportLog, startedAt>>
    BY <1>1 DEF Writes
  <1>4. WorkIsSound(old) /\ tick \in Nat
    BY <1>1, <1>3 DEF SupportInv, CallIsSound
  <1>5. call' = [call EXCEPT ![t] = r]
    BY <1>1, <1>2 DEF Writes, SupportInv
  <1>6. old = [step |-> "work", user |-> old.user, begun |-> old.begun, by |-> old.by,
               pending |-> old.pending, logs |-> old.logs]
    BY <1>4 DEF WorkIsSound
  <1>7. r = [step |-> "work", user |-> old.user, begun |-> old.begun, by |-> old.by,
             pending |-> old.pending \cup {c},
             logs |-> IF logged THEN old.logs \cup {c} ELSE old.logs]
    <2>1. PICK u, g, y, P, L :
            old = [step |-> "work", user |-> u, begun |-> g, by |-> y, pending |-> P, logs |-> L]
      BY <1>6
    <2>2. old.user = u /\ old.begun = g /\ old.by = y /\ old.pending = P /\ old.logs = L
      BY <2>1
    <2>3. PICK M : M = IF logged THEN L \cup {c} ELSE L
      OBVIOUS
    <2>4. r = [old EXCEPT !.pending = P \cup {c}, !.logs = M]
      BY <1>2, <2>1, <2>2, <2>3
    <2>5. r = [step |-> "work", user |-> u, begun |-> g, by |-> y,
               pending |-> P \cup {c}, logs |-> M]
      BY <2>1, <2>4
    <2> QED BY <2>2, <2>3, <2>5
  <1>8. LoggedOf(r.pending, r.logs)
    BY <1>4, <1>7 DEF WorkIsSound, LoggedOf
  <1>9. \A d \in r.pending : ChangeIsSound(d)
    BY <1>4, <1>7 DEF WorkIsSound
  <1>10. WorkIsSound(r)
    BY <1>4, <1>7, <1>8, <1>9 DEF WorkIsSound
  <1>11. CallIsSound(r)'
    BY <1>3, <1>7, <1>10 DEF CallIsSound, WorkIsSound, ChangeIsSound
  <1>12. /\ startedAt' \in [Supporter -> 0..tick]
         /\ \A a \in Supporter : startedAt[a] <= startedAt'[a]
    BY <1>3, <1>4 DEF SupportInv
  <1> QED BY <1>3, <1>5, <1>11, <1>12, CallStep

\* A flush is guarded and audited, a statement around the session neither.
LEMMA FlushStep ==
  ASSUME SupportInv, NEW t \in Tab, NEW table \in LogTable,
         NEW action \in {"INSERT", "UPDATE", "DELETE"},
         Flush(t, table, action) \/ Execute(t, table, action)
  PROVE  SupportInv'
  <1>1. PICK old : old = call[t] OBVIOUS
  <1>2. WorkIsSound(old) /\ tick \in 0..tick
    <2>1. tick \in 0..tick
      BY SupportAssumption DEF SupportInv
    <2>2. old.step = "work" /\ CallIsSound(old)
      BY <1>1 DEF Flush, Execute, SupportInv
    <2> QED BY <2>1, <2>2 DEF CallIsSound
  <1>3. CASE Flush(t, table, action)
    <2>1. PICK c : c = Change(t, table, action, TRUE)
      OBVIOUS
    <2>2. PICK logged \in BOOLEAN : logged = IsLogged(old.by, table, action)
      BY DEF IsLogged
    <2>3. /\ call[t].step = "work" /\ Writes(t, c, logged)
          /\ IsInScope(old.by, table, action)
      BY <1>1, <1>3, <2>1, <2>2 DEF Flush
    <2>4. ChangeIsSound(c)
      BY <1>1, <1>2, <2>1, <2>3 DEF ChangeIsSound, WorkIsSound, IsInScope, Change
    <2>5. c.by = old.by /\ c.bySession /\ c.table = table
      BY <1>1, <2>1 DEF Change
    <2>6. logged = (c.by # Nobody /\ c.table \notin QuietTable)
      BY <2>2, <2>5 DEF IsLogged
    <2> QED BY <2>3, <2>4, <2>5, <2>6, WriteStep
  <1>4. CASE Execute(t, table, action)
    <2>1. PICK c : c = Change(t, table, action, FALSE)
      OBVIOUS
    <2>2. call[t].step = "work" /\ Writes(t, c, FALSE) /\ ~c.bySession
      BY <1>4, <2>1 DEF Execute, Change
    <2>3. ChangeIsSound(c)
      BY <1>1, <1>2, <2>1 DEF ChangeIsSound, WorkIsSound, Change
    <2> QED BY <2>2, <2>3, WriteStep
  <1> QED BY <1>3, <1>4

\* A request is done, with what it held back or without.
LEMMA EndStep ==
  ASSUME SupportInv, NEW t \in Tab, CommitChange(t) \/ FailChange(t)
  PROVE  SupportInv'
  <1>1. /\ call' = [call EXCEPT ![t] = NoCall]
        /\ UNCHANGED <<tick, jar, session, guarded, revokedAt, startedAt>>
    BY DEF CommitChange, FailChange
  <1>2. \A s \in Tab : CallIsSound(call[s])'
    <2>1. SUFFICES ASSUME NEW s \in Tab PROVE CallIsSound(call[s])'
      OBVIOUS
    <2>2. call'[s] \in {call[s], NoCall} /\ CallIsSound(call[s])
      BY <1>1 DEF SupportInv
    <2> QED
      BY <1>1, <2>2
      DEF CallIsSound, NoCall, AnswerIsSound, WorkIsSound, TokenIsSound, ChangeIsSound, Acting
  <1>3. DOMAIN call' = Tab /\ call' = [s \in Tab |-> call'[s]]
    BY <1>1 DEF SupportInv
  <1>4. LogIsWhatSupportDid' /\ \A c \in changes' : ChangeIsSound(c)'
    <2>1. CASE FailChange(t)
      BY <1>1, <2>1 DEF FailChange, SupportInv, LogIsWhatSupportDid, ChangeIsSound
    <2>2. CASE CommitChange(t)
      <3>1. /\ WorkIsSound(call[t]) /\ changes' = changes \cup call[t].pending
            /\ supportLog' = supportLog \cup call[t].logs
        BY <2>2 DEF CommitChange, SupportInv, CallIsSound
      <3>2. \A c \in changes' : ChangeIsSound(c)'
        BY <1>1, <3>1 DEF SupportInv, WorkIsSound, ChangeIsSound
      <3>3. LogIsWhatSupportDid'
        BY <1>1, <3>1 DEF SupportInv, LogIsWhatSupportDid, WorkIsSound, LoggedOf
      <3> QED BY <3>2, <3>3
    <2> QED BY <2>1, <2>2
  <1>5. JarIsSound(jar)'
    BY <1>1 DEF SupportInv, JarIsSound, TokenIsSound, Acting
  <1> QED BY <1>1, <1>2, <1>3, <1>4, <1>5 DEF SupportInv

LEMMA SupportStep == SupportInv /\ [SupportNext]_supportVars => SupportInv'
  <1> SUFFICES ASSUME SupportInv, [SupportNext]_supportVars PROVE SupportInv'
    OBVIOUS
  <1> USE SupportAssumption
  <1>1. /\ tick \in 0..LastTick /\ tick \in Nat /\ tick \in 0..tick
        /\ revokedAt \in [Supporter -> 0..tick]
        /\ guarded \subseteq Supporter /\ session \in Supporter \cup {Nobody}
        /\ \A c \in supportLog : c.at \in Nat
    BY DEF SupportInv, LogIsWhatSupportDid, ChangeIsSound
  <1>2. ASSUME NEW a \in Supporter, Revoke(a) PROVE SupportInv'
    <2>1. /\ revokedAt' \in [Supporter -> 0..tick'] /\ session' \in Supporter \cup {Nobody}
          /\ \A b \in Supporter : revokedAt'[b] \in {revokedAt[b], tick}
          /\ UNCHANGED <<tick, jar, guarded, call, changes, supportLog, startedAt>>
      BY <1>1, <1>2 DEF Revoke
    <2>2. tick <= tick'
      BY <1>1, <2>1
    <2> QED BY <1>1, <2>1, <2>2, QuietStep
  <1>3. ASSUME NEW a \in Supporter, RestartSecondFactor(a) PROVE SupportInv'
    <2>1. /\ guarded' \subseteq Supporter
          /\ UNCHANGED <<tick, jar, session, revokedAt, call, changes, supportLog, startedAt>>
      BY <1>1, <1>3 DEF RestartSecondFactor
    <2>2. tick <= tick'
      BY <1>1, <2>1
    <2> QED BY <1>1, <2>1, <2>2, QuietStep
  <1>4. CASE Purge
    <2>1. /\ supportLog' = supportLog \ OutOfLife
          /\ UNCHANGED <<tick, jar, session, guarded, revokedAt, call, changes, startedAt>>
      BY <1>4 DEF Purge
    <2>2. tick <= tick' /\ \A c \in supportLog : c.at >= tick' - LogLife => c \in supportLog'
      BY <1>1, <2>1 DEF OutOfLife
    <2> QED BY <1>1, <2>1, <2>2, QuietStep
  <1>5. CASE NextTick
    <2>1. /\ tick' \in 0..LastTick /\ tick <= tick' /\ \A k \in 0..tick : k \in 0..tick'
          /\ UNCHANGED <<jar, session, guarded, revokedAt, call, changes, supportLog, startedAt>>
      BY <1>1, <1>5 DEF NextTick
    <2>2. revokedAt' \in [Supporter -> 0..tick']
      BY <1>1, <2>1
    <2> QED BY <1>1, <2>1, <2>2, QuietStep
  <1>6. CASE UNCHANGED supportVars
    <2>1. UNCHANGED <<tick, jar, session, guarded, revokedAt, call, changes, supportLog, startedAt>>
      BY <1>6 DEF supportVars
    <2>2. tick <= tick'
      BY <1>1, <2>1
    <2> QED BY <1>1, <2>1, <2>2, QuietStep
  <1> QED
    BY <1>2, <1>3, <1>4, <1>5, <1>6, SupportCookiesStep, ArrivalStep, BeginStep,
       FlushStep, EndStep
    DEF SupportNext

\* For any supporters, clients, tabs, tables and lives of tokens and log: the
\* support acts for a client only within ImpersonationTime of having asked to
\* (get_user_from_token_identity), what the session writes for it is in scope
\* and logged as long as the log is kept (guard_impersonation_scope,
\* log_impersonation_actions), and the cookie names who acts.
THEOREM SupportStaysAccountable == SupportSpec => []SupportIsAccountable
  <1>1. SupportInv => SupportIsAccountable
    <2> SUFFICES ASSUME SupportInv PROVE SupportIsAccountable OBVIOUS
    <2>1. SupportTypeOK
      <3>1. \A k \in 0..tick : k \in 0..LastTick
        BY SupportAssumption DEF SupportInv
      <3>2. revokedAt \in [Supporter -> 0..LastTick]
        BY <3>1 DEF SupportInv
      <3>3. \A c \in changes \cup supportLog : c \in changes /\ ChangeIsSound(c)
        BY DEF SupportInv, LogIsWhatSupportDid
      <3> QED
        BY <3>2, <3>3 DEF SupportInv, SupportTypeOK, JarIsSound, TokenIsSound, ChangeIsSound
    <2>2. CookieIsWhoActs /\ LogIsWhatSupportDid
      BY DEF SupportInv, CookieIsWhoActs, JarIsSound
    <2>3. SupportStaysInScope
      BY DEF SupportInv, SupportStaysInScope, ChangeIsSound
    <2>4. ImpersonationIsBounded
      BY DEF SupportInv, ImpersonationIsBounded, CallIsSound, WorkIsSound
    <2> QED BY <2>1, <2>2, <2>3, <2>4 DEF SupportIsAccountable
  <1> QED
    BY <1>1, SupportInitially, SupportStep, PTL DEF SupportSpec

-----------------------------------------------------------------------------
(* Third parties.  A token names one link, in the table and in the mails:  *)
(* what a mail opens is what its token was made for.                       *)

TaskIsSound(t) ==
  /\ t.task = "sync" =>
       /\ t.contract \in {0} \cup DOMAIN contracts
       /\ t.link \in {0} \cup DOMAIN clientLinks
       /\ ~t.person => person # "absent"
  /\ t.task = "accept" =>
       /\ <<t.link, t.invite>> \in inbox
       /\ t.invite \notin lapsed

TokenNamesLink ==
  /\ \A k, l \in DOMAIN clientLinks :
       clientLinks[k].invite = clientLinks[l].invite /\ clientLinks[k].invite # 0 => k = l
  /\ \A l, m : <<l, m>> \in inbox =>
       /\ \A k \in DOMAIN clientLinks : clientLinks[k].invite = m => k = l
       /\ \A k : <<k, m>> \in inbox => k = l

\* The invitation a link waits for opened nothing, and lapsed only when late.
WaitingIsFresh ==
  \A l \in DOMAIN clientLinks : clientLinks[l].invite # 0 =>
    /\ clientLinks[l].invite <= tokensMade
    /\ clientLinks[l].invite \notin opened
    /\ clientLinks[l].invite \in lapsed => clientLinks[l].late

\* What holds until a mail is followed.
Unattached ==
  /\ \A e \in DOMAIN contracts : contracts[e].status = "approved" => e \in givenBack
  /\ \A l \in DOMAIN clientLinks : ~clientLinks[l].access

ThirdPartyInv ==
  /\ ThirdPartyTypeOK
  /\ \A l \in DOMAIN clientLinks : clientLinks[l].of \in DOMAIN contracts
  /\ inbox \subseteq (DOMAIN clientLinks) \X (1..tokensMade)
  /\ inbox # {} => person # "absent"
  /\ \A w \in SyncServer : TaskIsSound(serving[w])
  /\ TokenNamesLink
  /\ WaitingIsFresh
  /\ LapsedMailOpensNothing
  /\ person # "active" => Unattached

LEMMA RowsAreCounted ==
  ASSUME NEW S, NEW f, NEW n \in Nat, f \in [1..n -> S]
  PROVE  Cardinality(DOMAIN f) = n
  <1>1. DOMAIN f = 1..n
    OBVIOUS
  <1>2. Cardinality(1..n) = IF 1 > n THEN 0 ELSE n - 1 + 1
    BY FS_Interval
  <1> QED BY <1>1, <1>2

LEMMA ThirdPartyInitially == ThirdPartyInit => ThirdPartyInv
  <1> SUFFICES ASSUME ThirdPartyInit PROVE ThirdPartyInv OBVIOUS
  <1>1. 0 \in 0..MaxRows /\ 0 \in 0..MaxMails
    BY ThirdPartyAssumption
  <1>2. << >> \in [1..0 -> Contract] /\ << >> \in [1..0 -> ClientLink]
    OBVIOUS
  <1>3. NoTask \in Tasks
    BY DEF Tasks
  <1>4. \E n \in 0..MaxRows : contracts \in [1..n -> Contract]
    BY <1>1, <1>2 DEF ThirdPartyInit
  <1>5. \E n \in 0..MaxRows : clientLinks \in [1..n -> ClientLink]
    BY <1>1, <1>2 DEF ThirdPartyInit
  <1>6. ThirdPartyTypeOK
    BY <1>1, <1>3, <1>4, <1>5 DEF ThirdPartyInit, ThirdPartyTypeOK
  <1>7. \A w \in SyncServer : TaskIsSound(serving[w])
    BY DEF ThirdPartyInit, TaskIsSound, NoTask
  <1>8. TokenNamesLink /\ WaitingIsFresh /\ Unattached /\ LapsedMailOpensNothing
    BY DEF ThirdPartyInit, TokenNamesLink, WaitingIsFresh, Unattached, LapsedMailOpensNothing
  <1> QED BY <1>6, <1>7, <1>8 DEF ThirdPartyInit, ThirdPartyInv

\* A step that leaves the rows and the mails.
LEMMA TaskStep ==
  ASSUME ThirdPartyInv,
         UNCHANGED <<person, contracts, clientLinks, tokensMade, inbox, givenBack, lapsed, opened>>,
         software' \in 0..MaxRows, serving' \in [SyncServer -> Tasks],
         \A w \in SyncServer : TaskIsSound(serving[w])'
  PROVE  ThirdPartyInv'
  BY DEF ThirdPartyInv, ThirdPartyTypeOK, TokenNamesLink, WaitingIsFresh,
         LapsedMailOpensNothing, Unattached

\* A task begins or ends.
LEMMA OneTaskStep ==
  ASSUME ThirdPartyInv, NEW w \in SyncServer, NEW t \in Tasks, TaskIsSound(t),
         serving' = [serving EXCEPT ![w] = t],
         UNCHANGED <<person, contracts, clientLinks, tokensMade, inbox, givenBack, lapsed, opened>>,
         software' \in 0..MaxRows
  PROVE  ThirdPartyInv'
  <1>1. serving' \in [SyncServer -> Tasks]
    BY DEF ThirdPartyInv, ThirdPartyTypeOK
  <1>2. \A v \in SyncServer : TaskIsSound(serving[v])'
    <2>1. SUFFICES ASSUME NEW v \in SyncServer PROVE TaskIsSound(serving[v])'
      OBVIOUS
    <2>2. serving'[v] \in {t, serving[v]} /\ TaskIsSound(serving[v])
      BY DEF ThirdPartyInv, ThirdPartyTypeOK
    <2> QED BY <2>2 DEF TaskIsSound
  <1> QED BY <1>1, <1>2, TaskStep

LEMMA ShortStep ==
  ASSUME ThirdPartyInv, NEW w \in SyncServer,
         \/ BeginLinkCompany(w) \/ CommitLinkCompany(w) \/ BeginSync(w)
         \/ BeginAccept(w) \/ RollBack(w)
  PROVE  ThirdPartyInv'
  <1> USE ThirdPartyAssumption
  <1>1. /\ software \in 0..MaxRows /\ software \in Nat
        /\ \A l \in DOMAIN clientLinks : l \in RowId
        /\ \A e \in DOMAIN contracts : e \in RowId
    BY DEF ThirdPartyInv, ThirdPartyTypeOK, RowId
  <1>2. NoTask \in Tasks /\ TaskIsSound(NoTask)
    BY DEF Tasks, NoTask, TaskIsSound
  <1>3. CASE BeginLinkCompany(w)
    <2>1. PICK t : t = [task |-> "link", found |-> software]
      OBVIOUS
    <2>2. t \in Tasks /\ TaskIsSound(t)
      BY <1>1, <1>3, <2>1 DEF BeginLinkCompany, Tasks, TaskIsSound
    <2> QED BY <1>1, <1>3, <2>1, <2>2, OneTaskStep DEF BeginLinkCompany, StartTask
  <1>4. CASE CommitLinkCompany(w)
    <2>1. software' \in 0..MaxRows
      BY <1>1, <1>4 DEF CommitLinkCompany
    <2> QED BY <1>2, <1>4, <2>1, OneTaskStep DEF CommitLinkCompany, EndTask
  <1>5. CASE RollBack(w)
    BY <1>1, <1>2, <1>5, OneTaskStep DEF RollBack, EndTask
  <1>6. CASE BeginSync(w)
    <2> DEFINE Task(e, l, admin) ==
          [task |-> "sync", person |-> person = "absent", contract |-> e,
           link |-> l, renew |-> l # 0 /\ NeedsRenewal(l), admin |-> admin]
    <2>0. PICK e \in OneOrNone(Current) :
            \E l \in OneOrNone(IF e = 0 THEN {} ELSE LinksOf(e)) :
              \E admin \in BOOLEAN : StartTask(w, Task(e, l, admin))
      BY <1>6 DEF BeginSync
    <2>1. PICK l \in OneOrNone(IF e = 0 THEN {} ELSE LinksOf(e)), admin \in BOOLEAN :
            StartTask(w, Task(e, l, admin))
      BY <2>0
    <2>2. e \in {0} \cup DOMAIN contracts /\ l \in {0} \cup DOMAIN clientLinks
      BY DEF OneOrNone, Current, LinksOf
    <2>3. PICK new \in BOOLEAN : new = (person = "absent")
      OBVIOUS
    <2>4. PICK renew \in BOOLEAN : renew = (l # 0 /\ NeedsRenewal(l))
      OBVIOUS
    <2>5. PICK t : t = [task |-> "sync", person |-> new, contract |-> e, link |-> l,
                        renew |-> renew, admin |-> admin]
      OBVIOUS
    <2>6. t \in Tasks
      BY <1>1, <2>2, <2>3, <2>4, <2>5 DEF Tasks
    <2>7. TaskIsSound(t)
      BY <2>2, <2>3, <2>5 DEF TaskIsSound
    <2>8. serving' = [serving EXCEPT ![w] = t]
      BY <2>1, <2>3, <2>4, <2>5 DEF StartTask
    <2> QED BY <1>1, <1>6, <2>6, <2>7, <2>8, OneTaskStep DEF BeginSync
  <1>7. CASE BeginAccept(w)
    <2>1. PICK mail \in inbox :
            /\ IsAcceptable(mail[1], mail[2])
            /\ StartTask(w, [task |-> "accept", link |-> mail[1], invite |-> mail[2]])
      BY <1>7 DEF BeginAccept
    <2>2. /\ mail = <<mail[1], mail[2]>> /\ mail[1] \in DOMAIN clientLinks
          /\ mail[2] \in 1..tokensMade /\ tokensMade \in 0..MaxMails
      BY DEF ThirdPartyInv, ThirdPartyTypeOK
    <2>3. mail[2] \in 1..MaxMails /\ mail[2] # 0
      BY <2>2
    <2>4. mail[2] \notin lapsed
      BY <2>1, <2>2, <2>3 DEF IsAcceptable, ThirdPartyInv, WaitingIsFresh
    <2>5. PICK t : t = [task |-> "accept", link |-> mail[1], invite |-> mail[2]]
      OBVIOUS
    <2>6. t \in Tasks
      BY <1>1, <2>2, <2>3, <2>5 DEF Tasks
    <2>7. TaskIsSound(t)
      BY <2>2, <2>4, <2>5 DEF TaskIsSound
    <2> QED BY <1>1, <1>7, <2>1, <2>5, <2>6, <2>7, OneTaskStep DEF BeginAccept, StartTask
  <1> QED BY <1>3, <1>4, <1>5, <1>6, <1>7

\* The tables are functions from the first numbers.
LEMMA Tables ==
  ASSUME ThirdPartyInv
  PROVE  /\ contracts \in [DOMAIN contracts -> Contract] /\ DOMAIN contracts \subseteq RowId
         /\ clientLinks \in [DOMAIN clientLinks -> ClientLink]
         /\ DOMAIN clientLinks \subseteq RowId
         /\ \A l \in DOMAIN clientLinks :
              /\ clientLinks[l] \in ClientLink
              /\ clientLinks[l].invite \in Nat
         /\ tokensMade \in Nat /\ tokensMade \in 0..MaxMails
  <1>1. PICK n \in 0..MaxRows, m \in 0..MaxRows :
          contracts \in [1..n -> Contract] /\ clientLinks \in [1..m -> ClientLink]
    BY DEF ThirdPartyInv, ThirdPartyTypeOK
  <1>2. 1..n \subseteq RowId /\ 1..m \subseteq RowId
    BY ThirdPartyAssumption DEF RowId
  <1>3. tokensMade \in Nat /\ tokensMade \in 0..MaxMails
    BY ThirdPartyAssumption DEF ThirdPartyInv, ThirdPartyTypeOK
  <1>4. \A l \in DOMAIN clientLinks : clientLinks[l] \in ClientLink /\ clientLinks[l].invite \in Nat
    BY <1>1, ThirdPartyAssumption DEF ClientLink
  <1> QED BY <1>1, <1>2, <1>3, <1>4

\* One employment is answered, ended or approved.
LEMMA OneContractStep ==
  ASSUME ThirdPartyInv, NEW e \in DOMAIN contracts, NEW c \in Contract,
         contracts' = [contracts EXCEPT ![e] = c]
  PROVE  /\ \E n \in 0..MaxRows : contracts' \in [1..n -> Contract]
         /\ DOMAIN contracts' = DOMAIN contracts
         /\ contracts'[e] = c
         /\ \A d \in DOMAIN contracts \ {e} : contracts'[d] = contracts[d]
  BY DEF ThirdPartyInv, ThirdPartyTypeOK

LEMMA OneLinkStep ==
  ASSUME ThirdPartyInv, NEW l \in DOMAIN clientLinks, NEW v \in ClientLink,
         clientLinks' = [clientLinks EXCEPT ![l] = v]
  PROVE  /\ \E n \in 0..MaxRows : clientLinks' \in [1..n -> ClientLink]
         /\ DOMAIN clientLinks' = DOMAIN clientLinks
         /\ clientLinks'[l] = v
         /\ \A k \in DOMAIN clientLinks \ {l} : clientLinks'[k] = clientLinks[k]
  BY DEF ThirdPartyInv, ThirdPartyTypeOK

\* What others do with the employments.
LEMMA EmploymentsStep ==
  ASSUME ThirdPartyInv,
         \E n \in 0..MaxRows : contracts' \in [1..n -> Contract],
         DOMAIN contracts \subseteq DOMAIN contracts',
         givenBack' \subseteq RowId,
         person # "active" => \A d \in DOMAIN contracts' :
                                contracts'[d].status = "approved" => d \in givenBack',
         UNCHANGED <<software, person, clientLinks, tokensMade, inbox, serving, lapsed, opened>>
  PROVE  ThirdPartyInv'
  <1>1. ThirdPartyTypeOK'
    BY DEF ThirdPartyInv, ThirdPartyTypeOK
  <1>2. \A w \in SyncServer : TaskIsSound(serving[w])'
    BY DEF ThirdPartyInv, TaskIsSound
  <1>3. (person # "active" => Unattached)'
    BY DEF ThirdPartyInv, Unattached
  <1>4. TokenNamesLink' /\ WaitingIsFresh' /\ LapsedMailOpensNothing'
    BY DEF ThirdPartyInv, TokenNamesLink, WaitingIsFresh, LapsedMailOpensNothing
  <1> QED
    BY <1>1, <1>2, <1>3, <1>4 DEF ThirdPartyInv

\* One row is written.
LEMMA ContractStep ==
  ASSUME ThirdPartyInv, NEW e \in DOMAIN contracts, NEW c \in Contract,
         contracts' = [contracts EXCEPT ![e] = c],
         givenBack' \in {givenBack, givenBack \cup {e}},
         person # "active" /\ c.status = "approved" => e \in givenBack',
         UNCHANGED <<software, person, clientLinks, tokensMade, inbox, serving, lapsed, opened>>
  PROVE  ThirdPartyInv'
  <1>1. /\ \E n \in 0..MaxRows : contracts' \in [1..n -> Contract]
        /\ DOMAIN contracts' = DOMAIN contracts /\ contracts'[e] = c
        /\ \A d \in DOMAIN contracts \ {e} : contracts'[d] = contracts[d]
    BY OneContractStep
  <1>2. givenBack \subseteq givenBack' /\ givenBack' \subseteq RowId
    BY Tables DEF ThirdPartyInv, ThirdPartyTypeOK
  <1>3. ASSUME person # "active", NEW d \in DOMAIN contracts', contracts'[d].status = "approved"
        PROVE  d \in givenBack'
    BY <1>1, <1>2, <1>3 DEF ThirdPartyInv, Unattached
  <1> QED BY <1>1, <1>2, <1>3, EmploymentsStep

LEMMA ContractsStep ==
  ASSUME ThirdPartyInv, AnswerContract \/ EndContract \/ CancelContract \/ DayGoesBy
  PROVE  ThirdPartyInv'
  <1>0. UNCHANGED <<software, person, clientLinks, tokensMade, inbox, serving, givenBack, lapsed,
                    opened>>
    BY DEF AnswerContract, EndContract, CancelContract, DayGoesBy
  <1>1. CASE AnswerContract
    <2>1. PICK e \in DOMAIN contracts, s \in {"approved", "rejected"} :
            contracts' = [contracts EXCEPT ![e].status = s]
      BY <1>1 DEF AnswerContract, Current
    <2>2. contracts[e] \in Contract /\ person = "active"
      BY <1>1, Tables DEF AnswerContract
    <2>3. PICK c : c = [contracts[e] EXCEPT !.status = s]
      OBVIOUS
    <2>4. c \in Contract
      BY <2>2, <2>3 DEF Contract
    <2> QED BY <1>0, <2>1, <2>2, <2>3, <2>4, ContractStep
  <1>2. CASE EndContract
    <2>1. PICK e \in DOMAIN contracts, day \in {"today", "past"} :
            contracts' = [contracts EXCEPT ![e].end = day]
      BY <1>2 DEF EndContract
    <2>2. contracts[e] \in Contract
      BY Tables
    <2>3. PICK c : c = [contracts[e] EXCEPT !.end = day]
      OBVIOUS
    <2>4. c \in Contract /\ c.status = contracts[e].status
      BY <2>2, <2>3 DEF Contract
    <2>5. person # "active" /\ c.status = "approved" => e \in givenBack'
      BY <1>0, <2>4 DEF ThirdPartyInv, Unattached
    <2> QED BY <1>0, <2>1, <2>3, <2>4, <2>5, ContractStep
  <1>3. CASE CancelContract
    <2>1. PICK e \in DOMAIN contracts : contracts' = [contracts EXCEPT ![e].dismissed = TRUE]
      BY <1>3 DEF CancelContract
    <2>2. contracts[e] \in Contract
      BY Tables
    <2>3. PICK c : c = [contracts[e] EXCEPT !.dismissed = TRUE]
      OBVIOUS
    <2>4. c \in Contract /\ c.status = contracts[e].status
      BY <2>2, <2>3 DEF Contract
    <2>5. person # "active" /\ c.status = "approved" => e \in givenBack'
      BY <1>0, <2>4 DEF ThirdPartyInv, Unattached
    <2> QED BY <1>0, <2>1, <2>3, <2>4, <2>5, ContractStep
  <1>4. CASE DayGoesBy
    <2>1. PICK n \in 0..MaxRows : contracts \in [1..n -> Contract]
      BY DEF ThirdPartyInv, ThirdPartyTypeOK
    <2>2. /\ DOMAIN contracts' = DOMAIN contracts
          /\ \A e \in DOMAIN contracts :
               contracts'[e].status = contracts[e].status /\ contracts'[e] \in Contract
      BY <1>4, <2>1 DEF DayGoesBy, Contract
    <2>3. contracts' \in [1..n -> Contract]
      BY <1>4, <2>1, <2>2 DEF DayGoesBy
    <2>4. /\ \E i \in 0..MaxRows : contracts' \in [1..i -> Contract]
          /\ givenBack' \subseteq RowId
      BY <1>0, <2>3 DEF ThirdPartyInv, ThirdPartyTypeOK
    <2>5. ASSUME person # "active", NEW d \in DOMAIN contracts', contracts'[d].status = "approved"
          PROVE  d \in givenBack'
      BY <1>0, <2>2, <2>5 DEF ThirdPartyInv, Unattached
    <2> QED BY <1>0, <2>2, <2>4, <2>5, EmploymentsStep
  <1> QED BY <1>1, <1>2, <1>3, <1>4

\* A row is appended.
LEMMA NewContract ==
  ASSUME ThirdPartyInv, NEW c \in Contract, NEW e \in RowId,
         e = Cardinality(DOMAIN contracts) + 1, contracts' = WithRow(contracts, e, c)
  PROVE  /\ \E n \in 0..MaxRows : contracts' \in [1..n -> Contract]
         /\ DOMAIN contracts' = DOMAIN contracts \cup {e}
         /\ contracts'[e] = c
         /\ \A d \in DOMAIN contracts : contracts'[d] = contracts[d]
  <1>1. PICK n \in 0..MaxRows : contracts \in [1..n -> Contract]
    BY DEF ThirdPartyInv, ThirdPartyTypeOK
  <1>2. n \in Nat /\ MaxRows \in Nat
    BY ThirdPartyAssumption
  <1>3. e = n + 1 /\ DOMAIN contracts = 1..n
    BY <1>1, <1>2, RowsAreCounted
  <1>4. n + 1 \in 0..MaxRows /\ 1..(n + 1) = 1..n \cup {n + 1} /\ n + 1 \notin 1..n
    BY <1>2, <1>3 DEF RowId
  <1>5. contracts' = [y \in 1..(n + 1) |-> IF y = n + 1 THEN c ELSE contracts[y]]
    BY <1>3, <1>4 DEF WithRow
  <1>6. contracts' \in [1..(n + 1) -> Contract]
    BY <1>1, <1>4, <1>5
  <1>7. \E i \in 0..MaxRows : contracts' \in [1..i -> Contract]
    BY <1>4, <1>6
  <1> QED BY <1>3, <1>4, <1>5, <1>7

\* What an administrator gives back is noted.
LEMMA ReattachmentStep ==
  ASSUME ThirdPartyInv, ReattachContract
  PROVE  ThirdPartyInv'
  <1>0. UNCHANGED <<software, person, clientLinks, tokensMade, inbox, serving, lapsed, opened>>
    BY DEF ReattachContract
  <1>1. PICK e \in RowId :
          /\ \/ /\ e \in CancelledContracts
                /\ contracts' = [contracts EXCEPT ![e].dismissed = FALSE,
                                                  ![e].status = "approved"]
             \/ /\ e \in EndedOn("today")
                /\ contracts' = [contracts EXCEPT ![e].end = "none"]
             \/ /\ e = Cardinality(DOMAIN contracts) + 1
                /\ \E d \in EndedOn("past") :
                     contracts' = WithRow(contracts, e, ContractRow("approved", contracts[d].admin))
          /\ givenBack' = givenBack \cup {e}
    BY DEF ReattachContract
  <1>2. CASE /\ e \in CancelledContracts
             /\ contracts' = [contracts EXCEPT ![e].dismissed = FALSE, ![e].status = "approved"]
    <2>1. e \in DOMAIN contracts /\ contracts[e] \in Contract
      BY <1>2, Tables DEF CancelledContracts
    <2>2. PICK c : c = [contracts[e] EXCEPT !.dismissed = FALSE, !.status = "approved"]
      OBVIOUS
    <2>3. c \in Contract /\ contracts' = [contracts EXCEPT ![e] = c]
      BY <1>2, <2>1, <2>2 DEF Contract
    <2> QED BY <1>0, <1>1, <2>1, <2>3, ContractStep
  <1>3. CASE e \in EndedOn("today") /\ contracts' = [contracts EXCEPT ![e].end = "none"]
    <2>1. e \in DOMAIN contracts /\ contracts[e] \in Contract
      BY <1>3, Tables DEF EndedOn
    <2>2. PICK c : c = [contracts[e] EXCEPT !.end = "none"]
      OBVIOUS
    <2>3. c \in Contract /\ contracts' = [contracts EXCEPT ![e] = c]
      BY <1>3, <2>1, <2>2 DEF Contract
    <2> QED BY <1>0, <1>1, <2>1, <2>3, ContractStep
  <1>4. CASE /\ e = Cardinality(DOMAIN contracts) + 1
             /\ \E d \in EndedOn("past") :
                  contracts' = WithRow(contracts, e, ContractRow("approved", contracts[d].admin))
    <2>1. PICK d \in EndedOn("past") :
            contracts' = WithRow(contracts, e, ContractRow("approved", contracts[d].admin))
      BY <1>4
    <2>2. contracts[d].admin \in BOOLEAN
      BY Tables DEF EndedOn, Contract
    <2>3. PICK c : c = ContractRow("approved", contracts[d].admin)
      OBVIOUS
    <2>4. c \in Contract
      BY <2>2, <2>3 DEF ContractRow, Contract
    <2>5. /\ \E n \in 0..MaxRows : contracts' \in [1..n -> Contract]
          /\ DOMAIN contracts' = DOMAIN contracts \cup {e}
          /\ \A k \in DOMAIN contracts : contracts'[k] = contracts[k]
      BY <1>4, <2>1, <2>3, <2>4, NewContract
    <2>6. givenBack' \subseteq RowId
      BY <1>1 DEF ThirdPartyInv, ThirdPartyTypeOK
    <2>7. ASSUME person # "active", NEW k \in DOMAIN contracts', contracts'[k].status = "approved"
          PROVE  k \in givenBack'
      BY <1>1, <2>5, <2>7 DEF ThirdPartyInv, Unattached
    <2> QED BY <1>0, <2>5, <2>6, <2>7, EmploymentsStep
  <1> QED BY <1>1, <1>2, <1>3, <1>4

\* The employee takes the access back.
LEMMA DismissalStep ==
  ASSUME ThirdPartyInv, DismissEmploymentToken
  PROVE  ThirdPartyInv'
  <1>1. PICK l \in DOMAIN clientLinks :
          clientLinks' = [clientLinks EXCEPT ![l].dismissed = TRUE]
    BY DEF DismissEmploymentToken
  <1>2. PICK v : v = [clientLinks[l] EXCEPT !.dismissed = TRUE]
    OBVIOUS
  <1>3. clientLinks[l] \in ClientLink
    BY Tables
  <1>4. /\ v \in ClientLink /\ v.of = clientLinks[l].of /\ v.invite = clientLinks[l].invite
        /\ v.late = clientLinks[l].late /\ v.access = clientLinks[l].access
    BY <1>2, <1>3 DEF ClientLink
  <1>5. /\ \E n \in 0..MaxRows : clientLinks' \in [1..n -> ClientLink]
        /\ DOMAIN clientLinks' = DOMAIN clientLinks /\ clientLinks'[l] = v
        /\ \A k \in DOMAIN clientLinks \ {l} : clientLinks'[k] = clientLinks[k]
    BY <1>1, <1>2, <1>4, OneLinkStep
  <1>6. \A k \in DOMAIN clientLinks :
          /\ clientLinks'[k].of = clientLinks[k].of
          /\ clientLinks'[k].invite = clientLinks[k].invite
          /\ clientLinks'[k].late = clientLinks[k].late
          /\ clientLinks'[k].access = clientLinks[k].access
    BY <1>4, <1>5
  <1>7. UNCHANGED <<software, person, contracts, tokensMade, inbox, serving, givenBack, lapsed, opened>>
    BY DEF DismissEmploymentToken
  <1>8. ThirdPartyTypeOK'
    BY <1>5, <1>7 DEF ThirdPartyInv, ThirdPartyTypeOK
  <1>9. \A w \in SyncServer : TaskIsSound(serving[w])'
    BY <1>5, <1>7 DEF ThirdPartyInv, TaskIsSound
  <1>10. TokenNamesLink'
    BY <1>5, <1>6, <1>7 DEF ThirdPartyInv, TokenNamesLink
  <1>11. WaitingIsFresh' /\ LapsedMailOpensNothing' /\ (person # "active" => Unattached)'
    BY <1>5, <1>6, <1>7 DEF ThirdPartyInv, WaitingIsFresh, LapsedMailOpensNothing, Unattached
  <1> QED
    BY <1>5, <1>6, <1>7, <1>8, <1>9, <1>10, <1>11 DEF ThirdPartyInv

\* An invitation expires: a request that is accepting it was in time.
LEMMA ExpiryStep ==
  ASSUME ThirdPartyInv, ExpireInvitation
  PROVE  ThirdPartyInv'
  <1>1. PICK l \in DOMAIN clientLinks :
          /\ clientLinks[l].invite # 0
          /\ clientLinks' = [clientLinks EXCEPT ![l].late = TRUE]
          /\ lapsed' = IF \E w \in SyncServer : serving[w].task = "accept" /\ serving[w].link = l
                       THEN lapsed ELSE lapsed \cup {clientLinks[l].invite}
    BY DEF ExpireInvitation
  <1>2. PICK v : v = [clientLinks[l] EXCEPT !.late = TRUE]
    OBVIOUS
  <1>3. clientLinks[l] \in ClientLink /\ clientLinks[l].invite \in Nat /\ tokensMade \in Nat
    BY Tables
  <1>4. /\ v \in ClientLink /\ v.of = clientLinks[l].of /\ v.invite = clientLinks[l].invite
        /\ v.late = TRUE /\ v.access = clientLinks[l].access
    BY <1>2, <1>3 DEF ClientLink
  <1>5. /\ \E n \in 0..MaxRows : clientLinks' \in [1..n -> ClientLink]
        /\ DOMAIN clientLinks' = DOMAIN clientLinks /\ clientLinks'[l] = v
        /\ \A k \in DOMAIN clientLinks \ {l} : clientLinks'[k] = clientLinks[k]
    BY <1>1, <1>2, <1>4, OneLinkStep
  <1>6. \A k \in DOMAIN clientLinks :
          /\ clientLinks'[k].of = clientLinks[k].of
          /\ clientLinks'[k].invite = clientLinks[k].invite
          /\ clientLinks'[k].late = (clientLinks[k].late \/ k = l)
          /\ clientLinks'[k].access = clientLinks[k].access
    BY <1>4, <1>5, Tables DEF ClientLink
  <1>7. UNCHANGED <<software, person, contracts, tokensMade, inbox, serving, givenBack, opened>>
    BY DEF ExpireInvitation
  <1>8. clientLinks[l].invite \in 1..tokensMade /\ clientLinks[l].invite \notin opened
    BY <1>1, <1>3 DEF ThirdPartyInv, WaitingIsFresh
  <1>9. lapsed' \subseteq lapsed \cup {clientLinks[l].invite}
    BY <1>1
  <1>10. ThirdPartyTypeOK'
    BY <1>5, <1>7, <1>8, <1>9 DEF ThirdPartyInv, ThirdPartyTypeOK
  <1>11. \A w \in SyncServer : TaskIsSound(serving[w])'
    <2>1. SUFFICES ASSUME NEW w \in SyncServer PROVE TaskIsSound(serving[w])'
      OBVIOUS
    <2>2. TaskIsSound(serving[w])
      BY DEF ThirdPartyInv
    <2>3. serving[w].task = "accept" => serving[w].invite \notin lapsed'
      <3>1. SUFFICES ASSUME serving[w].task = "accept", serving[w].invite \in lapsed'
                     PROVE  FALSE
        OBVIOUS
      <3>2. /\ <<serving[w].link, serving[w].invite>> \in inbox
            /\ serving[w].invite \notin lapsed
        BY <2>2, <3>1 DEF TaskIsSound
      <3>3. clientLinks[l].invite = serving[w].invite
        BY <1>9, <3>1, <3>2
      <3>4. serving[w].link = l
        BY <3>2, <3>3 DEF ThirdPartyInv, TokenNamesLink
      <3> QED BY <1>1, <3>1, <3>2, <3>4
    <2> QED BY <1>5, <1>7, <2>2, <2>3 DEF TaskIsSound
  <1>12. TokenNamesLink'
    BY <1>5, <1>6, <1>7 DEF ThirdPartyInv, TokenNamesLink
  <1>13. WaitingIsFresh'
    <2>1. SUFFICES ASSUME NEW k \in DOMAIN clientLinks, clientLinks[k].invite # 0
                   PROVE  /\ clientLinks[k].invite <= tokensMade
                          /\ clientLinks[k].invite \notin opened
                          /\ clientLinks[k].invite \in lapsed' => clientLinks[k].late \/ k = l
      BY <1>5, <1>6, <1>7 DEF WaitingIsFresh
    <2>2. clientLinks[k].invite = clientLinks[l].invite => k = l
      BY <2>1 DEF ThirdPartyInv, TokenNamesLink
    <2> QED BY <1>9, <2>1, <2>2 DEF ThirdPartyInv, WaitingIsFresh
  <1>14. LapsedMailOpensNothing' /\ (person # "active" => Unattached)'
    BY <1>5, <1>6, <1>7, <1>8, <1>9 DEF ThirdPartyInv, LapsedMailOpensNothing, Unattached
  <1> QED
    BY <1>5, <1>6, <1>7, <1>10, <1>11, <1>12, <1>13, <1>14 DEF ThirdPartyInv

\* The employee follows a mail: the token it carried opens nothing again.
LEMMA AcceptStep ==
  ASSUME ThirdPartyInv, NEW w \in SyncServer, CommitAccept(w)
  PROVE  ThirdPartyInv'
  <1>1. PICK l, m : l = serving[w].link /\ m = serving[w].invite
    OBVIOUS
  <1>2. /\ <<l, m>> \in inbox /\ m \notin lapsed
        /\ l \in DOMAIN clientLinks /\ m \in 1..tokensMade /\ person # "absent"
    BY <1>1 DEF CommitAccept, ThirdPartyInv, TaskIsSound
  <1>3. PICK v : v = [clientLinks[l] EXCEPT !.access = TRUE, !.invite = 0]
    OBVIOUS
  <1>4. clientLinks[l] \in ClientLink /\ tokensMade \in 0..MaxMails /\ tokensMade \in Nat
    BY <1>2, Tables
  <1>5. /\ v \in ClientLink /\ v.of = clientLinks[l].of /\ v.invite = 0
    <2>1. 0 \in 0..MaxMails
      BY ThirdPartyAssumption
    <2> QED BY <1>3, <1>4, <2>1 DEF ClientLink
  <1>6. clientLinks' = [clientLinks EXCEPT ![l] = v]
    BY <1>1, <1>2, <1>3 DEF CommitAccept
  <1>7. /\ \E n \in 0..MaxRows : clientLinks' \in [1..n -> ClientLink]
        /\ DOMAIN clientLinks' = DOMAIN clientLinks /\ clientLinks'[l] = v
        /\ \A k \in DOMAIN clientLinks \ {l} : clientLinks'[k] = clientLinks[k]
    BY <1>2, <1>5, <1>6, OneLinkStep
  <1>8. PICK e : e = clientLinks[l].of
    OBVIOUS
  <1>9. e \in DOMAIN contracts /\ contracts[e] \in Contract
    BY <1>2, <1>8, Tables DEF ThirdPartyInv
  <1>10. PICK c : c = [contracts[e] EXCEPT !.status = "approved"]
    OBVIOUS
  <1>11. c \in Contract
    BY <1>9, <1>10 DEF Contract
  <1>12. contracts' = [contracts EXCEPT ![e] = c]
    BY <1>1, <1>8, <1>9, <1>10 DEF CommitAccept
  <1>13. /\ \E n \in 0..MaxRows : contracts' \in [1..n -> Contract]
         /\ DOMAIN contracts' = DOMAIN contracts
    BY <1>9, <1>11, <1>12, OneContractStep
  <1>14. /\ opened' = opened \cup {m} /\ person' = "active"
         /\ serving' = [serving EXCEPT ![w] = NoTask]
         /\ UNCHANGED <<software, tokensMade, inbox, givenBack, lapsed>>
    BY <1>1, <1>2 DEF CommitAccept, EndTask, ThirdPartyInv, ThirdPartyTypeOK
  <1>15. serving' \in [SyncServer -> Tasks]
    BY <1>14 DEF ThirdPartyInv, ThirdPartyTypeOK, Tasks
  <1>16. ThirdPartyTypeOK'
    BY <1>2, <1>7, <1>13, <1>14, <1>15 DEF ThirdPartyInv, ThirdPartyTypeOK
  <1>17. \A x \in SyncServer : TaskIsSound(serving[x])'
    <2>1. SUFFICES ASSUME NEW x \in SyncServer PROVE TaskIsSound(serving[x])'
      OBVIOUS
    <2>2. serving'[x] \in {serving[x], NoTask} /\ TaskIsSound(serving[x])
      BY <1>14 DEF ThirdPartyInv, ThirdPartyTypeOK
    <2> DEFINE old == serving[x]
    <2>3. CASE serving'[x] = NoTask
      BY <2>3 DEF TaskIsSound, NoTask
    <2>4. CASE serving'[x] = old
      <3>1. /\ DOMAIN clientLinks' = DOMAIN clientLinks /\ DOMAIN contracts' = DOMAIN contracts
            /\ inbox' = inbox /\ lapsed' = lapsed /\ person' # "absent"
        BY <1>7, <1>13, <1>14
      <3> QED BY <2>2, <2>4, <3>1 DEF TaskIsSound
    <2> QED BY <2>2, <2>3, <2>4
  <1>18. \A k \in DOMAIN clientLinks :
           /\ clientLinks'[k].invite # 0 => k # l /\ clientLinks'[k] = clientLinks[k]
           /\ clientLinks'[k].of = clientLinks[k].of
    BY <1>5, <1>7
  <1>19. TokenNamesLink'
    <2>1. \A a, b : <<a, b>> \in inbox => b # 0
      BY <1>4 DEF ThirdPartyInv
    <2> QED BY <1>7, <1>14, <1>18, <2>1 DEF ThirdPartyInv, TokenNamesLink
  <1>20. WaitingIsFresh'
    <2>1. SUFFICES ASSUME NEW k \in DOMAIN clientLinks, clientLinks'[k].invite # 0
                   PROVE  /\ clientLinks'[k].invite <= tokensMade
                          /\ clientLinks'[k].invite \notin opened \cup {m}
                          /\ clientLinks'[k].invite \in lapsed => clientLinks'[k].late
      BY <1>7, <1>14 DEF WaitingIsFresh
    <2>2. k # l /\ clientLinks'[k] = clientLinks[k]
      BY <1>18, <2>1
    <2>3. clientLinks[k].invite # m
      BY <1>2, <2>2 DEF ThirdPartyInv, TokenNamesLink
    <2> QED BY <2>1, <2>2, <2>3 DEF ThirdPartyInv, WaitingIsFresh
  <1>21. LapsedMailOpensNothing'
    BY <1>2, <1>14 DEF ThirdPartyInv, LapsedMailOpensNothing
  <1> QED
    BY <1>7, <1>13, <1>14, <1>16, <1>17, <1>18, <1>19, <1>20, <1>21 DEF ThirdPartyInv

\* The employment a synchronisation found, whose rights it overwrites, or the
\* one it inserts.
LEMMA SyncedContracts ==
  ASSUME ThirdPartyInv, NEW found \in {0} \cup DOMAIN contracts, NEW e, NEW admin \in BOOLEAN,
         e = IF found = 0 THEN Cardinality(DOMAIN contracts) + 1 ELSE found,
         e \in RowId,
         contracts' = IF found = 0 THEN WithRow(contracts, e, Declared(admin))
                                   ELSE [contracts EXCEPT ![e].admin = admin]
  PROVE  /\ \E n \in 0..MaxRows : contracts' \in [1..n -> Contract]
         /\ DOMAIN contracts \subseteq DOMAIN contracts' /\ e \in DOMAIN contracts'
         /\ \A d \in DOMAIN contracts' :
              \/ d \in DOMAIN contracts /\ contracts'[d].status = contracts[d].status
              \/ contracts'[d].status = "pending"
  <1>1. CASE found = 0
    <2>1. PICK c : c = Declared(admin)
      OBVIOUS
    <2>2. c \in Contract /\ c.status = "pending"
      BY <2>1 DEF Declared, ContractRow, Contract
    <2>3. /\ \E n \in 0..MaxRows : contracts' \in [1..n -> Contract]
          /\ DOMAIN contracts' = DOMAIN contracts \cup {e}
          /\ contracts'[e] = c
          /\ \A d \in DOMAIN contracts : contracts'[d] = contracts[d]
      BY <1>1, <2>1, <2>2, NewContract
    <2> QED BY <2>2, <2>3
  <1>2. CASE found # 0
    <2>1. e \in DOMAIN contracts /\ contracts[e] \in Contract
      BY <1>2, Tables
    <2>2. PICK c : c = [contracts[e] EXCEPT !.admin = admin]
      OBVIOUS
    <2>3. c \in Contract /\ c.status = contracts[e].status
      BY <2>1, <2>2 DEF Contract
    <2>4. contracts' = [contracts EXCEPT ![e] = c]
      BY <1>2, <2>1, <2>2
    <2>5. /\ \E n \in 0..MaxRows : contracts' \in [1..n -> Contract]
          /\ DOMAIN contracts' = DOMAIN contracts /\ contracts'[e] = c
          /\ \A d \in DOMAIN contracts \ {e} : contracts'[d] = contracts[d]
      BY <2>1, <2>3, <2>4, OneContractStep
    <2> QED BY <2>1, <2>3, <2>5
  <1> QED BY <1>1, <1>2

\* A synchronisation commits: its token is new.
LEMMA SyncStep ==
  ASSUME ThirdPartyInv, NEW w \in SyncServer, CommitSync(w)
  PROVE  ThirdPartyInv'
  <1> USE ThirdPartyAssumption
  <1>1. PICK t : t = serving[w] OBVIOUS
  <1>2. /\ t.task = "sync" /\ t.contract \in {0} \cup DOMAIN contracts
        /\ t.link \in {0} \cup DOMAIN clientLinks
        /\ ~t.person => person # "absent"
    BY <1>1 DEF CommitSync, ThirdPartyInv, TaskIsSound
  <1>3. PICK e : e = IF t.contract = 0 THEN Cardinality(DOMAIN contracts) + 1 ELSE t.contract
    OBVIOUS
  <1>4. PICK l : l = IF t.link = 0 THEN Cardinality(DOMAIN clientLinks) + 1 ELSE t.link
    OBVIOUS
  <1>5. PICK token : token = tokensMade + 1
    OBVIOUS
  <1>6. /\ t.person => person = "absent"
        /\ person' = IF t.person THEN "third_party" ELSE person
        /\ e \in RowId /\ l \in RowId
        /\ contracts' = IF t.contract = 0 THEN WithRow(contracts, e, Declared(t.admin))
                                          ELSE [contracts EXCEPT ![e].admin = t.admin]
        /\ IF t.link = 0 \/ t.renew
           THEN /\ token <= MaxMails /\ tokensMade' = token
                /\ clientLinks' = WithRow(clientLinks, l,
                     IF t.link = 0 THEN FreshLink(e, token)
                     ELSE [clientLinks[l] EXCEPT !.invite = token, !.late = FALSE])
                /\ inbox' \in {inbox, inbox \cup {<<l, token>>}}
           ELSE UNCHANGED <<clientLinks, tokensMade, inbox>>
        /\ serving' = [serving EXCEPT ![w] = NoTask]
        /\ UNCHANGED <<software, givenBack, lapsed, opened>>
    BY <1>1, <1>3, <1>4, <1>5 DEF CommitSync, EndTask
  <1>7. /\ \E n \in 0..MaxRows : contracts' \in [1..n -> Contract]
        /\ DOMAIN contracts \subseteq DOMAIN contracts' /\ e \in DOMAIN contracts'
        /\ \A d \in DOMAIN contracts' :
             \/ d \in DOMAIN contracts /\ contracts'[d].status = contracts[d].status
             \/ contracts'[d].status = "pending"
    <2>1. t.admin \in BOOLEAN
      BY <1>1, <1>2 DEF ThirdPartyInv, ThirdPartyTypeOK, Tasks, NoTask
    <2> QED BY <1>2, <1>3, <1>6, <2>1, SyncedContracts
  <1>8. /\ person' \in {"absent", "third_party", "active"} /\ person' # "absent"
        /\ person' # "active" => person # "active"
    <2>2. person \in {"absent", "third_party", "active"}
      BY DEF ThirdPartyInv, ThirdPartyTypeOK
    <2>3. CASE t.person
      BY <1>6, <2>2, <2>3
    <2>4. CASE ~t.person
      <3>1. person # "absent" /\ person' = person
        BY <1>2, <1>6, <2>4, Zenon
      <3> QED BY <2>2, <3>1
    <2> QED BY <2>3, <2>4
  <1>9. tokensMade \in Nat /\ tokensMade \in 0..MaxMails /\ MaxMails \in Nat
    BY Tables
  <1>10. serving' \in [SyncServer -> Tasks]
    BY <1>6 DEF ThirdPartyInv, ThirdPartyTypeOK, Tasks
  <1>11. \A d \in DOMAIN contracts' :
           person' # "active" /\ contracts'[d].status = "approved" => d \in givenBack'
    BY <1>6, <1>7, <1>8 DEF ThirdPartyInv, Unattached
  \* The links and what is said of them.
  <1>12. CASE ~(t.link = 0 \/ t.renew)
    <2>1. UNCHANGED <<software, clientLinks, tokensMade, inbox, givenBack, lapsed, opened>>
      BY <1>6, <1>12
    <2>2. ThirdPartyTypeOK'
      BY <1>7, <1>8, <1>10, <2>1 DEF ThirdPartyInv, ThirdPartyTypeOK
    <2>3. \A x \in SyncServer : TaskIsSound(serving[x])'
      <3>1. SUFFICES ASSUME NEW x \in SyncServer PROVE TaskIsSound(serving[x])'
        OBVIOUS
      <3>2. serving'[x] \in {serving[x], NoTask} /\ TaskIsSound(serving[x])
        BY <1>6 DEF ThirdPartyInv, ThirdPartyTypeOK
      <3> QED BY <1>7, <1>8, <2>1, <3>2 DEF TaskIsSound, NoTask
    <2>4. TokenNamesLink' /\ WaitingIsFresh' /\ LapsedMailOpensNothing'
      BY <2>1 DEF ThirdPartyInv, TokenNamesLink, WaitingIsFresh, LapsedMailOpensNothing
    <2>5. (person # "active" => Unattached)'
      BY <1>8, <1>11, <2>1 DEF ThirdPartyInv, Unattached
    <2> QED BY <1>7, <1>8, <2>1, <2>2, <2>3, <2>4, <2>5 DEF ThirdPartyInv
  <1>13. CASE t.link = 0 \/ t.renew
    <2>1. /\ token \in 0..MaxMails /\ tokensMade' = token
          /\ clientLinks' = WithRow(clientLinks, l,
               IF t.link = 0 THEN FreshLink(e, token)
               ELSE [clientLinks[l] EXCEPT !.invite = token, !.late = FALSE])
          /\ inbox \subseteq inbox' /\ inbox' \subseteq inbox \cup {<<l, token>>}
      BY <1>5, <1>6, <1>9, <1>13
    <2>2. /\ \E n \in 0..MaxRows : clientLinks' \in [1..n -> ClientLink]
          /\ DOMAIN clientLinks' = DOMAIN clientLinks \cup {l}
          /\ \A k \in DOMAIN clientLinks' \ {l} : clientLinks'[k] = clientLinks[k]
          /\ clientLinks'[l].invite = token /\ clientLinks'[l].late = FALSE
          /\ l \in DOMAIN clientLinks =>
               /\ clientLinks'[l].of = clientLinks[l].of
               /\ clientLinks'[l].access = clientLinks[l].access
          /\ l \notin DOMAIN clientLinks =>
               clientLinks'[l].of = e /\ clientLinks'[l].access = FALSE
      <3>1. PICK n \in 0..MaxRows : clientLinks \in [1..n -> ClientLink]
        BY DEF ThirdPartyInv, ThirdPartyTypeOK
      <3>2. n \in Nat /\ MaxRows \in Nat /\ e \in RowId /\ l \in RowId
        BY <1>6
      <3>3. CASE t.link = 0
        <4>1. l = n + 1
          BY <1>4, <3>1, <3>2, <3>3, RowsAreCounted
        <4>2. /\ n + 1 \in 0..MaxRows /\ 1..(n + 1) = 1..n \cup {n + 1}
              /\ n + 1 \notin 1..n
          BY <3>2, <4>1 DEF RowId
        <4>3. FreshLink(e, token) \in ClientLink
          BY <2>1, <3>2 DEF FreshLink, ClientLink
        <4>4. clientLinks' = [y \in 1..(n + 1) |-> IF y = n + 1 THEN FreshLink(e, token)
                                                  ELSE clientLinks[y]]
          <5>1. /\ clientLinks' = WithRow(clientLinks, n + 1, FreshLink(e, token))
                /\ DOMAIN clientLinks = 1..n
            BY <2>1, <3>1, <3>3, <4>1
          <5> QED BY <4>2, <5>1 DEF WithRow
        <4>5. /\ clientLinks' \in [1..(n + 1) -> ClientLink]
              /\ clientLinks'[n + 1] = FreshLink(e, token)
              /\ \A k \in 1..n : clientLinks'[k] = clientLinks[k]
          BY <3>1, <4>2, <4>3, <4>4
        <4>6. \E i \in 0..MaxRows : clientLinks' \in [1..i -> ClientLink]
          BY <4>2, <4>5
        <4>7. DOMAIN clientLinks' = 1..(n + 1) /\ DOMAIN clientLinks = 1..n
          BY <3>1, <4>5
        <4>8. /\ FreshLink(e, token).invite = token /\ FreshLink(e, token).late = FALSE
              /\ FreshLink(e, token).of = e /\ FreshLink(e, token).access = FALSE
          BY DEF FreshLink
        <4> QED BY <4>1, <4>2, <4>5, <4>6, <4>7, <4>8
      <3>4. CASE t.link # 0
        <4>1. l \in 1..n /\ clientLinks[l] \in ClientLink
          BY <1>2, <1>4, <3>1, <3>4
        <4>2. PICK v : v = [clientLinks[l] EXCEPT !.invite = token, !.late = FALSE]
          OBVIOUS
        <4>3. /\ v \in ClientLink /\ v.invite = token /\ v.late = FALSE
              /\ v.of = clientLinks[l].of /\ v.access = clientLinks[l].access
          BY <2>1, <4>1, <4>2 DEF ClientLink
        <4>4. clientLinks' = WithRow(clientLinks, l, v)
          BY <2>1, <3>4, <4>2
        <4>5. /\ clientLinks' \in [1..n -> ClientLink] /\ clientLinks'[l] = v
              /\ \A k \in (1..n) \ {l} : clientLinks'[k] = clientLinks[k]
          BY <3>1, <3>2, <4>1, <4>3, <4>4 DEF WithRow
        <4> QED BY <3>1, <4>1, <4>3, <4>5
      <3> QED BY <3>3, <3>4
    <2>3. /\ token \in 1..tokensMade' /\ token \notin 1..tokensMade /\ token > tokensMade
          /\ \A k \in 1..tokensMade : k \in 1..tokensMade'
      BY <1>5, <1>9, <2>1
    <2>4. inbox' \subseteq (DOMAIN clientLinks') \X (1..tokensMade')
      BY <2>1, <2>2, <2>3 DEF ThirdPartyInv
    <2>5. inbox' \subseteq RowId \X (1..tokensMade')
      BY <1>6, <2>1, <2>3 DEF ThirdPartyInv, ThirdPartyTypeOK
    <2>6. ThirdPartyTypeOK'
      BY <1>6, <1>7, <1>8, <1>10, <2>1, <2>2, <2>3, <2>5 DEF ThirdPartyInv, ThirdPartyTypeOK
    <2>7. \A x \in SyncServer : TaskIsSound(serving[x])'
      <3>1. SUFFICES ASSUME NEW x \in SyncServer PROVE TaskIsSound(serving[x])'
        OBVIOUS
      <3>2. serving'[x] \in {serving[x], NoTask} /\ TaskIsSound(serving[x])
        BY <1>6 DEF ThirdPartyInv, ThirdPartyTypeOK
      <3> DEFINE old == serving[x]
      <3>3. CASE serving'[x] = NoTask
        BY <3>3 DEF TaskIsSound, NoTask
      <3>4. CASE serving'[x] = old
        <4>1. /\ DOMAIN clientLinks \subseteq DOMAIN clientLinks'
              /\ DOMAIN contracts \subseteq DOMAIN contracts'
              /\ inbox \subseteq inbox' /\ lapsed' = lapsed /\ person' # "absent"
          BY <1>6, <1>7, <1>8, <2>1, <2>2
        <4> QED BY <3>2, <3>4, <4>1 DEF TaskIsSound
      <3> QED BY <3>2, <3>3, <3>4
    <2>8. \A k \in DOMAIN clientLinks : clientLinks[k].invite # token
      <3>1. SUFFICES ASSUME NEW k \in DOMAIN clientLinks, clientLinks[k].invite = token
                     PROVE  FALSE
        OBVIOUS
      <3> QED BY <1>5, <1>9, <3>1 DEF ThirdPartyInv, WaitingIsFresh
    <2>9. \A a, b : <<a, b>> \in inbox => b # token /\ a \in DOMAIN clientLinks
      BY <2>3 DEF ThirdPartyInv
    <2>10. TokenNamesLink'
      <3>1. ASSUME NEW k \in DOMAIN clientLinks', NEW n \in DOMAIN clientLinks',
                   clientLinks'[k].invite = clientLinks'[n].invite, clientLinks'[k].invite # 0
            PROVE  k = n
        BY <2>2, <2>8, <3>1 DEF ThirdPartyInv, TokenNamesLink
      <3>2. ASSUME NEW a, NEW b, <<a, b>> \in inbox'
            PROVE  /\ \A k \in DOMAIN clientLinks' : clientLinks'[k].invite = b => k = a
                   /\ \A k : <<k, b>> \in inbox' => k = a
        <4>1. CASE <<a, b>> \in inbox
          BY <2>1, <2>2, <2>9, <4>1 DEF ThirdPartyInv, TokenNamesLink
        <4>2. CASE a = l /\ b = token
          BY <2>1, <2>2, <2>8, <2>9, <4>2
        <4> QED BY <2>1, <3>2, <4>1, <4>2
      <3> QED BY <3>1, <3>2 DEF TokenNamesLink
    <2>11. WaitingIsFresh'
      <3>1. SUFFICES ASSUME NEW k \in DOMAIN clientLinks', clientLinks'[k].invite # 0
                     PROVE  /\ clientLinks'[k].invite <= tokensMade'
                            /\ clientLinks'[k].invite \notin opened
                            /\ clientLinks'[k].invite \in lapsed => clientLinks'[k].late
        BY <1>6 DEF WaitingIsFresh
      <3>2. CASE k = l
        <4>1. token \notin opened /\ token \notin lapsed
          BY <2>3 DEF ThirdPartyInv, ThirdPartyTypeOK
        <4> QED BY <2>1, <2>2, <2>3, <3>2, <4>1
      <3>3. CASE k # l
        <4>1. /\ k \in DOMAIN clientLinks /\ clientLinks'[k] = clientLinks[k]
              /\ clientLinks[k].invite \in Nat
          BY <2>2, <3>3, Tables
        <4> QED BY <1>5, <1>9, <2>1, <3>1, <4>1 DEF ThirdPartyInv, WaitingIsFresh
      <3> QED BY <3>2, <3>3
    <2>12. LapsedMailOpensNothing'
      BY <1>6 DEF ThirdPartyInv, LapsedMailOpensNothing
    <2>13. (person # "active" => Unattached)'
      BY <1>8, <1>11, <2>2 DEF ThirdPartyInv, Unattached
    <2>14. \A k \in DOMAIN clientLinks' : clientLinks'[k].of \in DOMAIN contracts'
      BY <1>7, <2>2 DEF ThirdPartyInv
    <2> QED
      BY <1>8, <2>4, <2>6, <2>7, <2>10, <2>11, <2>12, <2>13, <2>14 DEF ThirdPartyInv
  <1> QED BY <1>12, <1>13

LEMMA ThirdPartyStep == ThirdPartyInv /\ [ThirdPartyNext]_thirdPartyVars => ThirdPartyInv'
  <1> SUFFICES ASSUME ThirdPartyInv, [ThirdPartyNext]_thirdPartyVars PROVE ThirdPartyInv'
    OBVIOUS
  <1> USE ThirdPartyAssumption
  <1>1. CASE DismissCompanyToken
    <2>1. /\ software' \in 0..MaxRows /\ serving' \in [SyncServer -> Tasks]
          /\ UNCHANGED <<person, contracts, clientLinks, tokensMade, inbox, serving, givenBack, lapsed,
                       opened>>
      BY <1>1 DEF DismissCompanyToken, ThirdPartyInv, ThirdPartyTypeOK
    <2>2. \A w \in SyncServer : TaskIsSound(serving[w])'
      BY <2>1 DEF ThirdPartyInv, TaskIsSound
    <2> QED BY <2>1, <2>2, TaskStep
  <1>2. CASE UNCHANGED thirdPartyVars
    BY <1>2 DEF thirdPartyVars, ThirdPartyInv, ThirdPartyTypeOK, TaskIsSound, TokenNamesLink,
         WaitingIsFresh, LapsedMailOpensNothing, Unattached
  <1> QED
    BY <1>1, <1>2, ShortStep, AcceptStep, SyncStep, DismissalStep, ContractsStep,
       ReattachmentStep, ExpiryStep
    DEF ThirdPartyNext

\* For any worker processes, rows and mails: over synchronisations that
\* overlap or are sent again, a mail that lapsed opens nothing, and an
\* employee whose account the software made, and who followed no mail, is
\* attached only by what an administrator gave back, the software not let in
\* (GenerateEmploymentToken, ReattachEmployment).
THEOREM AccessStaysAsked == ThirdPartySpec => []AccessIsAsked
  <1>1. ThirdPartyInv => AccessIsAsked
    BY DEF ThirdPartyInv, AccessIsAsked, NobodyIsAttachedUnasked, Unattached
  <1> QED
    BY <1>1, ThirdPartyInitially, ThirdPartyStep, PTL DEF ThirdPartySpec

-----------------------------------------------------------------------------
(* FranceConnect and AgentConnect.  What travels with a tab names the      *)
(* account of who went away, and an agent's values stay under his name.    *)

OwnValues(a, v) ==
  /\ v.sub[1] = CardOf(a).sub[1]
  /\ v.mail # NoValue => CardOf(a).mail # NoValue /\ v.mail[1] = CardOf(a).mail[1]

DirectoryIsSound ==
  /\ DOMAIN directory = Agent /\ directory = [a \in Agent |-> directory[a]]
  /\ \A a \in Agent :
       /\ directory[a] = [sub |-> directory[a].sub, mail |-> directory[a].mail,
                          unit |-> directory[a].unit, idp |-> directory[a].idp,
                          moves |-> directory[a].moves]
       /\ OwnValues(a, directory[a])

UserRow ==
  [sub : Citizen \cup {NoValue}, mail : {MailOf(c) : c \in Citizen},
   invite : InviteLink \cup {NoValue}, asked : InviteLink \cup {NoValue}]

ControllerRowIsSound(r) ==
  /\ r = [sub |-> r.sub, mail |-> r.mail, unit |-> r.unit, of |-> r.of]
  /\ r.of \in Agent /\ r.unit # NoValue /\ OwnValues(r.of, r)

RowsAreSound ==
  /\ users \in Seq(UserRow) /\ \E S : controllers \in Seq(S)
  /\ \A i \in DOMAIN controllers : ControllerRowIsSound(controllers[i])
  /\ AccountsAreDistinct /\ AgentKeepsRow /\ InvitationIsKept

\* An account and who signed in.
IsOf(kind, id, who) ==
  \/ kind = "user" /\ id \in DOMAIN users /\ users[id].sub = who
  \/ kind = "controller" /\ id \in DOMAIN controllers /\ controllers[id].of = who

OpenSession(s) == s = Session(s.kind, s.id, s.by) /\ IsOf(s.kind, s.id, s.by)

CookiesAreSound ==
  /\ cookies = [session |-> cookies.session, userId |-> cookies.userId,
                controllerId |-> cookies.controllerId, fct |-> cookies.fct,
                act |-> cookies.act]
  /\ cookies.fct \in Citizen \cup {NoValue} /\ cookies.act \in Agent \cup {NoValue}
  /\ cookies.session = NoSession \/ OpenSession(cookies.session)
  /\ CookiesAgree

AwayIsSound(r) ==
  /\ r = [step |-> "away", who |-> r.who, create |-> r.create, invite |-> r.invite,
          expired |-> r.expired, asked |-> r.asked]
  /\ r.who \in Citizen /\ r.invite \in InviteLink \cup {NoValue} /\ r.asked = r.invite

InsertUserIsSound(r) ==
  /\ r.who \in Citizen /\ r.row \in UserRow
  /\ r.row.sub = r.who /\ r.row.invite = r.row.asked

\* While he signs in his values do not move: a row with his address that was
\* made since has his sub.
InsertControllerIsSound(r) ==
  /\ r.who \in Agent /\ ControllerRowIsSound(r.row) /\ r.row.of = r.who
  /\ r.row.sub = directory[r.who].sub /\ r.row.mail = directory[r.who].mail
  /\ \A i \in DOMAIN controllers :
       controllers[i].of = r.who /\ controllers[i].mail = r.row.mail /\ r.row.mail # NoValue =>
         controllers[i].sub = r.row.sub

HintIsSound(kind, hint) ==
  \/ hint = NoValue
  \/ kind = "user" /\ hint \in Citizen
  \/ kind = "controller" /\ hint \in Agent

TabIsSound(r) ==
  \/ r.step \in {"rest", "clear"}
  \/ r.step = "away" /\ AwayIsSound(r)
  \/ r.step = "agent" /\ r.who \in Agent
  \/ r.step = "insert" /\ r.kind = "user" /\ InsertUserIsSound(r)
  \/ r.step = "insert" /\ r.kind = "controller" /\ InsertControllerIsSound(r)
  \/ r.step = "tokens" /\ IsOf(r.kind, r.id, r.who) /\ HintIsSound(r.kind, r.who)
  \/ r.step = "answer" /\ OpenSession(r.session) /\ HintIsSound(r.session.kind, r.hint)

ConnectInv ==
  /\ DirectoryIsSound
  /\ RowsAreSound
  /\ CookiesAreSound
  /\ DOMAIN tabs = SignInTab /\ tabs = [t \in SignInTab |-> tabs[t]]
  /\ \A t \in SignInTab : TabIsSound(tabs[t])

LEMMA ConnectInitially == ConnectInit => ConnectInv
  <1> SUFFICES ASSUME ConnectInit PROVE ConnectInv OBVIOUS
  <1>1. DirectoryIsSound
    BY ConnectAssumption DEF ConnectInit, DirectoryIsSound, OwnValues
  <1>2. users \in Seq(UserRow) /\ Len(users) <= 1 /\ \A i \in DOMAIN users : i = 1
    <2>1. CASE users = <<>>
      BY <2>1
    <2>2. ASSUME NEW c \in Citizen,
                 users = <<[sub |-> NoValue, mail |-> MailOf(c), invite |-> NoValue,
                            asked |-> NoValue]>>
          PROVE  users \in Seq(UserRow) /\ Len(users) <= 1 /\ \A i \in DOMAIN users : i = 1
      <3>1. PICK r : r = [sub |-> NoValue, mail |-> MailOf(c), invite |-> NoValue, asked |-> NoValue]
        OBVIOUS
      <3>2. r \in UserRow
        BY <3>1 DEF UserRow
      <3> QED BY <2>2, <3>1, <3>2
    <2> QED BY <2>1, <2>2 DEF ConnectInit
  <1>3. InvitationIsKept
    BY DEF ConnectInit, InvitationIsKept
  <1>4. RowsAreSound
    <2>1. controllers = <<>> /\ controllers \in Seq({})
      BY DEF ConnectInit
    <2> QED BY <1>2, <1>3, <2>1 DEF RowsAreSound, AccountsAreDistinct, AgentKeepsRow
  <1>5. CookiesAreSound
    BY ConnectAssumption DEF ConnectInit, CookiesAreSound, EmptyJar, NoSession, CookiesAgree
  <1>6. \A t \in SignInTab : TabIsSound(tabs[t])
    BY DEF ConnectInit, TabIsSound, Resting
  <1> QED BY <1>1, <1>4, <1>5, <1>6 DEF ConnectInit, ConnectInv

\* A step in which one tab goes on and the rows and the directory stay.
LEMMA TabStep ==
  ASSUME ConnectInv, NEW t \in SignInTab, NEW r, TabIsSound(r),
         tabs' = [tabs EXCEPT ![t] = r], UNCHANGED <<users, controllers, directory>>,
         CookiesAreSound'
  PROVE  ConnectInv'
  <1>1. \A s \in SignInTab : TabIsSound(tabs[s])'
    <2>1. SUFFICES ASSUME NEW s \in SignInTab PROVE TabIsSound(tabs[s])'
      OBVIOUS
    <2>2. tabs'[s] \in {r, tabs[s]} /\ TabIsSound(tabs[s])
      BY DEF ConnectInv
    <2> DEFINE old == tabs[s]
    <2>3. CASE tabs'[s] = r
      BY <2>3 DEF TabIsSound, AwayIsSound, InsertUserIsSound, InsertControllerIsSound,
           OpenSession, IsOf
    <2>4. CASE tabs'[s] = old
      BY <2>2, <2>4 DEF TabIsSound, AwayIsSound, InsertUserIsSound, InsertControllerIsSound,
           OpenSession, IsOf
    <2> QED BY <2>2, <2>3, <2>4
  <1>2. DirectoryIsSound' /\ RowsAreSound'
    BY DEF ConnectInv, DirectoryIsSound, RowsAreSound, AccountsAreDistinct, AgentKeepsRow,
       InvitationIsKept
  <1>3. DOMAIN tabs' = SignInTab /\ tabs' = [s \in SignInTab |-> tabs'[s]]
    BY DEF ConnectInv
  <1> QED BY <1>1, <1>2, <1>3 DEF ConnectInv

LEMMA SameCookies ==
  ASSUME ConnectInv, UNCHANGED <<users, controllers, cookies>>
  PROVE  CookiesAreSound'
  BY DEF ConnectInv, CookiesAreSound, OpenSession, IsOf, CookiesAgree

\* A tab goes on, and nothing else.
LEMMA QuietTabStep ==
  ASSUME ConnectInv, NEW t \in SignInTab, NEW r, TabIsSound(r),
         tabs' = [tabs EXCEPT ![t] = r], UNCHANGED <<users, controllers, directory, cookies>>
  PROVE  ConnectInv'
  BY TabStep, SameCookies

LEMMA RestingIsSound == TabIsSound(Resting) /\ TabIsSound(Clearing)
  BY DEF TabIsSound, Resting, Clearing

\* Steps towards the provider and back, and the requests of an open session.
LEMMA QuietSteps ==
  ASSUME ConnectInv, NEW t \in SignInTab,
         \/ \E c \in Citizen, create \in BOOLEAN, invite \in InviteLink \cup {NoValue} :
              AuthorizeCitizen(t, c, create, invite)
         \/ StateExpires(t)
         \/ \E a \in Agent : AuthorizeAgent(t, a)
         \/ CommitTokens(t) \/ Refresh(t) \/ RefuseOrLogOut(t) \/ LoginByPassword(t)
         \/ FailAtProvider(t) \/ GiveUp(t)
  PROVE  ConnectInv'
  <1> USE RestingIsSound
  <1>0. TabIsSound(tabs[t]) /\ CookiesAreSound
    BY DEF ConnectInv
  <1>1. ASSUME NEW c \in Citizen, NEW create \in BOOLEAN, NEW invite \in InviteLink \cup {NoValue},
               AuthorizeCitizen(t, c, create, invite)
        PROVE  ConnectInv'
    <2>1. PICK r : r = [step |-> "away", who |-> c, create |-> create, invite |-> invite,
                        expired |-> FALSE, asked |-> invite]
      OBVIOUS
    <2>2. TabIsSound(r)
      BY <2>1 DEF TabIsSound, AwayIsSound
    <2> QED BY <1>1, <2>1, <2>2, QuietTabStep DEF AuthorizeCitizen, EnterTab
  <1>2. CASE StateExpires(t)
    <2>1. PICK q : q = tabs[t]
      OBVIOUS
    <2>2. PICK r : r = [q EXCEPT !.expired = TRUE]
      OBVIOUS
    <2>3. q.step = "away" /\ AwayIsSound(q)
      BY <1>0, <1>2, <2>1 DEF StateExpires, TabIsSound
    <2>4. PICK w, c, i, x : q = [step |-> "away", who |-> w, create |-> c, invite |-> i,
                                 expired |-> x, asked |-> i]
      BY <2>3 DEF AwayIsSound
    <2>5. r = [step |-> "away", who |-> w, create |-> c, invite |-> i,
               expired |-> TRUE, asked |-> i]
      BY <2>2, <2>4
    <2>6. TabIsSound(r)
      BY <2>3, <2>4, <2>5 DEF TabIsSound, AwayIsSound
    <2> QED BY <1>2, <2>1, <2>2, <2>6, QuietTabStep DEF StateExpires, Go
  <1>3. ASSUME NEW a \in Agent, AuthorizeAgent(t, a) PROVE ConnectInv'
    <2>1. PICK r : r = [step |-> "agent", who |-> a]
      OBVIOUS
    <2>2. TabIsSound(r)
      BY <2>1 DEF TabIsSound
    <2> QED BY <1>3, <2>1, <2>2, QuietTabStep DEF AuthorizeAgent, EnterTab
  <1>4. CASE CommitTokens(t)
    <2>1. PICK q : q = tabs[t]
      OBVIOUS
    <2>2. PICK s : s = Session(q.kind, q.id, q.who)
      OBVIOUS
    <2>3. PICK r : r = Answer(s, q.who)
      OBVIOUS
    <2>4. IsOf(q.kind, q.id, q.who) /\ HintIsSound(q.kind, q.who)
      BY <1>0, <1>4, <2>1 DEF CommitTokens, TabIsSound
    <2>5. s.kind = q.kind /\ s.id = q.id /\ s.by = q.who
      BY <2>2 DEF Session
    <2>6. OpenSession(s)
      BY <2>2, <2>4, <2>5 DEF OpenSession
    <2>7. r.step = "answer" /\ r.session = s /\ r.hint = q.who
      BY <2>3 DEF Answer
    <2>8. TabIsSound(r)
      BY <2>4, <2>5, <2>6, <2>7 DEF TabIsSound
    <2> QED BY <1>4, <2>1, <2>2, <2>3, <2>8, QuietTabStep DEF CommitTokens, Go
  <1>5. CASE Refresh(t)
    <2>1. PICK s : s = cookies.session
      OBVIOUS
    <2>2. PICK r : r = Answer(s, NoValue)
      OBVIOUS
    <2>3. OpenSession(s)
      BY <1>0, <1>5, <2>1 DEF Refresh, CookiesAreSound
    <2>4. TabIsSound(r)
      BY <2>2, <2>3 DEF TabIsSound, Answer, HintIsSound
    <2> QED BY <1>5, <2>1, <2>2, <2>4, QuietTabStep DEF Refresh, EnterTab
  <1>6. CASE RefuseOrLogOut(t)
    <2>1. PICK r : r = Clearing
      OBVIOUS
    <2> QED BY <1>6, <2>1, QuietTabStep DEF RefuseOrLogOut, EnterTab
  <1>7. CASE LoginByPassword(t)
    <2>1. PICK i \in DOMAIN users :
            users[i].sub = NoValue /\ EnterTab(t, Answer(Session("user", i, NoValue), NoValue))
      BY <1>7 DEF LoginByPassword
    <2>2. PICK s : s = Session("user", i, NoValue)
      OBVIOUS
    <2>3. PICK r : r = Answer(s, NoValue)
      OBVIOUS
    <2>4. OpenSession(s)
      BY <2>1, <2>2 DEF OpenSession, Session, IsOf
    <2>5. TabIsSound(r)
      BY <2>3, <2>4 DEF TabIsSound, Answer, HintIsSound
    <2> QED BY <1>7, <2>1, <2>2, <2>3, <2>5, QuietTabStep DEF LoginByPassword, EnterTab
  <1>8. CASE FailAtProvider(t) \/ GiveUp(t)
    <2>1. PICK r : r = Resting
      OBVIOUS
    <2> QED BY <1>8, <2>1, QuietTabStep DEF FailAtProvider, GiveUp, Go
  <1> QED BY <1>1, <1>2, <1>3, <1>4, <1>5, <1>6, <1>7, <1>8

\* FranceConnect answers: the account of the identity, or a row for it.
LEMMA CitizenStep ==
  ASSUME ConnectInv, NEW t \in SignInTab, LoginCitizen(t)
  PROVE  ConnectInv'
  <1>1. PICK q : q = tabs[t]
    OBVIOUS
  <1>2. q.step = "away" /\ AwayIsSound(q)
    BY <1>1 DEF LoginCitizen, ConnectInv, TabIsSound
  <1>3. UNCHANGED <<users, controllers, directory, cookies>>
    BY DEF LoginCitizen
  <1>4. CASE UserOf(q.who) = {}
    <2>1. PICK row : row = [sub |-> q.who, mail |-> MailOf(q.who), invite |-> q.invite,
                            asked |-> q.asked]
      OBVIOUS
    <2>2. PICK r : r = [step |-> "insert", kind |-> "user", who |-> q.who, row |-> row]
      OBVIOUS
    <2>3. row \in UserRow /\ row.sub = q.who /\ row.invite = row.asked
      BY <1>2, <2>1 DEF UserRow, AwayIsSound
    <2>4. TabIsSound(r)
      BY <1>2, <2>2, <2>3 DEF TabIsSound, InsertUserIsSound, AwayIsSound
    <2>5. tabs' = [tabs EXCEPT ![t] = r]
      BY <1>1, <1>4, <2>1, <2>2 DEF LoginCitizen, StateOf, Go
    <2> QED BY <1>3, <2>4, <2>5, QuietTabStep
  <1>5. CASE UserOf(q.who) # {}
    <2>1. PICK i \in UserOf(q.who) :
            Go(t, [step |-> "tokens", kind |-> "user", id |-> i, who |-> q.who])
      BY <1>1, <1>5 DEF LoginCitizen
    <2>2. PICK r : r = [step |-> "tokens", kind |-> "user", id |-> i, who |-> q.who]
      OBVIOUS
    <2>3. i \in DOMAIN users /\ users[i].sub = q.who
      BY <2>1 DEF UserOf
    <2>4. TabIsSound(r)
      BY <1>2, <2>2, <2>3 DEF TabIsSound, IsOf, HintIsSound, AwayIsSound
    <2> QED BY <1>3, <2>1, <2>2, <2>4, QuietTabStep DEF Go
  <1> QED BY <1>4, <1>5

\* The cookies of a response arrive.
LEMMA ResponseStep ==
  ASSUME ConnectInv, NEW t \in SignInTab, Arrive(t)
  PROVE  ConnectInv'
  <1>1. /\ tabs' = [tabs EXCEPT ![t] = Resting]
        /\ UNCHANGED <<users, controllers, directory>>
    BY DEF Arrive, Go
  <1>2. CookiesAreSound'
    <2>1. PICK q : q = tabs[t]
      OBVIOUS
    <2>2. PICK j : j = cookies
      OBVIOUS
    <2>3. PICK a, b, c, d, e : j = [session |-> a, userId |-> b, controllerId |-> c,
                                    fct |-> d, act |-> e]
      BY <2>2 DEF ConnectInv, CookiesAreSound
    <2>4. j.fct \in Citizen \cup {NoValue} /\ j.act \in Agent \cup {NoValue}
      BY <2>2 DEF ConnectInv, CookiesAreSound
    <2>5. CASE q.step = "answer"
      <3>1. OpenSession(q.session) /\ HintIsSound(q.session.kind, q.hint)
        BY <2>1, <2>5 DEF ConnectInv, TabIsSound
      <3>2. cookies' = WithCookies(j, q.session, q.hint)
        BY <2>1, <2>2, <2>5 DEF Arrive
      <3>3. PICK s, h : s = q.session /\ h = q.hint
        OBVIOUS
      <3>4. /\ cookies' = [session |-> cookies'.session, userId |-> cookies'.userId,
                           controllerId |-> cookies'.controllerId, fct |-> cookies'.fct,
                           act |-> cookies'.act]
            /\ cookies'.session = s
            /\ cookies'.userId = IF s.kind = "user" THEN s.id ELSE j.userId
            /\ cookies'.controllerId = IF s.kind = "controller" THEN s.id ELSE j.controllerId
            /\ cookies'.fct = IF s.kind = "user" /\ h # NoValue THEN h ELSE j.fct
            /\ cookies'.act = IF s.kind = "controller" /\ h # NoValue THEN h ELSE j.act
        BY <3>2, <3>3 DEF WithCookies
      <3>5. cookies'.fct \in Citizen \cup {NoValue} /\ cookies'.act \in Agent \cup {NoValue}
        BY <2>4, <3>1, <3>3, <3>4 DEF HintIsSound
      <3>6. OpenSession(cookies.session)'
        BY <1>1, <3>1, <3>3, <3>4 DEF OpenSession, IsOf
      <3>7. CookiesAgree'
        BY <3>4 DEF CookiesAgree
      <3> QED BY <3>4, <3>5, <3>6, <3>7 DEF CookiesAreSound
    <2>6. CASE q.step # "answer"
      <3>1. cookies' = [j EXCEPT !.session = NoSession, !.userId = 0, !.controllerId = 0]
        BY <2>1, <2>2, <2>6 DEF Arrive, WithoutCookies
      <3>2. cookies' = [session |-> NoSession, userId |-> 0, controllerId |-> 0, fct |-> d, act |-> e]
        BY <2>3, <3>1
      <3>3. d \in Citizen \cup {NoValue} /\ e \in Agent \cup {NoValue}
        BY <2>3, <2>4
      <3> QED
        BY <3>2, <3>3, ConnectAssumption DEF CookiesAreSound, CookiesAgree, NoSession
    <2> QED BY <2>5, <2>6
  <1> QED BY <1>1, <1>2, RestingIsSound, TabStep

\* Rows are added and keep who they are of.
LEMMA RowsKeepOwner ==
  ASSUME DOMAIN users \subseteq DOMAIN users', DOMAIN controllers \subseteq DOMAIN controllers',
         \A i \in DOMAIN users : users'[i].sub = users[i].sub,
         \A i \in DOMAIN controllers : controllers'[i].of = controllers[i].of
  PROVE  /\ \A kind, id, who : IsOf(kind, id, who) => IsOf(kind, id, who)'
         /\ \A s : OpenSession(s) => OpenSession(s)'
  BY DEF IsOf, OpenSession

\* A step in which one tab goes on and rows are added or updated.
LEMMA RowStep ==
  ASSUME ConnectInv, NEW t \in SignInTab, NEW r, TabIsSound(r)',
         tabs' = [tabs EXCEPT ![t] = r], UNCHANGED <<directory, cookies>>,
         RowsAreSound',
         DOMAIN users \subseteq DOMAIN users', DOMAIN controllers \subseteq DOMAIN controllers',
         \A i \in DOMAIN users : users'[i].sub = users[i].sub,
         \A i \in DOMAIN controllers : controllers'[i].of = controllers[i].of,
         \A s \in SignInTab : s # t /\ InsertControllerIsSound(tabs[s]) =>
           InsertControllerIsSound(tabs[s])'
  PROVE  ConnectInv'
  <1>1. /\ \A kind, id, who : IsOf(kind, id, who) => IsOf(kind, id, who)'
        /\ \A s : OpenSession(s) => OpenSession(s)'
    BY RowsKeepOwner
  <1>2. \A s \in SignInTab : TabIsSound(tabs[s])'
    <2>1. SUFFICES ASSUME NEW s \in SignInTab PROVE TabIsSound(tabs[s])'
      OBVIOUS
    <2>2. CASE s = t
      <3>1. tabs'[s] = r
        BY <2>2 DEF ConnectInv
      <3> QED BY <3>1
    <2>3. CASE s # t
      <3> DEFINE old == tabs[s]
      <3>1. tabs'[s] = old /\ TabIsSound(old)
        BY <2>3 DEF ConnectInv
      <3>2. CASE old.step = "insert" /\ old.kind = "controller"
        <4>1. InsertControllerIsSound(old)
          BY <3>1, <3>2 DEF TabIsSound
        <4>2. InsertControllerIsSound(tabs[s])'
          BY <2>3, <3>1, <3>2, <4>1 DEF InsertControllerIsSound
        <4> QED BY <3>1, <3>2, <4>2 DEF TabIsSound, InsertControllerIsSound
      <3>3. CASE ~(old.step = "insert" /\ old.kind = "controller")
        BY <1>1, <3>1, <3>3 DEF TabIsSound, AwayIsSound, InsertUserIsSound, HintIsSound
      <3> QED BY <3>2, <3>3
    <2> QED BY <2>2, <2>3
  <1>3. CookiesAreSound'
    <2> DEFINE s == cookies.session
    <2>1. cookies'.session = s /\ (s = NoSession \/ OpenSession(s))
      BY DEF ConnectInv, CookiesAreSound
    <2>2. cookies'.session = NoSession \/ OpenSession(cookies.session)'
      BY <1>1, <2>1
    <2> QED BY <2>2 DEF ConnectInv, CookiesAreSound, CookiesAgree
  <1>4. DirectoryIsSound'
    BY DEF ConnectInv, DirectoryIsSound
  <1>5. DOMAIN tabs' = SignInTab /\ tabs' = [s \in SignInTab |-> tabs'[s]]
    BY DEF ConnectInv
  <1> QED BY <1>2, <1>3, <1>4, <1>5 DEF ConnectInv

\* A row is inserted where no other has its identity or its address.
LEMMA InsertUserStep ==
  ASSUME ConnectInv, NEW t \in SignInTab, InsertUser(t)
  PROVE  ConnectInv'
  <1>1. PICK q : q = tabs[t]
    OBVIOUS
  <1>2. InsertUserIsSound(q)
    <2>1. q.step = "insert" /\ q.kind = "user" /\ TabIsSound(q)
      BY <1>1 DEF InsertUser, ConnectInv
    <2> QED BY <2>1 DEF TabIsSound
  <1>3. PICK row \in UserRow : row = q.row
    BY <1>2 DEF InsertUserIsSound
  <1>4. users \in Seq(UserRow)
    BY DEF ConnectInv, RowsAreSound
  <1>5. PICK n \in Nat : n = Len(users) /\ DOMAIN users = 1..n
    BY <1>4
  <1>6. /\ users' = Append(users, row) /\ ~IsTaken(row)
        /\ UNCHANGED <<controllers, directory, cookies>>
    BY <1>1, <1>3 DEF InsertUser
  <1>7. /\ users' \in Seq(UserRow) /\ DOMAIN users' = 1..(n + 1)
        /\ users'[n + 1] = row /\ \A i \in 1..n : users'[i] = users[i]
    BY <1>4, <1>5, <1>6
  <1>8. 1..(n + 1) = 1..n \cup {n + 1}
    OBVIOUS
  <1>9. AccountsAreDistinct'
    <2>1. SUFFICES ASSUME NEW i \in DOMAIN users', NEW j \in DOMAIN users', i # j
                   PROVE  /\ users'[i].mail # users'[j].mail
                          /\ users'[i].sub = users'[j].sub => users'[i].sub = NoValue
      BY DEF AccountsAreDistinct
    <2>2. \A k \in 1..n : users[k].sub # row.sub /\ users[k].mail # row.mail
      BY <1>5, <1>6 DEF IsTaken
    <2>3. AccountsAreDistinct
      BY DEF ConnectInv, RowsAreSound
    <2>4. CASE i \in 1..n /\ j \in 1..n
      BY <1>5, <1>7, <2>1, <2>3, <2>4 DEF AccountsAreDistinct
    <2>5. CASE i = n + 1 \/ j = n + 1
      BY <1>7, <1>8, <2>1, <2>2, <2>5
    <2> QED BY <1>7, <1>8, <2>4, <2>5
  <1>10. InvitationIsKept'
    <2>1. row.invite = row.asked
      BY <1>2, <1>3 DEF InsertUserIsSound
    <2> QED
      BY <1>5, <1>7, <1>8, <2>1 DEF ConnectInv, RowsAreSound, InvitationIsKept
  <1>11. RowsAreSound'
    BY <1>6, <1>7, <1>9, <1>10 DEF ConnectInv, RowsAreSound, AgentKeepsRow, ControllerRowIsSound, OwnValues
  <1>12. PICK r : r = [step |-> "tokens", kind |-> "user", id |-> n + 1, who |-> q.who]
    OBVIOUS
  <1>13. tabs' = [tabs EXCEPT ![t] = r]
    BY <1>1, <1>5, <1>12 DEF InsertUser, Go
  <1>14. TabIsSound(r)'
    BY <1>2, <1>3, <1>7, <1>8, <1>12 DEF TabIsSound, IsOf, HintIsSound, InsertUserIsSound
  <1>15. /\ DOMAIN users \subseteq DOMAIN users' /\ DOMAIN controllers \subseteq DOMAIN controllers'
         /\ \A i \in DOMAIN users : users'[i].sub = users[i].sub
         /\ \A i \in DOMAIN controllers : controllers'[i].of = controllers[i].of
    BY <1>5, <1>6, <1>7, <1>8
  <1>16. ASSUME NEW s \in SignInTab, s # t, InsertControllerIsSound(tabs[s])
         PROVE  InsertControllerIsSound(tabs[s])'
    <2>1. tabs'[s] = tabs[s]
      BY <1>13, <1>16 DEF ConnectInv
    <2> QED
      BY <1>6, <1>16, <2>1 DEF InsertControllerIsSound, ControllerRowIsSound, OwnValues
  <1> QED BY <1>6, <1>11, <1>13, <1>14, <1>15, <1>16, RowStep

\* Two agents' rows differ by their names.
LEMMA OwnersDiffer ==
  ASSUME NEW a \in Agent, NEW b \in Agent, NEW v, NEW w, OwnValues(a, v), OwnValues(b, w),
         v.sub = w.sub \/ (v.mail = w.mail /\ v.mail # NoValue)
  PROVE  a = b
  BY ConnectAssumption DEF OwnValues

\* AgentConnect answers: the row of the sub, of the address, or a new one.
LEMMA AgentStep ==
  ASSUME ConnectInv, NEW t \in SignInTab, LoginAgent(t)
  PROVE  ConnectInv'
  <1>1. PICK q : q = tabs[t]
    OBVIOUS
  <1>2. q.step = "agent" /\ q.who \in Agent
    BY <1>1 DEF LoginAgent, ConnectInv, TabIsSound
  <1>3. PICK a \in Agent : a = q.who
    BY <1>2
  <1>4. PICK card : card = directory[a]
    OBVIOUS
  <1>5. OwnValues(a, card)
    BY <1>4 DEF ConnectInv, DirectoryIsSound
  <1>6. PICK F : F = ControllerOf(card)
    OBVIOUS
  <1>7. /\ F \subseteq DOMAIN controllers
        /\ \A i \in F : \/ controllers[i].sub = card.sub
                        \/ card.mail # NoValue /\ controllers[i].mail = card.mail
        /\ F = {} => \A i \in DOMAIN controllers :
             ~(card.mail # NoValue /\ controllers[i].mail = card.mail)
    BY <1>6 DEF ControllerOf
  <1>8. \A i \in DOMAIN controllers : ControllerRowIsSound(controllers[i])
    BY DEF ConnectInv, RowsAreSound
  <1>9. UNCHANGED <<users, directory, cookies>>
    BY DEF LoginAgent
  <1>10. CASE F = {}
    <2>1. PICK row : row = [sub |-> card.sub, mail |-> card.mail, unit |-> card.unit, of |-> a]
      OBVIOUS
    <2>2. PICK r : r = [step |-> "insert", kind |-> "controller", who |-> a, row |-> row]
      OBVIOUS
    <2>3. /\ card.unit # NoValue /\ UNCHANGED controllers
          /\ tabs' = [tabs EXCEPT ![t] = r]
      BY <1>1, <1>3, <1>4, <1>6, <1>10, <2>1, <2>2 DEF LoginAgent, Go
    <2>4. ControllerRowIsSound(row)
      BY <1>5, <2>1, <2>3 DEF ControllerRowIsSound, OwnValues
    <2>5. InsertControllerIsSound(r)
      BY <1>4, <1>7, <1>10, <2>1, <2>2, <2>4 DEF InsertControllerIsSound
    <2>6. TabIsSound(r)
      BY <2>2, <2>5 DEF TabIsSound
    <2> QED BY <1>9, <2>3, <2>6, QuietTabStep
  <1>11. CASE F # {}
    <2>1. PICK i \in F :
            /\ controllers' = [controllers EXCEPT ![i] = Updated(controllers[i], card)]
            /\ Go(t, [step |-> "tokens", kind |-> "controller", id |-> i, who |-> a])
      BY <1>1, <1>3, <1>4, <1>6, <1>11 DEF LoginAgent
    <2>2. PICK r : r = [step |-> "tokens", kind |-> "controller", id |-> i, who |-> a]
      OBVIOUS
    <2>3. PICK old : old = controllers[i]
      OBVIOUS
    <2>4. PICK new : new = Updated(old, card)
      OBVIOUS
    <2>5. ControllerRowIsSound(old) /\ i \in DOMAIN controllers
      BY <1>7, <1>8, <2>3
    <2>6. old.of = a
      <3>1. old.of \in Agent /\ OwnValues(old.of, old)
        BY <2>5 DEF ControllerRowIsSound
      <3>2. old.sub = card.sub \/ (old.mail = card.mail /\ old.mail # NoValue)
        <4>1. i \in F
          OBVIOUS
        <4>2. \/ controllers[i].sub = card.sub
              \/ card.mail # NoValue /\ controllers[i].mail = card.mail
          BY <1>7, <4>1
        <4> QED BY <2>3, <4>2
      <3> QED BY <1>5, <3>1, <3>2, OwnersDiffer
    <2>7. PICK su, ma, un, of : old = [sub |-> su, mail |-> ma, unit |-> un, of |-> of]
      BY <2>5 DEF ControllerRowIsSound
    <2>8. new = [sub |-> su, mail |-> ma, of |-> of,
                 unit |-> IF card.unit = NoValue THEN un ELSE card.unit]
      BY <2>4, <2>7 DEF Updated
    <2>9. /\ ControllerRowIsSound(new)
          /\ new.of = old.of /\ new.sub = old.sub /\ new.mail = old.mail
      BY <2>5, <2>7, <2>8 DEF ControllerRowIsSound, OwnValues
    <2>10. /\ DOMAIN controllers' = DOMAIN controllers /\ controllers'[i] = new
           /\ \A k \in DOMAIN controllers \ {i} : controllers'[k] = controllers[k]
           /\ \E S : controllers' \in Seq(S)
      <3>1. PICK S : controllers \in Seq(S)
        BY DEF ConnectInv, RowsAreSound
      <3>2. controllers \in Seq(S \cup {new}) /\ i \in 1..Len(controllers)
        BY <2>5, <3>1
      <3>3. controllers' = [controllers EXCEPT ![i] = new]
        BY <2>1, <2>3, <2>4
      <3>4. controllers' \in Seq(S \cup {new})
        BY <3>2, <3>3, ExceptSeq
      <3> QED BY <2>5, <3>1, <3>3, <3>4
    <2>11. \A k \in DOMAIN controllers :
             /\ controllers'[k].of = controllers[k].of
             /\ controllers'[k].sub = controllers[k].sub
             /\ controllers'[k].mail = controllers[k].mail
      BY <2>3, <2>9, <2>10
    <2>12. \A k \in DOMAIN controllers' : ControllerRowIsSound(controllers[k])'
      <3>1. SUFFICES ASSUME NEW k \in DOMAIN controllers PROVE ControllerRowIsSound(controllers[k])'
        BY <2>10
      <3> DEFINE was == controllers[k]
      <3>2. CASE k = i
        <4>1. controllers'[k] = new
          BY <2>10, <3>2
        <4> QED BY <2>9, <4>1 DEF ControllerRowIsSound, OwnValues
      <3>3. CASE k # i
        <4>1. controllers'[k] = was /\ ControllerRowIsSound(was)
          BY <1>8, <2>10, <3>3
        <4> QED BY <4>1 DEF ControllerRowIsSound, OwnValues
      <3> QED BY <3>2, <3>3
    <2>13. RowsAreSound'
      <3>1. AgentKeepsRow'
        BY <2>10, <2>11 DEF ConnectInv, RowsAreSound, AgentKeepsRow
      <3> QED
        BY <1>9, <2>10, <2>12, <3>1 DEF ConnectInv, RowsAreSound, AccountsAreDistinct, InvitationIsKept
    <2>14. TabIsSound(r)'
      BY <1>2, <1>3, <2>2, <2>5, <2>6, <2>9, <2>10 DEF TabIsSound, IsOf, HintIsSound
    <2>15. tabs' = [tabs EXCEPT ![t] = r]
      BY <2>1, <2>2 DEF Go
    <2>16. ASSUME NEW s \in SignInTab, s # t, InsertControllerIsSound(tabs[s])
           PROVE  InsertControllerIsSound(tabs[s])'
      <3>1. tabs'[s] = tabs[s]
        BY <2>15, <2>16 DEF ConnectInv
      <3> DEFINE w == tabs[s]
      <3>2. ControllerRowIsSound(w.row) => ControllerRowIsSound(tabs[s].row)'
        BY <3>1 DEF ControllerRowIsSound, OwnValues
      <3> QED
        BY <1>9, <2>10, <2>11, <2>16, <3>1, <3>2 DEF InsertControllerIsSound
    <2>17. /\ DOMAIN users \subseteq DOMAIN users' /\ DOMAIN controllers \subseteq DOMAIN controllers'
           /\ \A k \in DOMAIN users : users'[k].sub = users[k].sub
           /\ \A k \in DOMAIN controllers : controllers'[k].of = controllers[k].of
      BY <1>9, <2>10, <2>11
    <2> QED BY <1>9, <2>13, <2>14, <2>15, <2>16, <2>17, RowStep
  <1> QED BY <1>10, <1>11

\* A row of the agent is inserted where no other has his sub.
LEMMA InsertControllerStep ==
  ASSUME ConnectInv, NEW t \in SignInTab, InsertController(t)
  PROVE  ConnectInv'
  <1>1. PICK q : q = tabs[t]
    OBVIOUS
  <1>2. InsertControllerIsSound(q)
    <2>1. q.step = "insert" /\ q.kind = "controller" /\ TabIsSound(q)
      BY <1>1 DEF InsertController, ConnectInv
    <2> QED BY <2>1 DEF TabIsSound
  <1>3. PICK row : row = q.row
    OBVIOUS
  <1>4. PICK S : controllers \in Seq(S)
    BY DEF ConnectInv, RowsAreSound
  <1>5. PICK n \in Nat : n = Len(controllers) /\ DOMAIN controllers = 1..n
    BY <1>4
  <1>6. /\ controllers' = Append(controllers, row)
        /\ \A i \in 1..n : controllers[i].sub # row.sub
        /\ UNCHANGED <<users, directory, cookies>>
    BY <1>1, <1>3, <1>5 DEF InsertController
  <1>7. /\ controllers' \in Seq(S \cup {row}) /\ DOMAIN controllers' = 1..(n + 1)
        /\ controllers'[n + 1] = row /\ \A i \in 1..n : controllers'[i] = controllers[i]
    <2>1. controllers \in Seq(S \cup {row}) /\ row \in S \cup {row}
      BY <1>4
    <2> QED BY <1>5, <1>6, <2>1
  <1>8. 1..(n + 1) = 1..n \cup {n + 1}
    OBVIOUS
  <1>9. /\ ControllerRowIsSound(row) /\ row.of = q.who /\ q.who \in Agent
        /\ row.sub = directory[q.who].sub /\ row.mail = directory[q.who].mail
        /\ \A i \in DOMAIN controllers :
             controllers[i].of = q.who /\ controllers[i].mail = row.mail /\ row.mail # NoValue =>
               controllers[i].sub = row.sub
    BY <1>2, <1>3 DEF InsertControllerIsSound
  <1>10. \A k \in DOMAIN controllers' : ControllerRowIsSound(controllers[k])'
    <2>1. SUFFICES ASSUME NEW k \in 1..(n + 1) PROVE ControllerRowIsSound(controllers[k])'
      BY <1>7
    <2> DEFINE was == controllers[k]
    <2>2. CASE k = n + 1
      <3>1. controllers'[k] = row
        BY <1>7, <2>2
      <3> QED BY <1>9, <3>1 DEF ControllerRowIsSound, OwnValues
    <2>3. CASE k \in 1..n
      <3>1. controllers'[k] = was /\ ControllerRowIsSound(was)
        BY <1>5, <1>7, <2>3 DEF ConnectInv, RowsAreSound
      <3> QED BY <3>1 DEF ControllerRowIsSound, OwnValues
    <2> QED BY <1>8, <2>2, <2>3
  <1>11. AgentKeepsRow'
    <2>1. SUFFICES ASSUME NEW i \in DOMAIN controllers', NEW j \in DOMAIN controllers', i # j,
                          controllers'[i].of = controllers'[j].of
                   PROVE  /\ controllers'[i].sub # controllers'[j].sub
                          /\ controllers'[i].mail = controllers'[j].mail =>
                               controllers'[i].mail = NoValue
      BY DEF AgentKeepsRow
    <2>2. AgentKeepsRow
      BY DEF ConnectInv, RowsAreSound
    <2>3. CASE i \in 1..n /\ j \in 1..n
      BY <1>5, <1>7, <2>1, <2>2, <2>3 DEF AgentKeepsRow
    <2>4. CASE i = n + 1 /\ j \in 1..n
      BY <1>5, <1>6, <1>7, <1>9, <2>1, <2>4
    <2>5. CASE j = n + 1 /\ i \in 1..n
      BY <1>5, <1>6, <1>7, <1>9, <2>1, <2>5
    <2> QED BY <1>7, <1>8, <2>1, <2>3, <2>4, <2>5
  <1>12. RowsAreSound'
    BY <1>6, <1>7, <1>10, <1>11 DEF ConnectInv, RowsAreSound, AccountsAreDistinct, InvitationIsKept
  <1>13. PICK r : r = [step |-> "tokens", kind |-> "controller", id |-> n + 1, who |-> q.who]
    OBVIOUS
  <1>14. tabs' = [tabs EXCEPT ![t] = r]
    BY <1>1, <1>5, <1>13 DEF InsertController, Go
  <1>15. TabIsSound(r)'
    BY <1>7, <1>8, <1>9, <1>13 DEF TabIsSound, IsOf, HintIsSound
  <1>16. /\ DOMAIN users \subseteq DOMAIN users' /\ DOMAIN controllers \subseteq DOMAIN controllers'
         /\ \A i \in DOMAIN users : users'[i].sub = users[i].sub
         /\ \A i \in DOMAIN controllers : controllers'[i].of = controllers[i].of
    BY <1>5, <1>6, <1>7, <1>8
  <1>17. ASSUME NEW s \in SignInTab, s # t, InsertControllerIsSound(tabs[s])
         PROVE  InsertControllerIsSound(tabs[s])'
    <2>1. tabs'[s] = tabs[s]
      BY <1>14, <1>17 DEF ConnectInv
    <2> DEFINE w == tabs[s]
    <2>2. /\ ControllerRowIsSound(w.row) => ControllerRowIsSound(tabs[s].row)'
      BY <2>1 DEF ControllerRowIsSound, OwnValues
    <2>3. /\ w.who \in Agent /\ w.row.of = w.who /\ ControllerRowIsSound(w.row)
          /\ w.row.sub = directory[w.who].sub /\ w.row.mail = directory[w.who].mail
          /\ \A i \in DOMAIN controllers :
               controllers[i].of = w.who /\ controllers[i].mail = w.row.mail /\ w.row.mail # NoValue =>
                 controllers[i].sub = w.row.sub
      BY <1>17 DEF InsertControllerIsSound
    <2>4. ASSUME NEW i \in 1..(n + 1), controllers'[i].of = w.who,
                 controllers'[i].mail = w.row.mail, w.row.mail # NoValue
          PROVE  controllers'[i].sub = w.row.sub
      <3>1. CASE i \in 1..n
        BY <1>5, <1>7, <2>3, <2>4, <3>1
      <3>2. CASE i = n + 1
        BY <1>7, <1>9, <2>3, <2>4, <3>2
      <3> QED BY <1>8, <3>1, <3>2
    <2> QED
      BY <1>6, <1>7, <2>1, <2>2, <2>3, <2>4 DEF InsertControllerIsSound
  <1> QED BY <1>6, <1>12, <1>14, <1>15, <1>16, <1>17, RowStep

\* An agent's values change under his name, while he is not signing in.
LEMMA MoveStep ==
  ASSUME ConnectInv, NEW a \in Agent, Move(a)
  PROVE  ConnectInv'
  <1>1. PICK card : card = directory[a]
    OBVIOUS
  <1>2. PICK change \in {[card EXCEPT !.sub = Renewed(card.sub)],
                         [card EXCEPT !.mail = Renewed(card.mail)],
                         [card EXCEPT !.unit = NoValue]} :
          directory' = [directory EXCEPT ![a] = [change EXCEPT !.moves = @ + 1]]
    BY <1>1 DEF Move, ConnectInv, DirectoryIsSound
  <1>3. PICK new : new = [change EXCEPT !.moves = @ + 1]
    OBVIOUS
  <1>4. PICK su, ma, un, id, mo : card = [sub |-> su, mail |-> ma, unit |-> un, idp |-> id, moves |-> mo]
    BY <1>1 DEF ConnectInv, DirectoryIsSound
  <1>5. OwnValues(a, card)
    BY <1>1 DEF ConnectInv, DirectoryIsSound
  <1>6. \E s, m, u : change = [sub |-> s, mail |-> m, unit |-> u, idp |-> id, moves |-> mo]
          /\ s \in {su, Renewed(su)} /\ m \in {ma, Renewed(ma)}
    <2>1. CASE change = [card EXCEPT !.sub = Renewed(card.sub)]
      <3>1. change = [sub |-> Renewed(su), mail |-> ma, unit |-> un, idp |-> id, moves |-> mo]
        BY <1>4, <2>1
      <3> QED BY <3>1
    <2>2. CASE change = [card EXCEPT !.mail = Renewed(card.mail)]
      <3>1. change = [sub |-> su, mail |-> Renewed(ma), unit |-> un, idp |-> id, moves |-> mo]
        BY <1>4, <2>2
      <3> QED BY <3>1
    <2>3. CASE change = [card EXCEPT !.unit = NoValue]
      <3>1. change = [sub |-> su, mail |-> ma, unit |-> NoValue, idp |-> id, moves |-> mo]
        BY <1>4, <2>3
      <3> QED BY <3>1
    <2> QED BY <1>2, <2>1, <2>2, <2>3
  <1>7. PICK s, m, u : /\ change = [sub |-> s, mail |-> m, unit |-> u, idp |-> id, moves |-> mo]
                       /\ s \in {su, Renewed(su)} /\ m \in {ma, Renewed(ma)}
    BY <1>6
  <1>8. PICK k : new = [sub |-> s, mail |-> m, unit |-> u, idp |-> id, moves |-> k]
    <2>1. PICK i : i = change.moves + 1
      OBVIOUS
    <2>2. new = [change EXCEPT !.moves = i]
      BY <1>3, <2>1
    <2>3. new = [sub |-> s, mail |-> m, unit |-> u, idp |-> id, moves |-> i]
      BY <1>7, <2>2
    <2> QED BY <2>3
  <1>9. \A v : Renewed(v)[1] = v[1] /\ (v = NoValue => Renewed(v) = NoValue)
    BY DEF Renewed
  <1>10. OwnValues(a, new)
    BY <1>4, <1>5, <1>7, <1>8, <1>9 DEF OwnValues
  <1>11. directory' = [directory EXCEPT ![a] = new]
    BY <1>2, <1>3
  <1>12. DirectoryIsSound'
    <2>1. \A b \in Agent \ {a} : directory'[b] = directory[b]
      BY <1>11 DEF ConnectInv, DirectoryIsSound
    <2>2. directory'[a] = new /\ DOMAIN directory' = Agent
          /\ directory' = [b \in Agent |-> directory'[b]]
      BY <1>11 DEF ConnectInv, DirectoryIsSound
    <2>3. ASSUME NEW b \in Agent
          PROVE  /\ directory'[b] = [sub |-> directory'[b].sub, mail |-> directory'[b].mail,
                                     unit |-> directory'[b].unit, idp |-> directory'[b].idp,
                                     moves |-> directory'[b].moves]
                 /\ OwnValues(b, directory[b])'
      <3>1. CASE b = a
        BY <1>8, <1>10, <2>2, <3>1 DEF OwnValues
      <3>2. CASE b # a
        BY <2>1, <3>2 DEF ConnectInv, DirectoryIsSound, OwnValues
      <3> QED BY <3>1, <3>2
    <2> QED BY <2>2, <2>3 DEF DirectoryIsSound
  <1>13. /\ UNCHANGED <<users, controllers, cookies, tabs>>
         /\ \A t \in SignInTab : tabs[t].step = "insert" => tabs[t].who # a
    BY DEF Move
  <1>14. \A t \in SignInTab : TabIsSound(tabs[t])'
    <2>1. SUFFICES ASSUME NEW t \in SignInTab PROVE TabIsSound(tabs[t])'
      OBVIOUS
    <2> DEFINE r == tabs[t]
    <2>2. tabs'[t] = r /\ TabIsSound(r)
      BY <1>13 DEF ConnectInv
    <2>3. CASE r.step = "insert" /\ r.kind = "controller"
      <3>1. InsertControllerIsSound(r) /\ r.who # a
        BY <1>13, <2>2, <2>3 DEF TabIsSound
      <3>2. r.who \in Agent /\ directory'[r.who] = directory[r.who]
        BY <1>11, <3>1 DEF InsertControllerIsSound, ConnectInv, DirectoryIsSound
      <3>3. InsertControllerIsSound(tabs[t])'
        BY <1>13, <2>2, <3>1, <3>2 DEF InsertControllerIsSound, ControllerRowIsSound, OwnValues
      <3> QED BY <2>2, <2>3, <3>3 DEF TabIsSound
    <2>4. CASE ~(r.step = "insert" /\ r.kind = "controller")
      BY <1>13, <2>2, <2>4 DEF TabIsSound, AwayIsSound, InsertUserIsSound, HintIsSound, IsOf, OpenSession
    <2> QED BY <2>3, <2>4
  <1>15. CookiesAreSound'
    BY <1>13, SameCookies
  <1>16. RowsAreSound'
    BY <1>13 DEF ConnectInv, RowsAreSound, AccountsAreDistinct, AgentKeepsRow, InvitationIsKept,
       ControllerRowIsSound, OwnValues
  <1> QED BY <1>12, <1>13, <1>14, <1>15, <1>16 DEF ConnectInv

\* A log-out at the provider takes its token out of the browser.
LEMMA ProviderLogOutStep ==
  ASSUME ConnectInv, LogOutOfFranceConnect \/ LogOutOfAgentConnect
  PROVE  ConnectInv'
  <1>1. PICK j : j = cookies
    OBVIOUS
  <1>2. PICK a, b, c, d, e : j = [session |-> a, userId |-> b, controllerId |-> c,
                                  fct |-> d, act |-> e]
    BY <1>1 DEF ConnectInv, CookiesAreSound
  <1>3. UNCHANGED <<users, controllers, directory, tabs>>
    BY DEF LogOutOfFranceConnect, LogOutOfAgentConnect
  <1>4. \/ cookies' = [session |-> a, userId |-> b, controllerId |-> c, fct |-> NoValue, act |-> e]
        \/ cookies' = [session |-> a, userId |-> b, controllerId |-> c, fct |-> d, act |-> NoValue]
    <2>1. CASE LogOutOfFranceConnect
      <3>1. cookies' = [j EXCEPT !.fct = NoValue]
        BY <1>1, <2>1 DEF LogOutOfFranceConnect
      <3> QED BY <1>2, <3>1
    <2>2. CASE LogOutOfAgentConnect
      <3>1. cookies' = [j EXCEPT !.act = NoValue]
        BY <1>1, <2>2 DEF LogOutOfAgentConnect
      <3> QED BY <1>2, <3>1
    <2> QED BY <2>1, <2>2
  <1>5. CookiesAreSound'
    <2>1. /\ d \in Citizen \cup {NoValue} /\ e \in Agent \cup {NoValue}
          /\ a = NoSession \/ OpenSession(a)
          /\ a.kind = "user" => b = a.id
          /\ a.kind = "controller" => c = a.id
      BY <1>1, <1>2 DEF ConnectInv, CookiesAreSound, CookiesAgree
    <2>2. /\ cookies'.session = a /\ cookies'.userId = b /\ cookies'.controllerId = c
          /\ cookies'.fct \in {d, NoValue} /\ cookies'.act \in {e, NoValue}
          /\ cookies' = [session |-> cookies'.session, userId |-> cookies'.userId,
                         controllerId |-> cookies'.controllerId, fct |-> cookies'.fct,
                         act |-> cookies'.act]
      BY <1>4
    <2>3. a = NoSession \/ OpenSession(a)'
      BY <1>3, <2>1 DEF OpenSession, IsOf
    <2>4. CookiesAgree'
      BY <2>1, <2>2 DEF CookiesAgree
    <2>5. cookies'.session = NoSession \/ OpenSession(cookies.session)'
      BY <2>2, <2>3 DEF OpenSession, IsOf
    <2> QED BY <2>1, <2>2, <2>4, <2>5 DEF CookiesAreSound
  <1>6. DirectoryIsSound' /\ RowsAreSound'
    BY <1>3 DEF ConnectInv, DirectoryIsSound, RowsAreSound, AccountsAreDistinct, AgentKeepsRow,
       InvitationIsKept, ControllerRowIsSound, OwnValues
  <1>7. \A t \in SignInTab : TabIsSound(tabs[t])'
    BY <1>3 DEF ConnectInv, TabIsSound, AwayIsSound, InsertUserIsSound, InsertControllerIsSound,
       ControllerRowIsSound, OwnValues, OpenSession, IsOf
  <1> QED BY <1>3, <1>5, <1>6, <1>7 DEF ConnectInv

LEMMA ConnectStep == ConnectInv /\ [ConnectNext]_connectVars => ConnectInv'
  <1> SUFFICES ASSUME ConnectInv, [ConnectNext]_connectVars PROVE ConnectInv'
    OBVIOUS
  <1>1. CASE UNCHANGED connectVars
    <2>1. UNCHANGED <<users, controllers, directory, cookies, tabs>>
      BY <1>1 DEF connectVars
    <2>2. CookiesAreSound'
      BY <2>1, SameCookies
    <2>3. DirectoryIsSound' /\ RowsAreSound'
      BY <2>1 DEF ConnectInv, DirectoryIsSound, RowsAreSound, AccountsAreDistinct, AgentKeepsRow,
         InvitationIsKept, ControllerRowIsSound, OwnValues
    <2>4. \A t \in SignInTab : TabIsSound(tabs[t])'
      BY <2>1 DEF ConnectInv, TabIsSound, AwayIsSound, InsertUserIsSound, InsertControllerIsSound,
         ControllerRowIsSound, OwnValues, OpenSession, IsOf
    <2> QED BY <2>1, <2>2, <2>3, <2>4 DEF ConnectInv
  <1>2. ASSUME NEW t \in SignInTab,
               \/ LoginCitizen(t) \/ InsertUser(t) \/ LoginAgent(t)
               \/ InsertController(t) \/ Arrive(t)
        PROVE  ConnectInv'
    BY <1>2, CitizenStep, InsertUserStep, AgentStep, InsertControllerStep, ResponseStep
  <1>3. ASSUME NEW t \in SignInTab,
               \/ \E c \in Citizen, create \in BOOLEAN, invite \in InviteLink \cup {NoValue} :
                    AuthorizeCitizen(t, c, create, invite)
               \/ StateExpires(t)
               \/ \E a \in Agent : AuthorizeAgent(t, a)
               \/ CommitTokens(t) \/ Refresh(t) \/ RefuseOrLogOut(t) \/ LoginByPassword(t)
               \/ FailAtProvider(t) \/ GiveUp(t)
        PROVE  ConnectInv'
    BY <1>3, QuietSteps
  <1>4. CASE LogOutOfFranceConnect \/ LogOutOfAgentConnect
    BY <1>4, ProviderLogOutStep
  <1>5. ASSUME NEW a \in Agent, Move(a) PROVE ConnectInv'
    BY <1>5, MoveStep
  <1> QED
    BY <1>1, <1>2, <1>3, <1>4, <1>5 DEF ConnectNext

LEMMA SoundSignIn == ConnectInv => SignInIsSound
  <1> SUFFICES ASSUME ConnectInv PROVE SignInIsSound
    OBVIOUS
  <1>1. PICK s : s = cookies.session
    OBVIOUS
  <1>2. s = NoSession \/ OpenSession(s)
    BY <1>1 DEF ConnectInv, CookiesAreSound
  <1>3. /\ s.kind \in {"user", "controller", NoValue}
        /\ s.kind = "user" => s.id \in DOMAIN users /\ users[s.id].sub = s.by
        /\ s.kind = "controller" => s.id \in DOMAIN controllers /\ controllers[s.id].of = s.by
    <2>1. CASE s = NoSession
      BY <2>1, ConnectAssumption DEF NoSession
    <2>2. CASE OpenSession(s)
      BY <2>2 DEF OpenSession, IsOf
    <2> QED BY <1>2, <2>1, <2>2
  <1>4. SessionIsOfWhoSignedIn
    BY <1>1, <1>3 DEF SessionIsOfWhoSignedIn
  <1>5. \A i \in DOMAIN users : /\ users[i].sub \in Citizen \cup {NoValue}
                                /\ users[i].invite \in InviteLink \cup {NoValue}
                                /\ users[i].asked \in InviteLink \cup {NoValue}
    <2>1. users \in Seq(UserRow)
      BY DEF ConnectInv, RowsAreSound
    <2>2. \A i \in DOMAIN users : users[i] \in UserRow
      BY <2>1
    <2> QED BY <2>2 DEF UserRow
  <1>6. \A i \in DOMAIN controllers :
          controllers[i].of \in Agent /\ controllers[i].unit # NoValue
    BY DEF ConnectInv, RowsAreSound, ControllerRowIsSound
  <1>7. ConnectTypeOK
    BY <1>1, <1>3, <1>5, <1>6 DEF ConnectTypeOK, ConnectInv, CookiesAreSound
  <1> QED
    BY <1>4, <1>7 DEF SignInIsSound, ConnectInv, RowsAreSound, CookiesAreSound

\* Whoever signs in gets his own account, with cookies that agree and the
\* invitation he came with (SignInIsSound), for any tabs, agents and citizens.
THEOREM SignInStaysSound == ConnectSpec => []SignInIsSound
  BY ConnectInitially, ConnectStep, SoundSignIn, PTL DEF ConnectSpec

-----------------------------------------------------------------------------
(* Requests of a company.  What a request holds agrees with the rows, or    *)
(* two requests have raced on them.                                         *)

Moment == {Never} \cup Nat

HireRow ==
  [status : {"pending", "approved", "rejected"}, dismissed : BOOLEAN, end : Moment,
   worked : Moment, business : Business, received : Nat, invited : Moment,
   first : Moment, last : Moment]

Raced(topic, h) == <<topic, h>> \in raced

\* A detachment that was asked for has both its dates, in order and past.
DatesHold(h) ==
  /\ (hires[h].first = Never) <=> (hires[h].last = Never)
  /\ hires[h].first <= hires[h].last
  /\ hires[h].last <= turn

\* The invitee was last written to when the row says, or is just now.
ReminderKnown(h) ==
  \/ reminded[h] = LatestInvite(h)
  \/ \E q \in StaffRequest : asks[q].kind = "remind" /\ asks[q].sent /\ asks[q].todo[1] = h
  \/ Raced("remind", h)

\* The managers were last told when the row says, or are just now.
TellingKnown(h) ==
  \/ told[h] = hires[h].last
  \/ \E q \in StaffRequest : asks[q].kind = "detach" /\ asks[q].hire = h
  \/ Raced("detach", h)

AskIsSound(r) ==
  /\ r.kind = "remind" =>
       /\ r = [kind |-> "remind", todo |-> r.todo, sent |-> r.sent]
       /\ r.todo \in Seq(Hire) /\ Len(r.todo) >= 1 /\ r.sent \in BOOLEAN
       /\ \A i \in DOMAIN r.todo : IsHired(r.todo[i])
       /\ r.sent => reminded[r.todo[1]] = turn
  /\ r.kind = "detach" =>
       /\ r.hire \in Hire /\ IsHired(r.hire)
       /\ r.first \in Moment /\ r.at \in Nat /\ r.first <= r.at /\ r.at <= turn
       /\ hires[r.hire].first = r.first \/ Raced("detach", r.hire)
       /\ told[r.hire] = r.at \/ Raced("detach", r.hire)
  /\ r.kind = "details" =>
       /\ r.business \in Business /\ r.workers \in Nat /\ r.all \subseteq Hire
       /\ \A h \in r.all : IsHired(h)
  /\ r.kind = "hire" =>
       /\ r.hire \in Hire /\ ~IsHired(r.hire) /\ r.business \in Business
       /\ r.business = firm.business \/ Raced("business", r.hire)
  /\ r.kind = "edit" => r.value \in BOOLEAN /\ r.read \in [Setting -> BOOLEAN]

\* Two requests on one employment: one hires, or the race is known.
PairIsKnown(q, p) ==
  /\ asks[q].kind = "hire" /\ asks[p].kind = "hire" => asks[q].hire # asks[p].hire
  /\ asks[q].kind = "detach" /\ asks[p].kind = "detach" /\ asks[q].hire = asks[p].hire =>
       Raced("detach", asks[q].hire)

StaffTypes ==
  /\ hires \in [Hire -> {Unhired} \cup HireRow]
  /\ firm \in [business : Business, workers : Nat, settings : [Setting -> BOOLEAN]]
  /\ turn \in Nat
  /\ reminded \in [Hire -> Nat]
  /\ told \in [Hire -> Moment]
  /\ DOMAIN asks = StaffRequest
  /\ DOMAIN meant = Hire

HireIsKnown(h) ==
  /\ IsHired(h) => /\ DatesHold(h) /\ ReminderKnown(h) /\ TellingKnown(h)
                   /\ hires[h].business = meant[h] \/ Raced("business", h)
  /\ ~IsHired(h) => told[h] = Never

StaffInv ==
  /\ StaffTypes
  /\ \A h \in Hire : HireIsKnown(h)
  /\ \A q \in StaffRequest : AskIsSound(asks[q])
  /\ \A q, p \in StaffRequest : q # p => PairIsKnown(q, p)

LEMMA HiredRow ==
  ASSUME StaffTypes, NEW h \in Hire
  PROVE  /\ IsHired(h) <=> hires[h] \in HireRow
         /\ ~IsHired(h) <=> hires[h] = Unhired
  <1>1. Unhired.status = "absent"
    BY DEF Unhired
  <1>2. \A r \in HireRow : r.status # "absent"
    BY DEF HireRow
  <1>3. hires[h] \in {Unhired} \cup HireRow
    BY DEF StaffTypes
  <1> QED BY <1>1, <1>2, <1>3 DEF IsHired

LEMMA NewRow ==
  ASSUME NEW b \in Business, NEW now \in Nat
  PROVE  /\ NewHire(b, now) \in HireRow /\ NewHire(b, now).business = b
         /\ NewHire(b, now).invited = Never /\ NewHire(b, now).received = now
         /\ NewHire(b, now).first = Never /\ NewHire(b, now).last = Never
  BY DEF NewHire, HireRow, Moment, Never

LEMMA StaffInitially == StaffInit => StaffInv
  <1> SUFFICES ASSUME StaffInit PROVE StaffInv OBVIOUS
  <1>1. /\ firm \in [business : Business, workers : Nat, settings : [Setting -> BOOLEAN]]
        /\ turn = 0 /\ raced = {}
        /\ \A h \in Hire : reminded[h] = 0 /\ told[h] = Never /\ meant[h] = firm.business
        /\ \A q \in StaffRequest : asks[q] = Waiting
    <2>1. firm \in [business : Business, workers : {0}, settings : [Setting -> {FALSE}]]
      BY DEF StaffInit
    <2>2. PICK b \in Business, f \in [Setting -> {FALSE}] : firm = [business |-> b, workers |-> 0, settings |-> f]
      BY <2>1
    <2>3. f \in [Setting -> BOOLEAN]
      OBVIOUS
    <2>4. firm \in [business : Business, workers : Nat, settings : [Setting -> BOOLEAN]]
      BY <2>2, <2>3
    <2> QED BY <2>4 DEF StaffInit
  <1>2. PICK b : b = firm.business
    OBVIOUS
  <1>3. b \in Business
    BY <1>1, <1>2
  <1>4. PICK n : n = NewHire(b, 0)
    OBVIOUS
  <1>5. /\ n \in HireRow /\ n.business = b /\ n.invited = Never /\ n.received = 0
        /\ n.first = Never /\ n.last = Never
    BY <1>3, <1>4, NewRow
  <1>6. hires \in [Hire -> {Unhired, n}]
    BY <1>2, <1>4 DEF StaffInit
  <1>7. StaffTypes
    <2>1. hires \in [Hire -> {Unhired} \cup HireRow]
      BY <1>5, <1>6
    <2> QED BY <1>1, <2>1 DEF StaffInit, StaffTypes, Moment
  <1>8. ASSUME NEW h \in Hire PROVE HireIsKnown(h)
    <2>1. told[h] = Never
      BY <1>1
    <2>2. IsHired(h) => hires[h] = n
      BY <1>6, <1>7, HiredRow
    <2>3. hires[h] = n => DatesHold(h) /\ ReminderKnown(h) /\ TellingKnown(h) /\ hires[h].business = meant[h]
      BY <1>1, <1>2, <1>5 DEF DatesHold, ReminderKnown, TellingKnown, LatestInvite, Never
    <2> QED BY <2>1, <2>2, <2>3 DEF HireIsKnown
  <1>9. \A q \in StaffRequest : AskIsSound(asks[q])
    BY <1>1 DEF AskIsSound, Waiting
  <1>10. \A q, p \in StaffRequest : q # p => PairIsKnown(q, p)
    BY <1>1 DEF PairIsKnown, Waiting
  <1> QED BY <1>7, <1>8, <1>9, <1>10 DEF StaffInv

-----------------------------------------------------------------------------
(* A step of one request leaves the others sound.                          *)

StaysFor(r) ==
  /\ turn' = turn /\ raced \subseteq raced'
  /\ \A h \in Hire : IsHired(h) => IsHired(h)'
  /\ \A h \in Hire : reminded'[h] \in {reminded[h], turn}
  /\ r.kind = "detach" =>
       /\ hires'[r.hire].first = hires[r.hire].first \/ Raced("detach", r.hire)'
       /\ told'[r.hire] = told[r.hire] \/ Raced("detach", r.hire)'
  /\ r.kind = "hire" =>
       /\ ~IsHired(r.hire)'
       /\ firm'.business = firm.business \/ Raced("business", r.hire)'

LEMMA SoundStays ==
  ASSUME NEW r, AskIsSound(r), StaysFor(r)
  PROVE  AskIsSound(r)'
  <1>1. raced \subseteq raced' /\ turn' = turn
    BY DEF StaysFor
  <1>2. r.kind = "remind" =>
          /\ \A i \in DOMAIN r.todo : IsHired(r.todo[i])'
          /\ r.sent => reminded'[r.todo[1]] = turn'
    <2> SUFFICES ASSUME r.kind = "remind"
                 PROVE  /\ \A i \in DOMAIN r.todo : IsHired(r.todo[i])'
                        /\ r.sent => reminded'[r.todo[1]] = turn'
      OBVIOUS
    <2>1. /\ r.todo \in Seq(Hire) /\ Len(r.todo) >= 1 /\ (r.sent => reminded[r.todo[1]] = turn)
          /\ \A i \in DOMAIN r.todo : IsHired(r.todo[i])
      BY DEF AskIsSound
    <2>2. 1 \in DOMAIN r.todo /\ \A i \in DOMAIN r.todo : r.todo[i] \in Hire
      BY <2>1, LenProperties, ElementOfSeq
    <2> QED BY <2>1, <2>2 DEF StaysFor
  <1>3. r.kind = "detach" =>
          /\ IsHired(r.hire)' /\ r.at <= turn'
          /\ hires'[r.hire].first = r.first \/ Raced("detach", r.hire)'
          /\ told'[r.hire] = r.at \/ Raced("detach", r.hire)'
    BY DEF AskIsSound, StaysFor, Raced
  <1>4. r.kind = "details" => \A h \in r.all : IsHired(h)'
    BY DEF AskIsSound, StaysFor
  <1>5. r.kind = "hire" =>
          /\ ~IsHired(r.hire)'
          /\ r.business = firm'.business \/ Raced("business", r.hire)'
    BY DEF AskIsSound, StaysFor, Raced
  <1> QED BY <1>2, <1>3, <1>4, <1>5 DEF AskIsSound

\* One request changes, the others stay.
OneAsks(q, r) == asks' = [asks EXCEPT ![q] = r]

LEMMA OthersStaySound ==
  ASSUME StaffInv, NEW q \in StaffRequest, NEW r, OneAsks(q, r), AskIsSound(r)',
         \A p \in StaffRequest \ {q} : \A a : a = asks[p] => StaysFor(a)
  PROVE  \A p \in StaffRequest : AskIsSound(asks[p])'
  <1> SUFFICES ASSUME NEW p \in StaffRequest PROVE AskIsSound(asks[p])'
    OBVIOUS
  <1>1. asks'[p] = IF p = q THEN r ELSE asks[p]
    BY DEF OneAsks, StaffInv, StaffTypes
  <1>2. CASE p = q
    BY <1>1, <1>2 DEF AskIsSound
  <1>3. CASE p # q
    <2>1. PICK a : a = asks[p]
      OBVIOUS
    <2>2. AskIsSound(a) /\ StaysFor(a)
      BY <1>3, <2>1 DEF StaffInv
    <2>3. AskIsSound(a)'
      BY <2>2, SoundStays
    <2> QED BY <1>1, <1>3, <2>1, <2>3 DEF AskIsSound
  <1> QED BY <1>2, <1>3

\* Pairs stay known when the request that changes hires and detaches nobody
\* new, and no race is forgotten.
LEMMA PairsStay ==
  ASSUME StaffInv, NEW q \in StaffRequest, NEW r, OneAsks(q, r), raced \subseteq raced',
         r.kind \notin {"hire", "detach"}
  PROVE  \A p, o \in StaffRequest : p # o => PairIsKnown(p, o)'
  <1> SUFFICES ASSUME NEW p \in StaffRequest, NEW o \in StaffRequest, p # o PROVE PairIsKnown(p, o)'
    OBVIOUS
  <1>1. PairIsKnown(p, o)
    BY DEF StaffInv
  <1>2. asks'[p] = (IF p = q THEN r ELSE asks[p]) /\ asks'[o] = (IF o = q THEN r ELSE asks[o])
    BY DEF OneAsks, StaffInv, StaffTypes
  <1> QED BY <1>1, <1>2 DEF PairIsKnown, Raced

\* An employment nothing happened to is known as before; a request that ends
\* may not be the one that was about to write.
KeepsHolders(q, r, h) ==
  /\ asks[q].kind = "remind" /\ asks[q].sent /\ asks[q].todo[1] = h =>
       \/ r.kind = "remind" /\ r.sent /\ r.todo[1] = h
       \/ Raced("remind", h)'
  /\ asks[q].kind = "detach" /\ asks[q].hire = h =>
       \/ r.kind = "detach" /\ r.hire = h
       \/ Raced("detach", h)'

LEMMA HireStaysKnown ==
  ASSUME StaffInv, NEW q \in StaffRequest, NEW r, OneAsks(q, r), raced \subseteq raced', turn' = turn,
         NEW h \in Hire, hires'[h] = hires[h], told'[h] = told[h], reminded'[h] = reminded[h],
         meant'[h] = meant[h], KeepsHolders(q, r, h)
  PROVE  HireIsKnown(h)'
  <1>1. HireIsKnown(h) /\ (IsHired(h)' <=> IsHired(h))
    BY DEF StaffInv, IsHired
  <1>2. \A p \in StaffRequest : asks'[p] = IF p = q THEN r ELSE asks[p]
    BY DEF OneAsks, StaffInv, StaffTypes
  <1>3. IsHired(h) => DatesHold(h)' /\ (hires'[h].business = meant'[h] \/ Raced("business", h)')
    BY <1>1 DEF HireIsKnown, DatesHold, Raced
  <1>4. IsHired(h) => ReminderKnown(h)'
    BY <1>1, <1>2 DEF HireIsKnown, ReminderKnown, LatestInvite, KeepsHolders, Raced
  <1>5. IsHired(h) => TellingKnown(h)'
    BY <1>1, <1>2 DEF HireIsKnown, TellingKnown, KeepsHolders, Raced
  <1> QED BY <1>1, <1>3, <1>4, <1>5 DEF HireIsKnown

-----------------------------------------------------------------------------
(* The steps that change one request and no row of hires.                  *)

\* What is common to them: the row of each employment stays.
LEMMA AskStep ==
  ASSUME StaffInv, NEW q \in StaffRequest, NEW r, OneAsks(q, r), raced \subseteq raced',
         UNCHANGED <<hires, firm, turn, told, meant>>, reminded' \in [Hire -> Nat],
         r.kind \notin {"hire", "detach"}, AskIsSound(r)',
         \A h \in Hire : reminded'[h] \in {reminded[h], turn},
         \A h \in Hire : \/ reminded'[h] = reminded[h] /\ KeepsHolders(q, r, h)
                         \/ HireIsKnown(h)'
  PROVE  StaffInv'
  <1>1. StaffTypes'
    BY DEF StaffInv, StaffTypes, OneAsks
  <1>2. \A p \in StaffRequest \ {q} : \A a : a = asks[p] => StaysFor(a)
    <2> SUFFICES ASSUME NEW p \in StaffRequest \ {q}, NEW a, a = asks[p] PROVE StaysFor(a)
      OBVIOUS
    <2>1. AskIsSound(a)
      BY DEF StaffInv
    <2>2. a.kind = "hire" => ~IsHired(a.hire)'
      BY <2>1 DEF IsHired, AskIsSound
    <2>3. \A h \in Hire : IsHired(h) => IsHired(h)'
      BY DEF IsHired
    <2> QED BY <2>2, <2>3 DEF StaysFor
  <1>3. \A p \in StaffRequest : AskIsSound(asks[p])'
    BY <1>2, OthersStaySound
  <1>4. \A h \in Hire : HireIsKnown(h)'
    BY HireStaysKnown
  <1>5. \A p, o \in StaffRequest : p # o => PairIsKnown(p, o)'
    BY PairsStay
  <1> QED BY <1>1, <1>3, <1>4, <1>5 DEF StaffInv

LEMMA BeginAskStep ==
  ASSUME StaffInv, NEW q \in StaffRequest, NEW r, Start(q, r), r.kind \in {"remind", "details", "edit"},
         UNCHANGED <<hires, firm, turn, reminded, told, meant, raced>>, AskIsSound(r)
  PROVE  StaffInv'
  <1>1. OneAsks(q, r) /\ asks[q] = Waiting
    BY DEF Start, OneAsks
  <1>2. AskIsSound(r)'
    BY DEF AskIsSound, IsHired, Raced
  <1>3. \A h \in Hire : KeepsHolders(q, r, h)
    BY <1>1 DEF KeepsHolders, Waiting
  <1>4. reminded' \in [Hire -> Nat]
    BY DEF StaffInv, StaffTypes
  <1> QED BY <1>1, <1>2, <1>3, <1>4, AskStep

LEMMA BeginSteps ==
  ASSUME StaffInv, NEW q \in StaffRequest,
         \/ \E h \in Hire, g \in Hire : BeginReminders(q, <<h, g>>)
         \/ \E b \in Business, n \in {0, 2}, everyone \in BOOLEAN : UpdateCompanyDetails(q, b, n, everyone)
         \/ \E s \in Setting, v \in BOOLEAN : EditCompanySettings(q, s, v)
  PROVE  StaffInv'
  <1>1. ASSUME NEW h \in Hire, NEW g \in Hire, BeginReminders(q, <<h, g>>) PROVE StaffInv'
    <2>1. PICK r : r = [kind |-> "remind", todo |-> <<h, g>>, sent |-> FALSE]
      OBVIOUS
    <2>2. AskIsSound(r)
      <3>1. <<h, g>> \in Seq(Hire) /\ Len(<<h, g>>) = 2 /\ DOMAIN <<h, g>> = 1..2
            /\ \A i \in DOMAIN <<h, g>> : IsHired(<<h, g>>[i])
        BY <1>1 DEF BeginReminders
      <3> QED BY <2>1, <3>1 DEF AskIsSound
    <2> QED BY <1>1, <2>1, <2>2, BeginAskStep DEF BeginReminders
  <1>2. ASSUME NEW b \in Business, NEW n \in {0, 2}, NEW everyone \in BOOLEAN, UpdateCompanyDetails(q, b, n, everyone)
        PROVE  StaffInv'
    <2>1. PICK r : r = [kind |-> "details", business |-> b, workers |-> n, was |-> firm.business,
                        all |-> IF everyone THEN {h \in Hire : IsHired(h)} ELSE {}]
      OBVIOUS
    <2>2. AskIsSound(r)
      BY <2>1 DEF AskIsSound
    <2> QED BY <1>2, <2>1, <2>2, BeginAskStep DEF UpdateCompanyDetails
  <1>3. ASSUME NEW s \in Setting, NEW v \in BOOLEAN, EditCompanySettings(q, s, v) PROVE StaffInv'
    <2>1. PICK r : r = [kind |-> "edit", name |-> s, value |-> v, read |-> firm.settings]
      OBVIOUS
    <2>2. AskIsSound(r)
      BY <2>1 DEF AskIsSound, StaffInv, StaffTypes
    <2> QED BY <1>3, <2>1, <2>2, BeginAskStep DEF EditCompanySettings
  <1> QED BY <1>1, <1>2, <1>3

LEMMA WaitingIsSound == AskIsSound(Waiting) /\ AskIsSound(Waiting)' /\ Waiting.kind = "none"
  BY DEF AskIsSound, Waiting

\* A request fails: what it had sent is a race.
LEMMA FailStep ==
  ASSUME StaffInv, NEW q \in StaffRequest, FailRequest(q)
  PROVE  StaffInv'
  <1>1. PICK w : w = Waiting
    OBVIOUS
  <1>2. /\ OneAsks(q, w) /\ raced \subseteq raced'
        /\ UNCHANGED <<hires, firm, turn, reminded, told, meant>>
    BY <1>1 DEF FailRequest, End, OneAsks
  <1>3. AskIsSound(w)' /\ w.kind = "none"
    BY <1>1, WaitingIsSound DEF AskIsSound
  <1>4. \A h \in Hire : KeepsHolders(q, w, h)
    BY DEF FailRequest, KeepsHolders, Raced
  <1>5. reminded' \in [Hire -> Nat]
    BY <1>2 DEF StaffInv, StaffTypes
  <1> QED BY <1>2, <1>3, <1>4, <1>5, AskStep

\* What the next of the list is, or nothing.
LEMMA NextOne ==
  ASSUME StaffInv, NEW q \in StaffRequest, asks[q].kind = "remind", Next1(q)
  PROVE  \E r : OneAsks(q, r) /\ AskIsSound(r) /\ r.kind \in {"none", "remind"} /\ (r.kind = "remind" => ~r.sent)
  <1>1. PICK a : a = asks[q]
    OBVIOUS
  <1>2. AskIsSound(a) /\ a.kind = "remind"
    BY <1>1 DEF StaffInv
  <1>3. PICK todo, sent : a = [kind |-> "remind", todo |-> todo, sent |-> sent]
    BY <1>2 DEF AskIsSound
  <1>4. todo \in Seq(Hire) /\ Len(todo) >= 1 /\ \A i \in DOMAIN todo : IsHired(todo[i])
    BY <1>2, <1>3 DEF AskIsSound
  <1>5. CASE Len(todo) = 1
    <2>1. asks' = [asks EXCEPT ![q] = Waiting]
      BY <1>1, <1>3, <1>5 DEF Next1, End
    <2> QED BY <2>1, WaitingIsSound DEF OneAsks
  <1>6. CASE Len(todo) # 1
    <2>1. PICK rest : rest = Tail(todo)
      OBVIOUS
    <2>2. PICK r : r = [kind |-> "remind", todo |-> rest, sent |-> FALSE]
      OBVIOUS
    <2>3. OneAsks(q, r)
      BY <1>1, <1>3, <1>6, <2>1, <2>2 DEF Next1, OneAsks
    <2>4. /\ rest \in Seq(Hire) /\ Len(rest) = Len(todo) - 1
          /\ \A i \in 1..Len(rest) : rest[i] = todo[i + 1]
      <3>1. todo # <<>>
        BY <1>4, EmptySeq
      <3> QED BY <1>4, <2>1, <3>1, HeadTailProperties
    <2>5. /\ Len(todo) \in Nat /\ DOMAIN todo = 1..Len(todo) /\ DOMAIN rest = 1..Len(rest)
      BY <1>4, <2>4, LenProperties
    <2>6. Len(rest) >= 1
      BY <1>4, <1>6, <2>4, <2>5
    <2>7. ASSUME NEW i \in DOMAIN rest PROVE IsHired(rest[i])
      <3>1. i + 1 \in DOMAIN todo /\ rest[i] = todo[i + 1]
        BY <2>4, <2>5, <2>7
      <3>2. PICK j : j = i + 1
        OBVIOUS
      <3>3. IsHired(todo[j])
        BY <1>4, <3>1, <3>2
      <3> QED BY <3>1, <3>2, <3>3
    <2>8. AskIsSound(r)
      BY <2>2, <2>4, <2>6, <2>7 DEF AskIsSound
    <2> QED BY <2>2, <2>3, <2>8
  <1> QED BY <1>5, <1>6

LEMMA SkipStep ==
  ASSUME StaffInv, NEW q \in StaffRequest, SkipReminder(q)
  PROVE  StaffInv'
  <1>1. asks[q].kind = "remind" /\ ~asks[q].sent /\ Next1(q)
        /\ UNCHANGED <<hires, firm, turn, served, reminded, told, meant, raced>>
    BY DEF SkipReminder
  <1>2. PICK r : OneAsks(q, r) /\ AskIsSound(r) /\ r.kind \in {"none", "remind"} /\ (r.kind = "remind" => ~r.sent)
    BY <1>1, NextOne
  <1>3. AskIsSound(r)'
    BY <1>1, <1>2 DEF AskIsSound, IsHired, Raced
  <1>4. \A h \in Hire : KeepsHolders(q, r, h)
    BY <1>1 DEF KeepsHolders
  <1>5. reminded' \in [Hire -> Nat]
    BY <1>1 DEF StaffInv, StaffTypes
  <1> QED BY <1>1, <1>2, <1>3, <1>4, <1>5, AskStep

\* The first of the list that is left is an employment.
LEMMA FirstToRemind ==
  ASSUME StaffInv, NEW q \in StaffRequest, asks[q].kind = "remind"
  PROVE  \E todo, sent :
           /\ asks[q] = [kind |-> "remind", todo |-> todo, sent |-> sent]
           /\ AskIsSound([kind |-> "remind", todo |-> todo, sent |-> sent])
           /\ todo \in Seq(Hire) /\ Len(todo) >= 1 /\ sent \in BOOLEAN
           /\ todo[1] \in Hire /\ IsHired(todo[1])
           /\ \A i \in DOMAIN todo : IsHired(todo[i])
           /\ sent => reminded[todo[1]] = turn
  <1>1. PICK a : a = asks[q]
    OBVIOUS
  <1>2. AskIsSound(a) /\ a.kind = "remind"
    BY <1>1 DEF StaffInv
  <1>3. PICK todo, sent : a = [kind |-> "remind", todo |-> todo, sent |-> sent]
    BY <1>2 DEF AskIsSound
  <1>4. /\ todo \in Seq(Hire) /\ Len(todo) >= 1 /\ sent \in BOOLEAN
        /\ \A i \in DOMAIN todo : IsHired(todo[i])
        /\ sent => reminded[todo[1]] = turn
    BY <1>2, <1>3 DEF AskIsSound
  <1>5. 1 \in DOMAIN todo /\ todo[1] \in Hire
    BY <1>4, LenProperties, ElementOfSeq
  <1>6. asks[q] = [kind |-> "remind", todo |-> todo, sent |-> sent]
        /\ AskIsSound([kind |-> "remind", todo |-> todo, sent |-> sent])
    BY <1>1, <1>2, <1>3
  <1> QED BY <1>4, <1>5, <1>6

LEMMA RemindStep ==
  ASSUME StaffInv, NEW q \in StaffRequest, Remind(q)
  PROVE  StaffInv'
  <1>1. PICK todo, sent :
           /\ asks[q] = [kind |-> "remind", todo |-> todo, sent |-> sent]
           /\ todo \in Seq(Hire) /\ Len(todo) >= 1 /\ sent \in BOOLEAN
           /\ todo[1] \in Hire /\ IsHired(todo[1])
           /\ \A i \in DOMAIN todo : IsHired(todo[i])
    BY FirstToRemind DEF Remind
  <1>2. PICK h : h = todo[1]
    OBVIOUS
  <1>3. PICK r : r = [kind |-> "remind", todo |-> todo, sent |-> TRUE]
    OBVIOUS
  <1>4. PICK a : a = asks[q]
    OBVIOUS
  <1>5. /\ ~sent /\ OneAsks(q, r) /\ raced \subseteq raced'
        /\ reminded' = [reminded EXCEPT ![h] = turn]
        /\ UNCHANGED <<hires, firm, turn, told, meant>>
    <2>1. OneAsks(q, r)
      <3>1. asks' = [asks EXCEPT ![q].sent = TRUE]
        BY DEF Remind
      <3>2. asks' = [asks EXCEPT ![q] = [a EXCEPT !.sent = TRUE]]
        BY <1>4, <3>1
      <3>3. a = [kind |-> "remind", todo |-> todo, sent |-> sent]
        BY <1>1, <1>4
      <3>4. [a EXCEPT !.sent = TRUE] = r
        <4>2. PICK yes : yes = TRUE
          OBVIOUS
        <4>3. PICK s : s = [a EXCEPT !.sent = yes]
          OBVIOUS
        <4>5. PICK o : o = [kind |-> "remind", todo |-> todo, sent |-> yes]
          OBVIOUS
        <4>6. o = s
          BY <3>3, <4>3, <4>5
        <4>7. o = r
          BY <1>3, <4>2, <4>5
        <4> QED BY <4>2, <4>3, <4>6, <4>7
      <3> QED BY <3>2, <3>4 DEF OneAsks
    <2>2. reminded' = [reminded EXCEPT ![h] = turn] /\ ~sent
      BY <1>1, <1>2 DEF Remind
    <2> QED BY <2>1, <2>2 DEF Remind
  <1>6. reminded' \in [Hire -> Nat] /\ \A g \in Hire : reminded'[g] = IF g = h THEN turn ELSE reminded[g]
    BY <1>5 DEF StaffInv, StaffTypes
  <1>7. AskIsSound(r)'
    BY <1>1, <1>2, <1>3, <1>5, <1>6 DEF AskIsSound, IsHired
  <1>8. \A g \in Hire : KeepsHolders(q, r, g)
    BY <1>1, <1>5 DEF KeepsHolders
  <1>9. HireIsKnown(h)'
    <2>1. HireIsKnown(h) /\ IsHired(h)
      BY <1>1, <1>2 DEF StaffInv
    <2>2. \A p \in StaffRequest : asks'[p] = IF p = q THEN r ELSE asks[p]
      BY <1>5 DEF OneAsks, StaffInv, StaffTypes
    <2>3. ReminderKnown(h)'
      BY <1>2, <1>3, <2>2 DEF ReminderKnown
    <2>4. TellingKnown(h)'
      BY <1>1, <1>5, <2>1, <2>2 DEF HireIsKnown, TellingKnown, Raced
    <2>5. DatesHold(h)' /\ (hires'[h].business = meant'[h] \/ Raced("business", h)') /\ IsHired(h)'
      BY <1>5, <2>1 DEF HireIsKnown, DatesHold, Raced, IsHired
    <2> QED BY <2>3, <2>4, <2>5 DEF HireIsKnown
  <1> QED BY <1>3, <1>5, <1>6, <1>7, <1>8, <1>9, AskStep

-----------------------------------------------------------------------------
(* The steps that change a row of hires.                                    *)

LEMMA RowChanges ==
  ASSUME StaffInv, NEW h \in Hire, NEW n \in HireRow, hires' = [hires EXCEPT ![h] = n]
  PROVE  /\ hires' \in [Hire -> {Unhired} \cup HireRow] /\ hires'[h] = n /\ IsHired(h)'
         /\ \A g \in Hire \ {h} : hires'[g] = hires[g]
         /\ \A g \in Hire : IsHired(g) => IsHired(g)'
         /\ \A g \in Hire \ {h} : IsHired(g)' <=> IsHired(g)
  <1>1. /\ hires' \in [Hire -> {Unhired} \cup HireRow] /\ hires'[h] = n
        /\ \A g \in Hire \ {h} : hires'[g] = hires[g]
    BY DEF StaffInv, StaffTypes
  <1>2. n.status # "absent"
    BY DEF HireRow
  <1> QED BY <1>1, <1>2 DEF IsHired

LEMMA CommitReminderStep ==
  ASSUME StaffInv, NEW q \in StaffRequest, CommitReminder(q)
  PROVE  StaffInv'
  <1>1. PICK todo, sent :
           /\ asks[q] = [kind |-> "remind", todo |-> todo, sent |-> sent]
           /\ todo[1] \in Hire /\ IsHired(todo[1])
           /\ sent => reminded[todo[1]] = turn
    BY FirstToRemind DEF CommitReminder
  <1>2. PICK h : h = todo[1]
    OBVIOUS
  <1>3. PICK n : n = [hires[h] EXCEPT !.invited = turn]
    OBVIOUS
  <1>4. /\ sent /\ hires' = [hires EXCEPT ![h] = n] /\ Next1(q)
        /\ UNCHANGED <<firm, turn, served, reminded, told, meant, raced>>
    BY <1>1, <1>2, <1>3 DEF CommitReminder
  <1>5. hires[h] \in HireRow /\ turn \in Nat
    BY <1>1, <1>2, HiredRow DEF StaffInv, StaffTypes
  <1>6. /\ n \in HireRow /\ n.invited = turn /\ n.first = hires[h].first /\ n.last = hires[h].last
        /\ n.business = hires[h].business
    BY <1>3, <1>5 DEF HireRow, Moment
  <1>7. /\ hires' \in [Hire -> {Unhired} \cup HireRow] /\ hires'[h] = n /\ IsHired(h)'
        /\ \A g \in Hire \ {h} : hires'[g] = hires[g]
        /\ \A g \in Hire : IsHired(g) => IsHired(g)'
        /\ \A g \in Hire \ {h} : IsHired(g)' <=> IsHired(g)
    BY <1>1, <1>2, <1>4, <1>6, RowChanges
  <1>8. PICK r : OneAsks(q, r) /\ AskIsSound(r) /\ r.kind \in {"none", "remind"} /\ (r.kind = "remind" => ~r.sent)
    BY <1>1, <1>4, NextOne
  <1>9. StaffTypes'
    BY <1>4, <1>7, <1>8 DEF StaffInv, StaffTypes, OneAsks
  <1>10. ASSUME NEW a, AskIsSound(a), \/ a = r
                                      \/ a.kind = "hire" => a.hire # h
         PROVE  StaysFor(a)
    <2>1. \A g \in Hire : reminded'[g] \in {reminded[g], turn}
      BY <1>4
    <2>2. a.kind = "detach" => a.hire \in Hire
      BY <1>10 DEF AskIsSound
    <2>3. a.kind = "detach" => hires'[a.hire].first = hires[a.hire].first
      BY <1>6, <1>7, <2>2
    <2>4. a.kind = "hire" => a.hire \in Hire \ {h} /\ ~IsHired(a.hire)
      BY <1>8, <1>10 DEF AskIsSound
    <2>5. a.kind = "hire" => ~IsHired(a.hire)'
      BY <1>7, <2>4
    <2> QED BY <1>4, <1>7, <2>1, <2>3, <2>5 DEF StaysFor
  <1>11. AskIsSound(r)'
    BY <1>8, <1>10, SoundStays
  <1>12. \A p \in StaffRequest \ {q} : \A a : a = asks[p] => StaysFor(a)
    <2> SUFFICES ASSUME NEW p \in StaffRequest, NEW a, a = asks[p] PROVE StaysFor(a)
      OBVIOUS
    <2>1. AskIsSound(a)
      BY DEF StaffInv
    <2>2. a.kind = "hire" => a.hire # h
      BY <1>1, <1>2, <2>1 DEF AskIsSound
    <2> QED BY <1>10, <2>1, <2>2
  <1>13. \A p \in StaffRequest : AskIsSound(asks[p])'
    BY <1>8, <1>11, <1>12, OthersStaySound
  <1>14. \A p, o \in StaffRequest : p # o => PairIsKnown(p, o)'
    BY <1>4, <1>8, PairsStay
  <1>15. ASSUME NEW g \in Hire PROVE HireIsKnown(g)'
    <2>1. CASE g # h
      <3>1. KeepsHolders(q, r, g)
        BY <1>1, <1>2, <2>1 DEF KeepsHolders
      <3> QED BY <1>4, <1>7, <1>8, <2>1, <3>1, HireStaysKnown
    <2>2. CASE g = h
      <3>1. HireIsKnown(h) /\ IsHired(h)
        BY <1>1, <1>2 DEF StaffInv
      <3>2. \A p \in StaffRequest : asks'[p] = IF p = q THEN r ELSE asks[p]
        BY <1>8 DEF OneAsks, StaffInv, StaffTypes
      <3>3. ReminderKnown(h)'
        BY <1>1, <1>2, <1>4, <1>5, <1>6, <1>7 DEF ReminderKnown, LatestInvite, Never
      <3>4. TellingKnown(h)'
        BY <1>1, <1>4, <1>6, <1>7, <3>1, <3>2 DEF HireIsKnown, TellingKnown, Raced
      <3>5. DatesHold(h)' /\ (hires'[h].business = meant'[h] \/ Raced("business", h)')
        BY <1>4, <1>6, <1>7, <3>1 DEF HireIsKnown, DatesHold, Raced
      <3> QED BY <1>7, <2>2, <3>3, <3>4, <3>5 DEF HireIsKnown
    <2> QED BY <2>1, <2>2
  <1> QED BY <1>9, <1>13, <1>14, <1>15 DEF StaffInv

-----------------------------------------------------------------------------
(* What is common to the other steps.                                       *)

\* The row of h keeps its dates, and a business that changes is meant.
RowIsSame(h) ==
  /\ IsHired(h) <=> IsHired(h)'
  /\ told'[h] = told[h] /\ reminded'[h] = reminded[h]
  /\ IsHired(h) =>
       /\ hires'[h].first = hires[h].first /\ hires'[h].last = hires[h].last
       /\ hires'[h].received = hires[h].received /\ hires'[h].invited = hires[h].invited
       /\ \/ hires'[h].business = meant'[h]
          \/ hires'[h].business = hires[h].business /\ meant'[h] = meant[h]

\* Requests that hold h still do.
HoldersStay(h) ==
  \A p \in StaffRequest :
    /\ asks[p].kind = "remind" /\ asks[p].sent /\ asks[p].todo[1] = h =>
         asks'[p].kind = "remind" /\ asks'[p].sent /\ asks'[p].todo[1] = h
    /\ asks[p].kind = "detach" /\ asks[p].hire = h =>
         asks'[p].kind = "detach" /\ asks'[p].hire = h

LEMMA RowStaysKnown ==
  ASSUME NEW h \in Hire, HireIsKnown(h), RowIsSame(h), HoldersStay(h), raced \subseteq raced',
         turn \in Nat, turn' \in Nat, turn <= turn', IsHired(h) => hires[h] \in HireRow
  PROVE  HireIsKnown(h)'
  <1>1. ASSUME IsHired(h)
        PROVE  DatesHold(h)' /\ ReminderKnown(h)' /\ TellingKnown(h)'
               /\ (hires'[h].business = meant'[h] \/ Raced("business", h)')
    <2>1. DatesHold(h)'
      <3>1. hires[h].last \in Int
        BY <1>1 DEF HireRow, Moment, Never
      <3> QED BY <1>1, <3>1 DEF HireIsKnown, RowIsSame, DatesHold
    <2>2. ReminderKnown(h)'
      <3>1. LatestInvite(h)' = LatestInvite(h)
        BY <1>1 DEF RowIsSame, LatestInvite
      <3>2. ReminderKnown(h)
        BY <1>1 DEF HireIsKnown
      <3>3. CASE reminded[h] = LatestInvite(h) \/ Raced("remind", h)
        BY <3>1, <3>3 DEF RowIsSame, ReminderKnown, Raced
      <3>4. ASSUME NEW p \in StaffRequest, asks[p].kind = "remind", asks[p].sent, asks[p].todo[1] = h
            PROVE  ReminderKnown(h)'
        BY <3>4 DEF HoldersStay, ReminderKnown
      <3> QED BY <3>2, <3>3, <3>4 DEF ReminderKnown
    <2>3. TellingKnown(h)'
      BY <1>1 DEF HireIsKnown, RowIsSame, TellingKnown, HoldersStay, Raced
    <2>4. hires'[h].business = meant'[h] \/ Raced("business", h)'
      BY <1>1 DEF HireIsKnown, RowIsSame, Raced
    <2> QED BY <2>1, <2>2, <2>3, <2>4
  <1>2. ~IsHired(h)' => told'[h] = Never
    BY DEF HireIsKnown, RowIsSame
  <1> QED BY <1>1, <1>2 DEF HireIsKnown, RowIsSame

LEMMA RequestStep ==
  ASSUME StaffInv, NEW q \in StaffRequest, NEW r, OneAsks(q, r), raced \subseteq raced', turn' = turn,
         StaffTypes', AskIsSound(r)', \A h \in Hire : HireIsKnown(h)',
         \A p \in StaffRequest \ {q} : \A a : a = asks[p] => StaysFor(a),
         \A p \in StaffRequest \ {q} : PairIsKnown(q, p)' /\ PairIsKnown(p, q)'
  PROVE  StaffInv'
  <1>1. \A p \in StaffRequest : AskIsSound(asks[p])'
    BY OthersStaySound
  <1>2. ASSUME NEW p \in StaffRequest, NEW o \in StaffRequest, p # o PROVE PairIsKnown(p, o)'
    <2>1. CASE p # q /\ o # q
      <3>1. asks'[p] = asks[p] /\ asks'[o] = asks[o]
        BY <2>1 DEF OneAsks, StaffInv, StaffTypes
      <3>2. PairIsKnown(p, o)
        BY <1>2 DEF StaffInv
      <3> QED BY <3>1, <3>2 DEF PairIsKnown, Raced
    <2> QED BY <1>2, <2>1
  <1> QED BY <1>1, <1>2 DEF StaffInv

\* A request that asks for nothing on an employment races with nobody new.
LEMMA QuietPairs ==
  ASSUME StaffInv, NEW q \in StaffRequest, NEW r, OneAsks(q, r), r.kind \notin {"hire", "detach"}
  PROVE  \A p \in StaffRequest \ {q} : PairIsKnown(q, p)' /\ PairIsKnown(p, q)'
  <1>1. \A p \in StaffRequest : asks'[p] = IF p = q THEN r ELSE asks[p]
    BY DEF OneAsks, StaffInv, StaffTypes
  <1> QED BY <1>1 DEF PairIsKnown

\* Requests that stay as they are.
LEMMA StandingStep ==
  ASSUME StaffInv, asks' = asks, raced \subseteq raced',
         StaffTypes', \A h \in Hire : HireIsKnown(h)',
         \A p \in StaffRequest : \A a : a = asks[p] => StaysFor(a)
  PROVE  StaffInv'
  <1>1. ASSUME NEW p \in StaffRequest PROVE AskIsSound(asks[p])'
    <2>1. PICK a : a = asks[p]
      OBVIOUS
    <2>2. AskIsSound(a) /\ StaysFor(a)
      BY <2>1 DEF StaffInv
    <2>3. AskIsSound(a)'
      BY <2>2, SoundStays
    <2> QED BY <2>1, <2>3 DEF AskIsSound
  <1>2. \A q, p \in StaffRequest : q # p => PairIsKnown(q, p)'
    BY DEF StaffInv, PairIsKnown, Raced
  <1> QED BY <1>1, <1>2 DEF StaffInv

-----------------------------------------------------------------------------
(* Detachments.                                                             *)

\* A race on h is known when another request of these kinds holds it.
LEMMA RaceIsKnown ==
  ASSUME NEW q, NEW kinds, NEW topic, NEW h, Races(q, kinds, topic, h) \subseteq raced',
         NEW p \in StaffRequest, p # q, asks[p].kind \in kinds, Holds(asks[p], h)
  PROVE  <<topic, h>> \in raced'
  BY DEF Races

LEMMA RequestDetachmentStep ==
  ASSUME StaffInv, NEW q \in StaffRequest, NEW h \in Hire, RequestDetachment(q, h)
  PROVE  StaffInv'
  <1>1. PICK r : r = [kind |-> "detach", hire |-> h, first |-> hires[h].first, at |-> turn]
    OBVIOUS
  <1>2. /\ OneAsks(q, r) /\ asks[q] = Waiting /\ IsHired(h)
        /\ told' = [told EXCEPT ![h] = turn]
        /\ raced \subseteq raced' /\ Races(q, {"detach"}, "detach", h) \subseteq raced'
        /\ UNCHANGED <<hires, firm, turn, reminded, meant>>
    BY <1>1 DEF RequestDetachment, Start, OneAsks, MayAsk
  <1>3. /\ told' \in [Hire -> Moment] /\ turn \in Nat
        /\ \A g \in Hire : told'[g] = IF g = h THEN turn ELSE told[g]
    BY <1>2 DEF StaffInv, StaffTypes, Moment
  <1>4. \A p \in StaffRequest : asks'[p] = IF p = q THEN r ELSE asks[p]
    BY <1>2 DEF OneAsks, StaffInv, StaffTypes
  <1>5. StaffTypes'
    BY <1>2, <1>3 DEF StaffInv, StaffTypes, OneAsks
  <1>6. \A p \in StaffRequest \ {q} : asks[p].kind = "detach" /\ asks[p].hire = h => Raced("detach", h)'
    BY <1>2, RaceIsKnown DEF Holds, Raced
  <1>7. AskIsSound(r)'
    <2>1. hires[h] \in HireRow /\ DatesHold(h)
      BY <1>2, HiredRow DEF StaffInv, HireIsKnown
    <2>2. hires[h].first \in Moment /\ hires[h].first <= turn
      BY <1>3, <2>1 DEF DatesHold, HireRow, Moment, Never
    <2>3. IsHired(h)'
      BY <1>2 DEF IsHired
    <2> QED BY <1>1, <1>2, <1>3, <2>2, <2>3 DEF AskIsSound
  <1>8. \A p \in StaffRequest \ {q} : \A a : a = asks[p] => StaysFor(a)
    <2> SUFFICES ASSUME NEW p \in StaffRequest \ {q}, NEW a, a = asks[p] PROVE StaysFor(a)
      OBVIOUS
    <2>1. AskIsSound(a)
      BY DEF StaffInv
    <2>2. \A g \in Hire : IsHired(g)' <=> IsHired(g)
      BY <1>2 DEF IsHired
    <2>3. a.kind = "detach" => told'[a.hire] = told[a.hire] \/ Raced("detach", a.hire)'
      BY <1>3, <1>6, <2>1 DEF AskIsSound
    <2>4. a.kind = "hire" => ~IsHired(a.hire)'
      BY <2>1, <2>2 DEF AskIsSound
    <2> QED BY <1>2, <2>2, <2>3, <2>4 DEF StaysFor
  <1>9. \A p \in StaffRequest \ {q} : PairIsKnown(q, p)' /\ PairIsKnown(p, q)'
    BY <1>1, <1>4, <1>6 DEF PairIsKnown
  <1>10. ASSUME NEW g \in Hire PROVE HireIsKnown(g)'
    <2>1. CASE g # h
      <3>1. KeepsHolders(q, r, g)
        BY <1>2 DEF KeepsHolders, Waiting
      <3> QED BY <1>2, <1>3, <2>1, <3>1, HireStaysKnown
    <2>2. CASE g = h
      <3>1. HireIsKnown(h)
        BY DEF StaffInv
      <3>2. TellingKnown(h)'
        BY <1>1, <1>4 DEF TellingKnown
      <3>3. ReminderKnown(h)'
        BY <1>2, <1>4, <3>1, <1>2 DEF HireIsKnown, ReminderKnown, LatestInvite, Raced, Waiting
      <3>4. DatesHold(h)' /\ (hires'[h].business = meant'[h] \/ Raced("business", h)') /\ IsHired(h)'
        BY <1>2, <3>1 DEF HireIsKnown, DatesHold, Raced, IsHired
      <3> QED BY <2>2, <3>2, <3>3, <3>4 DEF HireIsKnown
    <2> QED BY <2>1, <2>2
  <1> QED BY <1>2, <1>5, <1>7, <1>8, <1>9, <1>10, RequestStep

LEMMA CommitDetachmentStep ==
  ASSUME StaffInv, NEW q \in StaffRequest, CommitDetachment(q)
  PROVE  StaffInv'
  <1>1. PICK a : a = asks[q]
    OBVIOUS
  <1>2. AskIsSound(a) /\ a.kind = "detach"
    BY <1>1 DEF StaffInv, CommitDetachment
  <1>3. PICK h : h = a.hire
    OBVIOUS
  <1>4. /\ h \in Hire /\ IsHired(h) /\ a.first \in Moment /\ a.at \in Nat /\ a.first <= a.at /\ a.at <= turn
        /\ told[h] = a.at \/ Raced("detach", h)
    BY <1>2, <1>3 DEF AskIsSound
  <1>5. hires[h] \in HireRow /\ HireIsKnown(h)
    BY <1>4, HiredRow DEF StaffInv
  <1>6. PICK f : f = IF a.first = Never THEN a.at ELSE a.first
    OBVIOUS
  <1>7. PICK n : n = [hires[h] EXCEPT !.first = f, !.last = a.at]
    OBVIOUS
  <1>8. f \in Nat /\ f <= a.at
    BY <1>4, <1>6 DEF Moment
  <1>9. /\ n \in HireRow /\ n.first = f /\ n.last = a.at
        /\ n.received = hires[h].received /\ n.invited = hires[h].invited
        /\ n.business = hires[h].business
    BY <1>4, <1>5, <1>7, <1>8 DEF HireRow, Moment
  <1>10. PICK w : w = Waiting
    OBVIOUS
  <1>11. /\ hires' = [hires EXCEPT ![h] = n] /\ OneAsks(q, w)
         /\ UNCHANGED <<firm, turn, reminded, told, meant, raced>>
    <2>1. Asked(a) = [first |-> f, last |-> a.at]
      BY <1>6 DEF Asked
    <2>2. hires' = [hires EXCEPT ![h] = [hires[h] EXCEPT !.first = f, !.last = a.at]]
      <3>1. hires' = [hires EXCEPT ![a.hire].first = Asked(a).first, ![a.hire].last = Asked(a).last]
        BY <1>1 DEF CommitDetachment
      <3>2. hires' = [hires EXCEPT ![h].first = f, ![h].last = a.at]
        BY <1>3, <2>1, <3>1
      <3> QED BY <1>4, <3>2 DEF StaffInv, StaffTypes
    <2> QED BY <1>7, <1>10, <2>2 DEF CommitDetachment, End, OneAsks
  <1>12. /\ hires' \in [Hire -> {Unhired} \cup HireRow] /\ hires'[h] = n /\ IsHired(h)'
         /\ \A g \in Hire \ {h} : hires'[g] = hires[g]
         /\ \A g \in Hire : IsHired(g) => IsHired(g)'
         /\ \A g \in Hire \ {h} : IsHired(g)' <=> IsHired(g)
    BY <1>4, <1>9, <1>11, RowChanges
  <1>13. StaffTypes'
    BY <1>11, <1>12 DEF StaffInv, StaffTypes, OneAsks
  <1>14. AskIsSound(w)' /\ w.kind = "none"
    BY <1>10, WaitingIsSound DEF AskIsSound
  <1>15. \A p \in StaffRequest \ {q} : \A b : b = asks[p] => StaysFor(b)
    <2> SUFFICES ASSUME NEW p \in StaffRequest \ {q}, NEW b, b = asks[p] PROVE StaysFor(b)
      OBVIOUS
    <2>1. AskIsSound(b) /\ PairIsKnown(q, p)
      BY DEF StaffInv
    <2>2. b.kind = "detach" => hires'[b.hire].first = hires[b.hire].first \/ Raced("detach", b.hire)'
      BY <1>1, <1>2, <1>3, <1>11, <1>12, <2>1 DEF AskIsSound, PairIsKnown, Raced
    <2>3. b.kind = "hire" => ~IsHired(b.hire)'
      BY <1>4, <1>12, <2>1 DEF AskIsSound
    <2> QED BY <1>11, <1>12, <2>2, <2>3 DEF StaysFor
  <1>16. ASSUME NEW g \in Hire PROVE HireIsKnown(g)'
    <2>1. CASE g # h
      <3>1. KeepsHolders(q, w, g)
        BY <1>1, <1>2, <1>3, <2>1 DEF KeepsHolders
      <3> QED BY <1>11, <1>12, <2>1, <3>1, HireStaysKnown
    <2>2. CASE g = h
      <3>1. \A p \in StaffRequest : asks'[p] = IF p = q THEN w ELSE asks[p]
        BY <1>11 DEF OneAsks, StaffInv, StaffTypes
      <3>2. TellingKnown(h)'
        BY <1>4, <1>9, <1>11, <1>12 DEF TellingKnown, Raced
      <3>3. ReminderKnown(h)'
        <4>1. LatestInvite(h)' = LatestInvite(h)
          BY <1>9, <1>12 DEF LatestInvite
        <4>2. ReminderKnown(h)
          BY <1>4, <1>5 DEF HireIsKnown
        <4> QED BY <1>1, <1>2, <1>11, <3>1, <4>1, <4>2 DEF ReminderKnown, Raced
      <3>4. DatesHold(h)'
        BY <1>4, <1>8, <1>9, <1>11, <1>12 DEF DatesHold, Never
      <3>5. hires'[h].business = meant'[h] \/ Raced("business", h)'
        BY <1>4, <1>5, <1>9, <1>11, <1>12 DEF HireIsKnown, Raced
      <3> QED BY <1>12, <2>2, <3>2, <3>3, <3>4, <3>5 DEF HireIsKnown
    <2> QED BY <2>1, <2>2
  <1>17. \A p \in StaffRequest \ {q} : PairIsKnown(q, p)' /\ PairIsKnown(p, q)'
    BY <1>11, <1>14, QuietPairs
  <1> QED BY <1>11, <1>13, <1>14, <1>15, <1>16, <1>17, RequestStep

-----------------------------------------------------------------------------
(* The company and its employments.                                         *)

LEMMA CommitDetailsStep ==
  ASSUME StaffInv, NEW q \in StaffRequest, CommitDetails(q)
  PROVE  StaffInv'
  <1>1. PICK a : a = asks[q]
    OBVIOUS
  <1>2. AskIsSound(a) /\ a.kind = "details"
    BY <1>1 DEF StaffInv, CommitDetails
  <1>3. PICK to : to = IF a.business # a.was THEN a.all ELSE {}
    OBVIOUS
  <1>4. PICK b, n : b = a.business /\ n = a.workers
    OBVIOUS
  <1>5. /\ b \in Business /\ n \in Nat /\ to \subseteq Hire /\ \A h \in to : IsHired(h)
    BY <1>2, <1>3, <1>4 DEF AskIsSound
  <1>6. PICK w : w = Waiting
    OBVIOUS
  <1>7. /\ firm' = [firm EXCEPT !.business = IF a.business # a.was THEN b ELSE @,
                                !.workers = IF n > 0 THEN n ELSE @]
        /\ hires' = [h \in Hire |-> IF h \in to THEN [hires[h] EXCEPT !.business = b] ELSE hires[h]]
        /\ meant' = [h \in Hire |-> IF h \in to THEN b ELSE meant[h]]
        /\ raced \subseteq raced' /\ OneAsks(q, w)
        /\ \A h \in Hire : Races(q, {"details", "hire"}, "business", h) \subseteq raced'
        /\ UNCHANGED <<turn, reminded, told>>
    <2>1. /\ raced' = raced \cup UNION {Races(q, {"details", "hire"}, "business", h) : h \in Hire}
          /\ UNCHANGED <<turn, reminded, told>>
      BY DEF CommitDetails
    <2>2. raced \subseteq raced' /\ \A h \in Hire : Races(q, {"details", "hire"}, "business", h) \subseteq raced'
      BY <2>1
    <2>3. OneAsks(q, w)
      BY <1>6 DEF CommitDetails, End, OneAsks
    <2>4. /\ firm' = [firm EXCEPT !.business = IF a.business # a.was THEN b ELSE @,
                                  !.workers = IF n > 0 THEN n ELSE @]
          /\ hires' = [h \in Hire |-> IF h \in to THEN [hires[h] EXCEPT !.business = b] ELSE hires[h]]
          /\ meant' = [h \in Hire |-> IF h \in to THEN b ELSE meant[h]]
      BY <1>1, <1>2, <1>3, <1>4 DEF CommitDetails, EmployeesOf
    <2> QED BY <2>1, <2>2, <2>3, <2>4
  <1>8. \A h \in Hire :
          /\ IsHired(h) <=> IsHired(h)'
          /\ hires'[h] \in {Unhired} \cup HireRow
          /\ IsHired(h) =>
               /\ hires'[h].first = hires[h].first /\ hires'[h].last = hires[h].last
               /\ hires'[h].received = hires[h].received /\ hires'[h].invited = hires[h].invited
          /\ \/ IsHired(h) /\ hires'[h].business = b /\ meant'[h] = b
             \/ hires'[h] = hires[h] /\ meant'[h] = meant[h]
    <2> SUFFICES ASSUME NEW h \in Hire
                 PROVE  /\ IsHired(h) <=> IsHired(h)'
                        /\ hires'[h] \in {Unhired} \cup HireRow
                        /\ IsHired(h) =>
                             /\ hires'[h].first = hires[h].first /\ hires'[h].last = hires[h].last
                             /\ hires'[h].received = hires[h].received /\ hires'[h].invited = hires[h].invited
                        /\ \/ IsHired(h) /\ hires'[h].business = b /\ meant'[h] = b
                           \/ hires'[h] = hires[h] /\ meant'[h] = meant[h]
      OBVIOUS
    <2>1. CASE h \notin to
      BY <1>7, <2>1 DEF IsHired, StaffInv, StaffTypes
    <2>2. CASE h \in to
      <3>1. hires[h] \in HireRow /\ IsHired(h)
        BY <1>5, <2>2, HiredRow DEF StaffInv
      <3>2. PICK r : r = [hires[h] EXCEPT !.business = b]
        OBVIOUS
      <3>3. /\ r \in HireRow /\ r.business = b /\ r.first = hires[h].first /\ r.last = hires[h].last
            /\ r.received = hires[h].received /\ r.invited = hires[h].invited /\ r.status = hires[h].status
        BY <1>5, <3>1, <3>2 DEF HireRow
      <3>4. hires'[h] = r /\ meant'[h] = b
        BY <1>7, <2>2, <3>2
      <3> QED BY <3>1, <3>3, <3>4 DEF IsHired
    <2> QED BY <2>1, <2>2
  <1>9. StaffTypes'
    <2>1. hires' \in [Hire -> {Unhired} \cup HireRow] /\ DOMAIN meant' = Hire
      BY <1>7, <1>8
    <2>2. firm' \in [business : Business, workers : Nat, settings : [Setting -> BOOLEAN]]
      BY <1>5, <1>7 DEF StaffInv, StaffTypes
    <2> QED BY <1>7, <2>1, <2>2 DEF StaffInv, StaffTypes, OneAsks
  <1>10. AskIsSound(w)' /\ w.kind = "none"
    BY <1>6, WaitingIsSound DEF AskIsSound
  <1>11. \A p \in StaffRequest \ {q} : \A r : r = asks[p] => StaysFor(r)
    <2> SUFFICES ASSUME NEW p \in StaffRequest \ {q}, NEW r, r = asks[p] PROVE StaysFor(r)
      OBVIOUS
    <2>1. AskIsSound(r)
      BY DEF StaffInv
    <2>2. r.kind = "detach" => hires'[r.hire].first = hires[r.hire].first
      BY <1>8, <2>1 DEF AskIsSound
    <2>3. r.kind = "hire" => ~IsHired(r.hire)' /\ Raced("business", r.hire)'
      <3> SUFFICES ASSUME r.kind = "hire" PROVE ~IsHired(r.hire)' /\ Raced("business", r.hire)'
        OBVIOUS
      <3>1. r.hire \in Hire /\ ~IsHired(r.hire)
        BY <2>1 DEF AskIsSound
      <3>2. Holds(asks[p], r.hire) /\ asks[p].kind \in {"details", "hire"}
        BY DEF Holds
      <3>3. PICK h : h = r.hire
        OBVIOUS
      <3>4. Races(q, {"details", "hire"}, "business", h) \subseteq raced'
        BY <1>7, <3>1, <3>3
      <3>5. <<"business", h>> \in raced'
        BY <3>2, <3>3, <3>4, RaceIsKnown
      <3> QED BY <1>8, <3>1, <3>3, <3>5 DEF Raced
    <2> QED BY <1>7, <1>8, <2>2, <2>3 DEF StaysFor
  <1>12. ASSUME NEW h \in Hire PROVE HireIsKnown(h)'
    <2>1. RowIsSame(h)
      BY <1>7, <1>8 DEF RowIsSame
    <2>2. HoldersStay(h)
      BY <1>1, <1>2, <1>7 DEF HoldersStay, OneAsks, StaffInv, StaffTypes
    <2>3. turn \in Nat /\ (IsHired(h) => hires[h] \in HireRow) /\ HireIsKnown(h)
      BY HiredRow DEF StaffInv, StaffTypes
    <2> QED BY <1>7, <2>1, <2>2, <2>3, RowStaysKnown
  <1>13. \A p \in StaffRequest \ {q} : PairIsKnown(q, p)' /\ PairIsKnown(p, q)'
    BY <1>7, <1>10, QuietPairs
  <1> QED BY <1>7, <1>9, <1>10, <1>11, <1>12, <1>13, RequestStep

LEMMA CommitEditStep ==
  ASSUME StaffInv, NEW q \in StaffRequest, CommitEdit(q)
  PROVE  StaffInv'
  <1>1. PICK a : a = asks[q]
    OBVIOUS
  <1>2. AskIsSound(a) /\ a.kind = "edit"
    BY <1>1 DEF StaffInv, CommitEdit
  <1>3. PICK s : s = WithEdit(a)
    OBVIOUS
  <1>4. s \in [Setting -> BOOLEAN]
    BY <1>2, <1>3 DEF AskIsSound, WithEdit, StaffInv, StaffTypes
  <1>5. PICK w : w = Waiting
    OBVIOUS
  <1>6. /\ firm' = [firm EXCEPT !.settings = s] /\ OneAsks(q, w)
        /\ UNCHANGED <<hires, turn, reminded, told, meant, raced>>
    BY <1>1, <1>3, <1>5 DEF CommitEdit, End, OneAsks
  <1>7. firm' \in [business : Business, workers : Nat, settings : [Setting -> BOOLEAN]]
        /\ firm'.business = firm.business
    BY <1>4, <1>6 DEF StaffInv, StaffTypes
  <1>8. StaffTypes'
    BY <1>6, <1>7 DEF StaffInv, StaffTypes, OneAsks
  <1>9. AskIsSound(w)' /\ w.kind = "none"
    BY <1>5, WaitingIsSound DEF AskIsSound
  <1>10. \A p \in StaffRequest \ {q} : \A r : r = asks[p] => StaysFor(r)
    <2> SUFFICES ASSUME NEW p \in StaffRequest \ {q}, NEW r, r = asks[p] PROVE StaysFor(r)
      OBVIOUS
    <2>1. AskIsSound(r)
      BY DEF StaffInv
    <2>2. r.kind = "hire" => ~IsHired(r.hire)'
      BY <1>6, <2>1 DEF AskIsSound, IsHired
    <2>3. \A h \in Hire : IsHired(h) => IsHired(h)'
      BY <1>6 DEF IsHired
    <2> QED BY <1>6, <1>7, <2>2, <2>3 DEF StaysFor
  <1>11. ASSUME NEW h \in Hire PROVE HireIsKnown(h)'
    <2>1. KeepsHolders(q, w, h)
      BY <1>1, <1>2 DEF KeepsHolders
    <2> QED BY <1>6, <2>1, HireStaysKnown
  <1>12. \A p \in StaffRequest \ {q} : PairIsKnown(q, p)' /\ PairIsKnown(p, q)'
    BY <1>6, <1>9, QuietPairs
  <1> QED BY <1>6, <1>8, <1>9, <1>10, <1>11, <1>12, RequestStep

LEMMA BeginHireStep ==
  ASSUME StaffInv, NEW q \in StaffRequest, NEW h \in Hire, BeginHire(q, h)
  PROVE  StaffInv'
  <1>1. PICK r : r = [kind |-> "hire", hire |-> h, business |-> firm.business]
    OBVIOUS
  <1>2. /\ OneAsks(q, r) /\ asks[q] = Waiting /\ ~IsHired(h)
        /\ \A p \in StaffRequest : ~(asks[p].kind = "hire" /\ asks[p].hire = h)
        /\ UNCHANGED <<hires, firm, turn, reminded, told, meant, raced>>
    BY <1>1 DEF BeginHire, Start, OneAsks
  <1>3. StaffTypes'
    BY <1>2 DEF StaffInv, StaffTypes, OneAsks
  <1>4. AskIsSound(r)'
    BY <1>1, <1>2 DEF AskIsSound, IsHired, StaffInv, StaffTypes
  <1>5. \A p \in StaffRequest \ {q} : \A a : a = asks[p] => StaysFor(a)
    <2> SUFFICES ASSUME NEW p \in StaffRequest \ {q}, NEW a, a = asks[p] PROVE StaysFor(a)
      OBVIOUS
    <2>1. AskIsSound(a)
      BY DEF StaffInv
    <2>2. a.kind = "hire" => ~IsHired(a.hire)'
      BY <1>2, <2>1 DEF AskIsSound, IsHired
    <2>3. \A g \in Hire : IsHired(g) => IsHired(g)'
      BY <1>2 DEF IsHired
    <2> QED BY <1>2, <2>2, <2>3 DEF StaysFor
  <1>6. ASSUME NEW g \in Hire PROVE HireIsKnown(g)'
    <2>1. KeepsHolders(q, r, g)
      BY <1>2 DEF KeepsHolders, Waiting
    <2> QED BY <1>2, <2>1, HireStaysKnown
  <1>7. \A p \in StaffRequest \ {q} : PairIsKnown(q, p)' /\ PairIsKnown(p, q)'
    <2>1. \A p \in StaffRequest : asks'[p] = IF p = q THEN r ELSE asks[p]
      BY <1>2 DEF OneAsks, StaffInv, StaffTypes
    <2> QED BY <1>1, <1>2, <2>1 DEF PairIsKnown
  <1> QED BY <1>2, <1>3, <1>4, <1>5, <1>6, <1>7, RequestStep

LEMMA CommitHireStep ==
  ASSUME StaffInv, NEW q \in StaffRequest, CommitHire(q)
  PROVE  StaffInv'
  <1>1. PICK a : a = asks[q]
    OBVIOUS
  <1>2. AskIsSound(a) /\ a.kind = "hire"
    BY <1>1 DEF StaffInv, CommitHire
  <1>3. PICK h, b : h = a.hire /\ b = a.business
    OBVIOUS
  <1>4. /\ h \in Hire /\ ~IsHired(h) /\ b \in Business
        /\ b = firm.business \/ Raced("business", h)
        /\ turn \in Nat /\ HireIsKnown(h)
    BY <1>2, <1>3 DEF AskIsSound, StaffInv, StaffTypes
  <1>5. PICK n : n = NewHire(b, turn)
    OBVIOUS
  <1>6. /\ n \in HireRow /\ n.business = b /\ n.invited = Never /\ n.received = turn
        /\ n.first = Never /\ n.last = Never
    BY <1>4, <1>5, NewRow
  <1>7. PICK w : w = Waiting
    OBVIOUS
  <1>8. /\ hires' = [hires EXCEPT ![h] = n] /\ OneAsks(q, w) /\ raced \subseteq raced'
        /\ reminded' = [reminded EXCEPT ![h] = turn]
        /\ meant' = [meant EXCEPT ![h] = firm.business]
        /\ UNCHANGED <<firm, turn, told>>
    BY <1>1, <1>3, <1>5, <1>7 DEF CommitHire, End, OneAsks
  <1>9. /\ hires' \in [Hire -> {Unhired} \cup HireRow] /\ hires'[h] = n /\ IsHired(h)'
        /\ \A g \in Hire \ {h} : hires'[g] = hires[g]
        /\ \A g \in Hire : IsHired(g) => IsHired(g)'
        /\ \A g \in Hire \ {h} : IsHired(g)' <=> IsHired(g)
    BY <1>4, <1>6, <1>8, RowChanges
  <1>10. /\ reminded' \in [Hire -> Nat] /\ DOMAIN meant' = Hire
         /\ reminded'[h] = turn /\ meant'[h] = firm.business
         /\ \A g \in Hire \ {h} : reminded'[g] = reminded[g] /\ meant'[g] = meant[g]
    BY <1>4, <1>8 DEF StaffInv, StaffTypes
  <1>11. StaffTypes'
    BY <1>8, <1>9, <1>10 DEF StaffInv, StaffTypes, OneAsks
  <1>12. AskIsSound(w)' /\ w.kind = "none"
    BY <1>7, WaitingIsSound DEF AskIsSound
  <1>13. \A p \in StaffRequest \ {q} : \A r : r = asks[p] => StaysFor(r)
    <2> SUFFICES ASSUME NEW p \in StaffRequest \ {q}, NEW r, r = asks[p] PROVE StaysFor(r)
      OBVIOUS
    <2>1. AskIsSound(r) /\ PairIsKnown(q, p)
      BY DEF StaffInv
    <2>2. r.kind = "detach" => hires'[r.hire].first = hires[r.hire].first
      BY <1>4, <1>9, <2>1 DEF AskIsSound
    <2>3. r.kind = "hire" => ~IsHired(r.hire)'
      BY <1>1, <1>2, <1>3, <1>9, <2>1 DEF AskIsSound, PairIsKnown
    <2>4. \A g \in Hire : reminded'[g] \in {reminded[g], turn}
      BY <1>10
    <2> QED BY <1>8, <1>9, <2>2, <2>3, <2>4 DEF StaysFor
  <1>14. ASSUME NEW g \in Hire PROVE HireIsKnown(g)'
    <2>1. CASE g # h
      <3>1. KeepsHolders(q, w, g)
        BY <1>1, <1>2 DEF KeepsHolders
      <3> QED BY <1>8, <1>9, <1>10, <2>1, <3>1, HireStaysKnown
    <2>2. CASE g = h
      <3>1. told'[h] = Never
        BY <1>4, <1>8 DEF HireIsKnown
      <3>2. TellingKnown(h)' /\ ReminderKnown(h)'
        BY <1>6, <1>9, <1>10, <3>1 DEF TellingKnown, ReminderKnown, LatestInvite
      <3>3. DatesHold(h)'
        BY <1>4, <1>6, <1>8, <1>9 DEF DatesHold, Never
      <3>4. hires'[h].business = meant'[h] \/ Raced("business", h)'
        BY <1>4, <1>6, <1>8, <1>9, <1>10 DEF Raced
      <3> QED BY <1>9, <2>2, <3>2, <3>3, <3>4 DEF HireIsKnown
    <2> QED BY <2>1, <2>2
  <1>15. \A p \in StaffRequest \ {q} : PairIsKnown(q, p)' /\ PairIsKnown(p, q)'
    BY <1>8, <1>12, QuietPairs
  <1> QED BY <1>8, <1>11, <1>12, <1>13, <1>14, <1>15, RequestStep

\* The row of an employment is changed, and no request.
LEMMA OneRowStep ==
  ASSUME StaffInv, NEW h \in Hire, NEW n \in HireRow, IsHired(h), hires' = [hires EXCEPT ![h] = n],
         n.first = hires[h].first, n.last = hires[h].last, n.received = hires[h].received,
         n.invited = hires[h].invited, raced \subseteq raced', UNCHANGED <<firm, turn, asks, reminded, told>>,
         \/ n.business = hires[h].business /\ meant' = meant
         \/ meant' = [meant EXCEPT ![h] = n.business]
  PROVE  StaffInv'
  <1>1. /\ hires' \in [Hire -> {Unhired} \cup HireRow] /\ hires'[h] = n /\ IsHired(h)'
        /\ \A g \in Hire \ {h} : hires'[g] = hires[g]
        /\ \A g \in Hire : IsHired(g) => IsHired(g)'
        /\ \A g \in Hire \ {h} : IsHired(g)' <=> IsHired(g)
    BY RowChanges
  <1>2. /\ DOMAIN meant' = Hire /\ \A g \in Hire \ {h} : meant'[g] = meant[g]
        /\ \/ n.business = hires[h].business /\ meant'[h] = meant[h]
           \/ meant'[h] = n.business
    BY DEF StaffInv, StaffTypes
  <1>3. StaffTypes'
    BY <1>1, <1>2 DEF StaffInv, StaffTypes
  <1>4. \A p \in StaffRequest : \A a : a = asks[p] => StaysFor(a)
    <2> SUFFICES ASSUME NEW p \in StaffRequest, NEW a, a = asks[p] PROVE StaysFor(a)
      OBVIOUS
    <2>1. AskIsSound(a)
      BY DEF StaffInv
    <2>2. a.kind = "detach" => hires'[a.hire].first = hires[a.hire].first
      BY <1>1, <2>1 DEF AskIsSound
    <2>3. a.kind = "hire" => ~IsHired(a.hire)'
      BY <1>1, <2>1 DEF AskIsSound
    <2> QED BY <1>1, <2>2, <2>3 DEF StaysFor
  <1>5. ASSUME NEW g \in Hire PROVE HireIsKnown(g)'
    <2>1. RowIsSame(g)
      BY <1>1, <1>2 DEF RowIsSame
    <2>2. HoldersStay(g)
      BY DEF HoldersStay
    <2>3. turn \in Nat /\ (IsHired(g) => hires[g] \in HireRow) /\ HireIsKnown(g)
      BY HiredRow DEF StaffInv, StaffTypes
    <2> QED BY <2>1, <2>2, <2>3, RowStaysKnown
  <1> QED BY <1>3, <1>4, <1>5, StandingStep

LEMMA ChangeBusinessStep ==
  ASSUME StaffInv, NEW h \in Hire, NEW b \in Business, ChangeEmployeeBusinessType(h, b)
  PROVE  StaffInv'
  <1>1. PICK n : n = [hires[h] EXCEPT !.business = b]
    OBVIOUS
  <1>2. hires[h] \in HireRow /\ IsHired(h)
    BY HiredRow DEF StaffInv, ChangeEmployeeBusinessType
  <1>3. /\ n \in HireRow /\ n.business = b /\ n.first = hires[h].first /\ n.last = hires[h].last
        /\ n.received = hires[h].received /\ n.invited = hires[h].invited
    BY <1>1, <1>2 DEF HireRow
  <1>4. /\ hires' = [hires EXCEPT ![h] = n] /\ meant' = [meant EXCEPT ![h] = n.business]
        /\ raced \subseteq raced' /\ UNCHANGED <<firm, turn, asks, reminded, told>>
    <2>1. hires' = [hires EXCEPT ![h].business = b] /\ meant' = [meant EXCEPT ![h] = b]
          /\ UNCHANGED <<firm, turn, asks, served, reminded, told>>
      BY DEF ChangeEmployeeBusinessType
    <2>2. raced \subseteq raced'
      BY DEF ChangeEmployeeBusinessType
    <2> QED BY <1>1, <1>3, <2>1, <2>2
  <1> QED BY <1>2, <1>3, <1>4, OneRowStep

LEMMA LiveOnStep ==
  ASSUME StaffInv, NEW h \in Hire, LiveOn(h)
  PROVE  StaffInv'
  <1>1. hires[h] \in HireRow /\ IsHired(h) /\ turn \in Moment
    BY HiredRow DEF StaffInv, StaffTypes, LiveOn, Moment
  <1>2. UNCHANGED <<firm, turn, asks, reminded, told, meant, raced>>
    BY DEF LiveOn
  <1>3. \E n \in HireRow :
          /\ hires' = [hires EXCEPT ![h] = n]
          /\ n.business = hires[h].business /\ n.first = hires[h].first /\ n.last = hires[h].last
          /\ n.received = hires[h].received /\ n.invited = hires[h].invited
    <2>1. ASSUME NEW s \in {"approved", "rejected"}, hires' = [hires EXCEPT ![h].status = s]
          PROVE  \E n \in HireRow :
                   /\ hires' = [hires EXCEPT ![h] = n]
                   /\ n.business = hires[h].business /\ n.first = hires[h].first /\ n.last = hires[h].last
                   /\ n.received = hires[h].received /\ n.invited = hires[h].invited
      <3>1. PICK n : n = [hires[h] EXCEPT !.status = s]
        OBVIOUS
      <3>2. /\ n \in HireRow /\ n.business = hires[h].business
            /\ n.first = hires[h].first /\ n.last = hires[h].last
            /\ n.received = hires[h].received /\ n.invited = hires[h].invited
        BY <1>1, <2>1, <3>1 DEF HireRow
      <3>3. hires' = [hires EXCEPT ![h] = n]
        BY <2>1, <3>1
      <3> QED BY <3>2, <3>3
    <2>2. CASE hires' = [hires EXCEPT ![h].end = turn]
      <3>1. PICK n : n = [hires[h] EXCEPT !.end = turn]
        OBVIOUS
      <3>2. /\ n \in HireRow /\ n.business = hires[h].business
            /\ n.first = hires[h].first /\ n.last = hires[h].last
            /\ n.received = hires[h].received /\ n.invited = hires[h].invited
        BY <1>1, <3>1 DEF HireRow
      <3>3. hires' = [hires EXCEPT ![h] = n]
        BY <2>2, <3>1
      <3> QED BY <3>2, <3>3
    <2>3. CASE hires' = [hires EXCEPT ![h].dismissed = TRUE]
      <3>1. PICK n : n = [hires[h] EXCEPT !.dismissed = TRUE]
        OBVIOUS
      <3>2. /\ n \in HireRow /\ n.business = hires[h].business
            /\ n.first = hires[h].first /\ n.last = hires[h].last
            /\ n.received = hires[h].received /\ n.invited = hires[h].invited
        BY <1>1, <3>1 DEF HireRow
      <3>3. hires' = [hires EXCEPT ![h] = n]
        BY <2>3, <3>1
      <3> QED BY <3>2, <3>3
    <2>4. CASE hires' = [hires EXCEPT ![h].worked = turn]
      <3>1. PICK n : n = [hires[h] EXCEPT !.worked = turn]
        OBVIOUS
      <3>2. /\ n \in HireRow /\ n.business = hires[h].business
            /\ n.first = hires[h].first /\ n.last = hires[h].last
            /\ n.received = hires[h].received /\ n.invited = hires[h].invited
        BY <1>1, <3>1 DEF HireRow
      <3>3. hires' = [hires EXCEPT ![h] = n]
        BY <2>4, <3>1
      <3> QED BY <3>2, <3>3
    <2> QED BY <2>1, <2>2, <2>3, <2>4 DEF LiveOn
  <1> QED BY <1>1, <1>2, <1>3, OneRowStep

LEMMA NextTurnStep ==
  ASSUME StaffInv, NextTurn
  PROVE  StaffInv'
  <1>1. /\ turn' = turn + 1 /\ turn \in Nat /\ \A q \in StaffRequest : asks[q] = Waiting
        /\ UNCHANGED <<hires, firm, asks, reminded, told, meant, raced>>
    BY DEF NextTurn, StaffInv, StaffTypes
  <1>2. StaffTypes'
    BY <1>1 DEF StaffInv, StaffTypes
  <1>3. \A q \in StaffRequest : AskIsSound(asks[q])'
    BY <1>1 DEF AskIsSound, Waiting
  <1>4. ASSUME NEW h \in Hire PROVE HireIsKnown(h)'
    <2>1. RowIsSame(h)
      <3>1. IsHired(h) <=> IsHired(h)'
        BY <1>1 DEF IsHired
      <3> QED BY <1>1, <3>1 DEF RowIsSame
    <2>2. HoldersStay(h)
      BY <1>1 DEF HoldersStay
    <2>3. turn \in Nat /\ (IsHired(h) => hires[h] \in HireRow) /\ HireIsKnown(h)
      BY HiredRow DEF StaffInv, StaffTypes
    <2> QED BY <1>1, <2>1, <2>2, <2>3, RowStaysKnown
  <1>5. \A q, p \in StaffRequest : q # p => PairIsKnown(q, p)'
    BY <1>1 DEF PairIsKnown, Waiting
  <1> QED BY <1>2, <1>3, <1>4, <1>5 DEF StaffInv

LEMMA StaffStep == StaffInv /\ [StaffNext]_staffVars => StaffInv'
  <1> SUFFICES ASSUME StaffInv, [StaffNext]_staffVars PROVE StaffInv'
    OBVIOUS
  <1>1. ASSUME NEW q \in StaffRequest,
               \/ \E h \in Hire, g \in Hire : BeginReminders(q, <<h, g>>)
               \/ Remind(q) \/ CommitReminder(q) \/ SkipReminder(q)
               \/ \E h \in Hire : RequestDetachment(q, h) \/ BeginHire(q, h)
               \/ CommitDetachment(q) \/ CommitDetails(q) \/ CommitEdit(q)
               \/ \E b \in Business, n \in {0, 2}, everyone \in BOOLEAN :
                    UpdateCompanyDetails(q, b, n, everyone)
               \/ \E s \in Setting, v \in BOOLEAN : EditCompanySettings(q, s, v)
               \/ CommitHire(q) \/ FailRequest(q)
        PROVE  StaffInv'
    BY <1>1, BeginSteps, RemindStep, CommitReminderStep, SkipStep, RequestDetachmentStep, BeginHireStep,
       CommitDetachmentStep, CommitDetailsStep, CommitEditStep, CommitHireStep, FailStep
  <1>2. CASE UNCHANGED staffVars
    <2>1. UNCHANGED <<hires, firm, turn, asks, reminded, told, meant, raced>>
      BY <1>2 DEF staffVars
    <2>2. StaffTypes'
      BY <2>1 DEF StaffInv, StaffTypes
    <2>3. ASSUME NEW h \in Hire PROVE HireIsKnown(h)'
      <3>1. RowIsSame(h)
        <4>1. IsHired(h) <=> IsHired(h)'
          BY <2>1 DEF IsHired
        <4> QED BY <2>1, <4>1 DEF RowIsSame
      <3>2. HoldersStay(h)
        BY <2>1 DEF HoldersStay
      <3>3. turn \in Nat /\ (IsHired(h) => hires[h] \in HireRow) /\ HireIsKnown(h)
        BY HiredRow DEF StaffInv, StaffTypes
      <3> QED BY <2>1, <3>1, <3>2, <3>3, RowStaysKnown
    <2>4. \A p \in StaffRequest : \A a : a = asks[p] => StaysFor(a)
      <3> SUFFICES ASSUME NEW p \in StaffRequest, NEW a, a = asks[p] PROVE StaysFor(a)
        OBVIOUS
      <3>1. AskIsSound(a)
        BY DEF StaffInv
      <3>2. a.kind = "hire" => ~IsHired(a.hire)'
        BY <2>1, <3>1 DEF AskIsSound, IsHired
      <3>3. \A h \in Hire : IsHired(h) => IsHired(h)'
        BY <2>1 DEF IsHired
      <3> QED BY <2>1, <3>2, <3>3 DEF StaysFor
    <2> QED BY <2>1, <2>2, <2>3, <2>4, StandingStep
  <1> QED BY <1>1, <1>2, ChangeBusinessStep, LiveOnStep, NextTurnStep DEF StaffNext

-----------------------------------------------------------------------------
(* What the rows say.                                                       *)

LEMMA StaffInvSays == StaffInv => StaffTypeOK /\ StatusAgrees /\ BusinessIsAsMeant
  <1> SUFFICES ASSUME StaffInv PROVE StaffTypeOK /\ StatusAgrees /\ BusinessIsAsMeant
    OBVIOUS
  <1>1. ASSUME NEW h \in Hire, IsHired(h)
        PROVE  /\ hires[h].status \in {"pending", "approved", "rejected"}
               /\ hires[h].dismissed \in BOOLEAN
               /\ hires[h].business \in Business
               /\ (hires[h].first = Never) <=> (hires[h].last = Never)
               /\ hires[h].first <= hires[h].last
               /\ hires[h].business = meant[h] \/ <<"business", h>> \in raced
    <2>1. HireIsKnown(h) /\ hires[h] \in HireRow
      BY <1>1, HiredRow DEF StaffInv
    <2> QED BY <1>1, <2>1 DEF HireIsKnown, DatesHold, HireRow, Raced
  <1>2. StaffTypeOK
    <2>1. firm.business \in Business /\ firm.workers \in Nat /\ firm.settings \in [Setting -> BOOLEAN]
      BY DEF StaffInv, StaffTypes
    <2> QED BY <1>1, <2>1 DEF StaffTypeOK
  <1>3. StatusAgrees
    <2> SUFFICES ASSUME NEW h \in Hire, IsHired(h)
                 PROVE  IsActive(h) <=> ShownStatus(h) \in {"ACTIVE", "INACTIVE"}
      BY DEF StatusAgrees
    <2>1. hires[h].status \in {"pending", "approved", "rejected"} /\ hires[h].dismissed \in BOOLEAN
      BY <1>1
    <2>2. turn \in Int /\ hires[h].end \in Int
      <3>1. hires[h] \in HireRow
        BY HiredRow DEF StaffInv
      <3> QED BY <3>1 DEF HireRow, Moment, Never, StaffInv, StaffTypes
    <2>3. IsActive(h) <=> hires[h].status = "approved" /\ ~hires[h].dismissed /\ ~IsTerminated(h)
      BY <2>2 DEF IsActive, IsTerminated
    <2>4. CASE hires[h].dismissed
      BY <2>3, <2>4 DEF ShownStatus
    <2>5. CASE ~hires[h].dismissed /\ hires[h].status = "rejected"
      BY <2>3, <2>5 DEF ShownStatus
    <2>6. CASE ~hires[h].dismissed /\ hires[h].status = "pending"
      BY <2>3, <2>6 DEF ShownStatus
    <2>7. CASE ~hires[h].dismissed /\ hires[h].status = "approved"
      <3>1. ShownStatus(h) = IF IsTerminated(h) THEN "TERMINATED"
                             ELSE IF IsInactive(h) THEN "INACTIVE" ELSE "ACTIVE"
        BY <2>7 DEF ShownStatus
      <3> QED BY <2>3, <2>7, <3>1
    <2> QED BY <2>1, <2>4, <2>5, <2>6, <2>7
  <1>4. BusinessIsAsMeant
    BY <1>1 DEF BusinessIsAsMeant
  <1> QED BY <1>2, <1>3, <1>4

-----------------------------------------------------------------------------
(* What a step may not do.                                                  *)

StepOf(q) ==
  \/ \E h \in Hire, g \in Hire : BeginReminders(q, <<h, g>>)
  \/ Remind(q) \/ CommitReminder(q) \/ SkipReminder(q)
  \/ \E h \in Hire : RequestDetachment(q, h) \/ BeginHire(q, h)
  \/ CommitDetachment(q) \/ CommitDetails(q) \/ CommitEdit(q)
  \/ \E b \in Business, n \in {0, 2}, everyone \in BOOLEAN : UpdateCompanyDetails(q, b, n, everyone)
  \/ \E s \in Setting, v \in BOOLEAN : EditCompanySettings(q, s, v)
  \/ CommitHire(q) \/ FailRequest(q)

\* Which step leaves a request where it is.
CameBy(q, r) ==
  /\ r.kind = "remind" /\ r.sent => Remind(q)
  /\ r.kind = "detach" => \E h \in Hire : r.hire = h /\ RequestDetachment(q, h)
  /\ asks[q].kind = "edit" => CommitEdit(q) \/ FailRequest(q)

LEMMA StepsLeave ==
  ASSUME StaffInv, NEW q \in StaffRequest, StepOf(q)
  PROVE  \E r : OneAsks(q, r) /\ CameBy(q, r)
  <1>1. ASSUME NEW h \in Hire, NEW g \in Hire, BeginReminders(q, <<h, g>>)
        PROVE  \E r : OneAsks(q, r) /\ CameBy(q, r)
    <2>1. PICK r : r = [kind |-> "remind", todo |-> <<h, g>>, sent |-> FALSE]
      OBVIOUS
    <2>2. OneAsks(q, r) /\ asks[q] = Waiting
      BY <1>1, <2>1 DEF BeginReminders, Start, OneAsks
    <2> QED BY <2>1, <2>2 DEF CameBy, Waiting
  <1>2. CASE Remind(q)
    <2>1. PICK r : r = [asks[q] EXCEPT !.sent = TRUE]
      OBVIOUS
    <2>2. asks[q].kind = "remind"
      BY <1>2 DEF Remind
    <2>3. r.kind = "remind"
      <3>1. PICK todo, sent : asks[q] = [kind |-> "remind", todo |-> todo, sent |-> sent]
        BY <2>2, FirstToRemind
      <3> QED BY <2>1, <3>1
    <2>4. OneAsks(q, r)
      <3>1. asks' = [asks EXCEPT ![q].sent = TRUE]
        BY <1>2 DEF Remind
      <3> QED BY <2>1, <3>1 DEF OneAsks
    <2> QED BY <1>2, <2>2, <2>3, <2>4 DEF CameBy
  <1>3. CASE CommitReminder(q) \/ SkipReminder(q)
    <2>1. asks[q].kind = "remind" /\ Next1(q)
      BY <1>3 DEF CommitReminder, SkipReminder
    <2>2. PICK r : OneAsks(q, r) /\ r.kind \in {"none", "remind"} /\ (r.kind = "remind" => ~r.sent)
      BY <2>1, NextOne
    <2> QED BY <2>1, <2>2 DEF CameBy
  <1>4. ASSUME NEW h \in Hire, RequestDetachment(q, h)
        PROVE  \E r : OneAsks(q, r) /\ CameBy(q, r)
    <2>1. PICK r : r = [kind |-> "detach", hire |-> h, first |-> hires[h].first, at |-> turn]
      OBVIOUS
    <2>2. OneAsks(q, r) /\ asks[q] = Waiting
      BY <1>4, <2>1 DEF RequestDetachment, Start, OneAsks
    <2> QED BY <1>4, <2>1, <2>2 DEF CameBy, Waiting
  <1>5. ASSUME NEW h \in Hire, BeginHire(q, h)
        PROVE  \E r : OneAsks(q, r) /\ CameBy(q, r)
    <2>1. PICK r : r = [kind |-> "hire", hire |-> h, business |-> firm.business]
      OBVIOUS
    <2>2. OneAsks(q, r) /\ asks[q] = Waiting
      BY <1>5, <2>1 DEF BeginHire, Start, OneAsks
    <2> QED BY <2>1, <2>2 DEF CameBy, Waiting
  <1>6. CASE CommitDetachment(q) \/ CommitDetails(q) \/ CommitEdit(q) \/ CommitHire(q) \/ FailRequest(q)
    <2>1. PICK w : w = Waiting
      OBVIOUS
    <2>2. OneAsks(q, w)
      BY <1>6, <2>1 DEF CommitDetachment, CommitDetails, CommitEdit, CommitHire, FailRequest, End, OneAsks
    <2>3. asks[q].kind = "edit" => CommitEdit(q) \/ FailRequest(q)
      BY <1>6 DEF CommitDetachment, CommitDetails, CommitHire
    <2>4. w.kind = "none"
      BY <2>1 DEF Waiting
    <2> QED BY <2>2, <2>3, <2>4 DEF CameBy
  <1>7. ASSUME NEW b \in Business, NEW n \in {0, 2}, NEW everyone \in BOOLEAN, UpdateCompanyDetails(q, b, n, everyone)
        PROVE  \E r : OneAsks(q, r) /\ CameBy(q, r)
    <2>1. PICK r : r = [kind |-> "details", business |-> b, workers |-> n, was |-> firm.business,
                        all |-> IF everyone THEN {h \in Hire : IsHired(h)} ELSE {}]
      OBVIOUS
    <2>2. OneAsks(q, r) /\ asks[q] = Waiting
      BY <1>7, <2>1 DEF UpdateCompanyDetails, Start, OneAsks
    <2> QED BY <2>1, <2>2 DEF CameBy, Waiting
  <1>8. ASSUME NEW s \in Setting, NEW v \in BOOLEAN, EditCompanySettings(q, s, v)
        PROVE  \E r : OneAsks(q, r) /\ CameBy(q, r)
    <2>1. PICK r : r = [kind |-> "edit", name |-> s, value |-> v, read |-> firm.settings]
      OBVIOUS
    <2>2. OneAsks(q, r) /\ asks[q] = Waiting
      BY <1>8, <2>1 DEF EditCompanySettings, Start, OneAsks
    <2> QED BY <2>1, <2>2 DEF CameBy, Waiting
  <1> QED BY <1>1, <1>2, <1>3, <1>4, <1>5, <1>6, <1>7, <1>8 DEF StepOf

\* The request that moved, if one did.
LEMMA WhoMoved ==
  ASSUME StaffInv, [StaffNext]_staffVars, NEW q \in StaffRequest, asks'[q] # asks[q]
  PROVE  CameBy(q, asks'[q])
  <1>1. CASE \E p \in StaffRequest : StepOf(p)
    <2>1. PICK p \in StaffRequest : StepOf(p)
      BY <1>1
    <2>2. PICK r : OneAsks(p, r) /\ CameBy(p, r)
      BY <2>1, StepsLeave
    <2>3. asks'[q] = IF q = p THEN r ELSE asks[q]
      BY <2>2 DEF OneAsks, StaffInv, StaffTypes
    <2>4. q = p /\ asks'[q] = r
      BY <2>3
    <2> QED BY <2>2, <2>4
  <1>2. CASE asks' = asks
    BY <1>2
  <1>3. \/ \E p \in StaffRequest : StepOf(p)
        \/ asks' = asks
    BY DEF StaffNext, StepOf, staffVars, ChangeEmployeeBusinessType, LiveOn, NextTurn
  <1> QED BY <1>1, <1>2, <1>3

SpacesReminders ==
  \A q \in StaffRequest :
    asks[q].kind = "remind" /\ asks'[q].kind = "remind" =>
      LET h == asks[q].todo[1]
      IN ~asks[q].sent /\ asks'[q].sent =>
           \/ turn - reminded[h] >= MinWait
           \/ <<"remind", h>> \in raced'

LEMMA RemindersStep == StaffInv /\ [StaffNext]_staffVars => SpacesReminders
  <1> SUFFICES ASSUME StaffInv, [StaffNext]_staffVars, NEW q \in StaffRequest,
                      asks[q].kind = "remind", asks'[q].kind = "remind", ~asks[q].sent, asks'[q].sent
               PROVE  \/ turn - reminded[asks[q].todo[1]] >= MinWait
                      \/ <<"remind", asks[q].todo[1]>> \in raced'
    BY DEF SpacesReminders
  <1>1. Remind(q)
    <2>1. asks'[q] # asks[q]
      OBVIOUS
    <2> QED BY <2>1, WhoMoved DEF CameBy
  <1>2. PICK h : h = asks[q].todo[1]
    OBVIOUS
  <1>3. h \in Hire /\ IsHired(h)
    <2>1. PICK todo, sent : asks[q] = [kind |-> "remind", todo |-> todo, sent |-> sent]
                            /\ todo[1] \in Hire /\ IsHired(todo[1])
      BY FirstToRemind
    <2> QED BY <1>2, <2>1
  <1>4. /\ turn - LatestInvite(h) >= MinWait /\ raced \subseteq raced'
        /\ Races(q, {"remind"}, "remind", h) \subseteq raced'
    BY <1>1, <1>2 DEF Remind
  <1>5. ReminderKnown(h)
    BY <1>3 DEF StaffInv, HireIsKnown
  <1>6. CASE reminded[h] = LatestInvite(h)
    BY <1>2, <1>4, <1>6
  <1>7. ASSUME NEW p \in StaffRequest, asks[p].kind = "remind", asks[p].sent, asks[p].todo[1] = h
        PROVE  <<"remind", h>> \in raced'
    BY <1>4, <1>7, RaceIsKnown DEF Holds
  <1>8. CASE Raced("remind", h)
    BY <1>2, <1>4, <1>8 DEF Raced
  <1> QED BY <1>2, <1>5, <1>6, <1>7, <1>8 DEF ReminderKnown

SparesManagers ==
  \A q \in StaffRequest :
    asks[q].kind # "detach" /\ asks'[q].kind = "detach" =>
      LET h == asks'[q].hire
      IN \/ told[h] = Never \/ turn - told[h] >= Cooldown
         \/ <<"detach", h>> \in raced'

LEMMA ManagersStep == StaffInv /\ [StaffNext]_staffVars => SparesManagers
  <1> SUFFICES ASSUME StaffInv, [StaffNext]_staffVars, NEW q \in StaffRequest,
                      asks[q].kind # "detach", asks'[q].kind = "detach", NEW h, h = asks'[q].hire
               PROVE  \/ told[h] = Never \/ turn - told[h] >= Cooldown
                      \/ <<"detach", h>> \in raced'
    BY DEF SparesManagers
  <1>1. asks'[q] # asks[q]
    OBVIOUS
  <1>2. h \in Hire /\ RequestDetachment(q, h)
    BY <1>1, WhoMoved DEF CameBy
  <1>3. /\ IsHired(h) /\ (hires[h].last = Never \/ turn - hires[h].last >= Cooldown)
        /\ raced \subseteq raced' /\ Races(q, {"detach"}, "detach", h) \subseteq raced'
    BY <1>2 DEF RequestDetachment, MayAsk
  <1>4. TellingKnown(h)
    BY <1>2, <1>3 DEF StaffInv, HireIsKnown
  <1>5. ASSUME NEW p \in StaffRequest, asks[p].kind = "detach", asks[p].hire = h
        PROVE  <<"detach", h>> \in raced'
    BY <1>3, <1>5, RaceIsKnown DEF Holds
  <1> QED BY <1>3, <1>4, <1>5 DEF TellingKnown, Raced

KeepsSettings ==
  \A q \in StaffRequest, s \in Setting :
    asks[q].kind = "edit" /\ asks'[q] = Waiting /\ s # asks[q].name =>
      firm'.settings[s] = firm.settings[s]

LEMMA EditsStep == StaffInv /\ [StaffNext]_staffVars => KeepsSettings
  <1> SUFFICES ASSUME StaffInv, [StaffNext]_staffVars, NEW q \in StaffRequest, NEW s \in Setting,
                      asks[q].kind = "edit", asks'[q] = Waiting, s # asks[q].name
               PROVE  firm'.settings[s] = firm.settings[s]
    BY DEF KeepsSettings
  <1>1. asks'[q] # asks[q]
    BY DEF Waiting
  <1>2. CommitEdit(q) \/ FailRequest(q)
    BY <1>1, WhoMoved DEF CameBy
  <1>3. CASE FailRequest(q)
    BY <1>3 DEF FailRequest
  <1>4. CASE CommitEdit(q)
    <2>1. PICK a : a = asks[q]
      OBVIOUS
    <2>2. PICK w : w = WithEdit(a)
      OBVIOUS
    <2>3. w[s] = firm.settings[s]
      BY <2>1, <2>2 DEF WithEdit
    <2>4. firm' = [firm EXCEPT !.settings = w]
      BY <1>4, <2>1, <2>2 DEF CommitEdit
    <2>5. firm'.settings = w
      BY <2>4 DEF StaffInv, StaffTypes
    <2> QED BY <2>3, <2>5
  <1> QED BY <1>2, <1>3, <1>4

KeepsFirst ==
  \A h \in Hire : IsHired(h) /\ hires[h].first # Never =>
    \/ hires'[h].first = hires[h].first
    \/ <<"detach", h>> \in raced'

LEMMA FirstStep == StaffInv /\ [StaffNext]_staffVars => KeepsFirst
  <1> SUFFICES ASSUME StaffInv, [StaffNext]_staffVars, NEW h \in Hire, IsHired(h), hires[h].first # Never
               PROVE  hires'[h].first = hires[h].first \/ <<"detach", h>> \in raced'
    BY DEF KeepsFirst
  <1> DEFINE Same == hires'[h].first = hires[h].first
  <1>1. hires[h] \in HireRow /\ hires \in [Hire -> {Unhired} \cup HireRow]
    BY HiredRow DEF StaffInv, StaffTypes
  <1>2. ASSUME NEW q \in StaffRequest, CommitReminder(q)
        PROVE  Same
    <2>1. hires' = [hires EXCEPT ![asks[q].todo[1]].invited = turn]
      BY <1>2 DEF CommitReminder
    <2> QED BY <1>1, <2>1 DEF HireRow
  <1>3. ASSUME NEW q \in StaffRequest, CommitDetachment(q)
        PROVE  Same \/ <<"detach", h>> \in raced'
    <2>1. PICK a : a = asks[q]
      OBVIOUS
    <2>2. AskIsSound(a) /\ a.kind = "detach"
      BY <1>3, <2>1 DEF StaffInv, CommitDetachment
    <2>3. a.hire \in Hire /\ (hires[a.hire].first = a.first \/ Raced("detach", a.hire))
      BY <2>2 DEF AskIsSound
    <2>4. /\ hires' = [hires EXCEPT ![a.hire].first = Asked(a).first, ![a.hire].last = Asked(a).last]
          /\ raced' = raced
      BY <1>3, <2>1 DEF CommitDetachment
    <2>5. CASE a.hire # h
      BY <1>1, <2>4, <2>5
    <2>6. CASE a.hire = h
      <3>1. hires'[h] = [hires[h] EXCEPT !.first = Asked(a).first, !.last = Asked(a).last]
        BY <1>1, <2>4, <2>6
      <3>2. PICK f, l : f = Asked(a).first /\ l = Asked(a).last
        OBVIOUS
      <3>3. hires'[h].first = f
        BY <1>1, <3>1, <3>2 DEF HireRow
      <3>4. f = IF a.first = Never THEN a.at ELSE a.first
        BY <3>2 DEF Asked
      <3> QED BY <2>3, <2>4, <2>6, <3>3, <3>4 DEF Raced
    <2> QED BY <2>5, <2>6
  <1>4. ASSUME NEW q \in StaffRequest, CommitDetails(q)
        PROVE  Same
    <2>1. PICK a, to : /\ a = asks[q]
                       /\ to = IF a.kind = "details" /\ a.business # a.was THEN EmployeesOf(a.all) ELSE {}
      OBVIOUS
    <2>2. hires' = [g \in Hire |-> IF g \in to THEN [hires[g] EXCEPT !.business = a.business] ELSE hires[g]]
      BY <1>4, <2>1 DEF CommitDetails
    <2>3. hires'[h] = IF h \in to THEN [hires[h] EXCEPT !.business = a.business] ELSE hires[h]
      BY <2>2
    <2> QED BY <1>1, <2>3 DEF HireRow
  <1>5. ASSUME NEW q \in StaffRequest, CommitHire(q)
        PROVE  Same
    <2>1. PICK a : a = asks[q]
      OBVIOUS
    <2>2. AskIsSound(a) /\ a.kind = "hire"
      BY <1>5, <2>1 DEF StaffInv, CommitHire
    <2>3. a.hire \in Hire /\ a.hire # h
      BY <2>2 DEF AskIsSound
    <2>4. hires' = [hires EXCEPT ![a.hire] = NewHire(a.business, turn)]
      BY <1>5, <2>1 DEF CommitHire
    <2> QED BY <1>1, <2>3, <2>4
  <1>6. ASSUME NEW g \in Hire, NEW b \in Business, ChangeEmployeeBusinessType(g, b)
        PROVE  Same
    <2>1. hires' = [hires EXCEPT ![g].business = b]
      BY <1>6 DEF ChangeEmployeeBusinessType
    <2> QED BY <1>1, <2>1 DEF HireRow
  <1>7. ASSUME NEW g \in Hire, LiveOn(g)
        PROVE  Same
    <2>1. ASSUME NEW s, hires' = [hires EXCEPT ![g].status = s] PROVE Same
      BY <1>1, <2>1 DEF HireRow
    <2>2. CASE hires' = [hires EXCEPT ![g].end = turn]
      BY <1>1, <2>2 DEF HireRow
    <2>3. CASE hires' = [hires EXCEPT ![g].dismissed = TRUE]
      BY <1>1, <2>3 DEF HireRow
    <2>4. CASE hires' = [hires EXCEPT ![g].worked = turn]
      BY <1>1, <2>4 DEF HireRow
    <2> QED BY <1>7, <2>1, <2>2, <2>3, <2>4 DEF LiveOn
  <1>8. hires' = hires => Same
    OBVIOUS
  <1>9. \/ \E q \in StaffRequest :
             CommitReminder(q) \/ CommitDetachment(q) \/ CommitDetails(q) \/ CommitHire(q)
        \/ \E g \in Hire, b \in Business : ChangeEmployeeBusinessType(g, b)
        \/ \E g \in Hire : LiveOn(g)
        \/ hires' = hires
    <2>1. CASE UNCHANGED staffVars
      BY <2>1 DEF staffVars
    <2>2. CASE NextTurn
      BY <2>2 DEF NextTurn
    <2>3. ASSUME NEW q \in StaffRequest,
                 \/ \E g \in Hire, i \in Hire : BeginReminders(q, <<g, i>>)
                 \/ Remind(q) \/ SkipReminder(q)
                 \/ \E g \in Hire : RequestDetachment(q, g) \/ BeginHire(q, g)
                 \/ CommitEdit(q) \/ FailRequest(q)
                 \/ \E b \in Business, n \in {0, 2}, everyone \in BOOLEAN :
                      UpdateCompanyDetails(q, b, n, everyone)
                 \/ \E s \in Setting, v \in BOOLEAN : EditCompanySettings(q, s, v)
          PROVE  hires' = hires
      BY <2>3 DEF BeginReminders, Remind, SkipReminder, RequestDetachment, BeginHire, CommitEdit,
                  FailRequest, UpdateCompanyDetails, EditCompanySettings
    <2> QED BY <2>1, <2>2, <2>3 DEF StaffNext
  <1> HIDE DEF Same
  <1>10. Same \/ <<"detach", h>> \in raced'
    <2>1. CASE hires' = hires
      BY <1>8, <2>1
    <2> QED BY <1>2, <1>3, <1>4, <1>5, <1>6, <1>7, <1>9, <2>1
  <1> QED BY <1>10 DEF Same

\* However many requests a company serves at once: nobody is written to
\* sooner than the delays say, no first date of a request is lost, no edit
\* undoes another and every employee has the business meant for him, but
\* where two requests have raced.
THEOREM StaffStaysRespected == StaffSpec => StaffIsRespected
  <1>1. StaffSpec => []StaffInv
    <2>1. StaffInit => StaffInv
      BY StaffInitially
    <2>2. StaffInv /\ [StaffNext]_staffVars => StaffInv'
      BY StaffStep
    <2> QED BY <2>1, <2>2, PTL DEF StaffSpec
  <1>2. StaffInv => StaffTypeOK /\ StatusAgrees /\ BusinessIsAsMeant
    BY StaffInvSays
  <1>3. StaffSpec => []StaffTypeOK /\ []StatusAgrees /\ []BusinessIsAsMeant
    BY <1>1, <1>2, PTL
  <1>4. StaffInv /\ [StaffNext]_staffVars => [SpacesReminders]_staffVars
    BY RemindersStep
  <1>5. StaffInv /\ [StaffNext]_staffVars => [SparesManagers]_staffVars
    BY ManagersStep
  <1>6. StaffInv /\ [StaffNext]_staffVars => [KeepsFirst]_staffVars
    BY FirstStep
  <1>7. StaffInv /\ [StaffNext]_staffVars => [KeepsSettings]_staffVars
    BY EditsStep
  <1>8. StaffSpec => /\ [][SpacesReminders]_staffVars /\ [][SparesManagers]_staffVars
                     /\ [][KeepsFirst]_staffVars /\ [][KeepsSettings]_staffVars
    BY <1>1, <1>4, <1>5, <1>6, <1>7, PTL DEF StaffSpec
  <1>9. RemindersAreSpaced <=> [][SpacesReminders]_staffVars
    BY DEF RemindersAreSpaced, SpacesReminders
  <1>10. ManagersAreSpared <=> [][SparesManagers]_staffVars
    BY DEF ManagersAreSpared, SparesManagers
  <1>11. FirstRequestStays <=> [][KeepsFirst]_staffVars
    BY DEF FirstRequestStays, KeepsFirst
  <1>12. EditsDoNotMix <=> [][KeepsSettings]_staffVars
    BY DEF EditsDoNotMix, KeepsSettings
  <1> QED BY <1>3, <1>8, <1>9, <1>10, <1>11, <1>12 DEF StaffIsRespected

=============================================================================
