---------------------------- MODULE MissionHistory ----------------------------
(***************************************************************************)
(* What is told of the writes on one mission of one employee: the history  *)
(* that is printed and shown to controllers (domain/history.py), the       *)
(* disputes (DisputeActivity, CancelDispute) and the message a validation  *)
(* sends about what changed (domain/notifications.py).                     *)
(*                                                                         *)
(* Writes are numbered, and the clock counts spans of which two times are  *)
(* closer than a minute only if they are in the same one.  The activities  *)
(* need not follow each other: Timeline has that.                          *)
(***************************************************************************)
EXTENDS Integers, FiniteSets, SequencesExt

CONSTANTS
  Act,           \* the activities of the mission
  Nil,           \* not yet
  DisputeDelay,  \* DISPUTE_EXPIRY_DAYS
  LastSpan,      \* bound: the clock
  MaxWrites      \* bound: the writes

ASSUME HistoryAssumption == /\ LastSpan \in Nat /\ MaxWrites \in Nat
                            /\ Act # {}

VARIABLES
  span,         \* the clock
  writes,       \* the number of the last write
  acts,         \* tables activity and activity_version
  confirmed,    \* table mission_validation
  known,        \* history: the times the employee last wrote, or that were
                \* written in his name, or that he was sent
  mailed,       \* history: whether the last validation's message left
  causes,       \* history: what a dispute was about when it was made
  control       \* history: the lines a controller was shown, and up to when

historyVars == <<span, writes, acts, confirmed, known, mailed, causes, control>>

-----------------------------------------------------------------------------
(* The rows.                                                                *)

VersionRow ==
  [n : Nat, at : Nat, by : {"worker", "boss"}, start : Nat, end : Nat \cup {Nil}]

DismissalRow == [n : Nat, by : {"worker", "boss"}]

DisputeRow == [n : Nat, at : Nat, status : {"created", "cancelled"}]

ActRow ==
  [versions : Seq(VersionRow), dismissed : DismissalRow \cup {Nil},
   dispute : DisputeRow \cup {Nil}]

ConfirmationRow ==
  [n : Nat, at : Nat, by : {"worker", "boss", "system"}, admin : BOOLEAN]

Times == [start : Nat, end : Nat \cup {Nil}]

\* None is no value of a column.
ASSUME NilAssumption ==
  /\ Nil \notin Nat /\ Nil \notin VersionRow /\ Nil \notin Times
  /\ Nil \notin DismissalRow /\ Nil \notin DisputeRow
  /\ Nil \notin ActRow

NewVersion(by, start, end) ==
  [n |-> writes + 1, at |-> span, by |-> by, start |-> start, end |-> end]

Logged(a) == acts[a] # Nil

Stands(a) == Logged(a) /\ acts[a].dismissed = Nil

Current(a) == Last(acts[a].versions)

Content(v) == [start |-> v.start, end |-> v.end]

\* Of the activities that stand, the times.
Present == [a \in Act |-> IF Stands(a) THEN Content(Current(a)) ELSE Nil]

Running(a) == Stands(a) /\ Current(a).end = Nil

LockedByBoss == \E v \in confirmed : v.by = "boss"

LockedForWorker == \E v \in confirmed : v.by \in {"worker", "system"}

\* check_actor_can_write_on_mission_for_user
MayChange(by) == ~LockedByBoss /\ (by = "worker" => ~LockedForWorker)

Wrote == /\ writes < MaxWrites
         /\ writes' = writes + 1

\* What the employee writes, he knows.
KnownAfter(by) == known' = IF by = "worker" THEN Present' ELSE known

LogAct(a, by, start, end) ==
  /\ ~Logged(a)
  /\ MayChange(by)
  /\ Wrote
  /\ acts' = [acts EXCEPT ![a] =
       [versions |-> <<NewVersion(by, start, end)>>, dismissed |-> Nil, dispute |-> Nil]]
  /\ KnownAfter(by)
  /\ UNCHANGED <<span, confirmed, mailed, causes, control>>

ReviseAct(a, by, start, end) ==
  /\ Stands(a)
  /\ MayChange(by)
  /\ Content(Current(a)) # [start |-> start, end |-> end]
  /\ Wrote
  /\ acts' = [acts EXCEPT ![a].versions = Append(@, NewVersion(by, start, end))]
  /\ KnownAfter(by)
  /\ UNCHANGED <<span, confirmed, mailed, causes, control>>

DismissAct(a, by) ==
  /\ Stands(a)
  /\ MayChange(by)
  /\ Wrote
  /\ acts' = [acts EXCEPT ![a].dismissed = [n |-> writes + 1, by |-> by]]
  /\ KnownAfter(by)
  /\ UNCHANGED <<span, confirmed, mailed, causes, control>>

-----------------------------------------------------------------------------
(* The message about what changed.                                          *)

\* latest_modification_time_by; 0 for never.
LatestBy(a) ==
  IF ~Logged(a) THEN 0
  ELSE IF acts[a].dismissed # Nil /\ acts[a].dismissed.by = "worker" THEN acts[a].dismissed.n
  ELSE Max({v.n : v \in {w \in ToSet(acts[a].versions) : w.by = "worker"}} \cup {0})

\* get_latest_user_action_time
LatestAction ==
  LET own == {v \in confirmed : v.by = "worker"}
  IN  IF own # {} THEN Max({v.n : v \in own}) ELSE Max({LatestBy(a) : a \in Act})

\* Seeded fault: the version of before the action.
VersionBefore(a, n) ==
  LET before == IF Logged(a) THEN {v \in ToSet(acts[a].versions) : v.n < n} ELSE {}
  IN  IF before = {} \/ (acts[a].dismissed # Nil /\ acts[a].dismissed.n < n) THEN Nil
      ELSE CHOOSE v \in before : \A w \in before : w.n <= v.n

\* version_at, without the dismissed ones.
VersionAt(a, n) ==
  LET before == IF Logged(a) THEN {v \in ToSet(acts[a].versions) : v.n <= n} ELSE {}
  IN  IF before = {} \/ (acts[a].dismissed # Nil /\ acts[a].dismissed.n <= n) THEN Nil
      ELSE CHOOSE v \in before : \A w \in before : w.n <= v.n

\* The times at the latest action: what the message compares with.
Old == [a \in Act |-> LET v == VersionAt(a, LatestAction)
                      IN  IF v = Nil THEN Nil ELSE Content(v)]

LastUpdate(a) == IF acts[a].dismissed # Nil THEN acts[a].dismissed.n ELSE Current(a).n

\* compute_aggregate_durations: start, end and total.  What runs ends now.
Timers(contents) ==
  LET shown == {a \in Act : contents[a] # Nil}
      end(a) == IF contents[a].end = Nil THEN span ELSE contents[a].end
  IN  [start |-> Min({contents[a].start : a \in shown}),
       end |-> Max({end(a) : a \in shown}),
       total |-> MapThenSumSet(LAMBDA a : end(a) - contents[a].start, shown)]

Shown(contents) == \E a \in Act : contents[a] # Nil

SameTimers(c, d) == Shown(c) /\ Shown(d) /\ Timers(c) = Timers(d)

\* modification_status_and_latest_action_time_for_user.  Nothing to compare
\* with raises an error, which is swallowed.
IsWarned ==
  \/ LatestAction = 0
  \/ /\ \E a \in Act : Logged(a) /\ LastUpdate(a) > LatestAction
     /\ Shown(Old)
     /\ ~SameTimers(Old, Present)

\* warn_if_mission_changes_since_latest_user_action; a message that fails is
\* logged only.
Warn ==
  IF IsWarned
    THEN \/ known' = Present /\ mailed' = "sent"
         \/ UNCHANGED known /\ mailed' = "failed"
    ELSE UNCHANGED known /\ mailed' = "none"

-----------------------------------------------------------------------------
(* Validations.  MissionValidation has the rest of their conditions.        *)

Confirmation(by, admin) == [n |-> writes + 1, at |-> span, by |-> by, admin |-> admin]

AllStopped == (\E a \in Act : Stands(a)) /\ \A a \in Act : ~Running(a)

ConfirmByWorker ==
  /\ AllStopped
  /\ ~LockedForWorker
  /\ Wrote
  /\ confirmed' = confirmed \cup {Confirmation("worker", FALSE)}
  /\ known' = Present
  /\ UNCHANGED <<span, acts, mailed, causes, control>>

\* A validation that exists is given back, and the message sent again.
ConfirmByBoss ==
  /\ AllStopped
  /\ Wrote
  /\ confirmed' = IF LockedByBoss THEN confirmed
                  ELSE confirmed \cup {Confirmation("boss", TRUE)}
  /\ Warn
  /\ UNCHANGED <<span, acts, causes, control>>

\* The job stops what runs in the name of the employee, and validates.  It
\* counts as what he wrote last unless he has validated.
ConfirmByJob(admin) ==
  /\ \E a \in Act : Stands(a)
  /\ ~\E v \in confirmed : v.by = "system" /\ v.admin = admin
  /\ ~admin => ~\E v \in confirmed : v.by \in {"worker", "boss"}
  /\ Wrote
  /\ acts' = [a \in Act |->
       IF Running(a)
         THEN [acts[a] EXCEPT !.versions =
                 Append(@, NewVersion("worker", Current(a).start, span))]
         ELSE acts[a]]
  /\ confirmed' = confirmed \cup {Confirmation("system", admin)}
  /\ known' = IF acts' = acts \/ \E v \in confirmed : v.by = "worker"
                THEN known ELSE Present'
  /\ UNCHANGED <<span, mailed, causes, control>>

-----------------------------------------------------------------------------
(* Disputes.                                                                *)

\* freeze_activity_at
DismissedAsOf(a, n) ==
  IF acts[a].dismissed # Nil /\ acts[a].dismissed.n <= n THEN acts[a].dismissed ELSE Nil

\* What actions_history calls the disputed action: it looks at the activity
\* as of number n, not as of the dispute.
DisputedAction(a, n) ==
  IF DismissedAsOf(a, n) # Nil THEN "deletion"
  ELSE IF \E k \in 2..Len(acts[a].versions) : acts[a].versions[k].n <= n THEN "change"
  ELSE "addition"

IsDisputed(a) == Logged(a) /\ acts[a].dispute # Nil /\ acts[a].dispute.status = "created"

\* The delay runs from the latest validation of the company.
DisputeAct(a) ==
  LET byAdmin == {v.at : v \in {w \in confirmed : w.admin}}
  IN  /\ Logged(a)
      /\ ~IsDisputed(a)
      /\ byAdmin # {}
      /\ span - Max(byAdmin) < DisputeDelay
      /\ Wrote
      /\ acts' = [acts EXCEPT ![a].dispute =
           [n |-> writes + 1, at |-> span, status |-> "created"]]
      /\ causes' = [causes EXCEPT ![a] = DisputedAction(a, writes)]
      /\ UNCHANGED <<span, confirmed, known, mailed, control>>

CancelDispute(a) ==
  /\ IsDisputed(a)
  /\ span - acts[a].dispute.at < DisputeDelay
  /\ Wrote
  /\ acts' = [acts EXCEPT ![a].dispute.status = "cancelled"]
  /\ UNCHANGED <<span, confirmed, known, mailed, causes, control>>

-----------------------------------------------------------------------------
(* actions_history, of the writes up to number n.                           *)

Line(n, kind, a, what) == [n |-> n, kind |-> kind, act |-> a, what |-> what]

\* An automatic validation at the time the activity ended tells of it.
EndsWithJob(end) == \E v \in confirmed : v.by = "system" /\ v.at = end

RevisionLines(a, k) ==
  LET v == acts[a].versions[k]
      old == acts[a].versions[k - 1]
  IN  {l \in {Line(v.n, "resumed", a, Nil), Line(v.n, "stopped", a, v.end),
              Line(v.n, "endMoved", a, v.end), Line(v.n, "startMoved", a, v.start)} :
         \/ l.kind = "resumed" /\ v.end # old.end /\ v.end = Nil
         \/ l.kind = "stopped" /\ v.end # Nil /\ old.end = Nil /\ ~EndsWithJob(v.end)
         \/ l.kind = "endMoved" /\ v.end # old.end /\ v.end # Nil /\ old.end # Nil
         \/ l.kind = "startMoved" /\ v.start # old.start}

ActLines(a, n) ==
  IF ~Logged(a) \/ acts[a].versions[1].n > n THEN {}
  ELSE LET first == acts[a].versions[1]
           gone == DismissedAsOf(a, n)
       IN  {Line(first.n, "added", a, Content(first))}
             \cup (UNION {RevisionLines(a, k) :
                            k \in {i \in 2..Len(acts[a].versions) : acts[a].versions[i].n <= n}})
             \cup (IF gone = Nil THEN {} ELSE {Line(gone.n, "deleted", a, Nil)})
             \cup (IF IsDisputed(a)
                     THEN {Line(acts[a].dispute.n, "disputed", a, DisputedAction(a, n))}
                     ELSE {})

\* _auto_validation_texts: the company's leaves the ends to the employee's
\* when both were made at once.
IsToldWith(v) ==
  v.admin => ~\E w \in confirmed : w.by = "system" /\ ~w.admin /\ w.at = v.at

ConfirmationLines(v, n) ==
  {Line(v.n, "validated", Nil, v.by)}
    \cup IF v.by # "system" \/ ~IsToldWith(v) THEN {}
         ELSE {Line(v.n, "stopped", a, v.at) :
                 a \in {b \in Act : /\ Logged(b)
                                    /\ DismissedAsOf(b, n) = Nil
                                    /\ \E w \in ToSet(acts[b].versions) : w.end = v.at}}

Lines(n) ==
  (UNION {ActLines(a, n) : a \in Act})
    \cup (UNION {ConfirmationLines(v, n) : v \in {w \in confirmed : w.n <= n}})

\* A controller scans the employee's code; he is shown the mission as it is,
\* and later as it was.
Scan ==
  /\ control = Nil
  /\ control' = [n |-> writes, lines |-> Lines(writes)]
  /\ UNCHANGED <<span, writes, acts, confirmed, known, mailed, causes>>

NextSpan ==
  /\ span < LastSpan
  /\ span' = span + 1
  /\ UNCHANGED <<writes, acts, confirmed, known, mailed, causes, control>>

-----------------------------------------------------------------------------
HistoryInit ==
  /\ span = 0
  /\ writes = 0
  /\ acts = [a \in Act |-> Nil]
  /\ confirmed = {}
  /\ known = [a \in Act |-> Nil]
  /\ mailed = "none"
  /\ causes = [a \in Act |-> Nil]
  /\ control = Nil

HistoryNext ==
  \/ \E a \in Act, by \in {"worker", "boss"} :
       \/ \E start \in 0..span, end \in {Nil} \cup 0..span :
            /\ end # Nil => start <= end
            /\ LogAct(a, by, start, end) \/ ReviseAct(a, by, start, end)
       \/ DismissAct(a, by)
  \/ ConfirmByWorker
  \/ ConfirmByBoss
  \/ \E admin \in BOOLEAN : ConfirmByJob(admin)
  \/ \E a \in Act : DisputeAct(a) \/ CancelDispute(a)
  \/ Scan
  \/ NextSpan

HistorySpec == HistoryInit /\ [][HistoryNext]_historyVars

-----------------------------------------------------------------------------
\* Every variable has its type; the versions of an activity are in the order
\* of the writes, and none is later than its deletion.
HistoryTypeOK ==
  /\ span \in 0..LastSpan
  /\ writes \in 0..MaxWrites
  /\ mailed \in {"none", "sent", "failed"}
  /\ \A v \in confirmed : v.n \in 1..writes /\ v.at \in 0..span
  /\ \A a \in Act :
       Logged(a) =>
         /\ acts[a].versions # <<>>
         /\ \A k \in 1..Len(acts[a].versions) :
              LET v == acts[a].versions[k]
              IN  /\ v.start \in 0..span
                  /\ v.end # Nil => v.end \in v.start..span
                  /\ k > 1 => v.n > acts[a].versions[k - 1].n
         /\ acts[a].dismissed # Nil => Current(a).n < acts[a].dismissed.n

\* The end of an activity that stands is told: by a line of its own or by the
\* line of the automatic validation that made it, never lost between the two
\* although each leaves it to the other (UserChange.texts).
EndIsTold ==
  \A a \in Act :
    Stands(a) =>
      \A k \in 2..Len(acts[a].versions) :
        (acts[a].versions[k].end # Nil /\ acts[a].versions[k - 1].end = Nil) =>
          \E l \in Lines(writes) :
            l.kind = "stopped" /\ l.act = a /\ l.what = acts[a].versions[k].end

\* After a validation of the company the employee knows the times of the
\* mission, from his own writes or from the message, unless it could not be
\* sent or he had left nothing to compare with.
ChangesAreAnnounced ==
  [][(ConfirmByBoss /\ mailed' # "failed" /\ (Shown(Old) \/ LatestAction = 0)) =>
        SameTimers(known', Present')]_historyVars

\* A dispute of what the company validated itself keeps naming what the
\* employee disputed, though the name is made up again each time from the
\* activity as it is: nobody can change the activity any more.
DisputeKeepsItsCause ==
  \A a \in Act :
    (IsDisputed(a) /\ \E v \in confirmed : v.by = "boss" /\ v.n < acts[a].dispute.n) =>
      DisputedAction(a, writes) = causes[a]

\* The lines that leave the past: of a dispute that was cancelled or made
\* again, and of an end that a later automatic validation takes for its own.
MayGo(l, n) ==
  \/ /\ l.kind = "disputed"
     /\ acts[l.act].dispute.status = "cancelled" \/ acts[l.act].dispute.n > n
  \/ l.kind = "stopped" /\ \E v \in confirmed : v.by = "system" /\ v.n > n /\ v.at = l.what

\* The lines that enter it: of a dispute made since, and of an end that was
\* moved since to the time of an automatic validation.
MayCome(l, n) ==
  \/ l.kind = "disputed" /\ l.n > n
  \/ /\ l.kind = "stopped"
     /\ \E v \in ToSet(acts[l.act].versions) : v.n > n /\ v.end = l.what

\* What a controller is shown of the time of the control keeps every log,
\* deletion, move, resumption and validation, and gets no other, whatever is
\* written later (freeze_activity_at, filter_out_future_events).  Disputes and
\* ends are not read as of the control: of these lines, those of MayGo may
\* leave and those of MayCome may enter, and no other.
PastIsFrozen ==
  control # Nil =>
    /\ \A l \in control.lines \ Lines(control.n) : MayGo(l, control.n)
    /\ \A l \in Lines(control.n) \ control.lines : MayCome(l, control.n)

\* What the history tells and what a dispute is about agree with the writes,
\* and what a controller is shown loses and gains no line but those of disputes
\* and of ends that PastIsFrozen tells.
HistoryIsFaithful ==
  /\ []HistoryTypeOK
  /\ []EndIsTold
  /\ []DisputeKeepsItsCause
  /\ []PastIsFrozen
  /\ ChangesAreAnnounced
=============================================================================
