------------------------------ MODULE Controls ------------------------------
(***************************************************************************)
(* Roadside controls: the codes an employee shows, the controls that a     *)
(* controller opens by scanning one or by hand, the infractions that are   *)
(* computed when a control is opened and those the controller retains or   *)
(* adds, the bulletin he fills in and the mail to the employer.            *)
(*                                                                         *)
(* One employee and one controller, who may send a request again before    *)
(* the first is answered.  Opening a control takes several transactions;   *)
(* a request may die between two.                                          *)
(***************************************************************************)
EXTENDS Integers, FiniteSets

CONSTANTS
  Device,       \* the requests of the controller served at once
  ControlId,    \* the identifiers of the rows of controller_control
  NoControl,    \* SQL NULL
  MaxQr,        \* bound: the codes shown
  MaxEdits      \* bound: how often one bulletin is edited

VARIABLES
  recordedAlerts,      \* table regulatory_alert over the days of the history
  computedFor,    \* table regulation_computation: the days and versions
  qr,          \* the number of the last code shown
  controls,    \* table controller_control
  handling     \* what each request is at

controlVars == <<recordedAlerts, computedFor, qr, controls, handling>>

-----------------------------------------------------------------------------
(* Rows.  Day 0 is the day of the control; the code of an alert is a       *)
(* NATINF number, another sanction or none.                                *)

AlertVersion == {"employee", "admin"}

RegulatoryAlert == [day : 0..1, by : AlertVersion, code : {"natinf", "plain", "none"}]

Infraction == [day : 0..1, sanction : {"natinf", "plain", "no_lic", "extra"},
               by : AlertVersion \cup {"law", "controller"}, reported : BOOLEAN]

\* employments are the business types recorded when the control is opened,
\* text stands for the fields of the form.  In a control, mailed is a history:
\* nothing has changed since the last mail.
Bulletin == [employments : BOOLEAN, text : 0..MaxEdits]

ControlRow ==
  [kind : {"mobilic", "sans_lic", "lic_papier"}, code : 0..MaxQr,
   known : BOOLEAN, observed : SUBSET Infraction, bulletin : Bulletin,
   saved : BOOLEAN, sent : BOOLEAN, mailed : BOOLEAN]

ASSUME ControlAssumption ==
  /\ NoControl \notin ControlRow
  /\ MaxQr \in Nat /\ MaxEdits \in Nat

NoBulletin == [employments |-> FALSE, text |-> 0]

ControlOf(kind, code, known, infractions, bulletin) ==
  [kind |-> kind, code |-> code, known |-> known,
   observed |-> infractions, bulletin |-> bulletin, saved |-> FALSE,
   sent |-> FALSE, mailed |-> FALSE]

OpenControls == {c \in ControlId : controls[c] # NoControl}

InfractionKey(i) == <<i.day, i.sanction>>

Unoccupied == [doing |-> "none"]

UpdateControl(c, row) == controls' = [controls EXCEPT ![c] = row]

Occupy(d, what) == handling[d] = Unoccupied /\ handling' = [handling EXCEPT ![d] = what]

Vacate(d) == handling' = [handling EXCEPT ![d] = Unoccupied]

-----------------------------------------------------------------------------
(* What is found when a control is opened.                                 *)

\* With the computations of both versions those of the admin count, with one
\* those of that version.
IsRetained(a) ==
  LET versions == {v \in AlertVersion : <<a.day, v>> \in computedFor}
  IN /\ a.code # "none"
     /\ versions # {}
     /\ a.by = IF versions = AlertVersion THEN "admin" ELSE CHOOSE v \in versions : TRUE

\* A NATINF number is reported unless the controller says otherwise.
ComputedInfractions ==
  {[day |-> a.day, sanction |-> a.code, by |-> a.by,
    reported |-> a.code = "natinf"] : a \in {x \in recordedAlerts : IsRetained(x)}}

\* get_no_lic_observed_infractions.
NoLic == {[day |-> 0, sanction |-> "no_lic", by |-> "law", reported |-> TRUE]}

-----------------------------------------------------------------------------
ControlInit ==
  /\ recordedAlerts = {[day |-> 1, by |-> "employee", code |-> "natinf"],
                [day |-> 1, by |-> "admin", code |-> "plain"],
                [day |-> 0, by |-> "employee", code |-> "none"]}
  /\ computedFor = {<<1, "employee">>}
  /\ qr = 0
  /\ controls = [c \in ControlId |-> NoControl]
  /\ handling = [d \in Device |-> Unoccupied]

\* The regulations of a day are computed for the admin's version too.
ComputeAdminVersion ==
  /\ \E day \in 0..1 : computedFor' = computedFor \cup {<<day, "admin">>}
  /\ UNCHANGED <<recordedAlerts, qr, controls, handling>>

\* generate_read_token.
ShowCode ==
  /\ qr < MaxQr
  /\ qr' = qr + 1
  /\ UNCHANGED <<recordedAlerts, computedFor, controls, handling>>

\* ControllerScanCode: with a control of that code there is nothing to do, and
\* with two the query raises.
BeginScan(d) ==
  /\ \E code \in 1..qr :
       /\ \A c \in OpenControls : controls[c].code # code
       /\ Occupy(d, [doing |-> "open", code |-> code])
  /\ UNCHANGED <<recordedAlerts, computedFor, qr, controls>>

\* The row of get_or_create_mobilic_control, without infractions.
CommitScan(d) ==
  /\ handling[d].doing = "open"
  /\ \E c \in ControlId \ OpenControls :
       /\ UpdateControl(c, ControlOf("mobilic", handling[d].code, FALSE, {},
                     [NoBulletin EXCEPT !.employments = TRUE]))
       /\ handling' = [handling EXCEPT ![d] = [doing |-> "report", of |-> c]]
  /\ UNCHANGED <<recordedAlerts, computedFor, qr>>

\* report_infractions.  Nothing is added when the employee was at work or no
\* business type is known.
ReportInfractions(d) ==
  LET c == handling[d].of
  IN /\ handling[d].doing = "report"
     /\ \E law \in {NoLic, {}} :
          UpdateControl(c, [controls[c] EXCEPT !.known = TRUE,
                                     !.observed = ComputedInfractions \cup law])
     /\ Vacate(d)
     /\ UNCHANGED <<recordedAlerts, computedFor, qr>>

\* create_no_lic_control and create_lic_papier_control, whose bulletin is
\* saved in a second transaction.
OpenByHand(d, kind) ==
  /\ \E c \in ControlId \ OpenControls :
       /\ \E filled \in BOOLEAN :
            UpdateControl(c, ControlOf(kind, 0, TRUE,
                               IF kind = "lic_papier" /\ filled THEN {} ELSE NoLic,
                               NoBulletin))
       /\ Occupy(d, [doing |-> "save", of |-> c])
  /\ UNCHANGED <<recordedAlerts, computedFor, qr>>

SaveFirstBulletin(d) ==
  LET c == handling[d].of
  IN /\ handling[d].doing = "save"
     /\ controls[c].bulletin.text < MaxEdits
     /\ UpdateControl(c, [controls[c] EXCEPT !.bulletin.text = @ + 1])
     /\ Vacate(d)
     /\ UNCHANGED <<recordedAlerts, computedFor, qr>>

AbandonControl(d) ==
  /\ handling[d] # Unoccupied
  /\ Vacate(d)
  /\ UNCHANGED <<recordedAlerts, computedFor, qr, controls>>

-----------------------------------------------------------------------------
(* What the controller does with a control.                                *)

\* save_control_bulletin writes the fields of the form into what is there.
FilledIn(b) == [b EXCEPT !.text = @ + 1]

\* ControllerSaveControlBulletin.  A first save sets the time of creation
\* and leaves sent_to_admin as it is.
SaveBulletin(c) ==
  LET r == controls[c]
  IN /\ r.bulletin.text < MaxEdits
     /\ UpdateControl(c, [r EXCEPT !.bulletin = FilledIn(@), !.saved = TRUE,
                         !.mailed = FALSE,
                         !.sent = IF r.saved THEN FALSE ELSE @])
     /\ UNCHANGED <<recordedAlerts, computedFor, qr, handling>>

\* Seeded fault: what is not reported is dropped.
RetainedReportedOnly(S, keys) ==
  {i \in {[i EXCEPT !.reported = InfractionKey(i) \in keys] : i \in S} : i.reported}

\* ComputedInfractions infractions stay, reported or not; an own one stays if reported.
Retained(S, keys) ==
  {i \in {[i EXCEPT !.reported = InfractionKey(i) \in keys] : i \in S} :
     i.by = "controller" => i.reported}

NewCustom(S, keys) ==
  {[day |-> k[1], sanction |-> k[2], by |-> "controller", reported |-> TRUE] :
     k \in {k \in keys : k[2] = "extra"} \ {InfractionKey(i) : i \in S}}

\* A control on paper holds what the controller reports and nothing else.
OnPaper(keys) ==
  {[day |-> k[1], sanction |-> k[2], by |-> "controller", reported |-> TRUE] :
     k \in keys}

\* Without infractions, or on paper without a bulletin, saving raises.
HasInfractions(r) ==
  /\ r.known
  /\ r.kind = "lic_papier" => r.bulletin # NoBulletin

\* ControllerSaveReportedInfractions.
SaveInfractions(c) ==
  LET r == controls[c]
  IN /\ HasInfractions(r)
     /\ \E keys \in SUBSET ({InfractionKey(i) : i \in r.observed} \cup {<<0, "extra">>}) :
          UpdateControl(c, [r EXCEPT !.observed =
                    IF r.kind = "lic_papier" THEN OnPaper(keys)
                    ELSE LET S == Retained(r.observed, keys)
                         IN S \cup NewCustom(S, keys),
                  !.sent = FALSE, !.mailed = FALSE])
     /\ UNCHANGED <<recordedAlerts, computedFor, qr, handling>>

\* SendControlBulletinEmail: the mail goes out, then the flag is committed.
SendMail(d, c) ==
  /\ Occupy(d, [doing |-> "send", of |-> c])
  /\ UpdateControl(c, [controls[c] EXCEPT !.mailed = TRUE])
  /\ UNCHANGED <<recordedAlerts, computedFor, qr>>

CommitSent(d) ==
  LET c == handling[d].of
  IN /\ handling[d].doing = "send"
     /\ UpdateControl(c, [controls[c] EXCEPT !.sent = TRUE])
     /\ Vacate(d)
     /\ UNCHANGED <<recordedAlerts, computedFor, qr>>

-----------------------------------------------------------------------------
ControlNext ==
  \/ ComputeAdminVersion
  \/ ShowCode
  \/ \E d \in Device :
       \/ BeginScan(d) \/ CommitScan(d) \/ ReportInfractions(d)
       \/ \E kind \in {"sans_lic", "lic_papier"} : OpenByHand(d, kind)
       \/ SaveFirstBulletin(d)
       \/ \E c \in OpenControls : SendMail(d, c)
       \/ CommitSent(d)
       \/ AbandonControl(d)
  \/ \E c \in OpenControls : SaveBulletin(c) \/ SaveInfractions(c)

ControlSpec == ControlInit /\ [][ControlNext]_controlVars

-----------------------------------------------------------------------------
(* Properties.                                                             *)

ControlTypeOK ==
  /\ recordedAlerts \subseteq RegulatoryAlert
  /\ computedFor \subseteq (0..1) \X AlertVersion
  /\ qr \in 0..MaxQr
  /\ \A c \in OpenControls :
       /\ controls[c] \in ControlRow
       /\ ~controls[c].known => controls[c].observed = {}

\* The infractions of a day come from one version of the activities, though
\* the other is computed while controls are opened: an employee is not held
\* to account for what he logged and for what the admin made of it
\* (report_infractions).
OneVersionADay ==
  \A c \in OpenControls : \A i, j \in controls[c].observed :
    i.day = j.day /\ {i.by, j.by} \subseteq AlertVersion => i.by = j.by

\* "Keep all computed infractions": whatever the controller reports, takes
\* back and adds, the infractions found at the opening of a control stay
\* those they were, in any order of saves, mails and scans sent again
\* (ControllerSaveReportedInfractions).
ComputedInfractionsStay ==
  [][\A c \in OpenControls :
       controls[c].known /\ controls[c].kind # "lic_papier" =>
         {InfractionKey(i) : i \in {i \in controls[c].observed : i.by # "controller"}}
           = {InfractionKey(i) : i \in {i \in controls'[c].observed : i.by # "controller"}}
    ]_controlVars

\* The business types of the employments at the time of the control are kept
\* by every bulletin that is saved later, as the data shown for the control
\* are read with them (save_control_bulletin, resolve_employments).
EmploymentsStayRecorded ==
  \A c \in OpenControls :
    controls[c].kind = "mobilic" => controls[c].bulletin.employments

\* What a control found stays as it was found, from one version of each day,
\* with the employments of that time, whatever is scanned, saved and mailed
\* again.
ControlStands ==
  /\ []ControlTypeOK
  /\ []OneVersionADay
  /\ []EmploymentsStayRecorded
  /\ ComputedInfractionsStay
=============================================================================
