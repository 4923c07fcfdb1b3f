---------------------------- MODULE RecordsProofs ----------------------------
(***************************************************************************)
(* Proofs about the records kept beside the work, for every number of      *)
(* devices, requests at once and rows: the roadside controls of Controls,  *)
(* the places and readings of MissionRecords, the teams, vehicles and      *)
(* known addresses of Teams, and the mails of Mailings.                    *)
(***************************************************************************)
EXTENDS Controls, MissionRecords, Teams, Mailings, FiniteSetTheorems,
        SequenceTheorems, TLAPS

-----------------------------------------------------------------------------
(* Controls.  A request holds a control that is open, and one that is to   *)
(* report holds it alone, before anything is known of it.                  *)

OfOneVersionADay(S) ==
  \A i, j \in S : i.day = j.day /\ {i.by, j.by} \subseteq AlertVersion => i.by = j.by

RowIsKept(r) ==
  /\ r \in ControlRow
  /\ ~r.known => r.observed = {}
  /\ OfOneVersionADay(r.observed)
  /\ r.kind = "mobilic" => r.bulletin.employments

Occupation ==
  {Unoccupied} \cup [doing : {"open"}, code : 1..MaxQr]
    \cup [doing : {"report", "save", "send"}, of : ControlId]

HeldControlIsOpen ==
  \A d \in Device :
    LET h == handling[d]
    IN /\ h.doing \in {"report", "save", "send"} => h.of \in OpenControls
       /\ h.doing = "report" => ~controls[h.of].known /\ controls[h.of].kind = "mobilic"

ReportsAlone ==
  \A d, e \in Device :
    d # e /\ handling[d].doing = "report" /\ handling[e].doing = "report" =>
      handling[d].of # handling[e].of

ControlInv ==
  /\ recordedAlerts \subseteq RegulatoryAlert
  /\ computedFor \subseteq (0..1) \X AlertVersion
  /\ qr \in 0..MaxQr
  /\ controls \in [ControlId -> ControlRow \cup {NoControl}]
  /\ handling \in [Device -> Occupation]
  /\ \A c \in OpenControls : RowIsKept(controls[c])
  /\ HeldControlIsOpen
  /\ ReportsAlone

\* What a request may come to hold when it is not to report.
MayHold(h) ==
  h \in Occupation /\ h.doing # "report" /\ (h.doing \in {"save", "send"} => h.of \in OpenControls)

\* Row r of control c can be written by request d: nobody else is to report.
SparesReports(d, c, r) ==
  \A e \in Device \ {d} : handling[e].doing = "report" /\ handling[e].of = c => ~r.known

Marked(r, b, sa, se, ma) ==
  [r EXCEPT !.bulletin = b, !.saved = sa, !.sent = se, !.mailed = ma]

LEMMA OccupationShape ==
  ASSUME NEW h \in Occupation
  PROVE  /\ h.doing = "open" => h.code \in 1..MaxQr
         /\ h.doing \in {"report", "save", "send"} => h.of \in ControlId
         /\ h.doing \in {"none", "open", "report", "save", "send"}
  BY DEF Occupation, Unoccupied

LEMMA ControlInitially == ControlInit => ControlInv
  <1> SUFFICES ASSUME ControlInit PROVE ControlInv OBVIOUS
  <1>1. \A d \in Device : handling[d].doing = "none"
    BY DEF ControlInit, Unoccupied
  <1>2. OpenControls = {}
    BY DEF ControlInit, OpenControls
  <1>3. recordedAlerts \subseteq RegulatoryAlert /\ computedFor \subseteq (0..1) \X AlertVersion
    BY DEF ControlInit, RegulatoryAlert, AlertVersion
  <1> QED
    BY <1>1, <1>2, <1>3, ControlAssumption
    DEF ControlInit, ControlInv, HeldControlIsOpen, ReportsAlone, Occupation

\* What the day's computations retain is of one version.
LEMMA ComputedAreOfOneVersion ==
  ASSUME recordedAlerts \subseteq RegulatoryAlert
  PROVE  /\ ComputedInfractions \subseteq Infraction
         /\ OfOneVersionADay(ComputedInfractions)
  <1>1. \A a \in recordedAlerts : IsRetained(a) =>
          [day |-> a.day, sanction |-> a.code, by |-> a.by, reported |-> a.code = "natinf"]
            \in Infraction
    BY DEF RegulatoryAlert, Infraction, IsRetained
  <1>2. ASSUME NEW a \in recordedAlerts, NEW b \in recordedAlerts, IsRetained(a), IsRetained(b),
               a.day = b.day
        PROVE  a.by = b.by
    BY <1>2 DEF IsRetained
  <1> QED
    BY <1>1, <1>2 DEF ComputedInfractions, OfOneVersionADay

\* A row that is sound is written, and the requests go on.
LEMMA WriteStep ==
  ASSUME ControlInv, NEW c \in ControlId, NEW r, RowIsKept(r),
         controls' = [controls EXCEPT ![c] = r],
         UNCHANGED <<recordedAlerts, computedFor, qr>>,
         handling' \in [Device -> Occupation],
         HeldControlIsOpen', ReportsAlone'
  PROVE  ControlInv'
  <1>1. r \in ControlRow /\ r # NoControl
    BY ControlAssumption DEF RowIsKept
  <1>2. controls' \in [ControlId -> ControlRow \cup {NoControl}]
    BY <1>1 DEF ControlInv
  <1>3. \A e \in OpenControls' : RowIsKept(controls'[e])
    BY DEF ControlInv, OpenControls
  <1> QED
    BY <1>2, <1>3 DEF ControlInv

\* The row of a control that is open is rewritten: whoever holds it finds it.
LEMMA RewriteHeld ==
  ASSUME ControlInv, NEW c \in OpenControls, NEW r \in ControlRow,
         controls' = [controls EXCEPT ![c] = r], UNCHANGED handling,
         r.kind = controls[c].kind, ~controls[c].known => ~r.known
  PROVE  HeldControlIsOpen' /\ ReportsAlone'
  <1>1. c \in ControlId /\ r # NoControl
    BY ControlAssumption DEF OpenControls
  <1>2. OpenControls' = OpenControls
    BY <1>1 DEF ControlInv, OpenControls
  <1>3. HeldControlIsOpen'
    <2>1. SUFFICES ASSUME NEW d \in Device
                   PROVE  /\ handling[d].doing \in {"report", "save", "send"} =>
                               handling[d].of \in OpenControls
                          /\ handling[d].doing = "report" =>
                               /\ ~controls'[handling[d].of].known
                               /\ controls'[handling[d].of].kind = "mobilic"
      BY <1>2 DEF HeldControlIsOpen
    <2>2. /\ handling[d].doing \in {"report", "save", "send"} => handling[d].of \in OpenControls
          /\ handling[d].doing = "report" =>
               /\ ~controls[handling[d].of].known
               /\ controls[handling[d].of].kind = "mobilic"
      BY DEF ControlInv, HeldControlIsOpen
    <2>3. ASSUME NEW o \in OpenControls, ~controls[o].known, controls[o].kind = "mobilic"
          PROVE  ~controls'[o].known /\ controls'[o].kind = "mobilic"
      <3>1. CASE o = c
        BY <1>1, <2>3, <3>1 DEF ControlInv
      <3>2. CASE o # c
        BY <2>3, <3>2 DEF ControlInv, OpenControls
      <3> QED BY <3>1, <3>2
    <2> QED BY <2>2, <2>3
  <1>4. ReportsAlone'
    BY DEF ControlInv, ReportsAlone
  <1> QED BY <1>3, <1>4

\* A request lets go of what it held, or holds a control that is open.
LEMMA ReleaseHeld ==
  ASSUME ControlInv, NEW d \in Device, NEW h, MayHold(h),
         handling' = [handling EXCEPT ![d] = h], NEW c \in OpenControls, NEW r \in ControlRow,
         controls' = [controls EXCEPT ![c] = r],
         r.kind = controls[c].kind, SparesReports(d, c, r)
  PROVE  /\ HeldControlIsOpen' /\ ReportsAlone' /\ handling' \in [Device -> Occupation]
  <1>1. c \in ControlId /\ r # NoControl
    BY ControlAssumption DEF OpenControls
  <1>2. OpenControls' = OpenControls
    BY <1>1 DEF ControlInv, OpenControls
  <1>3. /\ handling'[d] = h /\ handling' \in [Device -> Occupation]
        /\ \A e \in Device \ {d} : handling'[e] = handling[e]
    BY DEF ControlInv, MayHold
  <1>4. HeldControlIsOpen'
    <2>1. SUFFICES ASSUME NEW e \in Device \ {d}
                   PROVE  /\ handling[e].doing \in {"report", "save", "send"} =>
                               handling[e].of \in OpenControls
                          /\ handling[e].doing = "report" =>
                               /\ ~controls'[handling[e].of].known
                               /\ controls'[handling[e].of].kind = "mobilic"
      BY <1>2, <1>3 DEF HeldControlIsOpen, MayHold
    <2>2. /\ handling[e].doing \in {"report", "save", "send"} => handling[e].of \in OpenControls
          /\ handling[e].doing = "report" =>
               /\ ~controls[handling[e].of].known
               /\ controls[handling[e].of].kind = "mobilic"
      BY DEF ControlInv, HeldControlIsOpen
    <2>3. CASE handling[e].doing = "report" /\ handling[e].of = c
      BY <1>1, <2>2, <2>3 DEF ControlInv, SparesReports
    <2>4. CASE handling[e].doing = "report" /\ handling[e].of # c
      BY <2>2, <2>4 DEF ControlInv, OpenControls
    <2> QED BY <2>2, <2>3, <2>4
  <1>5. ReportsAlone'
    BY <1>3 DEF ControlInv, ReportsAlone, MayHold
  <1> QED BY <1>3, <1>4, <1>5

\* A new control, and what its request is at.
LEMMA OpeningStep ==
  ASSUME ControlInv, NEW d \in Device, NEW c \in ControlId \ OpenControls,
         NEW r, RowIsKept(r), controls' = [controls EXCEPT ![c] = r],
         UNCHANGED <<recordedAlerts, computedFor, qr>>,
         NEW h \in Occupation, handling' = [handling EXCEPT ![d] = h],
         h.doing \in {"report", "save"}, h.of = c,
         h.doing = "report" => ~r.known /\ r.kind = "mobilic"
  PROVE  ControlInv'
  <1>1. r \in ControlRow /\ r # NoControl
    BY ControlAssumption DEF RowIsKept
  <1>2. OpenControls' = OpenControls \cup {c}
    BY <1>1 DEF ControlInv, OpenControls
  <1>3. /\ handling' \in [Device -> Occupation] /\ handling'[d] = h
        /\ \A e \in Device \ {d} : handling'[e] = handling[e]
        /\ controls'[c] = r /\ \A o \in OpenControls : controls'[o] = controls[o]
    BY DEF ControlInv, OpenControls
  <1>4. \A e \in Device : handling[e].doing = "report" => handling[e].of # c
    BY DEF ControlInv, HeldControlIsOpen
  <1>5. HeldControlIsOpen'
    <2>1. SUFFICES ASSUME NEW e \in Device
                   PROVE  /\ handling'[e].doing \in {"report", "save", "send"} =>
                               handling'[e].of \in OpenControls'
                          /\ handling'[e].doing = "report" =>
                               /\ ~controls'[handling'[e].of].known
                               /\ controls'[handling'[e].of].kind = "mobilic"
      BY DEF HeldControlIsOpen
    <2>2. CASE e = d
      BY <1>2, <1>3, <2>2
    <2>3. CASE e # d
      BY <1>2, <1>3, <2>3 DEF ControlInv, HeldControlIsOpen
    <2> QED BY <2>2, <2>3
  <1>6. ReportsAlone'
    BY <1>3, <1>4 DEF ControlInv, ReportsAlone
  <1> QED BY <1>3, <1>5, <1>6, WriteStep

\* What concerns no row.
LEMMA RowlessSteps ==
  ASSUME ControlInv,
         \/ ComputeAdminVersion \/ ShowCode
         \/ \E d \in Device : BeginScan(d) \/ AbandonControl(d)
  PROVE  ControlInv'
  <1>1. CASE ComputeAdminVersion
    BY <1>1 DEF ControlInv, ComputeAdminVersion, AlertVersion, HeldControlIsOpen, ReportsAlone,
       OpenControls
  <1>2. CASE ShowCode
    <2>1. qr' \in 0..MaxQr
      BY <1>2, ControlAssumption DEF ShowCode, ControlInv
    <2> QED BY <1>2, <2>1 DEF ShowCode, ControlInv, HeldControlIsOpen, ReportsAlone, OpenControls
  <1>3. ASSUME NEW d \in Device, BeginScan(d) \/ AbandonControl(d)
        PROVE  ControlInv'
    <2>1. PICK h \in Occupation : /\ h.doing \in {"none", "open"}
                                  /\ handling' = [handling EXCEPT ![d] = h]
      <3>1. CASE BeginScan(d)
        <4>1. PICK code \in 1..qr : Occupy(d, [doing |-> "open", code |-> code])
          BY <3>1 DEF BeginScan
        <4>2. PICK h : h = [doing |-> "open", code |-> code]
          OBVIOUS
        <4>3. code \in 1..MaxQr
          BY ControlAssumption DEF ControlInv
        <4>4. h \in Occupation
          BY <4>2, <4>3 DEF Occupation
        <4> QED BY <4>1, <4>2, <4>4 DEF Occupy
      <3>2. CASE AbandonControl(d)
        BY <3>2 DEF AbandonControl, Vacate, Unoccupied, Occupation
      <3> QED BY <1>3, <3>1, <3>2
    <2>2. UNCHANGED <<recordedAlerts, computedFor, qr, controls>>
      BY <1>3 DEF BeginScan, AbandonControl
    <2>3. /\ handling' \in [Device -> Occupation] /\ handling'[d].doing \in {"none", "open"}
          /\ \A e \in Device \ {d} : handling'[e] = handling[e]
      BY <2>1 DEF ControlInv
    <2> QED BY <2>2, <2>3 DEF ControlInv, HeldControlIsOpen, ReportsAlone, OpenControls
  <1> QED BY <1>1, <1>2, <1>3

LEMMA NewRowIsKept ==
  ASSUME NEW kind \in {"mobilic", "sans_lic", "lic_papier"}, NEW code \in 0..MaxQr,
         NEW known \in BOOLEAN, NEW S, NEW b \in Bulletin,
         S \subseteq Infraction, OfOneVersionADay(S), ~known => S = {},
         kind = "mobilic" => b.employments
  PROVE  /\ RowIsKept(ControlOf(kind, code, known, S, b))
         /\ ControlOf(kind, code, known, S, b).known = known
         /\ ControlOf(kind, code, known, S, b).kind = kind
  <1>1. PICK r : r = ControlOf(kind, code, known, S, b)
    OBVIOUS
  <1>2. r \in ControlRow
    BY <1>1 DEF ControlOf, ControlRow
  <1>3. r.known = known /\ r.kind = kind /\ r.bulletin = b /\ r.observed = S
    BY <1>1 DEF ControlOf
  <1> QED BY <1>1, <1>2, <1>3 DEF RowIsKept

LEMMA NoLicIsOfOneVersion ==
  /\ NoLic \subseteq Infraction /\ OfOneVersionADay(NoLic) /\ OfOneVersionADay({})
  /\ \A i \in NoLic : i.by = "law"
  BY DEF NoLic, Infraction, OfOneVersionADay

LEMMA EmptyBulletin ==
  /\ NoBulletin \in Bulletin
  /\ [NoBulletin EXCEPT !.employments = TRUE] \in Bulletin
  /\ [NoBulletin EXCEPT !.employments = TRUE].employments
  <1>1. 0 \in 0..MaxEdits
    BY ControlAssumption
  <1>2. PICK b : b = [NoBulletin EXCEPT !.employments = TRUE]
    OBVIOUS
  <1>3. b = [employments |-> TRUE, text |-> 0]
    BY <1>2 DEF NoBulletin
  <1> QED BY <1>1, <1>2, <1>3 DEF NoBulletin, Bulletin

LEMMA OpeningSteps ==
  ASSUME ControlInv, NEW d \in Device,
         \/ CommitScan(d)
         \/ \E kind \in {"sans_lic", "lic_papier"} : OpenByHand(d, kind)
  PROVE  ControlInv'
  <1>1. CASE CommitScan(d)
    <2>1. PICK b : b = [NoBulletin EXCEPT !.employments = TRUE]
      OBVIOUS
    <2>2. PICK code : code = handling[d].code
      OBVIOUS
    <2>3. code \in 0..MaxQr
      BY <1>1, <2>2, OccupationShape, ControlAssumption DEF CommitScan, ControlInv
    <2>4. PICK c \in ControlId \ OpenControls :
            /\ UpdateControl(c, ControlOf("mobilic", code, FALSE, {}, b))
            /\ handling' = [handling EXCEPT ![d] = [doing |-> "report", of |-> c]]
      BY <1>1, <2>1, <2>2 DEF CommitScan
    <2>5. PICK r : r = ControlOf("mobilic", code, FALSE, {}, b)
      OBVIOUS
    <2>6. RowIsKept(r) /\ ~r.known /\ r.kind = "mobilic"
      <3>1. b \in Bulletin /\ b.employments
        BY <2>1, EmptyBulletin
      <3>2. PICK S : S = {}
        OBVIOUS
      <3>3. S \subseteq Infraction /\ OfOneVersionADay(S)
        BY <3>2, NoLicIsOfOneVersion
      <3>4. PICK k \in {"mobilic", "sans_lic", "lic_papier"}, known \in BOOLEAN :
              k = "mobilic" /\ known = FALSE
        OBVIOUS
      <3>5. r = ControlOf(k, code, known, S, b)
        BY <2>5, <3>2, <3>4
      <3>6. RowIsKept(ControlOf(k, code, known, S, b))
            /\ ControlOf(k, code, known, S, b).known = known
            /\ ControlOf(k, code, known, S, b).kind = k
        BY <2>3, <3>1, <3>3, <3>2, <3>4, NewRowIsKept
      <3> QED BY <3>4, <3>5, <3>6
    <2>7. PICK h : h = [doing |-> "report", of |-> c]
      OBVIOUS
    <2>8. h \in Occupation
      BY <2>7 DEF Occupation
    <2> QED BY <1>1, <2>4, <2>5, <2>6, <2>7, <2>8, OpeningStep DEF CommitScan, UpdateControl
  <1>2. ASSUME NEW kind \in {"sans_lic", "lic_papier"}, OpenByHand(d, kind)
        PROVE  ControlInv'
    <2>1. PICK c \in ControlId \ OpenControls, filled \in BOOLEAN :
            /\ UpdateControl(c, ControlOf(kind, 0, TRUE,
                               IF kind = "lic_papier" /\ filled THEN {} ELSE NoLic,
                               NoBulletin))
            /\ Occupy(d, [doing |-> "save", of |-> c])
      BY <1>2 DEF OpenByHand
    <2>2. PICK S : S = IF kind = "lic_papier" /\ filled THEN {} ELSE NoLic
      OBVIOUS
    <2>3. PICK r : r = ControlOf(kind, 0, TRUE, S, NoBulletin)
      OBVIOUS
    <2>4. S \subseteq Infraction /\ OfOneVersionADay(S)
      BY <2>2, NoLicIsOfOneVersion
    <2>5. RowIsKept(r)
      <3>1. 0 \in 0..MaxQr
        BY ControlAssumption
      <3> QED BY <2>3, <2>4, <3>1, NewRowIsKept, EmptyBulletin
    <2>6. PICK h : h = [doing |-> "save", of |-> c]
      OBVIOUS
    <2>7. h \in Occupation
      BY <2>6 DEF Occupation
    <2>8. controls' = [controls EXCEPT ![c] = r]
      BY <2>1, <2>2, <2>3 DEF UpdateControl
    <2>9. /\ handling' = [handling EXCEPT ![d] = h]
          /\ UNCHANGED <<recordedAlerts, computedFor, qr>>
      BY <1>2, <2>1, <2>6 DEF Occupy, OpenByHand
    <2>10. h.doing = "save" /\ h.of = c
      BY <2>6
    <2> QED BY <2>5, <2>7, <2>8, <2>9, <2>10, OpeningStep
  <1> QED BY <1>1, <1>2

\* The fields of a row.
LEMMA RowFields ==
  ASSUME NEW r \in ControlRow
  PROVE  \E ki, co, kn, ob, bu, sa, se, ma :
           /\ r = [kind |-> ki, code |-> co, known |-> kn, observed |-> ob, bulletin |-> bu,
                   saved |-> sa, sent |-> se, mailed |-> ma]
           /\ ki \in {"mobilic", "sans_lic", "lic_papier"} /\ co \in 0..MaxQr
           /\ kn \in BOOLEAN /\ ob \in SUBSET Infraction /\ bu \in Bulletin
           /\ sa \in BOOLEAN /\ se \in BOOLEAN /\ ma \in BOOLEAN
  <1>1. /\ r = [kind |-> r.kind, code |-> r.code, known |-> r.known, observed |-> r.observed,
                bulletin |-> r.bulletin, saved |-> r.saved, sent |-> r.sent, mailed |-> r.mailed]
        /\ r.kind \in {"mobilic", "sans_lic", "lic_papier"} /\ r.code \in 0..MaxQr
        /\ r.known \in BOOLEAN /\ r.observed \in SUBSET Infraction /\ r.bulletin \in Bulletin
        /\ r.saved \in BOOLEAN /\ r.sent \in BOOLEAN /\ r.mailed \in BOOLEAN
    BY DEF ControlRow
  <1> QED BY <1>1

LEMMA FreeIsHeld == MayHold(Unoccupied)
  BY DEF Occupation, Unoccupied, MayHold

\* The infractions of the day are found.
LEMMA ReportStep ==
  ASSUME ControlInv, NEW d \in Device, ReportInfractions(d)
  PROVE  ControlInv'
  <1>1. PICK c : c = handling[d].of
    OBVIOUS
  <1>2. PICK law \in {NoLic, {}} :
          UpdateControl(c, [controls[c] EXCEPT !.known = TRUE,
                                               !.observed = ComputedInfractions \cup law])
    BY <1>1 DEF ReportInfractions
  <1>3. PICK S : S = ComputedInfractions \cup law
    OBVIOUS
  <1>4. PICK old : old = controls[c]
    OBVIOUS
  <1>5. PICK r : r = [old EXCEPT !.known = TRUE, !.observed = S]
    OBVIOUS
  <1>6. c \in OpenControls /\ old.kind = "mobilic"
    BY <1>1, <1>4 DEF ReportInfractions, ControlInv, HeldControlIsOpen
  <1>7. RowIsKept(old)
    BY <1>4, <1>6 DEF ControlInv
  <1>8. S \subseteq Infraction /\ OfOneVersionADay(S)
    <2>1. ComputedInfractions \subseteq Infraction /\ OfOneVersionADay(ComputedInfractions)
      BY ComputedAreOfOneVersion DEF ControlInv
    <2>2. law \subseteq Infraction /\ \A i \in law : i.by \notin AlertVersion
      BY NoLicIsOfOneVersion DEF AlertVersion
    <2>3. S \subseteq Infraction
      BY <1>3, <2>1, <2>2
    <2>4. ASSUME NEW i \in S, NEW j \in S, i.day = j.day, {i.by, j.by} \subseteq AlertVersion
          PROVE  i.by = j.by
      BY <1>3, <2>1, <2>2, <2>4 DEF OfOneVersionADay
    <2> QED BY <2>3, <2>4 DEF OfOneVersionADay
  <1>9. PICK ki, co, kn, ob, bu, sa, se, ma :
           /\ old = [kind |-> ki, code |-> co, known |-> kn, observed |-> ob, bulletin |-> bu,
                     saved |-> sa, sent |-> se, mailed |-> ma]
           /\ ki \in {"mobilic", "sans_lic", "lic_papier"} /\ co \in 0..MaxQr
           /\ kn \in BOOLEAN /\ ob \in SUBSET Infraction /\ bu \in Bulletin
           /\ sa \in BOOLEAN /\ se \in BOOLEAN /\ ma \in BOOLEAN
    BY <1>7, RowFields DEF RowIsKept
  <1>10. r = [kind |-> ki, code |-> co, known |-> TRUE, observed |-> S, bulletin |-> bu,
              saved |-> sa, sent |-> se, mailed |-> ma]
    BY <1>5, <1>9
  <1>11. RowIsKept(r) /\ r.kind = old.kind
    BY <1>7, <1>8, <1>9, <1>10 DEF RowIsKept, ControlRow
  <1>12. controls' = [controls EXCEPT ![c] = r]
    BY <1>2, <1>3, <1>4, <1>5 DEF UpdateControl
  <1>13. \A e \in Device \ {d} : ~(handling[e].doing = "report" /\ handling[e].of = c)
    BY <1>1 DEF ReportInfractions, ControlInv, ReportsAlone
  <1>14. HeldControlIsOpen' /\ ReportsAlone' /\ handling' \in [Device -> Occupation]
    <2>1. r \in ControlRow
      BY <1>11 DEF RowIsKept
    <2>2. handling' = [handling EXCEPT ![d] = Unoccupied]
      BY DEF ReportInfractions, Vacate
    <2>3. r.kind = controls[c].kind
      BY <1>4, <1>11
    <2>4. SparesReports(d, c, r)
      BY <1>13 DEF SparesReports
    <2> QED BY <1>6, <1>12, <2>1, <2>2, <2>3, <2>4, FreeIsHeld, ReleaseHeld
  <1>15. c \in ControlId /\ UNCHANGED <<recordedAlerts, computedFor, qr>>
    BY <1>6 DEF OpenControls, ReportInfractions
  <1> QED BY <1>11, <1>12, <1>14, <1>15, WriteStep

\* A row changed in its bulletin and its marks is as sound as it was.
LEMMA MarkedRow ==
  ASSUME NEW r, NEW old, RowIsKept(old), NEW b \in Bulletin,
         b.employments = old.bulletin.employments,
         NEW sa \in BOOLEAN, NEW se \in BOOLEAN, NEW ma \in BOOLEAN,
         r = Marked(old, b, sa, se, ma)
  PROVE  /\ RowIsKept(r) /\ r.kind = old.kind /\ r.known = old.known /\ r \in ControlRow
         /\ r.observed = old.observed
  <1>1. PICK ki, co, kn, ob, bu, s, t, m :
           /\ old = [kind |-> ki, code |-> co, known |-> kn, observed |-> ob, bulletin |-> bu,
                     saved |-> s, sent |-> t, mailed |-> m]
           /\ ki \in {"mobilic", "sans_lic", "lic_papier"} /\ co \in 0..MaxQr
           /\ kn \in BOOLEAN /\ ob \in SUBSET Infraction /\ bu \in Bulletin
           /\ s \in BOOLEAN /\ t \in BOOLEAN /\ m \in BOOLEAN
    BY RowFields DEF RowIsKept
  <1>2. r = [kind |-> ki, code |-> co, known |-> kn, observed |-> ob, bulletin |-> b,
             saved |-> sa, sent |-> se, mailed |-> ma]
    BY <1>1 DEF Marked
  <1>3. r \in ControlRow
    BY <1>1, <1>2 DEF ControlRow
  <1> QED BY <1>1, <1>2, <1>3 DEF RowIsKept

LEMMA EditedBulletin ==
  ASSUME NEW b \in Bulletin, b.text < MaxEdits
  PROVE  /\ [b EXCEPT !.text = b.text + 1] \in Bulletin
         /\ [b EXCEPT !.text = b.text + 1].employments = b.employments
  <1>1. PICK e, t : b = [employments |-> e, text |-> t] /\ e \in BOOLEAN /\ t \in 0..MaxEdits
    BY DEF Bulletin
  <1>2. t + 1 \in 0..MaxEdits
    BY <1>1, ControlAssumption
  <1>3. [b EXCEPT !.text = b.text + 1] = [employments |-> e, text |-> t + 1]
    BY <1>1
  <1> QED BY <1>1, <1>2, <1>3 DEF Bulletin

\* A mark or a bulletin is written to a control that is open.
LEMMA MarkStep ==
  ASSUME ControlInv, NEW c \in OpenControls, NEW b \in Bulletin,
         b.employments = controls[c].bulletin.employments,
         NEW sa \in BOOLEAN, NEW se \in BOOLEAN, NEW ma \in BOOLEAN,
         UpdateControl(c, Marked(controls[c], b, sa, se, ma)),
         UNCHANGED <<recordedAlerts, computedFor, qr>>,
         \/ UNCHANGED handling
         \/ \E d \in Device, h \in Occupation : MayHold(h) /\ handling' = [handling EXCEPT ![d] = h]
  PROVE  ControlInv'
  <1>1. PICK old : old = controls[c]
    OBVIOUS
  <1>2. PICK r : r = Marked(old, b, sa, se, ma)
    OBVIOUS
  <1>3. RowIsKept(old)
    BY <1>1 DEF ControlInv
  <1>4. RowIsKept(r) /\ r.kind = old.kind /\ r.known = old.known /\ r \in ControlRow
    BY <1>1, <1>2, <1>3, MarkedRow
  <1>5. controls' = [controls EXCEPT ![c] = r]
    BY <1>1, <1>2 DEF UpdateControl
  <1>6. c \in ControlId /\ r.kind = controls[c].kind
    BY <1>1, <1>4 DEF OpenControls
  <1>7. HeldControlIsOpen' /\ ReportsAlone' /\ handling' \in [Device -> Occupation]
    <2>1. CASE UNCHANGED handling
      <3>1. ~controls[c].known => ~r.known
        BY <1>1, <1>4
      <3>2. HeldControlIsOpen' /\ ReportsAlone'
        BY <1>4, <1>5, <1>6, <2>1, <3>1, RewriteHeld
      <3> QED BY <2>1, <3>2 DEF ControlInv
    <2>2. ASSUME NEW d \in Device, NEW h \in Occupation, MayHold(h), handling' = [handling EXCEPT ![d] = h]
          PROVE  HeldControlIsOpen' /\ ReportsAlone' /\ handling' \in [Device -> Occupation]
      <3>1. SparesReports(d, c, r)
        BY <1>1, <1>4 DEF ControlInv, HeldControlIsOpen, SparesReports
      <3> QED BY <1>4, <1>5, <1>6, <2>2, <3>1, ReleaseHeld
    <2> QED BY <2>1, <2>2
  <1> QED BY <1>4, <1>5, <1>6, <1>7, WriteStep

LEMMA MarkSteps ==
  ASSUME ControlInv,
         \/ \E d \in Device : \/ SaveFirstBulletin(d) \/ CommitSent(d)
                              \/ \E c \in OpenControls : SendMail(d, c)
         \/ \E c \in OpenControls : SaveBulletin(c)
  PROVE  ControlInv'
  <1>1. ASSUME NEW c \in OpenControls
        PROVE  /\ controls[c].bulletin \in Bulletin /\ controls[c].saved \in BOOLEAN
               /\ controls[c].sent \in BOOLEAN /\ controls[c].mailed \in BOOLEAN
               /\ controls[c] \in ControlRow
    BY DEF ControlInv, RowIsKept, ControlRow
  <1>2. ASSUME NEW r \in ControlRow, NEW b
        PROVE  /\ [r EXCEPT !.bulletin = b] = Marked(r, b, r.saved, r.sent, r.mailed)
               /\ \A t : [r EXCEPT !.sent = t] = Marked(r, r.bulletin, r.saved, t, r.mailed)
               /\ \A m : [r EXCEPT !.mailed = m] = Marked(r, r.bulletin, r.saved, r.sent, m)
               /\ \A s, t, m : [r EXCEPT !.bulletin = b, !.saved = s, !.mailed = m, !.sent = t]
                                 = Marked(r, b, s, t, m)
    <2>1. PICK ki, co, kn, ob, bu, sa, se, ma :
            r = [kind |-> ki, code |-> co, known |-> kn, observed |-> ob, bulletin |-> bu,
                 saved |-> sa, sent |-> se, mailed |-> ma]
      BY RowFields
    <2> QED BY <2>1 DEF Marked
  <1>3. ASSUME NEW d \in Device, SaveFirstBulletin(d) PROVE ControlInv'
    <2>1. PICK c : c = handling[d].of
      OBVIOUS
    <2>2. c \in OpenControls
      BY <1>3, <2>1 DEF SaveFirstBulletin, ControlInv, HeldControlIsOpen
    <2>3. PICK old : old = controls[c]
      OBVIOUS
    <2>4. PICK b : b = [old.bulletin EXCEPT !.text = old.bulletin.text + 1]
      OBVIOUS
    <2>5. b \in Bulletin /\ b.employments = old.bulletin.employments
      BY <1>1, <1>3, <2>1, <2>2, <2>3, <2>4, EditedBulletin DEF SaveFirstBulletin
    <2>6. controls' = [controls EXCEPT ![c] = [old EXCEPT !.bulletin = b]]
      <3>1. controls' = [controls EXCEPT ![c] = [old EXCEPT !.bulletin.text = @ + 1]]
        BY <1>3, <2>1, <2>3 DEF SaveFirstBulletin, UpdateControl
      <3>2. [old EXCEPT !.bulletin.text = @ + 1] = [old EXCEPT !.bulletin = b]
        BY <2>4
      <3> QED BY <3>1, <3>2
    <2>7. UpdateControl(c, Marked(controls[c], b, controls[c].saved, controls[c].sent,
                                  controls[c].mailed))
      BY <1>1, <1>2, <2>2, <2>3, <2>6 DEF UpdateControl
    <2>8. \E e \in Device, h \in Occupation : MayHold(h) /\ handling' = [handling EXCEPT ![e] = h]
      BY <1>3, FreeIsHeld DEF SaveFirstBulletin, Vacate, MayHold
    <2>9. b.employments = controls[c].bulletin.employments
      BY <2>3, <2>5
    <2> QED BY <1>1, <1>3, <2>2, <2>5, <2>7, <2>8, <2>9, MarkStep DEF SaveFirstBulletin
  <1>4. ASSUME NEW d \in Device, CommitSent(d) PROVE ControlInv'
    <2>1. PICK c : c = handling[d].of
      OBVIOUS
    <2>2. c \in OpenControls
      BY <1>4, <2>1 DEF CommitSent, ControlInv, HeldControlIsOpen
    <2>3. UpdateControl(c, Marked(controls[c], controls[c].bulletin, controls[c].saved, TRUE,
                                  controls[c].mailed))
      BY <1>1, <1>2, <1>4, <2>1, <2>2 DEF CommitSent
    <2>4. \E e \in Device, h \in Occupation : MayHold(h) /\ handling' = [handling EXCEPT ![e] = h]
      BY <1>4, FreeIsHeld DEF CommitSent, Vacate, MayHold
    <2> QED BY <1>1, <1>4, <2>2, <2>3, <2>4, MarkStep DEF CommitSent
  <1>5. ASSUME NEW d \in Device, NEW c \in OpenControls, SendMail(d, c) PROVE ControlInv'
    <2>1. UpdateControl(c, Marked(controls[c], controls[c].bulletin, controls[c].saved,
                                  controls[c].sent, TRUE))
      BY <1>1, <1>2, <1>5 DEF SendMail
    <2>2. PICK h : h = [doing |-> "send", of |-> c]
      OBVIOUS
    <2>3. MayHold(h) /\ h \in Occupation
      BY <2>2 DEF MayHold, Occupation, OpenControls
    <2>4. \E e \in Device, g \in Occupation : MayHold(g) /\ handling' = [handling EXCEPT ![e] = g]
      BY <1>5, <2>2, <2>3 DEF SendMail, Occupy
    <2> QED BY <1>1, <1>5, <2>1, <2>4, MarkStep DEF SendMail
  <1>6. ASSUME NEW c \in OpenControls, SaveBulletin(c) PROVE ControlInv'
    <2>1. PICK old : old = controls[c]
      OBVIOUS
    <2>2. PICK b : b = FilledIn(old.bulletin)
      OBVIOUS
    <2>3. b \in Bulletin /\ b.employments = old.bulletin.employments
      BY <1>1, <1>6, <2>1, <2>2, EditedBulletin DEF SaveBulletin, FilledIn
    <2>4. PICK se \in BOOLEAN : se = IF old.saved THEN FALSE ELSE old.sent
      BY <1>1, <2>1
    <2>5. controls' = [controls EXCEPT ![c] =
                         [old EXCEPT !.bulletin = b, !.saved = TRUE, !.mailed = FALSE, !.sent = se]]
      BY <1>6, <2>1, <2>2, <2>4 DEF SaveBulletin, UpdateControl
    <2>6. UpdateControl(c, Marked(controls[c], b, TRUE, se, FALSE))
      <3>1. old \in ControlRow
        BY <1>1, <2>1
      <3>2. PICK ki, co, kn, ob, bu, s, t, m :
              old = [kind |-> ki, code |-> co, known |-> kn, observed |-> ob, bulletin |-> bu,
                     saved |-> s, sent |-> t, mailed |-> m]
        BY <3>1, RowFields
      <3>3. [old EXCEPT !.bulletin = b, !.saved = TRUE, !.mailed = FALSE, !.sent = se]
              = Marked(old, b, TRUE, se, FALSE)
        BY <3>2 DEF Marked
      <3> QED BY <2>1, <2>5, <3>3 DEF UpdateControl
    <2>7. b.employments = controls[c].bulletin.employments /\ UNCHANGED handling
      BY <1>6, <2>1, <2>3 DEF SaveBulletin
    <2> QED BY <1>6, <2>3, <2>6, <2>7, MarkStep DEF SaveBulletin
  <1> QED BY <1>3, <1>4, <1>5, <1>6

\* What the controller retains and adds is of the versions that were there.
LEMMA RetainedAreOfOneVersion ==
  ASSUME NEW S, S \subseteq Infraction, OfOneVersionADay(S), NEW keys,
         keys \subseteq {InfractionKey(i) : i \in S} \cup {<<0, "extra">>}
  PROVE  /\ OnPaper(keys) \subseteq Infraction /\ OfOneVersionADay(OnPaper(keys))
         /\ Retained(S, keys) \cup NewCustom(Retained(S, keys), keys) \subseteq Infraction
         /\ OfOneVersionADay(Retained(S, keys) \cup NewCustom(Retained(S, keys), keys))
  <1>1. \A k \in keys : /\ k[1] \in 0..1 /\ k[2] \in {"natinf", "plain", "no_lic", "extra"}
    BY DEF InfractionKey, Infraction
  <1> DEFINE Own(k) == [day |-> k[1], sanction |-> k[2], by |-> "controller", reported |-> TRUE]
  <1>a. \A k \in keys : Own(k) \in Infraction /\ Own(k).by = "controller"
    BY <1>1 DEF Infraction
  <1>b. OnPaper(keys) = {Own(k) : k \in keys}
    BY DEF OnPaper
  <1>c. ASSUME NEW T PROVE NewCustom(T, keys) \subseteq {Own(k) : k \in keys}
    BY DEF NewCustom
  <1> HIDE DEF Own
  <1>2. /\ OnPaper(keys) \subseteq Infraction
        /\ \A i \in OnPaper(keys) : i.by = "controller"
    BY <1>a, <1>b
  <1>3. \A T : /\ NewCustom(T, keys) \subseteq Infraction
               /\ \A i \in NewCustom(T, keys) : i.by = "controller"
    BY <1>a, <1>c
  <1>4. ASSUME NEW i \in Retained(S, keys)
        PROVE  i \in Infraction /\ \E j \in S : j.day = i.day /\ j.by = i.by
    <2>1. PICK j \in S : i = [j EXCEPT !.reported = InfractionKey(j) \in keys]
      BY DEF Retained
    <2>2. PICK da, sc, wh, re : j = [day |-> da, sanction |-> sc, by |-> wh, reported |-> re]
            /\ da \in 0..1 /\ sc \in {"natinf", "plain", "no_lic", "extra"}
            /\ wh \in AlertVersion \cup {"law", "controller"}
      BY DEF Infraction
    <2>3. i = [day |-> da, sanction |-> sc, by |-> wh, reported |-> InfractionKey(j) \in keys]
      BY <2>1, <2>2
    <2>4. (InfractionKey(j) \in keys) \in BOOLEAN
      OBVIOUS
    <2>5. i \in Infraction
      BY <2>2, <2>3, <2>4 DEF Infraction
    <2> QED BY <2>2, <2>3, <2>5
  <1>5. OfOneVersionADay(OnPaper(keys))
    BY <1>2 DEF OfOneVersionADay, AlertVersion
  <1>6. PICK T : T = NewCustom(Retained(S, keys), keys)
    OBVIOUS
  <1>7. PICK R : R = Retained(S, keys)
    OBVIOUS
  <1>8. OfOneVersionADay(R \cup T)
    <2>1. SUFFICES ASSUME NEW i \in R \cup T, NEW j \in R \cup T, i.day = j.day,
                          i.by \in AlertVersion, j.by \in AlertVersion
                   PROVE  i.by = j.by
      BY DEF OfOneVersionADay
    <2>2. i \in R /\ j \in R
      BY <1>3, <1>6, <2>1 DEF AlertVersion
    <2>3. PICK k \in S, l \in S : k.day = i.day /\ k.by = i.by /\ l.day = j.day /\ l.by = j.by
      BY <1>4, <1>7, <2>2
    <2> QED BY <2>1, <2>3 DEF OfOneVersionADay
  <1> QED BY <1>2, <1>3, <1>4, <1>5, <1>6, <1>7, <1>8

LEMMA SaveInfractionsStep ==
  ASSUME ControlInv, NEW c \in OpenControls, SaveInfractions(c)
  PROVE  ControlInv'
  <1>1. PICK old : old = controls[c]
    OBVIOUS
  <1>2. RowIsKept(old) /\ old.known
    BY <1>1 DEF ControlInv, SaveInfractions, HasInfractions
  <1>3. PICK keys \in SUBSET ({InfractionKey(i) : i \in old.observed} \cup {<<0, "extra">>}) :
          UpdateControl(c, [old EXCEPT !.observed =
                              IF old.kind = "lic_papier" THEN OnPaper(keys)
                              ELSE LET S == Retained(old.observed, keys)
                                   IN S \cup NewCustom(S, keys),
                            !.sent = FALSE, !.mailed = FALSE])
    BY <1>1 DEF SaveInfractions
  <1>4. PICK S : S = IF old.kind = "lic_papier" THEN OnPaper(keys)
                     ELSE Retained(old.observed, keys) \cup NewCustom(Retained(old.observed, keys), keys)
    OBVIOUS
  <1>5. S \subseteq Infraction /\ OfOneVersionADay(S)
    <2>1. old.observed \subseteq Infraction /\ OfOneVersionADay(old.observed)
      BY <1>2 DEF RowIsKept, ControlRow
    <2> QED BY <1>4, <2>1, RetainedAreOfOneVersion
  <1>6. PICK r : r = [old EXCEPT !.observed = S, !.sent = FALSE, !.mailed = FALSE]
    OBVIOUS
  <1>7. controls' = [controls EXCEPT ![c] = r]
    BY <1>3, <1>4, <1>6 DEF UpdateControl
  <1>8. PICK ki, co, kn, ob, bu, sa, se, ma :
           /\ old = [kind |-> ki, code |-> co, known |-> kn, observed |-> ob, bulletin |-> bu,
                     saved |-> sa, sent |-> se, mailed |-> ma]
           /\ ki \in {"mobilic", "sans_lic", "lic_papier"} /\ co \in 0..MaxQr
           /\ kn \in BOOLEAN /\ ob \in SUBSET Infraction /\ bu \in Bulletin
           /\ sa \in BOOLEAN /\ se \in BOOLEAN /\ ma \in BOOLEAN
    BY <1>2, RowFields DEF RowIsKept
  <1>9. r = [kind |-> ki, code |-> co, known |-> kn, observed |-> S, bulletin |-> bu,
             saved |-> sa, sent |-> FALSE, mailed |-> FALSE]
    BY <1>6, <1>8
  <1>10. r \in ControlRow
    BY <1>5, <1>8, <1>9 DEF ControlRow
  <1>11. RowIsKept(r) /\ r.kind = controls[c].kind
    BY <1>1, <1>2, <1>5, <1>8, <1>9, <1>10 DEF RowIsKept
  <1>12. UNCHANGED <<recordedAlerts, computedFor, qr, handling>>
    BY DEF SaveInfractions
  <1>13. HeldControlIsOpen' /\ ReportsAlone'
    <2>1. ~controls[c].known => ~r.known
      BY <1>1, <1>2
    <2> QED BY <1>7, <1>10, <1>11, <1>12, <2>1, RewriteHeld
  <1>14. c \in ControlId /\ handling' \in [Device -> Occupation]
    BY <1>12 DEF OpenControls, ControlInv
  <1> QED BY <1>7, <1>11, <1>12, <1>13, <1>14, WriteStep

LEMMA ControlStep == ControlInv /\ [ControlNext]_controlVars => ControlInv'
  <1> SUFFICES ASSUME ControlInv, [ControlNext]_controlVars PROVE ControlInv'
    OBVIOUS
  <1>1. CASE UNCHANGED controlVars
    BY <1>1 DEF controlVars, ControlInv, OpenControls, HeldControlIsOpen, ReportsAlone
  <1>2. CASE \/ ComputeAdminVersion \/ ShowCode
             \/ \E d \in Device : BeginScan(d) \/ AbandonControl(d)
    BY <1>2, RowlessSteps
  <1>3. ASSUME NEW d \in Device,
               \/ CommitScan(d) \/ ReportInfractions(d)
               \/ \E kind \in {"sans_lic", "lic_papier"} : OpenByHand(d, kind)
        PROVE  ControlInv'
    BY <1>3, OpeningSteps, ReportStep
  <1>4. CASE \/ \E d \in Device : \/ SaveFirstBulletin(d) \/ CommitSent(d)
                                  \/ \E c \in OpenControls : SendMail(d, c)
             \/ \E c \in OpenControls : SaveBulletin(c)
    BY <1>4, MarkSteps
  <1>5. ASSUME NEW c \in OpenControls, SaveInfractions(c) PROVE ControlInv'
    BY <1>5, SaveInfractionsStep
  <1> QED BY <1>1, <1>2, <1>3, <1>4, <1>5 DEF ControlNext

\* The infractions found when a control was opened are no longer changed.
FindingsStay ==
  \A c \in OpenControls :
    controls[c].known /\ controls[c].kind # "lic_papier" =>
      {InfractionKey(i) : i \in {i \in controls[c].observed : i.by # "controller"}}
        = {InfractionKey(i) : i \in {i \in controls'[c].observed : i.by # "controller"}}

LEMMA RetainedKeepsFindings ==
  ASSUME NEW S, S \subseteq Infraction, NEW keys, NEW T,
         T = Retained(S, keys) \cup NewCustom(Retained(S, keys), keys)
  PROVE  {InfractionKey(i) : i \in {i \in S : i.by # "controller"}}
           = {InfractionKey(i) : i \in {i \in T : i.by # "controller"}}
  <1> DEFINE Told(i) == [i EXCEPT !.reported = InfractionKey(i) \in keys]
  <1>1. ASSUME NEW i \in S
        PROVE  /\ Told(i).by = i.by /\ InfractionKey(Told(i)) = InfractionKey(i)
               /\ Told(i).reported = (InfractionKey(i) \in keys)
    <2>1. PICK da, sc, wh, re : i = [day |-> da, sanction |-> sc, by |-> wh, reported |-> re]
      BY DEF Infraction
    <2>2. Told(i) = [day |-> da, sanction |-> sc, by |-> wh, reported |-> InfractionKey(i) \in keys]
      BY <2>1
    <2> QED BY <2>1, <2>2 DEF InfractionKey
  <1>2. Retained(S, keys) = {j \in {Told(i) : i \in S} : j.by = "controller" => j.reported}
    BY DEF Retained
  <1>3. \A i \in NewCustom(Retained(S, keys), keys) : i.by = "controller"
    BY DEF NewCustom
  <1> HIDE DEF Told
  <1>4. ASSUME NEW i \in S, i.by # "controller"
        PROVE  Told(i) \in T /\ Told(i).by # "controller"
    BY <1>1, <1>2, <1>4
  <1>5. ASSUME NEW j \in T, j.by # "controller"
        PROVE  \E i \in S : i.by # "controller" /\ InfractionKey(i) = InfractionKey(j)
    BY <1>1, <1>2, <1>3, <1>5
  <1> QED BY <1>1, <1>4, <1>5

LEMMA FindingsStep == ControlInv /\ [ControlNext]_controlVars => FindingsStay
  <1> SUFFICES ASSUME ControlInv, [ControlNext]_controlVars,
                      NEW c \in OpenControls, controls[c].known, controls[c].kind # "lic_papier"
               PROVE  {InfractionKey(i) : i \in {i \in controls[c].observed : i.by # "controller"}}
                        = {InfractionKey(i) : i \in {i \in controls'[c].observed : i.by # "controller"}}
    BY DEF FindingsStay
  <1>1. PICK old : old = controls[c]
    OBVIOUS
  <1>2. c \in ControlId /\ old \in ControlRow
    BY <1>1 DEF OpenControls, ControlInv
  <1>3. \A b, s, t, m : Marked(old, b, s, t, m).observed = old.observed
    <2>1. PICK ki, co, kn, ob, bu, sa, se, ma :
            old = [kind |-> ki, code |-> co, known |-> kn, observed |-> ob, bulletin |-> bu,
                   saved |-> sa, sent |-> se, mailed |-> ma]
      BY <1>2, RowFields
    <2> QED BY <2>1 DEF Marked
  <1>4. CASE controls'[c].observed = old.observed
    BY <1>1, <1>4
  <1>5. ASSUME NEW d \in ControlId, d # c, NEW r, UpdateControl(d, r)
        PROVE  controls'[c].observed = old.observed
    BY <1>1, <1>5 DEF UpdateControl, ControlInv
  <1>6. CASE UNCHANGED controls
    BY <1>1, <1>6
  <1>7. CASE SaveInfractions(c)
    <2>1. PICK keys \in SUBSET ({InfractionKey(i) : i \in old.observed} \cup {<<0, "extra">>}) :
            UpdateControl(c, [old EXCEPT !.observed =
                                IF old.kind = "lic_papier" THEN OnPaper(keys)
                                ELSE LET S == Retained(old.observed, keys)
                                     IN S \cup NewCustom(S, keys),
                              !.sent = FALSE, !.mailed = FALSE])
      BY <1>1, <1>7 DEF SaveInfractions
    <2>2. PICK T : T = Retained(old.observed, keys) \cup NewCustom(Retained(old.observed, keys), keys)
      OBVIOUS
    <2>3. UpdateControl(c, [old EXCEPT !.observed = T, !.sent = FALSE, !.mailed = FALSE])
      BY <1>1, <2>1, <2>2
    <2>4. PICK r : r = [old EXCEPT !.observed = T, !.sent = FALSE, !.mailed = FALSE]
      OBVIOUS
    <2>5. r.observed = T
      <3>1. PICK ki, co, kn, ob, bu, sa, se, ma :
              old = [kind |-> ki, code |-> co, known |-> kn, observed |-> ob, bulletin |-> bu,
                     saved |-> sa, sent |-> se, mailed |-> ma]
        BY <1>2, RowFields
      <3>2. r = [kind |-> ki, code |-> co, known |-> kn, observed |-> T, bulletin |-> bu,
                 saved |-> sa, sent |-> FALSE, mailed |-> FALSE]
        BY <2>4, <3>1
      <3> QED BY <3>2
    <2>6. controls'[c] = r
      BY <1>2, <2>3, <2>4 DEF UpdateControl, ControlInv
    <2>7. controls'[c].observed = T /\ old.observed \subseteq Infraction
      BY <1>2, <2>5, <2>6 DEF ControlRow
    <2>8. PICK S : S = old.observed
      OBVIOUS
    <2>9. {InfractionKey(i) : i \in {i \in S : i.by # "controller"}}
            = {InfractionKey(i) : i \in {i \in T : i.by # "controller"}}
      BY <2>2, <2>7, <2>8, RetainedKeepsFindings
    <2> QED BY <1>1, <2>7, <2>8, <2>9
  <1>8. ASSUME NEW d \in ControlId \ OpenControls, NEW r, UpdateControl(d, r)
        PROVE  controls'[c].observed = old.observed
    BY <1>5, <1>8
  <1>9. ASSUME NEW b, NEW s, NEW t, NEW m, UpdateControl(c, Marked(old, b, s, t, m))
        PROVE  controls'[c].observed = old.observed
    <2>1. PICK r : r = Marked(old, b, s, t, m)
      OBVIOUS
    <2>2. controls'[c] = r
      BY <1>2, <1>9, <2>1 DEF UpdateControl, ControlInv
    <2> QED BY <1>3, <2>1, <2>2
  <1>10. ASSUME NEW o \in OpenControls
         PROVE  controls[o] \in ControlRow /\ o \in ControlId
    BY DEF ControlInv, OpenControls
  <1>11. CASE UNCHANGED controlVars \/ ComputeAdminVersion \/ ShowCode
    BY <1>6, <1>11 DEF controlVars, ComputeAdminVersion, ShowCode
  <1>12. ASSUME NEW d \in Device, BeginScan(d) \/ AbandonControl(d)
         PROVE  UNCHANGED controls
    BY <1>12 DEF BeginScan, AbandonControl
  <1>13. ASSUME NEW d \in Device,
                CommitScan(d) \/ \E kind \in {"sans_lic", "lic_papier"} : OpenByHand(d, kind)
         PROVE  controls'[c].observed = old.observed
    BY <1>8, <1>13 DEF CommitScan, OpenByHand
  <1>14. ASSUME NEW d \in Device, ReportInfractions(d)
         PROVE  controls'[c].observed = old.observed
    <2>1. PICK o, r : o = handling[d].of /\ UpdateControl(o, r)
      BY <1>14 DEF ReportInfractions
    <2>2. o \in OpenControls /\ ~controls[o].known
      BY <1>14, <2>1 DEF ReportInfractions, ControlInv, HeldControlIsOpen
    <2> QED BY <1>5, <1>10, <2>1, <2>2
  <1>15. ASSUME NEW o \in OpenControls, NEW b, UpdateControl(o, b),
                o = c => b.observed = old.observed
         PROVE  controls'[c].observed = old.observed
    BY <1>2, <1>5, <1>10, <1>15 DEF UpdateControl, ControlInv
  <1>16. PICK ki, co, kn, ob, bu, sa, se, ma :
           old = [kind |-> ki, code |-> co, known |-> kn, observed |-> ob, bulletin |-> bu,
                  saved |-> sa, sent |-> se, mailed |-> ma]
    BY <1>2, RowFields
  <1>17. ASSUME NEW d \in Device, SaveFirstBulletin(d)
         PROVE  controls'[c].observed = old.observed
    <2>1. PICK o : o = handling[d].of
      OBVIOUS
    <2>2. PICK r : r = [controls[o] EXCEPT !.bulletin.text = @ + 1]
      OBVIOUS
    <2>3. o \in OpenControls /\ UpdateControl(o, r)
      BY <1>17, <2>1, <2>2 DEF SaveFirstBulletin, ControlInv, HeldControlIsOpen
    <2>4. o = c => r.observed = old.observed
      <3>1. SUFFICES ASSUME o = c PROVE r.observed = old.observed
        OBVIOUS
      <3>2. r = [old EXCEPT !.bulletin.text = @ + 1]
        BY <1>1, <2>2, <3>1
      <3> QED BY <1>16, <3>2
    <2> QED BY <1>15, <2>3, <2>4
  <1>18. ASSUME NEW d \in Device, CommitSent(d)
         PROVE  controls'[c].observed = old.observed
    <2>1. PICK o : o = handling[d].of
      OBVIOUS
    <2>2. PICK r : r = [controls[o] EXCEPT !.sent = TRUE]
      OBVIOUS
    <2>3. o \in OpenControls /\ UpdateControl(o, r)
      BY <1>18, <2>1, <2>2 DEF CommitSent, ControlInv, HeldControlIsOpen
    <2>4. o = c => r.observed = old.observed
      <3>1. SUFFICES ASSUME o = c PROVE r.observed = old.observed
        OBVIOUS
      <3>2. r = [old EXCEPT !.sent = TRUE]
        BY <1>1, <2>2, <3>1
      <3> QED BY <1>16, <3>2
    <2> QED BY <1>15, <2>3, <2>4
  <1>19. ASSUME NEW d \in Device, NEW o \in OpenControls, SendMail(d, o)
         PROVE  controls'[c].observed = old.observed
    <2>1. PICK r : r = [controls[o] EXCEPT !.mailed = TRUE]
      OBVIOUS
    <2>2. UpdateControl(o, r)
      BY <1>19, <2>1 DEF SendMail
    <2>3. o = c => r.observed = old.observed
      <3>1. SUFFICES ASSUME o = c PROVE r.observed = old.observed
        OBVIOUS
      <3>2. r = [old EXCEPT !.mailed = TRUE]
        BY <1>1, <2>1, <3>1
      <3> QED BY <1>16, <3>2
    <2> QED BY <1>15, <2>2, <2>3
  <1>20. ASSUME NEW o \in OpenControls, SaveBulletin(o)
         PROVE  controls'[c].observed = old.observed
    <2>1. PICK r : r = [controls[o] EXCEPT !.bulletin = FilledIn(controls[o].bulletin), !.saved = TRUE,
                          !.mailed = FALSE, !.sent = IF controls[o].saved THEN FALSE ELSE controls[o].sent]
      OBVIOUS
    <2>2. UpdateControl(o, r)
      BY <1>20, <2>1 DEF SaveBulletin
    <2>3. o = c => r.observed = old.observed
      <3>1. SUFFICES ASSUME o = c PROVE r.observed = old.observed
        OBVIOUS
      <3>2. r = [old EXCEPT !.bulletin = FilledIn(old.bulletin), !.saved = TRUE,
                            !.mailed = FALSE, !.sent = IF old.saved THEN FALSE ELSE old.sent]
        BY <1>1, <2>1, <3>1
      <3> QED BY <1>16, <3>2
    <2> QED BY <1>15, <2>2, <2>3
  <1>21. ASSUME NEW o \in OpenControls, o # c, SaveInfractions(o)
         PROVE  controls'[c].observed = old.observed
    <2>1. PICK r : UpdateControl(o, r)
      BY <1>21 DEF SaveInfractions
    <2> QED BY <1>5, <1>10, <1>21, <2>1
  <1> QED
    BY <1>4, <1>6, <1>7, <1>11, <1>12, <1>13, <1>14, <1>17, <1>18, <1>19, <1>20, <1>21 DEF ControlNext

LEMMA ControlInvSays == ControlInv => ControlTypeOK /\ OneVersionADay /\ EmploymentsStayRecorded
  BY DEF ControlInv, ControlTypeOK, OneVersionADay, EmploymentsStayRecorded, RowIsKept, OfOneVersionADay

\* What a control found stays as it was found, from one version of each day,
\* with the employments of that time (ControlStands), for any number of
\* requests, controls, codes and edits.
THEOREM ControlsStand == ControlSpec => ControlStands
  <1>1. ControlSpec => []ControlInv
    BY ControlInitially, ControlStep, PTL DEF ControlSpec
  <1>2. ControlSpec => [][FindingsStay]_controlVars
    BY <1>1, FindingsStep, PTL DEF ControlSpec
  <1>3. [][FindingsStay]_controlVars => ComputedInfractionsStay
    BY PTL DEF FindingsStay, ComputedInfractionsStay
  <1>4. ControlSpec => []ControlTypeOK /\ []OneVersionADay /\ []EmploymentsStayRecorded
    BY <1>1, ControlInvSays, PTL
  <1> QED BY <1>1, <1>2, <1>3, <1>4 DEF ControlStands

-----------------------------------------------------------------------------
(* Places and readings of a mission.  What a request has read of a mission *)
(* nobody else records on is still so when it writes.                      *)

EntryRow == [row : 1..MaxEntryRows, spot : Spot, km : 0..MaxReading]

EntryTask ==
  [op : {"add", "read", "replace"}, trip : Trip, at : End, spot : Spot, km : 0..MaxReading,
   row : 0..MaxEntryRows, truck : Truck \cup {NoTruck}]

\* A request plans what the row it has read allows, and a reading has a vehicle.
TaskIsPlanned(q) ==
  /\ q.op = "add" => q.row = 0
  /\ q.op \in {"read", "replace"} => q.row # 0
  /\ q.op = "read" => q.km # 0
  /\ q.km # 0 => truckOf[q.trip] # NoTruck

IsAlone(m) == \A r, s \in Under(m) : r = s

OrderIsKept(r) ==
  request[r].trip \notin together /\ request[r].km # 0 =>
    Ordered(request[r].trip, request[r].at, request[r].km)

RecordInv ==
  /\ truckOf \in [Trip -> Truck \cup {NoTruck}]
  /\ odometer \in [Truck -> 0..MaxReading]
  /\ entry \in [Trip -> [End -> {NoEntry} \cup EntryRow]]
  /\ request \in [RecordRequest -> {NoRecord} \cup EntryTask]
  /\ \A m \in Trip, k \in End :
       entry[m][k] # NoEntry => (entry[m][k].km # 0 => truckOf[m] # NoTruck)
  /\ \A r \in RecordRequest : request[r] # NoRecord => TaskIsPlanned(request[r])
  /\ \A m \in Trip \ together : IsAlone(m)
  /\ \A r \in RecordRequest : request[r] # NoRecord => OrderIsKept(r)
  /\ ReadingsGrow
  /\ expense \subseteq [trip : Trip, day : 1..LastTripDay, dismissed : BOOLEAN]

LEMMA EntryShape ==
  ASSUME NEW e \in {NoEntry} \cup EntryRow
  PROVE  /\ e.row \in 0..MaxEntryRows
         /\ e.row = 0 <=> e = NoEntry
         /\ e # NoEntry => e \in EntryRow
         /\ Reading(e) \in 0..MaxReading
  <1>1. CASE e = NoEntry
    <2>1. e.row = 0 /\ 0 \in 0..MaxEntryRows /\ 0 \in 0..MaxReading
      BY <1>1, RecordAssumption DEF NoEntry
    <2> QED BY <1>1, <2>1 DEF Reading
  <1>2. CASE e \in EntryRow
    <2>1. e.row \in 1..MaxEntryRows /\ e.km \in 0..MaxReading
      BY <1>2 DEF EntryRow
    <2>2. e.row # 0 /\ e.row \in 0..MaxEntryRows
      BY <2>1, RecordAssumption
    <2>3. e # NoEntry
      BY <2>2 DEF NoEntry
    <2> QED BY <1>2, <2>1, <2>2, <2>3 DEF Reading
  <1> QED BY <1>1, <1>2

LEMMA TaskShape ==
  ASSUME NEW q \in {NoRecord} \cup EntryTask
  PROVE  /\ q # NoRecord <=> q.op # "none"
         /\ q # NoRecord => q \in EntryTask
  BY DEF NoRecord, EntryTask

LEMMA RecordInitially == RecordInit => RecordInv
  <1> SUFFICES ASSUME RecordInit PROVE RecordInv OBVIOUS
  <1>1. /\ entry \in [Trip -> [End -> {NoEntry} \cup EntryRow]]
        /\ \A m \in Trip, k \in End : entry[m][k] = NoEntry
    BY DEF RecordInit
  <1>2. 0 \in 0..MaxReading
    BY RecordAssumption
  <1>3. \A r \in RecordRequest : request[r] = NoRecord /\ request[r].op = "none"
    BY DEF RecordInit, NoRecord
  <1>4. ReadingsGrow
    BY <1>1 DEF ReadingsGrow, Reading, NoEntry, End
  <1> QED BY <1>1, <1>2, <1>3, <1>4 DEF RecordInit, RecordInv, IsAlone, Under

\* A request begins.
LEMMA StartStep ==
  ASSUME RecordInv, NEW r \in RecordRequest, NEW m \in Trip, NEW k \in End, NEW op, NEW spot \in Spot,
         NEW km \in 0..MaxReading, Starts(r, m, k, op, spot, km),
         op \in {"add", "read", "replace"}, op = "add" <=> entry[m][k].row = 0,
         op = "read" => km # 0, MayRegister(m, k, km)
  PROVE  RecordInv'
  <1>1. PICK q : q = [op |-> op, trip |-> m, at |-> k, spot |-> spot, km |-> km,
                      row |-> entry[m][k].row, truck |-> truckOf[m]]
    OBVIOUS
  <1>2. /\ request[r] = NoRecord /\ request' = [request EXCEPT ![r] = q]
        /\ together' = IF Under(m) = {} THEN together ELSE together \cup {m}
        /\ UNCHANGED <<truckOf, entry, odometer, workSpan, expense, comment>>
    BY <1>1 DEF Starts
  <1>3. entry[m][k].row \in 0..MaxEntryRows
    BY EntryShape DEF RecordInv
  <1>4. q \in EntryTask
    BY <1>1, <1>3 DEF RecordInv, EntryTask
  <1>5. q # NoRecord /\ q.op # "none"
    BY <1>4, TaskShape DEF EntryTask
  <1>6. /\ request' \in [RecordRequest -> {NoRecord} \cup EntryTask] /\ request'[r] = q
        /\ \A s \in RecordRequest \ {r} : request'[s] = request[s]
    BY <1>2, <1>4 DEF RecordInv
  <1>7. \A s \in RecordRequest : request'[s] # NoRecord => TaskIsPlanned(request[s])'
    <2>1. TaskIsPlanned(request[r])'
      BY <1>1, <1>2, <1>6 DEF TaskIsPlanned, MayRegister
    <2>2. \A s \in RecordRequest \ {r} : request'[s] # NoRecord => TaskIsPlanned(request[s])'
      BY <1>2, <1>6 DEF RecordInv, TaskIsPlanned
    <2> QED BY <2>1, <2>2
  <1>8. ASSUME NEW n \in Trip \ together' PROVE IsAlone(n)'
    <2>1. n \in Trip \ together /\ IsAlone(n)
      BY <1>2, <1>8 DEF RecordInv
    <2>2. \A s \in RecordRequest \ {r} : s \in Under(n)' <=> s \in Under(n)
      BY <1>6 DEF Under
    <2>3. CASE n = m
      <3>1. Under(m) = {}
        BY <1>2, <1>8, <2>3
      <3> QED BY <2>2, <2>3, <3>1 DEF IsAlone, Under
    <2>4. CASE n # m
      <3>1. r \notin Under(n)'
        BY <1>1, <1>6, <2>4 DEF Under
      <3> QED BY <2>1, <2>2, <3>1 DEF IsAlone, Under
    <2> QED BY <2>3, <2>4
  <1>9. \A s \in RecordRequest : request'[s] # NoRecord => OrderIsKept(s)'
    <2>1. OrderIsKept(r)'
      BY <1>1, <1>2, <1>6 DEF OrderIsKept, MayRegister, Ordered
    <2>2. \A s \in RecordRequest \ {r} : request'[s] # NoRecord => OrderIsKept(s)'
      BY <1>2, <1>6 DEF RecordInv, OrderIsKept, Ordered
    <2> QED BY <2>1, <2>2
  <1>10. ReadingsGrow'
    BY <1>2 DEF RecordInv, ReadingsGrow
  <1> QED BY <1>2, <1>6, <1>7, <1>8, <1>9, <1>10 DEF RecordInv

LEMMA StartSteps ==
  ASSUME RecordInv, NEW r \in RecordRequest, NEW m \in Trip, NEW k \in End, NEW km \in 0..MaxReading,
         \/ \E spot \in Spot, override \in BOOLEAN : LogMissionLocation(r, m, k, spot, km, override)
         \/ RegisterKilometerAtLocation(r, m, k, km)
  PROVE  RecordInv'
  <1>1. ASSUME NEW spot \in Spot, NEW override \in BOOLEAN,
               LogMissionLocation(r, m, k, spot, km, override)
        PROVE  RecordInv'
    <2>1. PICK op : op = Plan(m, k, spot, km, override)
      OBVIOUS
    <2>2. op # "none" /\ Starts(r, m, k, op, spot, km)
      BY <1>1, <2>1 DEF LogMissionLocation, Starts
    <2>3. /\ MayRegister(m, k, km) /\ op \in {"add", "read", "replace"}
          /\ op = "add" <=> entry[m][k].row = 0
          /\ op = "read" => km # 0
      BY <2>1, <2>2 DEF Plan
    <2> QED BY <2>2, <2>3, StartStep
  <1>2. CASE RegisterKilometerAtLocation(r, m, k, km)
    <2>1. PICK spot : spot = entry[m][k].spot
      OBVIOUS
    <2>2. entry[m][k] \in EntryRow
      BY <1>2, EntryShape DEF RegisterKilometerAtLocation, RecordInv
    <2>3. spot \in Spot
      BY <2>1, <2>2 DEF EntryRow
    <2>4. PICK op : op = "read"
      OBVIOUS
    <2>5. /\ entry[m][k].row # 0 /\ km # 0 /\ MayRegister(m, k, km)
          /\ Starts(r, m, k, op, spot, km)
      BY <1>2, <2>1, <2>4 DEF RegisterKilometerAtLocation
    <2> QED BY <2>3, <2>4, <2>5, StartStep
  <1> QED BY <1>1, <1>2

\* What a request writes: a row with its own reading.
LEMMA WrittenRow ==
  ASSUME RecordInv, NEW r \in RecordRequest, StoreRecord(r)
  PROVE  /\ request[r] \in EntryTask /\ request[r] # NoRecord
         /\ Written(request[r]) \in EntryRow
         /\ Written(request[r]).km = request[r].km
  <1>1. PICK q : q = request[r]
    OBVIOUS
  <1>2. q \in EntryTask /\ q # NoRecord /\ q.op \in {"add", "read", "replace"}
    <2>1. q \in {NoRecord} \cup EntryTask /\ q.op # "none"
      BY <1>1 DEF RecordInv, StoreRecord
    <2>2. q \in EntryTask /\ q # NoRecord
      BY <2>1, TaskShape
    <2> QED BY <2>2 DEF EntryTask
  <1>3. q.trip \in Trip /\ q.at \in End /\ q.spot \in Spot /\ q.km \in 0..MaxReading /\ q.row \in 0..MaxEntryRows
    BY <1>2 DEF EntryTask
  <1>4. TaskIsPlanned(q) /\ MayWriteEntry(q) /\ Written(q).row <= MaxEntryRows
    BY <1>1, <1>2 DEF RecordInv, StoreRecord
  <1>5. CASE q.op = "read"
    <2>1. PICK e : e = entry[q.trip][q.at]
      OBVIOUS
    <2>2. e \in {NoEntry} \cup EntryRow
      BY <1>3, <2>1 DEF RecordInv
    <2>3. e.row = q.row /\ q.row # 0
      BY <1>4, <1>5, <2>1 DEF MayWriteEntry, AsRead, TaskIsPlanned
    <2>4. e \in EntryRow
      BY <2>2, <2>3, EntryShape
    <2>5. Written(q) = [e EXCEPT !.km = q.km]
      BY <1>5, <2>1 DEF Written
    <2>6. Written(q) \in EntryRow /\ Written(q).km = q.km
      BY <1>3, <2>4, <2>5 DEF EntryRow
    <2> QED BY <1>1, <1>2, <2>6
  <1>6. CASE q.op # "read"
    <2>1. Written(q) = [row |-> q.row + 1, spot |-> q.spot, km |-> q.km]
      BY <1>6 DEF Written, NewEntry
    <2>2. q.row + 1 \in 1..MaxEntryRows
      BY <1>3, <1>4, <2>1, RecordAssumption
    <2>3. Written(q) \in EntryRow /\ Written(q).km = q.km
      BY <1>3, <2>1, <2>2 DEF EntryRow
    <2> QED BY <1>1, <1>2, <2>3
  <1> QED BY <1>5, <1>6

\* A request that is done leaves the others as they were.
LEMMA OthersGoOn ==
  ASSUME RecordInv, NEW r \in RecordRequest, Ends(r), together' = together, truckOf' = truckOf
  PROVE  /\ request' \in [RecordRequest -> {NoRecord} \cup EntryTask]
         /\ \A s \in RecordRequest : request'[s] # NoRecord => s # r /\ request'[s] = request[s]
         /\ \A s \in RecordRequest : request'[s] # NoRecord => TaskIsPlanned(request[s])'
         /\ \A m \in Trip \ together' : IsAlone(m)'
  <1>1. request' \in [RecordRequest -> {NoRecord} \cup EntryTask]
    BY DEF RecordInv, Ends
  <1>2. request'[r] = NoRecord /\ \A s \in RecordRequest \ {r} : request'[s] = request[s]
    BY DEF RecordInv, Ends
  <1>3. \A s \in RecordRequest : request'[s] # NoRecord => TaskIsPlanned(request[s])'
    BY <1>2 DEF RecordInv, TaskIsPlanned
  <1>4. \A m \in Trip \ together' : IsAlone(m)'
    <2>1. \A m \in Trip : Under(m)' \subseteq Under(m)
      BY <1>2 DEF Under, NoRecord
    <2> QED BY <2>1 DEF RecordInv, IsAlone
  <1> QED BY <1>1, <1>2, <1>3, <1>4

\* A place or a reading is written: the order holds at its mission, which
\* nobody else records on or which is set apart, and elsewhere nothing moves.
LEMMA StoreStep ==
  ASSUME RecordInv, NEW r \in RecordRequest, StoreRecord(r)
  PROVE  RecordInv'
  <1>1. PICK q : q = request[r]
    OBVIOUS
  <1>2. PICK w : w = Written(q)
    OBVIOUS
  <1>3. PICK m : m = q.trip
    OBVIOUS
  <1>4. PICK k : k = q.at
    OBVIOUS
  <1>5. /\ q \in EntryTask /\ q # NoRecord /\ q.op # "none" /\ w \in EntryRow /\ w.km = q.km
        /\ m \in Trip /\ k \in End /\ q.km \in 0..MaxReading
    <2>1. q \in EntryTask /\ q # NoRecord /\ w \in EntryRow /\ w.km = q.km
      BY <1>1, <1>2, WrittenRow
    <2> QED BY <1>3, <1>4, <2>1, TaskShape DEF EntryTask
  <1>6. /\ entry' = [entry EXCEPT ![m][k] = w] /\ odometer' = SetLastKilometer(q) /\ Ends(r)
        /\ UNCHANGED <<truckOf, together, workSpan, expense, comment>>
    BY <1>1, <1>2, <1>3, <1>4 DEF StoreRecord
  <1>7. /\ entry' \in [Trip -> [End -> {NoEntry} \cup EntryRow]]
        /\ entry'[m][k] = w
        /\ \A n \in Trip, j \in End : n # m \/ j # k => entry'[n][j] = entry[n][j]
    BY <1>5, <1>6 DEF RecordInv
  <1>8. odometer' \in [Truck -> 0..MaxReading]
    BY <1>5, <1>6 DEF RecordInv, SetLastKilometer
  <1>9. \A n \in Trip, j \in End :
          entry'[n][j] # NoEntry => (entry'[n][j].km # 0 => truckOf'[n] # NoTruck)
    <2>1. q.km # 0 => truckOf[m] # NoTruck
      BY <1>1, <1>3, <1>5 DEF RecordInv, TaskIsPlanned
    <2> QED BY <1>5, <1>6, <1>7, <2>1 DEF RecordInv
  <1>10. /\ request' \in [RecordRequest -> {NoRecord} \cup EntryTask]
         /\ \A s \in RecordRequest : request'[s] # NoRecord => s # r /\ request'[s] = request[s]
         /\ \A s \in RecordRequest : request'[s] # NoRecord => TaskIsPlanned(request[s])'
         /\ \A n \in Trip \ together' : IsAlone(n)'
    BY <1>6, OthersGoOn
  <1>11. ASSUME NEW s \in RecordRequest, request'[s] # NoRecord PROVE OrderIsKept(s)'
    <2>1. s # r /\ request'[s] = request[s] /\ request[s] # NoRecord /\ OrderIsKept(s)
      BY <1>10, <1>11 DEF RecordInv
    <2>2. PICK n : n = request[s].trip
      OBVIOUS
    <2>3. request[s].op # "none" /\ n \in Trip /\ request[s].at \in End
      <3>1. request[s] \in EntryTask /\ request[s].op # "none"
        BY <2>1, TaskShape DEF RecordInv
      <3> QED BY <2>2, <3>1 DEF EntryTask
    <2>4. CASE n = m
      <3>1. r \in Under(m) /\ s \in Under(m)
        BY <1>1, <1>3, <1>5, <2>2, <2>3, <2>4 DEF Under
      <3>2. m \in together
        BY <1>5, <2>1, <3>1 DEF RecordInv, IsAlone
      <3> QED BY <1>6, <2>1, <2>2, <2>4, <3>2 DEF OrderIsKept
    <2>5. CASE n # m
      <3>1. \A j \in End : entry'[n][j] = entry[n][j]
        BY <1>7, <2>3, <2>5
      <3>2. OtherEnd(request[s].at) \in End
        BY DEF OtherEnd, End
      <3> QED BY <1>6, <2>1, <2>2, <3>1, <3>2 DEF OrderIsKept, Ordered
    <2> QED BY <2>4, <2>5
  <1>12. ReadingsGrow'
    <2> SUFFICES ASSUME NEW n \in Trip \ together,
                        Reading(entry'[n]["start"]) # 0, Reading(entry'[n]["end"]) # 0
                 PROVE  Reading(entry'[n]["start"]) <= Reading(entry'[n]["end"])
      BY <1>6 DEF ReadingsGrow, Reading
    <2>0. {"start", "end"} = End
      BY DEF End
    <2>1. CASE n # m
      <3>1. entry'[n]["start"] = entry[n]["start"] /\ entry'[n]["end"] = entry[n]["end"]
        BY <1>7, <2>0, <2>1
      <3> QED BY <3>1 DEF RecordInv, ReadingsGrow
    <2>2. CASE n = m
      <3>1. Reading(w) = q.km
        <4>1. w.row # 0
          BY <1>5, EntryShape, RecordAssumption DEF EntryRow
        <4> QED BY <1>5, <4>1 DEF Reading
      <3>2. q.km # 0 => Ordered(m, k, q.km)
        BY <1>1, <1>3, <1>4, <1>5, <2>2 DEF RecordInv, OrderIsKept
      <3>3. CASE k = "start"
        <4>1. entry'[m]["start"] = w /\ entry'[m]["end"] = entry[m]["end"]
          BY <1>7, <1>5, <2>0, <3>3
        <4> QED BY <2>2, <3>1, <3>2, <3>3, <4>1 DEF Ordered, OtherEnd
      <3>4. CASE k = "end"
        <4>1. entry'[m]["end"] = w /\ entry'[m]["start"] = entry[m]["start"]
          BY <1>7, <1>5, <2>0, <3>4
        <4> QED BY <2>2, <3>1, <3>2, <3>4, <4>1 DEF Ordered, OtherEnd
      <3> QED BY <1>5, <2>0, <3>3, <3>4
    <2> QED BY <2>1, <2>2
  <1> QED BY <1>6, <1>7, <1>8, <1>9, <1>10, <1>11, <1>12 DEF RecordInv

LEMMA ConflictStep ==
  ASSUME RecordInv, NEW r \in RecordRequest, RecordConflict(r)
  PROVE  RecordInv'
  <1>1. Ends(r) /\ UNCHANGED <<truckOf, entry, odometer, together, workSpan, expense, comment>>
    BY DEF RecordConflict
  <1>2. /\ request' \in [RecordRequest -> {NoRecord} \cup EntryTask]
        /\ \A s \in RecordRequest : request'[s] # NoRecord => s # r /\ request'[s] = request[s]
        /\ \A s \in RecordRequest : request'[s] # NoRecord => TaskIsPlanned(request[s])'
        /\ \A m \in Trip \ together' : IsAlone(m)'
    BY <1>1, OthersGoOn
  <1>3. \A s \in RecordRequest : request'[s] # NoRecord => OrderIsKept(s)'
    BY <1>1, <1>2 DEF RecordInv, OrderIsKept, Ordered
  <1>4. ReadingsGrow'
    BY <1>1 DEF RecordInv, ReadingsGrow
  <1> QED BY <1>1, <1>2, <1>3, <1>4 DEF RecordInv

LEMMA VehicleStep ==
  ASSUME RecordInv, NEW m \in Trip, NEW v \in Truck, UpdateMissionVehicle(m, v)
  PROVE  RecordInv'
  <1>1. /\ truckOf' = [truckOf EXCEPT ![m] = v]
        /\ UNCHANGED <<entry, odometer, request, together, workSpan, expense, comment>>
    BY DEF UpdateMissionVehicle
  <1>2. /\ truckOf' \in [Trip -> Truck \cup {NoTruck}]
        /\ \A n \in Trip : truckOf[n] # NoTruck => truckOf'[n] # NoTruck
    BY <1>1, RecordAssumption DEF RecordInv
  <1>3. \A r \in RecordRequest : request'[r] # NoRecord => TaskIsPlanned(request[r])'
    <2> SUFFICES ASSUME NEW r \in RecordRequest, request[r] # NoRecord PROVE TaskIsPlanned(request[r])'
      BY <1>1
    <2>1. request[r] \in EntryTask
      BY TaskShape DEF RecordInv
    <2>2. request[r].trip \in Trip /\ TaskIsPlanned(request[r])
      BY <2>1 DEF EntryTask, RecordInv
    <2> QED BY <1>1, <1>2, <2>2 DEF TaskIsPlanned
  <1>4. \A r \in RecordRequest : request'[r] # NoRecord => OrderIsKept(r)'
    BY <1>1 DEF RecordInv, OrderIsKept, Ordered
  <1>5. \A n \in Trip \ together' : IsAlone(n)'
    BY <1>1 DEF RecordInv, IsAlone, Under
  <1>6. ReadingsGrow'
    BY <1>1 DEF RecordInv, ReadingsGrow
  <1> QED BY <1>1, <1>2, <1>3, <1>4, <1>5, <1>6 DEF RecordInv

LEMMA AsideStep ==
  ASSUME RecordInv, UNCHANGED <<truckOf, entry, odometer, request, together>>,
         expense' \subseteq [trip : Trip, day : 1..LastTripDay, dismissed : BOOLEAN]
  PROVE  RecordInv'
  <1>1. \A r \in RecordRequest : request'[r] # NoRecord => TaskIsPlanned(request[r])' /\ OrderIsKept(r)'
    BY DEF RecordInv, OrderIsKept, Ordered, TaskIsPlanned
  <1>2. \A n \in Trip \ together' : IsAlone(n)'
    BY DEF RecordInv, IsAlone, Under
  <1>3. ReadingsGrow'
    BY DEF RecordInv, ReadingsGrow
  <1> QED BY <1>1, <1>2, <1>3 DEF RecordInv

LEMMA ExpenseStep ==
  ASSUME RecordInv,
         \/ \E m \in Trip, s \in [first : 0..LastTripDay, last : 0..LastTripDay] : MoveActivities(m, s)
         \/ \E m \in Trip, day \in 1..LastTripDay : LogExpenditure(m, day)
         \/ \E m \in Trip, a \in Author : LogComment(m, a)
         \/ \E x \in expense : CancelExpenditure(x)
         \/ \E c \in comment : CancelComment(c)
         \/ UNCHANGED recordVars
  PROVE  RecordInv'
  <1>1. UNCHANGED <<truckOf, entry, odometer, request, together>>
    BY DEF MoveActivities, LogExpenditure, LogComment, CancelExpenditure, CancelComment, recordVars
  <1>2. expense' \subseteq [trip : Trip, day : 1..LastTripDay, dismissed : BOOLEAN]
    <2>1. ASSUME NEW m \in Trip, NEW day \in 1..LastTripDay, LogExpenditure(m, day)
          PROVE  expense' \subseteq [trip : Trip, day : 1..LastTripDay, dismissed : BOOLEAN]
      <3>1. expense \subseteq [trip : Trip, day : 1..LastTripDay, dismissed : BOOLEAN]
        BY DEF RecordInv
      <3>2. [trip |-> m, day |-> day, dismissed |-> FALSE] \in [trip : Trip, day : 1..LastTripDay, dismissed : BOOLEAN]
        OBVIOUS
      <3> QED BY <2>1, <3>1, <3>2 DEF LogExpenditure
    <2>2. ASSUME NEW x \in expense, CancelExpenditure(x)
          PROVE  expense' \subseteq [trip : Trip, day : 1..LastTripDay, dismissed : BOOLEAN]
      <3>1. x \in [trip : Trip, day : 1..LastTripDay, dismissed : BOOLEAN]
        BY DEF RecordInv
      <3> QED BY <2>2, <3>1 DEF CancelExpenditure, RecordInv
    <2> QED BY <2>1, <2>2 DEF MoveActivities, LogComment, CancelComment, recordVars, RecordInv
  <1> QED BY <1>1, <1>2, AsideStep

LEMMA RecordStep == RecordInv /\ [RecordNext]_recordVars => RecordInv'
  <1> SUFFICES ASSUME RecordInv, [RecordNext]_recordVars PROVE RecordInv'
    OBVIOUS
  <1>1. ASSUME NEW r \in RecordRequest, NEW m \in Trip, NEW k \in End, NEW km \in 0..MaxReading,
               \/ \E spot \in Spot, override \in BOOLEAN :
                    LogMissionLocation(r, m, k, spot, km, override)
               \/ RegisterKilometerAtLocation(r, m, k, km)
        PROVE  RecordInv'
    BY <1>1, StartSteps
  <1>2. ASSUME NEW r \in RecordRequest, StoreRecord(r) \/ RecordConflict(r) PROVE RecordInv'
    BY <1>2, StoreStep, ConflictStep
  <1>3. ASSUME NEW m \in Trip, NEW v \in Truck, UpdateMissionVehicle(m, v) PROVE RecordInv'
    BY <1>3, VehicleStep
  <1>4. ASSUME \/ \E m \in Trip, s \in [first : 0..LastTripDay, last : 0..LastTripDay] : MoveActivities(m, s)
               \/ \E m \in Trip, day \in 1..LastTripDay : LogExpenditure(m, day)
               \/ \E m \in Trip, a \in Author : LogComment(m, a)
               \/ \E x \in expense : CancelExpenditure(x)
               \/ \E c \in comment : CancelComment(c)
               \/ UNCHANGED recordVars
        PROVE  RecordInv'
    BY <1>4, ExpenseStep
  <1> QED BY <1>1, <1>2, <1>3, <1>4 DEF RecordNext

-----------------------------------------------------------------------------
(* What a step may do to a place that is stated.                           *)

PlacesStay ==
  \A m \in Trip, k \in End :
    LET e == entry[m][k] IN
    e.row # 0 /\ ~(\E r \in RecordRequest :
                     /\ request[r].op = "replace" /\ request'[r] = NoRecord
                     /\ request[r].trip = m /\ request[r].at = k)
      => entry'[m][k].row = e.row /\ entry'[m][k].spot = e.spot
         /\ (e.km # 0 => entry'[m][k].km # 0)

LEMMA StoredPlaceStays ==
  ASSUME RecordInv, NEW r \in RecordRequest, StoreRecord(r), NEW m \in Trip, NEW k \in End,
         entry[m][k].row # 0,
         ~(request[r].op = "replace" /\ request[r].trip = m /\ request[r].at = k)
  PROVE  /\ entry'[m][k].row = entry[m][k].row /\ entry'[m][k].spot = entry[m][k].spot
         /\ (entry[m][k].km # 0 => entry'[m][k].km # 0)
  <1>1. PICK q : q = request[r]
    OBVIOUS
  <1>2. PICK w : w = Written(q)
    OBVIOUS
  <1>3. q \in EntryTask /\ q # NoRecord /\ w \in EntryRow /\ TaskIsPlanned(q)
    BY <1>1, <1>2, WrittenRow DEF RecordInv
  <1>4. entry' = [entry EXCEPT ![q.trip][q.at] = w] /\ MayWriteEntry(q)
    BY <1>1, <1>2 DEF StoreRecord
  <1>5. q.op \in {"add", "read", "replace"} /\ q.trip \in Trip /\ q.at \in End
    BY <1>3 DEF EntryTask
  <1>6. CASE q.trip # m \/ q.at # k
    BY <1>4, <1>5, <1>6 DEF RecordInv
  <1>7. CASE q.trip = m /\ q.at = k
    <2>1. q.op = "read"
      BY <1>1, <1>4, <1>5, <1>7 DEF MayWriteEntry
    <2>2. PICK e : e = entry[m][k]
      OBVIOUS
    <2>3. e \in EntryRow
      BY <2>2, EntryShape DEF RecordInv
    <2>4. w = [e EXCEPT !.km = q.km]
      BY <1>2, <1>7, <2>1, <2>2 DEF Written
    <2>5. w.row = e.row /\ w.spot = e.spot /\ w.km = q.km
      BY <2>3, <2>4 DEF EntryRow
    <2>6. entry'[m][k] = w
      BY <1>4, <1>5, <1>7 DEF RecordInv
    <2> QED BY <1>3, <2>1, <2>2, <2>5, <2>6 DEF TaskIsPlanned
  <1> QED BY <1>6, <1>7

LEMMA PlacesStep == RecordInv /\ [RecordNext]_recordVars => PlacesStay
  <1> SUFFICES ASSUME RecordInv, [RecordNext]_recordVars, NEW m \in Trip, NEW k \in End,
                      entry[m][k].row # 0,
                      ~(\E r \in RecordRequest :
                          /\ request[r].op = "replace" /\ request'[r] = NoRecord
                          /\ request[r].trip = m /\ request[r].at = k)
               PROVE  /\ entry'[m][k].row = entry[m][k].row /\ entry'[m][k].spot = entry[m][k].spot
                      /\ (entry[m][k].km # 0 => entry'[m][k].km # 0)
    BY DEF PlacesStay
  <1>1. ASSUME NEW r \in RecordRequest, StoreRecord(r)
        PROVE  /\ entry'[m][k].row = entry[m][k].row /\ entry'[m][k].spot = entry[m][k].spot
               /\ (entry[m][k].km # 0 => entry'[m][k].km # 0)
    <2>1. request'[r] = NoRecord
      BY <1>1 DEF StoreRecord, Ends, RecordInv
    <2> QED BY <1>1, <2>1, StoredPlaceStays
  <1>2. ASSUME NEW r \in RecordRequest, NEW n \in Trip, NEW j \in End, NEW km \in 0..MaxReading,
               \/ \E spot \in Spot, override \in BOOLEAN :
                    LogMissionLocation(r, n, j, spot, km, override)
               \/ RegisterKilometerAtLocation(r, n, j, km)
        PROVE  entry' = entry
    BY <1>2 DEF LogMissionLocation, RegisterKilometerAtLocation, Starts
  <1>3. ASSUME \/ \E r \in RecordRequest : RecordConflict(r)
               \/ \E n \in Trip :
                    \/ \E v \in Truck : UpdateMissionVehicle(n, v)
                    \/ \E s \in [first : 0..LastTripDay, last : 0..LastTripDay] : MoveActivities(n, s)
                    \/ \E day \in 1..LastTripDay : LogExpenditure(n, day)
                    \/ \E a \in Author : LogComment(n, a)
               \/ \E x \in expense : CancelExpenditure(x)
               \/ \E c \in comment : CancelComment(c)
               \/ UNCHANGED recordVars
        PROVE  entry' = entry
    BY <1>3 DEF RecordConflict, UpdateMissionVehicle, MoveActivities, LogExpenditure, LogComment,
                CancelExpenditure, CancelComment, recordVars
  <1> QED BY <1>1, <1>2, <1>3 DEF RecordNext

LEMMA RecordInvSays == RecordInv => RecordTypeOK /\ ReadingsGrow
  <1> SUFFICES ASSUME RecordInv, NEW m \in Trip, NEW k \in End, entry[m][k] # NoEntry
               PROVE  entry[m][k] \in EntryRow
    BY DEF RecordInv, RecordTypeOK, EntryRow
  <1> QED BY EntryShape DEF RecordInv

\* The places and the kilometers of a mission stay in order and are never
\* lost to a request that comes late (RecordsAreKept), for any number of
\* missions, vehicles and requests.
THEOREM RecordsStayKept == RecordSpec => RecordsAreKept
  <1>1. RecordSpec => []RecordInv
    BY RecordInitially, RecordStep, PTL DEF RecordSpec
  <1>2. RecordSpec => [][PlacesStay]_recordVars
    BY <1>1, PlacesStep, PTL DEF RecordSpec
  <1>3. [][PlacesStay]_recordVars => StatedPlaceStays
    BY PTL DEF PlacesStay, StatedPlaceStays
  <1>4. RecordSpec => []RecordTypeOK /\ []ReadingsGrow
    BY <1>1, RecordInvSays, PTL
  <1> QED BY <1>1, <1>2, <1>3, <1>4 DEF RecordsAreKept

-----------------------------------------------------------------------------
(* The first row that matches, or 0: FindVehicle and GetOrCreate.           *)

\* A set of positions has a least element.
LEMMA LeastPosition ==
  ASSUME NEW n \in Nat, NEW S, S \subseteq 1..n, S # {}
  PROVE  Min(S) \in S
  <1> DEFINE Below(x) == {z \in S : z < x}
             Fam == {Below(x) : x \in S}
             R == StrictSubsetOrdering(S)
  <1>0. IsFiniteSet(S) /\ \A x \in S : x \in Int
    <2>1. IsFiniteSet(1..n)
      BY FS_Interval
    <2>2. S \in SUBSET (1..n)
      OBVIOUS
    <2>3. IsFiniteSet(S)
      BY <2>1, <2>2, FS_Subset
    <2> QED BY <2>3
  <1>1. IsWellFoundedOn(R, SUBSET S)
    BY <1>0, FS_StrictSubsetOrderingWellFounded, FS_FiniteSubsetsOfFinite
  <1>2. Fam \subseteq SUBSET S /\ Fam # {}
    OBVIOUS
  <1>3. \E D \in Fam : \A E \in Fam : ~ (<<E, D>> \in R)
    <2> HIDE DEF Fam, R
    <2> QED
      BY <1>1, <1>2, WFMin
  <1>4. PICK x \in S : \A E \in Fam : ~ (<<E, Below(x)>> \in R)
    BY <1>3
  <1>5. ASSUME NEW y \in S, ~(x <= y)
        PROVE  FALSE
    <2>1. y < x /\ x \in Int /\ y \in Int /\ \A z \in S : z \in Int
      BY <1>0, <1>5
    <2> HIDE DEF Fam, R
    <2>2. Below(y) \subseteq Below(x) /\ y \in Below(x) /\ y \notin Below(y)
      <3>1. y \in Below(x) /\ y \notin Below(y)
        BY <2>1
      <3>2. \A z \in S : z < y => z < x
        BY <2>1
      <3> QED
        BY <3>1, <3>2
    <2>3. <<Below(y), Below(x)>> \in R
      BY <2>2 DEF StrictSubsetOrdering, R
    <2>4. Below(y) \in Fam
      BY DEF Fam
    <2> QED
      BY <1>4, <2>3, <2>4
  <1>6. \E y \in S : \A z \in S : y <= z
    BY <1>5
  <1> QED
    BY <1>6 DEF Min

\* The vehicle that is found has the plate; when none is, no row has it.
LEMMA FindVehicleFinds ==
  ASSUME NEW n, Len(vehicles) \in Nat
  PROVE  /\ FindVehicle(n) \in 0..Len(vehicles)
         /\ FindVehicle(n) # 0 => PlateOf(vehicles[FindVehicle(n)].number) = PlateOf(n)
         /\ FindVehicle(n) = 0 => \A i \in 1..Len(vehicles) : PlateOf(vehicles[i].number) # PlateOf(n)
  <1> DEFINE S == {i \in 1..Len(vehicles) : PlateOf(vehicles[i].number) = PlateOf(n)}
  <1>1. FindVehicle(n) = IF S # {} THEN Min(S) ELSE 0
    BY DEF FindVehicle, SelectInSeq
  <1>2. S # {} => Min(S) \in S
    <2> S \subseteq 1..Len(vehicles)
      OBVIOUS
    <2> HIDE DEF S
    <2> QED BY LeastPosition
  <1> QED BY <1>1, <1>2

LEMMA GetOrCreateFinds ==
  ASSUME NEW g, Len(places) \in Nat
  PROVE  GetOrCreate(g) \in 0..Len(places)
  <1> DEFINE S == {i \in 1..Len(places) :
                     places[i].id = g.id /\ SameCoordinates(places[i].coords, g.coords)}
  <1>1. GetOrCreate(g) = IF S # {} THEN Min(S) ELSE 0
    BY DEF GetOrCreate, SelectInSeq
  <1>2. S # {} => Min(S) \in S
    <2> S \subseteq 1..Len(places)
      OBVIOUS
    <2> HIDE DEF S
    <2> QED BY LeastPosition
  <1> QED BY <1>1, <1>2

-----------------------------------------------------------------------------
(* The invariant: what a request has read of the vehicles and the places    *)
(* stays true of them, since rows only come and keep their plates.          *)

TeamRow == [exists : BOOLEAN, admins : SUBSET Person, vehicles : SUBSET Nat, places : SUBSET Nat]

VehicleRow == [number : Spelling, terminated : BOOLEAN, seen : Nat]

PlaceRow == {[id |-> g.id, coords |-> g.coords, known |-> k] :
               g \in GivenPlace, k \in {"never", "yes", "dismissed"}}

KnownPlaces == {i \in DOMAIN places : places[i].known # "never"}

HoldsRows(t) ==
  /\ team[t].vehicles \subseteq DOMAIN vehicles
  /\ team[t].places \subseteq KnownPlaces
  /\ ~team[t].exists => team[t] = GoneTeam

NumbersDiffer ==
  \A i, j \in DOMAIN vehicles : vehicles[i].number = vehicles[j].number => i = j

\* What a request knows.
AssetIsSound(q) ==
  /\ q.op \in {"create", "update"} =>
       /\ q.team \in TeamId /\ q.users \subseteq Person /\ q.new.admins \subseteq Person
       /\ q.new.vehicles \subseteq DOMAIN vehicles /\ q.new.places \subseteq KnownPlaces
  /\ q.op = "delete" => q.team \in TeamId
  /\ q.op = "vehicle" =>
       /\ q.number \in Spelling /\ q.teams \subseteq TeamId
       /\ q.found \in 0..Len(vehicles) /\ q.seen \in 0..Len(vehicles)
       /\ q.found = 0 => \A i \in 1..q.seen : PlateOf(vehicles[i].number) # PlateOf(q.number)
       /\ q.found # 0 => PlateOf(vehicles[q.found].number) = PlateOf(q.number)
  /\ q.op = "place" => q.found \in 0..Len(places) /\ q.given \in GivenPlace

TeamsHaveTypes ==
  /\ manages \in [Person -> BOOLEAN]
  /\ teamOf \in [Person -> TeamId \cup {NoTeam}]
  /\ team \in [TeamId -> TeamRow]
  /\ vehicles \in Seq(VehicleRow)
  /\ places \in Seq(PlaceRow)
  /\ DOMAIN asset = TeamRequest

MembersHaveTeams == \A p \in Person : teamOf[p] # NoTeam => team[teamOf[p]].exists

TeamInv ==
  /\ TeamsHaveTypes
  /\ MembersHaveTeams
  /\ \A t \in TeamId : HoldsRows(t)
  /\ NumbersDiffer
  /\ \A r \in TeamRequest : AssetIsSound(asset[r])
  /\ ManagersAreTold
  /\ DemotedManageNothing
  /\ VehicleIsFoundAgain

LEMMA TeamInvSays == TeamInv => TeamsAreKept
  BY DEF TeamInv, TeamsAreKept, TeamsTypeOK, TeamsHaveTypes, MembersHaveTeams, HoldsRows,
         KnownPlaces, NumbersDiffer, TeamRow

LEMMA TeamInitially == TeamInit => TeamInv
  <1> SUFFICES ASSUME TeamInit PROVE TeamInv OBVIOUS
  <1>1. GoneTeam \in TeamRow /\ GoneTeam.exists = FALSE /\ GoneTeam.admins = {}
        /\ GoneTeam.vehicles = {} /\ GoneTeam.places = {}
    BY DEF GoneTeam, TeamRow
  <1>2. \A t \in TeamId : team[t] = GoneTeam
    BY DEF TeamInit
  <1>3. vehicles \in Seq(VehicleRow) /\ places \in Seq(PlaceRow) /\ DOMAIN vehicles = {}
    BY DEF TeamInit
  <1>4. TeamsHaveTypes
    BY <1>1, <1>3 DEF TeamInit, TeamsHaveTypes
  <1>5. \A t \in TeamId : HoldsRows(t)
    BY <1>1, <1>2 DEF HoldsRows
  <1>6. \A r \in TeamRequest : AssetIsSound(asset[r])
    BY DEF TeamInit, AssetIsSound, IdleAsset
  <1>7. MembersHaveTeams
    BY DEF TeamInit, MembersHaveTeams
  <1>8. ManagersAreTold /\ DemotedManageNothing
    BY <1>1, <1>2 DEF ManagersAreTold, DemotedManageNothing
  <1>9. NumbersDiffer /\ VehicleIsFoundAgain
    BY <1>3 DEF NumbersDiffer, VehicleIsFoundAgain
  <1> QED BY <1>4, <1>5, <1>6, <1>7, <1>8, <1>9 DEF TeamInv

-----------------------------------------------------------------------------
(* Rows only come: what a request knows stays true.                         *)

RowsOnlyCome ==
  /\ Len(vehicles) <= Len(vehicles')
  /\ \A i \in 1..Len(vehicles) : PlateOf(vehicles'[i].number) = PlateOf(vehicles[i].number)
  /\ Len(places) <= Len(places')
  /\ \A i \in 1..Len(places) : places[i].known # "never" => places'[i].known # "never"

LEMMA RowsStandStill == UNCHANGED <<vehicles, places>> /\ TeamsHaveTypes => RowsOnlyCome
  BY LenProperties DEF RowsOnlyCome, TeamsHaveTypes

LEMMA SoundStays ==
  ASSUME TeamsHaveTypes, TeamsHaveTypes', RowsOnlyCome, NEW q, AssetIsSound(q)
  PROVE  AssetIsSound(q)'
  <1>1. /\ Len(vehicles) \in Nat /\ Len(vehicles') \in Nat /\ Len(places) \in Nat /\ Len(places') \in Nat
        /\ DOMAIN vehicles = 1..Len(vehicles) /\ DOMAIN vehicles' = 1..Len(vehicles')
        /\ DOMAIN places = 1..Len(places) /\ DOMAIN places' = 1..Len(places')
    BY LenProperties DEF TeamsHaveTypes
  <1>2. DOMAIN vehicles \subseteq DOMAIN vehicles' /\ KnownPlaces \subseteq KnownPlaces'
    BY <1>1 DEF RowsOnlyCome, KnownPlaces
  <1>3. q.op \in {"create", "update"} =>
          /\ q.team \in TeamId /\ q.users \subseteq Person /\ q.new.admins \subseteq Person
          /\ q.new.vehicles \subseteq DOMAIN vehicles' /\ q.new.places \subseteq KnownPlaces'
    BY <1>2 DEF AssetIsSound
  <1>4. q.op = "vehicle" =>
          /\ q.found \in 0..Len(vehicles') /\ q.seen \in 0..Len(vehicles')
          /\ q.found = 0 => \A i \in 1..q.seen : PlateOf(vehicles'[i].number) # PlateOf(q.number)
          /\ q.found # 0 => PlateOf(vehicles'[q.found].number) = PlateOf(q.number)
    BY <1>1 DEF AssetIsSound, RowsOnlyCome
  <1>5. q.op = "place" => q.found \in 0..Len(places') /\ q.given \in GivenPlace
    BY <1>1 DEF AssetIsSound, RowsOnlyCome
  <1> QED BY <1>3, <1>4, <1>5 DEF AssetIsSound

LEMMA AssetsStaySound ==
  ASSUME TeamInv, TeamsHaveTypes', RowsOnlyCome,
         \A r \in TeamRequest : asset'[r] = asset[r] \/ asset'[r] = IdleAsset
  PROVE  \A r \in TeamRequest : AssetIsSound(asset[r])'
  <1> SUFFICES ASSUME NEW r \in TeamRequest PROVE AssetIsSound(asset[r])'
    OBVIOUS
  <1>1. PICK q : q = asset'[r]
    OBVIOUS
  <1>2. AssetIsSound(q)
    BY <1>1 DEF TeamInv, AssetIsSound, IdleAsset
  <1>3. AssetIsSound(q)'
    BY <1>2, SoundStays DEF TeamInv
  <1> QED BY <1>1, <1>3 DEF AssetIsSound

\* A request begins, or ends without a change.
LEMMA AssetStep ==
  ASSUME TeamInv, NEW r \in TeamRequest, NEW q, AssetIsSound(q), asset' = [asset EXCEPT ![r] = q],
         UNCHANGED <<manages, team, teamOf, vehicles, places, written, missed, overtaken>>
  PROVE  TeamInv'
  <1>1. TeamsHaveTypes'
    BY DEF TeamInv, TeamsHaveTypes
  <1>2. MembersHaveTeams' /\ NumbersDiffer' /\ ManagersAreTold' /\ DemotedManageNothing' /\ VehicleIsFoundAgain'
    BY DEF TeamInv, MembersHaveTeams, NumbersDiffer, ManagersAreTold, DemotedManageNothing, VehicleIsFoundAgain
  <1>3. \A t \in TeamId : HoldsRows(t)'
    BY DEF TeamInv, HoldsRows, KnownPlaces
  <1>4. AssetIsSound(q)'
    BY <1>1, SoundStays, RowsStandStill DEF TeamInv
  <1>5. \A s \in TeamRequest : AssetIsSound(asset[s])'
    <2> SUFFICES ASSUME NEW s \in TeamRequest PROVE AssetIsSound(asset[s])'
      OBVIOUS
    <2>1. asset'[s] = IF s = r THEN q ELSE asset[s]
      BY DEF TeamInv, TeamsHaveTypes
    <2>2. PICK a : a = asset'[s]
      OBVIOUS
    <2>3. AssetIsSound(a)
      BY <2>1, <2>2 DEF TeamInv
    <2>4. AssetIsSound(a)'
      BY <1>1, <2>3, SoundStays, RowsStandStill DEF TeamInv
    <2> QED BY <2>2, <2>4 DEF AssetIsSound
  <1> QED BY <1>1, <1>2, <1>3, <1>5 DEF TeamInv

\* A request is answered and nothing of it stays.
LEMMA AnsweredLeavesOthers ==
  ASSUME TeamInv, NEW r \in TeamRequest, Answered(r)
  PROVE  /\ DOMAIN asset' = TeamRequest
         /\ \A s \in TeamRequest : asset'[s] = asset[s] \/ asset'[s] = IdleAsset
  BY DEF Answered, TeamInv, TeamsHaveTypes

LEMMA RefusedStep ==
  ASSUME TeamInv, NEW r \in TeamRequest, TeamConflict(r) \/ VehicleConflict(r) \/ PlaceConflict(r)
  PROVE  TeamInv'
  <1>1. Refused(r)
    BY DEF TeamConflict, VehicleConflict, PlaceConflict
  <1>2. AssetIsSound(IdleAsset)
    BY DEF AssetIsSound, IdleAsset
  <1>3. PICK q : q = IdleAsset
    OBVIOUS
  <1> QED BY <1>1, <1>2, <1>3, AssetStep DEF Refused, Answered

LEMMA AskTeamStep ==
  ASSUME TeamInv, NEW t \in TeamId, NEW r \in TeamRequest, NEW by \in Person,
         NEW admins \in SUBSET Person, NEW users \in SUBSET Person,
         NEW vs \in SUBSET DOMAIN vehicles, NEW ps \in SUBSET DOMAIN places,
         AskTeam(r, t, by, admins, vs, ps, users)
  PROVE  TeamInv'
  <1>1. PICK q : q = [op |-> IF team[t].exists THEN "update" ELSE "create", team |-> t,
              by |-> by, users |-> users, old |-> team[t],
              new |-> [exists |-> TRUE, admins |-> HasAdminRights(admins),
                       vehicles |-> vs, places |-> ps]]
    OBVIOUS
  <1>2. /\ asset' = [asset EXCEPT ![r] = q]
        /\ UNCHANGED <<manages, team, teamOf, vehicles, places, written, missed, overtaken>>
        /\ \A i \in ps : places[i].known # "never"
    BY <1>1 DEF AskTeam, Asks
  <1>3. q.op \in {"create", "update"} /\ q.team = t /\ q.users = users
        /\ q.new = [exists |-> TRUE, admins |-> HasAdminRights(admins), vehicles |-> vs, places |-> ps]
    BY <1>1
  <1>4. q.new.admins \subseteq Person /\ q.new.vehicles = vs /\ q.new.places = ps
    BY <1>3 DEF HasAdminRights
  <1>5. q.new.places \subseteq KnownPlaces
    BY <1>2, <1>4 DEF KnownPlaces
  <1>6. AssetIsSound(q)
    BY <1>3, <1>4, <1>5 DEF AssetIsSound
  <1> QED BY <1>2, <1>6, AssetStep

LEMMA AskDeleteTeamStep ==
  ASSUME TeamInv, NEW t \in TeamId, NEW r \in TeamRequest, NEW by \in Person, AskDeleteTeam(r, t, by)
  PROVE  TeamInv'
  <1>1. PICK q : q = [op |-> "delete", team |-> t, by |-> by, old |-> team[t],
              members |-> {p \in Person : teamOf[p] = t}]
    OBVIOUS
  <1>2. /\ asset' = [asset EXCEPT ![r] = q]
        /\ UNCHANGED <<manages, team, teamOf, vehicles, places, written, missed, overtaken>>
    BY <1>1 DEF AskDeleteTeam, Asks
  <1>3. AssetIsSound(q)
    BY <1>1 DEF AssetIsSound
  <1> QED BY <1>2, <1>3, AssetStep

LEMMA AskVehicleStep ==
  ASSUME TeamInv, NEW r \in TeamRequest, NEW n \in Spelling, NEW who, AskVehicle(r, n, who)
  PROVE  TeamInv'
  <1>1. PICK found : found = FindVehicle(n)
    OBVIOUS
  <1>2. PICK q : q = [op |-> "vehicle", number |-> n, found |-> found, seen |-> Len(vehicles),
           teams |-> {t \in TeamToExtend(who) : found \notin team[t].vehicles}]
    OBVIOUS
  <1>3. /\ asset' = [asset EXCEPT ![r] = q]
        /\ UNCHANGED <<manages, team, teamOf, vehicles, places, written, missed, overtaken>>
    BY <1>1, <1>2 DEF AskVehicle, Asks
  <1>4. Len(vehicles) \in Nat
    BY LenProperties DEF TeamInv, TeamsHaveTypes
  <1>5. /\ found \in 0..Len(vehicles)
        /\ found # 0 => PlateOf(vehicles[found].number) = PlateOf(n)
        /\ found = 0 => \A i \in 1..Len(vehicles) : PlateOf(vehicles[i].number) # PlateOf(n)
    BY <1>1, <1>4, FindVehicleFinds
  <1>6. q.teams \subseteq TeamId
    BY <1>2 DEF TeamToExtend, TeamInv, TeamsHaveTypes
  <1>7. q.op = "vehicle" /\ q.number = n /\ q.found = found /\ q.seen = Len(vehicles)
    BY <1>2
  <1>8. AssetIsSound(q)
    BY <1>4, <1>5, <1>6, <1>7 DEF AssetIsSound
  <1> QED BY <1>3, <1>8, AssetStep

LEMMA AskPlaceStep ==
  ASSUME TeamInv, NEW r \in TeamRequest, NEW g \in GivenPlace, AskPlace(r, g)
  PROVE  TeamInv'
  <1>1. PICK found : found = GetOrCreate(g)
    OBVIOUS
  <1>2. PICK q : q = [op |-> "place", given |-> g, found |-> found,
           back |-> IF found = 0 THEN FALSE ELSE places[found].known = "dismissed"]
    OBVIOUS
  <1>3. /\ asset' = [asset EXCEPT ![r] = q]
        /\ UNCHANGED <<manages, team, teamOf, vehicles, places, written, missed, overtaken>>
    BY <1>1, <1>2 DEF AskPlace, Asks
  <1>4. found \in 0..Len(places)
    BY <1>1, LenProperties, GetOrCreateFinds DEF TeamInv, TeamsHaveTypes
  <1>5. AssetIsSound(q)
    BY <1>2, <1>4 DEF AssetIsSound
  <1> QED BY <1>3, <1>5, AssetStep

-----------------------------------------------------------------------------
(* Teams.                                                                   *)

\* A manager of a changed team was one before and stays, or is new and written
\* to, whether the mail reached him or not.
LEMMA PopulateStep ==
  ASSUME TeamInv, NEW r \in TeamRequest, NEW reached, PopulateTeam(r, reached)
  PROVE  TeamInv'
  <1>1. PICK q : q = asset[r]
    OBVIOUS
  <1>2. PICK t : t = q.team
    OBVIOUS
  <1>3. PICK now : now = team[t]
    OBVIOUS
  <1>4. PICK n : n = ChangedTeam(now, q.old, q.new)
    OBVIOUS
  <1>5. /\ q.op \in {"create", "update"}
        /\ team' = [team EXCEPT ![t] = n]
        /\ teamOf' = [p \in Person |-> IF p \in q.users THEN t ELSE Unbound(t)[p]]
        /\ written' = (written \ {<<t, p>> : p \in q.old.admins \ q.new.admins})
                        \cup {<<t, p>> : p \in reached \cup {q.by}}
        /\ missed' = (missed \ {<<t, p>> : p \in q.old.admins \ q.new.admins})
                       \cup {<<t, p>> : p \in ((q.new.admins \ q.old.admins) \ {q.by}) \ reached}
        /\ overtaken' = overtaken \cup {<<t, p>> : p \in {x \in q.new.admins \ q.old.admins : ~manages[x]}}
        /\ Answered(r)
        /\ UNCHANGED <<manages, vehicles, places>>
    BY <1>1, <1>2, <1>3, <1>4 DEF PopulateTeam, HandleMailToAdminUsers
  <1>6. /\ t \in TeamId /\ q.users \subseteq Person /\ q.new.admins \subseteq Person
        /\ q.new.vehicles \subseteq DOMAIN vehicles /\ q.new.places \subseteq KnownPlaces
    BY <1>1, <1>2, <1>5 DEF TeamInv, AssetIsSound
  <1>7. now \in TeamRow /\ HoldsRows(t)
    BY <1>3, <1>6 DEF TeamInv, TeamsHaveTypes
  <1>8. /\ n.exists = TRUE
        /\ n.admins = Changed(now.admins, q.old.admins, q.new.admins)
        /\ n.vehicles = Changed(now.vehicles, q.old.vehicles, q.new.vehicles)
        /\ n.places = Changed(now.places, q.old.places, q.new.places)
        /\ n = [exists |-> n.exists, admins |-> n.admins, vehicles |-> n.vehicles, places |-> n.places]
    BY <1>4 DEF ChangedTeam
  <1>9. /\ n.admins \subseteq Person /\ n.vehicles \subseteq DOMAIN vehicles /\ n.places \subseteq KnownPlaces
    <2>1. now.admins \subseteq Person
      BY <1>7 DEF TeamRow
    <2>2. now.vehicles \subseteq DOMAIN vehicles /\ now.places \subseteq KnownPlaces
      BY <1>3, <1>7 DEF HoldsRows
    <2> QED BY <1>6, <1>8, <2>1, <2>2 DEF Changed
  <1>10. n \in TeamRow
    <2>1. DOMAIN vehicles \subseteq Nat /\ KnownPlaces \subseteq Nat
      BY LenProperties DEF TeamInv, TeamsHaveTypes, KnownPlaces
    <2> QED BY <1>8, <1>9, <2>1 DEF TeamRow
  <1>11. \A u \in TeamId : team'[u] = IF u = t THEN n ELSE team[u]
    BY <1>5 DEF TeamInv, TeamsHaveTypes
  <1>12. teamOf' \in [Person -> TeamId \cup {NoTeam}]
    BY <1>5, <1>6 DEF TeamInv, TeamsHaveTypes, Unbound
  <1>13. TeamsHaveTypes'
    BY <1>5, <1>6, <1>10, <1>12, AnsweredLeavesOthers DEF TeamInv, TeamsHaveTypes
  <1>14. MembersHaveTeams'
    BY <1>5, <1>8, <1>11, <1>13 DEF TeamInv, TeamsHaveTypes, MembersHaveTeams, Unbound
  <1>15. \A u \in TeamId : HoldsRows(u)'
    BY <1>5, <1>8, <1>9, <1>11 DEF TeamInv, HoldsRows, KnownPlaces
  <1>16. NumbersDiffer' /\ VehicleIsFoundAgain'
    BY <1>5 DEF TeamInv, NumbersDiffer, VehicleIsFoundAgain
  <1>17. \A s \in TeamRequest : AssetIsSound(asset[s])'
    BY <1>5, <1>13, AssetsStaySound, RowsStandStill, AnsweredLeavesOthers DEF TeamInv
  <1>18. ManagersAreTold'
    <2> SUFFICES ASSUME NEW u \in TeamId, NEW p \in team'[u].admins
                 PROVE  <<u, p>> \in written' \cup missed'
      BY DEF ManagersAreTold
    <2>1. CASE u # t
      <3>1. <<u, p>> \in written \cup missed
        BY <1>11, <2>1 DEF TeamInv, ManagersAreTold
      <3>2. \A x : <<u, p>> # <<t, x>>
        BY <2>1
      <3> QED BY <1>5, <3>1, <3>2
    <2>2. CASE u = t /\ p \in now.admins
      <3>1. <<u, p>> \in written \cup missed
        BY <1>3, <1>6, <2>2 DEF TeamInv, ManagersAreTold
      <3>2. p \notin q.old.admins \ q.new.admins
        BY <1>8, <1>11, <2>2 DEF Changed
      <3>3. <<u, p>> \notin {<<t, x>> : x \in q.old.admins \ q.new.admins}
        BY <3>2
      <3> QED BY <1>5, <3>1, <3>3
    <2>3. CASE u = t /\ p \notin now.admins
      <3>1. p \in q.new.admins \ q.old.admins
        BY <1>8, <1>11, <2>3 DEF Changed
      <3> QED BY <1>5, <2>3, <3>1
    <2> QED BY <2>1, <2>2, <2>3
  <1>19. DemotedManageNothing'
    <2> SUFFICES ASSUME NEW u \in TeamId, NEW p \in team'[u].admins
                 PROVE  manages'[p] \/ <<u, p>> \in overtaken'
      BY DEF DemotedManageNothing
    <2>1. CASE u # t
      BY <1>5, <1>11, <2>1 DEF TeamInv, DemotedManageNothing
    <2>2. CASE u = t /\ p \in now.admins
      BY <1>3, <1>5, <1>6, <2>2 DEF TeamInv, DemotedManageNothing
    <2>3. CASE u = t /\ p \notin now.admins
      <3>1. p \in q.new.admins \ q.old.admins
        BY <1>8, <1>11, <2>3 DEF Changed
      <3> QED BY <1>5, <2>3, <3>1
    <2> QED BY <2>1, <2>2, <2>3
  <1> QED BY <1>13, <1>14, <1>15, <1>16, <1>17, <1>18, <1>19 DEF TeamInv

LEMMA GoneRow ==
  /\ GoneTeam \in TeamRow /\ GoneTeam.exists = FALSE /\ GoneTeam.admins = {}
  /\ GoneTeam.vehicles = {} /\ GoneTeam.places = {}
  BY DEF GoneTeam, TeamRow

\* The rows of a deleted team go with what was written about it.
LEMMA DeleteStep ==
  ASSUME TeamInv, NEW r \in TeamRequest, DeleteTeam(r)
  PROVE  TeamInv'
  <1>1. PICK q : q = asset[r]
    OBVIOUS
  <1>2. PICK t : t = q.team
    OBVIOUS
  <1>3. PICK deleted : deleted = (team[t] = q.old /\ \A p \in Person : teamOf[p] = t => p \in q.members)
    OBVIOUS
  <1>4. /\ q.op = "delete"
        /\ team' = IF deleted THEN [team EXCEPT ![t] = GoneTeam] ELSE team
        /\ teamOf' = IF deleted THEN Unbound(t) ELSE teamOf
        /\ written' = IF deleted THEN {w \in written : w[1] # t}
                      ELSE written
        /\ missed' = IF deleted THEN {w \in missed : w[1] # t} ELSE missed
        /\ overtaken' = IF deleted THEN {w \in overtaken : w[1] # t} ELSE overtaken
        /\ Answered(r)
        /\ UNCHANGED <<manages, vehicles, places>>
    BY <1>1, <1>2, <1>3 DEF DeleteTeam
  <1>5. t \in TeamId
    BY <1>1, <1>2, <1>4 DEF TeamInv, AssetIsSound
  <1>6. \A u \in TeamId : team'[u] = IF deleted /\ u = t THEN GoneTeam ELSE team[u]
    BY <1>4 DEF TeamInv, TeamsHaveTypes
  <1>7. TeamsHaveTypes'
    <2>1. team' \in [TeamId -> TeamRow]
      BY <1>4, GoneRow DEF TeamInv, TeamsHaveTypes
    <2>2. teamOf' \in [Person -> TeamId \cup {NoTeam}]
      BY <1>4 DEF TeamInv, TeamsHaveTypes, Unbound
    <2> QED BY <1>4, <2>1, <2>2, AnsweredLeavesOthers DEF TeamInv, TeamsHaveTypes
  <1>8. MembersHaveTeams'
    BY <1>4, <1>6, <1>7 DEF TeamInv, TeamsHaveTypes, MembersHaveTeams, Unbound
  <1>9. \A u \in TeamId : HoldsRows(u)'
    BY <1>4, <1>6, GoneRow DEF TeamInv, HoldsRows, KnownPlaces
  <1>10. NumbersDiffer' /\ VehicleIsFoundAgain'
    BY <1>4 DEF TeamInv, NumbersDiffer, VehicleIsFoundAgain
  <1>11. \A s \in TeamRequest : AssetIsSound(asset[s])'
    BY <1>4, <1>7, AssetsStaySound, RowsStandStill, AnsweredLeavesOthers DEF TeamInv
  <1>12. ManagersAreTold'
    <2> SUFFICES ASSUME NEW u \in TeamId, NEW p \in team'[u].admins
                 PROVE  <<u, p>> \in written' \cup missed'
      BY DEF ManagersAreTold
    <2>1. p \in team[u].admins /\ ~(deleted /\ u = t)
      BY <1>6, GoneRow
    <2>2. <<u, p>> \in written \cup missed
      BY <2>1 DEF TeamInv, ManagersAreTold
    <2> QED BY <1>4, <2>1, <2>2
  <1>13. DemotedManageNothing'
    <2> SUFFICES ASSUME NEW u \in TeamId, NEW p \in team'[u].admins
                 PROVE  manages'[p] \/ <<u, p>> \in overtaken'
      BY DEF DemotedManageNothing
    <2>1. p \in team[u].admins /\ ~(deleted /\ u = t)
      BY <1>6, GoneRow
    <2>2. manages[p] \/ <<u, p>> \in overtaken
      BY <2>1 DEF TeamInv, DemotedManageNothing
    <2> QED BY <1>4, <2>1, <2>2
  <1> QED BY <1>7, <1>8, <1>9, <1>10, <1>11, <1>12, <1>13 DEF TeamInv

LEMMA EmployeeTeamStep ==
  ASSUME TeamInv, NEW p \in Person, NEW t \in TeamId \cup {NoTeam}, ChangeEmployeeTeam(p, t)
  PROVE  TeamInv'
  <1>1. /\ teamOf' = [teamOf EXCEPT ![p] = t] /\ (t # NoTeam => team[t].exists)
        /\ UNCHANGED <<manages, team, vehicles, places, asset, written, missed, overtaken>>
    BY DEF ChangeEmployeeTeam
  <1>2. TeamsHaveTypes'
    BY <1>1 DEF TeamInv, TeamsHaveTypes
  <1>3. MembersHaveTeams'
    BY <1>1 DEF TeamInv, TeamsHaveTypes, MembersHaveTeams
  <1>4. \A u \in TeamId : HoldsRows(u)'
    BY <1>1 DEF TeamInv, HoldsRows, KnownPlaces
  <1>5. NumbersDiffer' /\ VehicleIsFoundAgain' /\ ManagersAreTold' /\ DemotedManageNothing'
    BY <1>1 DEF TeamInv, NumbersDiffer, VehicleIsFoundAgain, ManagersAreTold, DemotedManageNothing
  <1>6. \A s \in TeamRequest : AssetIsSound(asset[s])'
    BY <1>1, <1>2, AssetsStaySound, RowsStandStill DEF TeamInv
  <1> QED BY <1>2, <1>3, <1>4, <1>5, <1>6 DEF TeamInv

\* Who loses the admin rights loses the teams.
LEMMA RoleStep ==
  ASSUME TeamInv, NEW p \in Person, NEW admin \in BOOLEAN, ChangeEmployeeRoleInTeams(p, admin)
  PROVE  TeamInv'
  <1>1. /\ manages' = [manages EXCEPT ![p] = admin]
        /\ team' = IF admin THEN team ELSE RemoveAdminFromTeams(p)
        /\ overtaken' = {w \in overtaken : w[2] # p}
        /\ UNCHANGED <<teamOf, vehicles, places, asset, written, missed>>
    BY DEF ChangeEmployeeRoleInTeams
  <1>2. \A t \in TeamId : /\ team'[t].exists = team[t].exists /\ team'[t].vehicles = team[t].vehicles
                          /\ team'[t].places = team[t].places /\ team'[t] \in TeamRow
                          /\ team'[t].admins = team[t].admins \ (IF admin THEN {} ELSE {p})
    <2> SUFFICES ASSUME NEW t \in TeamId
                 PROVE  /\ team'[t].exists = team[t].exists /\ team'[t].vehicles = team[t].vehicles
                        /\ team'[t].places = team[t].places /\ team'[t] \in TeamRow
                        /\ team'[t].admins = team[t].admins \ (IF admin THEN {} ELSE {p})
      OBVIOUS
    <2>1. team[t] \in TeamRow
      BY DEF TeamInv, TeamsHaveTypes
    <2>2. CASE admin
      BY <1>1, <2>1, <2>2
    <2>3. CASE ~admin
      <3>1. team'[t] = [team[t] EXCEPT !.admins = @ \ {p}]
        BY <1>1, <2>3 DEF RemoveAdminFromTeams
      <3> QED BY <2>1, <2>3, <3>1 DEF TeamRow
    <2> QED BY <2>2, <2>3
  <1>3. TeamsHaveTypes'
    <2>1. team' \in [TeamId -> TeamRow]
      <3>1. CASE admin
        BY <1>1, <3>1 DEF TeamInv, TeamsHaveTypes
      <3>2. CASE ~admin
        <4>1. team' = [t \in TeamId |-> team'[t]]
          BY <1>1, <3>2 DEF RemoveAdminFromTeams
        <4> QED BY <1>2, <4>1
      <3> QED BY <3>1, <3>2
    <2> QED BY <1>1, <2>1 DEF TeamInv, TeamsHaveTypes
  <1>4. MembersHaveTeams'
    BY <1>1, <1>2 DEF TeamInv, TeamsHaveTypes, MembersHaveTeams
  <1>5. \A t \in TeamId : HoldsRows(t)'
    <2> SUFFICES ASSUME NEW t \in TeamId PROVE HoldsRows(t)'
      OBVIOUS
    <2>1. HoldsRows(t)
      BY DEF TeamInv
    <2>2. ~team'[t].exists => team'[t] = GoneTeam
      <3> SUFFICES ASSUME ~team[t].exists PROVE team'[t] = GoneTeam
        BY <1>2
      <3>1. team[t] = GoneTeam
        BY <2>1 DEF HoldsRows
      <3>2. team'[t].exists = FALSE /\ team'[t].admins = {} /\ team'[t].vehicles = {} /\ team'[t].places = {}
        BY <1>2, <3>1, GoneRow
      <3> QED BY <1>2, <3>2 DEF TeamRow, GoneTeam
    <2> QED BY <1>1, <1>2, <2>1, <2>2 DEF HoldsRows, KnownPlaces
  <1>6. NumbersDiffer' /\ VehicleIsFoundAgain'
    BY <1>1 DEF TeamInv, NumbersDiffer, VehicleIsFoundAgain
  <1>7. ManagersAreTold'
    BY <1>1, <1>2 DEF TeamInv, ManagersAreTold
  <1>8. DemotedManageNothing'
    <2> SUFFICES ASSUME NEW t \in TeamId, NEW x \in team'[t].admins
                 PROVE  manages'[x] \/ <<t, x>> \in overtaken'
      BY DEF DemotedManageNothing
    <2>1. x \in team[t].admins /\ (~admin => x # p)
      BY <1>2
    <2>2. x \in Person
      BY <1>2 DEF TeamRow
    <2>3. manages[x] \/ <<t, x>> \in overtaken
      BY <2>1 DEF TeamInv, DemotedManageNothing
    <2>4. CASE x = p
      BY <1>1, <2>1, <2>2, <2>4 DEF TeamInv, TeamsHaveTypes
    <2>5. CASE x # p
      BY <1>1, <2>2, <2>3, <2>5 DEF TeamInv, TeamsHaveTypes
    <2> QED BY <2>4, <2>5
  <1>9. \A s \in TeamRequest : AssetIsSound(asset[s])'
    BY <1>1, <1>3, AssetsStaySound, RowsStandStill DEF TeamInv
  <1> QED BY <1>3, <1>4, <1>5, <1>6, <1>7, <1>8, <1>9 DEF TeamInv

\* Who loses the rights with his employment stays, and is known to.
LEMMA EmploymentTurnsStep ==
  ASSUME TeamInv, NEW p \in Person, EmploymentTurns(p)
  PROVE  TeamInv'
  <1>1. /\ manages' = [manages EXCEPT ![p] = ~@]
        /\ overtaken' = {w \in overtaken : w[2] # p}
             \cup {<<t, p>> : t \in {u \in TeamId : manages[p] /\ p \in team[u].admins}}
        /\ UNCHANGED <<team, teamOf, vehicles, places, asset, written, missed>>
    BY DEF EmploymentTurns
  <1>2. TeamsHaveTypes'
    BY <1>1 DEF TeamInv, TeamsHaveTypes
  <1>3. MembersHaveTeams' /\ NumbersDiffer' /\ VehicleIsFoundAgain' /\ ManagersAreTold'
    BY <1>1 DEF TeamInv, MembersHaveTeams, NumbersDiffer, VehicleIsFoundAgain, ManagersAreTold
  <1>4. \A u \in TeamId : HoldsRows(u)'
    BY <1>1 DEF TeamInv, HoldsRows, KnownPlaces
  <1>5. \A s \in TeamRequest : AssetIsSound(asset[s])'
    BY <1>1, <1>2, AssetsStaySound, RowsStandStill DEF TeamInv
  <1>6. DemotedManageNothing'
    <2> SUFFICES ASSUME NEW u \in TeamId, NEW x \in team[u].admins
                 PROVE  manages'[x] \/ <<u, x>> \in overtaken'
      BY <1>1 DEF DemotedManageNothing
    <2>1. /\ manages[x] \/ <<u, x>> \in overtaken
          /\ x \in Person /\ manages \in [Person -> BOOLEAN]
      BY DEF TeamInv, TeamsHaveTypes, TeamRow, DemotedManageNothing
    <2>2. CASE x = p /\ manages[p]
      BY <1>1, <2>2
    <2>3. CASE x = p /\ ~manages[p]
      BY <1>1, <2>1, <2>3
    <2>4. CASE x # p
      BY <1>1, <2>1, <2>4
    <2> QED BY <2>2, <2>3, <2>4
  <1> QED BY <1>2, <1>3, <1>4, <1>5, <1>6 DEF TeamInv

-----------------------------------------------------------------------------
(* Vehicles and places: the teams change only in the rows they hold.        *)

\* What the rest of the invariant asks of a step on the rows.
RowsChange ==
  /\ team' \in [TeamId -> TeamRow]
  /\ \A t \in TeamId : team'[t].exists = team[t].exists /\ team'[t].admins = team[t].admins
  /\ UNCHANGED <<manages, teamOf, written, missed, overtaken>>

LEMMA RowsStep ==
  ASSUME TeamInv, RowsChange, vehicles' \in Seq(VehicleRow), places' \in Seq(PlaceRow), RowsOnlyCome,
         DOMAIN asset' = TeamRequest,
         \A r \in TeamRequest : asset'[r] = asset[r] \/ asset'[r] = IdleAsset,
         \A t \in TeamId : HoldsRows(t)', NumbersDiffer', VehicleIsFoundAgain'
  PROVE  TeamInv'
  <1>1. TeamsHaveTypes'
    BY DEF TeamInv, TeamsHaveTypes, RowsChange
  <1>2. MembersHaveTeams'
    BY DEF TeamInv, TeamsHaveTypes, MembersHaveTeams, RowsChange
  <1>3. ManagersAreTold' /\ DemotedManageNothing'
    BY DEF TeamInv, ManagersAreTold, DemotedManageNothing, RowsChange
  <1>4. \A s \in TeamRequest : AssetIsSound(asset[s])'
    BY <1>1, AssetsStaySound
  <1> QED BY <1>1, <1>2, <1>3, <1>4 DEF TeamInv

\* Rows taken from a team leave it the others.
LEMMA SmallerTeam ==
  ASSUME NEW o \in TeamRow, NEW n, NEW i,
         \/ n = [o EXCEPT !.vehicles = @ \ {i}]
         \/ n = [o EXCEPT !.places = @ \ {i}]
  PROVE  /\ n \in TeamRow /\ n.exists = o.exists /\ n.admins = o.admins
         /\ n.vehicles \subseteq o.vehicles /\ n.places \subseteq o.places
         /\ o = GoneTeam => n = GoneTeam
  <1>1. /\ n \in TeamRow /\ n.exists = o.exists /\ n.admins = o.admins
        /\ n.vehicles \subseteq o.vehicles /\ n.places \subseteq o.places
    BY DEF TeamRow
  <1>2. o = GoneTeam => n = GoneTeam
    <2> SUFFICES ASSUME o = GoneTeam PROVE n = GoneTeam
      OBVIOUS
    <2>1. n.exists = FALSE /\ n.admins = {} /\ n.vehicles = {} /\ n.places = {}
      BY <1>1, GoneRow
    <2> QED BY <1>1, <2>1 DEF TeamRow, GoneTeam
  <1> QED BY <1>1, <1>2

LEMMA TerminateVehicleStep ==
  ASSUME TeamInv, NEW i \in DOMAIN vehicles, TerminateVehicle(i)
  PROVE  TeamInv'
  <1>1. /\ vehicles' = [vehicles EXCEPT ![i].terminated = TRUE]
        /\ team' = [t \in TeamId |-> [team[t] EXCEPT !.vehicles = @ \ {i}]]
        /\ UNCHANGED <<manages, teamOf, places, asset, written, missed, overtaken>>
    BY DEF TerminateVehicle
  <1>2. vehicles \in Seq(VehicleRow) /\ DOMAIN vehicles = 1..Len(vehicles) /\ Len(vehicles) \in Nat
    BY LenProperties DEF TeamInv, TeamsHaveTypes
  <1>3. vehicles[i] \in VehicleRow
    BY <1>2
  <1>4. PICK v : v = [vehicles[i] EXCEPT !.terminated = TRUE]
    OBVIOUS
  <1>5. v \in VehicleRow /\ v.number = vehicles[i].number /\ v.seen = vehicles[i].seen
    BY <1>3, <1>4 DEF VehicleRow
  <1>6. vehicles' = [vehicles EXCEPT ![i] = v]
    BY <1>1, <1>4
  <1>7. /\ vehicles' \in Seq(VehicleRow) /\ Len(vehicles') = Len(vehicles) /\ DOMAIN vehicles' = DOMAIN vehicles
        /\ \A j \in DOMAIN vehicles : vehicles'[j] = IF j = i THEN v ELSE vehicles[j]
    BY <1>2, <1>5, <1>6, ExceptSeq
  <1>8. \A j \in DOMAIN vehicles : vehicles'[j].number = vehicles[j].number /\ vehicles'[j].seen = vehicles[j].seen
    BY <1>5, <1>7
  <1>9. RowsOnlyCome
    BY <1>1, <1>2, <1>7, <1>8, LenProperties DEF RowsOnlyCome, TeamInv, TeamsHaveTypes
  <1>10. \A t \in TeamId :
           /\ team'[t] \in TeamRow /\ team'[t].exists = team[t].exists /\ team'[t].admins = team[t].admins
           /\ team'[t].vehicles \subseteq team[t].vehicles /\ team'[t].places \subseteq team[t].places
           /\ team[t] = GoneTeam => team'[t] = GoneTeam
    <2> SUFFICES ASSUME NEW t \in TeamId
                 PROVE  /\ team'[t] \in TeamRow /\ team'[t].exists = team[t].exists /\ team'[t].admins = team[t].admins
                        /\ team'[t].vehicles \subseteq team[t].vehicles /\ team'[t].places \subseteq team[t].places
                        /\ team[t] = GoneTeam => team'[t] = GoneTeam
      OBVIOUS
    <2>1. PICK o : o = team[t]
      OBVIOUS
    <2>2. PICK n : n = team'[t]
      OBVIOUS
    <2>3. o \in TeamRow /\ n = [o EXCEPT !.vehicles = @ \ {i}]
      BY <1>1, <2>1, <2>2 DEF TeamInv, TeamsHaveTypes
    <2> QED BY <2>1, <2>2, <2>3, SmallerTeam
  <1>11. RowsChange
    BY <1>1, <1>10 DEF RowsChange
  <1>12. \A t \in TeamId : HoldsRows(t)'
    BY <1>1, <1>7, <1>10 DEF TeamInv, HoldsRows, KnownPlaces
  <1>13. NumbersDiffer'
    BY <1>7, <1>8 DEF TeamInv, NumbersDiffer
  <1>14. VehicleIsFoundAgain'
    BY <1>7, <1>8 DEF TeamInv, VehicleIsFoundAgain
  <1> QED BY <1>1, <1>7, <1>9, <1>11, <1>12, <1>13, <1>14, RowsStep DEF TeamInv, TeamsHaveTypes

\* A vehicle that was not found comes after all those the request has seen.
LEMMA StoreVehicleStep ==
  ASSUME TeamInv, NEW r \in TeamRequest, StoreVehicle(r)
  PROVE  TeamInv'
  <1>1. PICK q : q = asset[r]
    OBVIOUS
  <1>2. PICK row : row = IF q.found = 0 THEN Len(vehicles) + 1 ELSE q.found
    OBVIOUS
  <1>3. PICK v : v = IF q.found = 0
                     THEN [number |-> q.number, terminated |-> FALSE, seen |-> q.seen]
                     ELSE [vehicles[row] EXCEPT !.number = q.number, !.terminated = FALSE]
    OBVIOUS
  <1>4. /\ q.op = "vehicle" /\ NumberIsFree(q.number, q.found)
        /\ \A t \in q.teams : team[t].exists /\ row \notin team[t].vehicles
        /\ vehicles' = IF q.found = 0 THEN Append(vehicles, v) ELSE [vehicles EXCEPT ![row] = v]
        /\ team' = [t \in TeamId |-> IF t \in q.teams
                                     THEN [team[t] EXCEPT !.vehicles = @ \cup {row}] ELSE team[t]]
        /\ Answered(r)
        /\ UNCHANGED <<manages, teamOf, places, written, missed, overtaken>>
    BY <1>1, <1>2, <1>3 DEF StoreVehicle
  <1>5. /\ q.number \in Spelling /\ q.teams \subseteq TeamId
        /\ q.found \in 0..Len(vehicles) /\ q.seen \in 0..Len(vehicles)
        /\ q.found = 0 => \A i \in 1..q.seen : PlateOf(vehicles[i].number) # PlateOf(q.number)
        /\ q.found # 0 => PlateOf(vehicles[q.found].number) = PlateOf(q.number)
    <2>1. AssetIsSound(q)
      BY <1>1 DEF TeamInv
    <2> QED BY <1>4, <2>1 DEF AssetIsSound
  <1>6. vehicles \in Seq(VehicleRow) /\ DOMAIN vehicles = 1..Len(vehicles) /\ Len(vehicles) \in Nat
    BY LenProperties DEF TeamInv, TeamsHaveTypes
  <1>7. /\ v \in VehicleRow /\ v.number = q.number
        /\ q.found # 0 => v.seen = vehicles[row].seen
        /\ q.found = 0 => v.seen = q.seen
    <2>1. CASE q.found = 0
      BY <1>3, <1>5, <1>6, <2>1 DEF VehicleRow
    <2>2. CASE q.found # 0
      <3>1. vehicles[row] \in VehicleRow
        BY <1>2, <1>5, <1>6, <2>2
      <3>2. v = [vehicles[row] EXCEPT !.number = q.number, !.terminated = FALSE]
        BY <1>3, <2>2
      <3> QED BY <1>5, <2>2, <3>1, <3>2 DEF VehicleRow
    <2> QED BY <2>1, <2>2
  <1>8. /\ vehicles' \in Seq(VehicleRow) /\ DOMAIN vehicles' = 1..Len(vehicles')
        /\ Len(vehicles') = IF q.found = 0 THEN Len(vehicles) + 1 ELSE Len(vehicles)
        /\ row \in DOMAIN vehicles' /\ row \in Nat
        /\ \A j \in DOMAIN vehicles' : vehicles'[j] = IF j = row THEN v ELSE vehicles[j]
    <2>1. CASE q.found = 0
      <3>1. vehicles' = Append(vehicles, v) /\ row = Len(vehicles) + 1
        BY <1>2, <1>4, <2>1
      <3>2. /\ vehicles' \in Seq(VehicleRow) /\ Len(vehicles') = Len(vehicles) + 1
            /\ \A j \in 1..Len(vehicles) : vehicles'[j] = vehicles[j]
            /\ vehicles'[row] = v
        BY <1>6, <1>7, <3>1, AppendProperties
      <3>3. DOMAIN vehicles' = 1..Len(vehicles')
        BY <3>2, LenProperties
      <3> QED BY <1>6, <2>1, <3>1, <3>2, <3>3
    <2>2. CASE q.found # 0
      <3>1. vehicles' = [vehicles EXCEPT ![row] = v] /\ row \in 1..Len(vehicles)
        BY <1>2, <1>4, <1>5, <1>6, <2>2
      <3>2. /\ vehicles' \in Seq(VehicleRow) /\ Len(vehicles') = Len(vehicles)
            /\ \A j \in 1..Len(vehicles) : vehicles'[j] = IF j = row THEN v ELSE vehicles[j]
        BY <1>6, <1>7, <3>1, ExceptSeq
      <3>3. DOMAIN vehicles' = 1..Len(vehicles')
        BY <3>2, LenProperties
      <3> QED BY <1>6, <2>2, <3>1, <3>2, <3>3
    <2> QED BY <2>1, <2>2
  <1>9. \A j \in DOMAIN vehicles :
          /\ j \in DOMAIN vehicles' /\ PlateOf(vehicles'[j].number) = PlateOf(vehicles[j].number)
          /\ vehicles'[j].seen = vehicles[j].seen
    <2> SUFFICES ASSUME NEW j \in DOMAIN vehicles
                 PROVE  /\ j \in DOMAIN vehicles' /\ PlateOf(vehicles'[j].number) = PlateOf(vehicles[j].number)
                        /\ vehicles'[j].seen = vehicles[j].seen
      OBVIOUS
    <2>1. j \in DOMAIN vehicles'
      BY <1>6, <1>8
    <2>2. CASE j # row
      BY <1>8, <2>1, <2>2
    <2>3. CASE j = row
      <3>1. q.found # 0 /\ row = q.found
        BY <1>2, <1>6, <2>3
      <3>2. vehicles'[j] = v
        BY <1>8, <2>1, <2>3
      <3> QED BY <1>5, <1>7, <2>1, <2>3, <3>1, <3>2
    <2> QED BY <2>2, <2>3
  <1>10. RowsOnlyCome
    BY <1>4, <1>6, <1>8, <1>9, LenProperties DEF RowsOnlyCome, TeamInv, TeamsHaveTypes
  <1>11. \A t \in TeamId :
           /\ team'[t] \in TeamRow /\ team'[t].exists = team[t].exists /\ team'[t].admins = team[t].admins
           /\ team'[t].vehicles \subseteq team[t].vehicles \cup {row} /\ team'[t].places = team[t].places
           /\ t \notin q.teams => team'[t] = team[t]
    <2> SUFFICES ASSUME NEW t \in TeamId
                 PROVE  /\ team'[t] \in TeamRow /\ team'[t].exists = team[t].exists /\ team'[t].admins = team[t].admins
                        /\ team'[t].vehicles \subseteq team[t].vehicles \cup {row} /\ team'[t].places = team[t].places
                        /\ t \notin q.teams => team'[t] = team[t]
      OBVIOUS
    <2>1. team[t] \in TeamRow
      BY DEF TeamInv, TeamsHaveTypes
    <2>2. CASE t \in q.teams
      <3>1. team'[t] = [team[t] EXCEPT !.vehicles = @ \cup {row}]
        BY <1>4, <2>2
      <3> QED BY <1>8, <2>1, <2>2, <3>1 DEF TeamRow
    <2>3. CASE t \notin q.teams
      BY <1>4, <2>1, <2>3
    <2> QED BY <2>2, <2>3
  <1>12. RowsChange
    BY <1>4, <1>11 DEF RowsChange
  <1>13. \A t \in TeamId : HoldsRows(t)'
    <2> SUFFICES ASSUME NEW t \in TeamId PROVE HoldsRows(t)'
      OBVIOUS
    <2>1. HoldsRows(t)
      BY DEF TeamInv
    <2>2. DOMAIN vehicles \subseteq DOMAIN vehicles' /\ row \in DOMAIN vehicles'
      BY <1>8, <1>9
    <2>3. ~team'[t].exists => team'[t] = GoneTeam
      BY <1>4, <1>11, <2>1 DEF HoldsRows
    <2> QED BY <1>4, <1>11, <2>1, <2>2, <2>3 DEF HoldsRows, KnownPlaces
  <1>14. NumbersDiffer'
    <2> SUFFICES ASSUME NEW i \in DOMAIN vehicles', NEW j \in DOMAIN vehicles',
                        vehicles'[i].number = vehicles'[j].number, i # j
                 PROVE  FALSE
      BY DEF NumbersDiffer
    <2>1. \A k \in DOMAIN vehicles' : k # row => k \in DOMAIN vehicles /\ vehicles'[k] = vehicles[k]
      BY <1>2, <1>6, <1>8
    <2>2. \A k \in DOMAIN vehicles' : k # row => vehicles[k].number # q.number
      <3> SUFFICES ASSUME NEW k \in DOMAIN vehicles', k # row, vehicles[k].number = q.number PROVE FALSE
        OBVIOUS
      <3>1. k \in DOMAIN vehicles
        BY <2>1
      <3>2. k = q.found
        BY <1>4, <3>1 DEF NumberIsFree
      <3> QED BY <1>2, <1>6, <3>1, <3>2
    <2>3. vehicles'[row].number = q.number
      BY <1>7, <1>8
    <2>4. i # row /\ j # row
      BY <2>1, <2>2, <2>3
    <2> QED BY <2>1, <2>4 DEF TeamInv, NumbersDiffer
  <1>15. VehicleIsFoundAgain'
    <2> SUFFICES ASSUME NEW i \in DOMAIN vehicles', NEW j \in DOMAIN vehicles', i < j,
                        PlateOf(vehicles'[i].number) = PlateOf(vehicles'[j].number)
                 PROVE  vehicles'[j].seen < i
      BY DEF VehicleIsFoundAgain
    <2>1. CASE j \in DOMAIN vehicles
      <3>1. i \in DOMAIN vehicles
        BY <1>6, <1>8, <2>1
      <3> QED BY <1>9, <2>1, <3>1 DEF TeamInv, VehicleIsFoundAgain
    <2>2. CASE j \notin DOMAIN vehicles
      <3>1. q.found = 0 /\ j = row /\ i \in DOMAIN vehicles
        BY <1>2, <1>6, <1>8, <2>2
      <3>2. vehicles'[j].seen = q.seen /\ PlateOf(vehicles[i].number) = PlateOf(q.number)
        BY <1>7, <1>8, <1>9, <3>1
      <3>3. i \notin 1..q.seen
        BY <1>5, <3>1, <3>2
      <3> QED BY <1>5, <1>6, <3>1, <3>2, <3>3
    <2> QED BY <2>1, <2>2
  <1> QED BY <1>4, <1>8, <1>10, <1>12, <1>13, <1>14, <1>15, RowsStep, AnsweredLeavesOthers DEF TeamInv, TeamsHaveTypes

\* The list of the places grows, or one of them is known, or no longer.
PlacesEndure ==
  /\ places' \in Seq(PlaceRow) /\ Len(places) <= Len(places')
  /\ DOMAIN places = 1..Len(places) /\ DOMAIN places \subseteq DOMAIN places'
  /\ \A i \in DOMAIN places : places[i].known # "never" => places'[i].known # "never"

LEMMA PlaceRows ==
  ASSUME NEW g \in GivenPlace, NEW k \in {"never", "yes", "dismissed"}
  PROVE  [id |-> g.id, coords |-> g.coords, known |-> k] \in PlaceRow
  BY DEF PlaceRow

LEMMA PlaceIsAdded ==
  ASSUME places \in Seq(PlaceRow), NEW a \in PlaceRow, places' = Append(places, a)
  PROVE  PlacesEndure
  <1>1. Len(places) \in Nat /\ DOMAIN places = 1..Len(places)
    BY LenProperties
  <1>2. /\ places' \in Seq(PlaceRow) /\ Len(places') = Len(places) + 1
        /\ \A i \in 1..Len(places) : places'[i] = places[i]
    BY AppendProperties
  <1>3. DOMAIN places' = 1..Len(places')
    BY <1>2, LenProperties
  <1> QED BY <1>1, <1>2, <1>3 DEF PlacesEndure

LEMMA PlaceIsMarked ==
  ASSUME places \in Seq(PlaceRow), NEW i \in DOMAIN places, NEW k \in {"yes", "dismissed"},
         places' = [places EXCEPT ![i].known = k]
  PROVE  PlacesEndure
  <1>1. Len(places) \in Nat /\ DOMAIN places = 1..Len(places) /\ places[i] \in PlaceRow
    BY LenProperties, ElementOfSeq
  <1>2. PICK g \in GivenPlace, was \in {"never", "yes", "dismissed"} :
          places[i] = [id |-> g.id, coords |-> g.coords, known |-> was]
    BY <1>1 DEF PlaceRow
  <1>3. PICK w : w = [id |-> g.id, coords |-> g.coords, known |-> k]
    OBVIOUS
  <1>4. w \in PlaceRow /\ w.known = k
    <2>1. k \in {"never", "yes", "dismissed"}
      OBVIOUS
    <2>2. w \in PlaceRow
      BY <1>3, <2>1, PlaceRows
    <2> QED BY <1>3, <2>2
  <1>5. [places[i] EXCEPT !.known = k] = w
    BY <1>2, <1>3
  <1>6. places' = [places EXCEPT ![i] = w]
    BY <1>5
  <1>7. /\ places' \in Seq(PlaceRow) /\ Len(places') = Len(places)
        /\ \A j \in 1..Len(places) : places'[j] = IF j = i THEN w ELSE places[j]
    BY <1>1, <1>4, <1>6, ExceptSeq
  <1>8. DOMAIN places' = 1..Len(places')
    BY <1>7, LenProperties
  <1>9. w.known # "never"
    BY <1>4
  <1> QED BY <1>1, <1>7, <1>8, <1>9 DEF PlacesEndure

LEMMA PlacesChange ==
  ASSUME TeamInv, NEW a,
         \/ a \in PlaceRow /\ places' = Append(places, a)
         \/ \E i \in DOMAIN places, k \in {"yes", "dismissed"} : places' = [places EXCEPT ![i].known = k]
         \/ places' = places
  PROVE  PlacesEndure
  <1>1. places \in Seq(PlaceRow) /\ DOMAIN places = 1..Len(places) /\ Len(places) \in Nat
    BY LenProperties DEF TeamInv, TeamsHaveTypes
  <1>2. places' = places => PlacesEndure
    BY <1>1 DEF PlacesEndure
  <1> QED BY <1>1, <1>2, PlaceIsAdded, PlaceIsMarked

LEMMA PlaceStep ==
  ASSUME TeamInv, NEW a,
         \/ a \in PlaceRow /\ places' = Append(places, a)
         \/ \E i \in DOMAIN places, k \in {"yes", "dismissed"} : places' = [places EXCEPT ![i].known = k]
         \/ places' = places,
         DOMAIN asset' = TeamRequest,
         \A r \in TeamRequest : asset'[r] = asset[r] \/ asset'[r] = IdleAsset,
         RowsChange, UNCHANGED vehicles,
         \A t \in TeamId : /\ team'[t].vehicles \subseteq team[t].vehicles
                           /\ team'[t].places \subseteq team[t].places
                           /\ team[t] = GoneTeam => team'[t] = GoneTeam
  PROVE  TeamInv'
  <1>1. /\ places' \in Seq(PlaceRow) /\ Len(places) <= Len(places')
        /\ DOMAIN places = 1..Len(places) /\ DOMAIN places \subseteq DOMAIN places'
        /\ \A i \in DOMAIN places : places[i].known # "never" => places'[i].known # "never"
    BY PlacesChange DEF PlacesEndure
  <1>2. RowsOnlyCome
    BY <1>1, LenProperties DEF RowsOnlyCome, TeamInv, TeamsHaveTypes
  <1>3. KnownPlaces \subseteq KnownPlaces'
    BY <1>1 DEF KnownPlaces
  <1>4. \A t \in TeamId : HoldsRows(t)'
    BY <1>3 DEF TeamInv, HoldsRows, RowsChange
  <1>5. NumbersDiffer' /\ VehicleIsFoundAgain'
    BY DEF TeamInv, NumbersDiffer, VehicleIsFoundAgain
  <1> QED BY <1>1, <1>2, <1>4, <1>5, RowsStep DEF TeamInv, TeamsHaveTypes

LEMMA PlaceSteps ==
  ASSUME TeamInv,
         \/ \E g \in GivenPlace : LogMissionPlace(g)
         \/ \E r \in TeamRequest : CreateCompanyKnownAddress(r)
         \/ \E i \in DOMAIN places : TerminateCompanyKnownAddress(i)
  PROVE  TeamInv'
  <1>0. team' = team /\ UNCHANGED <<manages, teamOf, written, missed, overtaken>> =>
          /\ RowsChange
          /\ \A t \in TeamId : /\ team'[t].vehicles \subseteq team[t].vehicles
                               /\ team'[t].places \subseteq team[t].places
                               /\ team[t] = GoneTeam => team'[t] = GoneTeam
    BY DEF RowsChange, TeamInv, TeamsHaveTypes
  <1>1. ASSUME NEW g \in GivenPlace, LogMissionPlace(g)
        PROVE  TeamInv'
    <2>1. PICK a : a = [id |-> g.id, coords |-> g.coords, known |-> "never"]
      OBVIOUS
    <2>2. a \in PlaceRow
      BY <2>1 DEF PlaceRow
    <2>3. /\ places' = Append(places, a) \/ places' = places
          /\ UNCHANGED <<manages, team, teamOf, vehicles, asset, written, missed, overtaken>>
      BY <1>1, <2>1 DEF LogMissionPlace, NewPlace
    <2> QED BY <1>0, <2>2, <2>3, PlaceStep DEF TeamInv, TeamsHaveTypes
  <1>2. ASSUME NEW r \in TeamRequest, CreateCompanyKnownAddress(r)
        PROVE  TeamInv'
    <2>1. PICK q : q = asset[r]
      OBVIOUS
    <2>2. PICK g : g = q.given
      OBVIOUS
    <2>3. PICK a : a = [id |-> g.id, coords |-> g.coords, known |-> "yes"]
      OBVIOUS
    <2>4. /\ places' = IF q.found = 0 THEN Append(places, a) ELSE [places EXCEPT ![q.found].known = "yes"]
          /\ Answered(r) /\ UNCHANGED <<manages, team, teamOf, vehicles, written, missed, overtaken>>
          /\ q.op = "place"
      BY <1>2, <2>1, <2>2, <2>3 DEF CreateCompanyKnownAddress, NewPlace
    <2>5. q.found \in 0..Len(places) /\ g \in GivenPlace
      <3>1. AssetIsSound(q)
        BY <2>1 DEF TeamInv
      <3> QED BY <2>2, <2>4, <3>1 DEF AssetIsSound
    <2>6. a \in PlaceRow
      BY <2>3, <2>5 DEF PlaceRow
    <2>7. q.found # 0 => q.found \in DOMAIN places
      BY <2>5, LenProperties DEF TeamInv, TeamsHaveTypes
    <2> QED BY <1>0, <2>4, <2>6, <2>7, PlaceStep, AnsweredLeavesOthers
  <1>3. ASSUME NEW i \in DOMAIN places, TerminateCompanyKnownAddress(i)
        PROVE  TeamInv'
    <2>1. /\ places' = [places EXCEPT ![i].known = "dismissed"]
          /\ team' = [t \in TeamId |-> [team[t] EXCEPT !.places = @ \ {i}]]
          /\ UNCHANGED <<manages, teamOf, vehicles, asset, written, missed, overtaken>>
      BY <1>3 DEF TerminateCompanyKnownAddress
    <2>2. \A t \in TeamId :
            /\ team'[t] \in TeamRow /\ team'[t].exists = team[t].exists /\ team'[t].admins = team[t].admins
            /\ team'[t].vehicles \subseteq team[t].vehicles /\ team'[t].places \subseteq team[t].places
            /\ team[t] = GoneTeam => team'[t] = GoneTeam
      <3> SUFFICES ASSUME NEW t \in TeamId
                   PROVE  /\ team'[t] \in TeamRow /\ team'[t].exists = team[t].exists /\ team'[t].admins = team[t].admins
                          /\ team'[t].vehicles \subseteq team[t].vehicles /\ team'[t].places \subseteq team[t].places
                          /\ team[t] = GoneTeam => team'[t] = GoneTeam
        OBVIOUS
      <3>1. PICK o : o = team[t]
        OBVIOUS
      <3>2. PICK n : n = team'[t]
        OBVIOUS
      <3>3. o \in TeamRow /\ n = [o EXCEPT !.places = @ \ {i}]
        BY <2>1, <3>1, <3>2 DEF TeamInv, TeamsHaveTypes
      <3> QED BY <3>1, <3>2, <3>3, SmallerTeam
    <2>3. RowsChange
      BY <2>1, <2>2 DEF RowsChange
    <2>4. PICK a : a = 0
      OBVIOUS
    <2> QED BY <2>1, <2>2, <2>3, PlaceStep DEF TeamInv, TeamsHaveTypes
  <1> QED BY <1>1, <1>2, <1>3

LEMMA TeamNextStep == TeamInv /\ [TeamNext]_teamVars => TeamInv'
  <1> SUFFICES ASSUME TeamInv, [TeamNext]_teamVars PROVE TeamInv'
    OBVIOUS
  <1>1. ASSUME NEW t \in TeamId, TeamStep(t) PROVE TeamInv'
    BY <1>1, AskTeamStep, AskDeleteTeamStep, EmployeeTeamStep DEF TeamStep
  <1>2. ASSUME NEW p \in Person, ChangeEmployeeTeam(p, NoTeam) PROVE TeamInv'
    BY <1>2, EmployeeTeamStep
  <1>3. ASSUME NEW p \in Person, NEW admin \in BOOLEAN, ChangeEmployeeRoleInTeams(p, admin) PROVE TeamInv'
    BY <1>3, RoleStep
  <1>10. ASSUME NEW p \in Person, EmploymentTurns(p) PROVE TeamInv'
    BY <1>10, EmploymentTurnsStep
  <1>4. ASSUME NEW r \in TeamRequest, NEW n \in Spelling, NEW who \in Person \cup {NoTeam}, AskVehicle(r, n, who)
        PROVE  TeamInv'
    BY <1>4, AskVehicleStep
  <1>5. ASSUME NEW r \in TeamRequest, NEW g \in GivenPlace, AskPlace(r, g) PROVE TeamInv'
    BY <1>5, AskPlaceStep
  <1>6. ASSUME NEW r \in TeamRequest,
               \/ \E reached \in SUBSET Person : PopulateTeam(r, reached)
               \/ TeamConflict(r) \/ DeleteTeam(r)
               \/ StoreVehicle(r) \/ VehicleConflict(r) \/ PlaceConflict(r)
        PROVE  TeamInv'
    BY <1>6, PopulateStep, DeleteStep, StoreVehicleStep, RefusedStep
  <1>7. ASSUME \/ \E g \in GivenPlace : LogMissionPlace(g)
               \/ \E r \in TeamRequest : CreateCompanyKnownAddress(r)
               \/ \E i \in DOMAIN places : TerminateCompanyKnownAddress(i)
        PROVE  TeamInv'
    BY <1>7, PlaceSteps
  <1>8. ASSUME NEW i \in DOMAIN vehicles, TerminateVehicle(i) PROVE TeamInv'
    BY <1>8, TerminateVehicleStep
  <1>9. CASE UNCHANGED teamVars
    <2>1. UNCHANGED <<manages, team, teamOf, vehicles, places, asset, written, missed, overtaken>>
      BY <1>9 DEF teamVars
    <2>2. TeamsHaveTypes'
      BY <2>1 DEF TeamInv, TeamsHaveTypes
    <2>3. MembersHaveTeams' /\ NumbersDiffer' /\ ManagersAreTold' /\ DemotedManageNothing' /\ VehicleIsFoundAgain'
      BY <2>1 DEF TeamInv, MembersHaveTeams, NumbersDiffer, ManagersAreTold, DemotedManageNothing, VehicleIsFoundAgain
    <2>4. \A t \in TeamId : HoldsRows(t)'
      BY <2>1 DEF TeamInv, HoldsRows, KnownPlaces
    <2>5. \A r \in TeamRequest : AssetIsSound(asset[r])'
      BY <2>1, <2>2, AssetsStaySound, RowsStandStill DEF TeamInv
    <2> QED BY <2>2, <2>3, <2>4, <2>5 DEF TeamInv
  <1> QED BY <1>1, <1>2, <1>3, <1>4, <1>5, <1>6, <1>7, <1>8, <1>9, <1>10 DEF TeamNext

\* A manager was told of his team but for a lost mail, has the rights but for
\* an employment that is over or an update that overlapped, teams hold rows
\* that exist, and a vehicle is found again under every spelling
\* (TeamsAreKept), for any number of people, teams, rows and requests.
THEOREM TeamsStayKept == TeamSpec => []TeamsAreKept
  <1>1. TeamSpec => []TeamInv
    BY TeamInitially, TeamNextStep, PTL DEF TeamSpec
  <1> QED BY <1>1, TeamInvSays, PTL

-----------------------------------------------------------------------------
(* Mailings.  A campaign writes to those its query found, whom it has not   *)
(* written to, and what the query said of them still stands when it does.   *)

OnboardingIsFair ==
  mailJob.campaign = 1 =>
    \A e \in mailJob.todo :
      /\ e \in Staff /\ invitees[e].user # NoUser
      /\ \A m \in emails : m.type = OnboardingMail /\ m.address = invitees[e].user =>
           m.day = mailDay

\* A recall is not recorded before all of them are committed.
RecallIsFair ==
  /\ recalled \subseteq Staff
  /\ mailJob.campaign # 6 => recalled = {} /\ unsent = {}
  /\ mailJob.campaign = 6 =>
       /\ mailJob.todo \subseteq Staff
       /\ \A e \in mailJob.todo \cup recalled : ~WrittenTo(RecallMail, Mailbox[e])
       /\ \A e, f \in mailJob.todo \cup recalled : Mailbox[e] = Mailbox[f] => e = f

CampaignIsFair ==
  mailJob.campaign \in {2, 3, 4, 5, 7, 8, 9} =>
    \A to \in mailJob.todo : ~WrittenTo(CampaignTypes[mailJob.campaign], to)

RecipientsAreRight ==
  /\ mailJob.campaign \in {2, 3, 4, 5, 7} => mailJob.todo \subseteq MailCompany
  /\ mailJob.campaign \in {8, 9} => mailJob.todo \subseteq Addresses
  /\ mailJob.campaign = 0 => mailJob.todo = {}

\* Who was told of having invited nobody had invited nobody before.
NobodyWasInvited ==
  \A m \in emails, e \in Staff :
    /\ m.type = NoInvitationMail
    /\ FirmOf[e] = m.address /\ invitees[e].state # "none"
    => m.day <= invitees[e].created

NobodyIsInvited ==
  mailJob.campaign = 2 =>
    \A e \in Staff :
      FirmOf[e] \in mailJob.todo /\ invitees[e].state # "none" =>
        invitees[e].created = mailDay

SomebodyWasInvited ==
  mailJob.campaign = 3 =>
    \A c \in mailJob.todo :
      \E e \in Staff : /\ FirmOf[e] = c /\ invitees[e].state # "none"
                       /\ invitees[e].created < mailDay

\* The campaigns of a day come in their order, once a day.
ActivityComesLater ==
  /\ mailJob.campaign > 0 => mailJob.ran
  /\ \A m \in emails : m.type = NoActivityMail /\ m.day = mailDay =>
       /\ mailJob.ran
       /\ mailJob.campaign \notin {1, 2}

RemindedWereAsleep ==
  mailJob.campaign \in {8, 9} =>
    \A a \in mailJob.todo : accounts[a].activated => accounts[a].since = mailDay

CampaignInv ==
  /\ OnboardingIsFair
  /\ RecallIsFair
  /\ CampaignIsFair
  /\ RecipientsAreRight
  /\ NobodyIsInvited
  /\ SomebodyWasInvited
  /\ RemindedWereAsleep

RowsAreWhole ==
  \A m \in emails :
    m = [type |-> m.type, address |-> m.address, employment |-> m.employment,
         day |-> m.day, rank |-> m.rank]

\* The two parts of WrittenToOnce.
RowsAreSingle ==
  \A m, n \in emails :
    /\ m.type = n.type /\ m.address = n.address
    /\ m.type \notin {InvitationMail, ActivationMail}
    => m = n

LastIsRecorded ==
  \A m \in emails :
    m.type \notin {InvitationMail, ActivationMail} =>
      m.rank = letters[<<m.type, m.address>>]

MailInv ==
  /\ MailingTypeOK
  /\ RowsAreWhole
  /\ mailJob = [campaign |-> mailJob.campaign, todo |-> mailJob.todo, ran |-> mailJob.ran]
  /\ mailJob.ran \in BOOLEAN
  /\ \A m \in emails : m.day <= mailDay
  /\ RowsAreSingle
  /\ LastIsRecorded
  /\ OneStoryADay
  /\ NoReminderOnceActivated
  /\ NobodyWasInvited
  /\ ActivityComesLater
  /\ CampaignInv

LEMMA CampaignNames ==
  /\ CampaignTypes[1] = OnboardingMail /\ CampaignTypes[2] = NoInvitationMail
  /\ CampaignTypes[3] = NoActivityMail /\ CampaignTypes[4] = NoActivityReminder
  /\ CampaignTypes[5] = NoInvitationReminder /\ CampaignTypes[6] = RecallMail
  /\ CampaignTypes[7] = PendingMail /\ CampaignTypes[8] = D2Mail
  /\ CampaignTypes[9] = D4Mail
  /\ Len(CampaignTypes) = 9
BY DEF CampaignTypes

LEMMA MailNames ==
  /\ EmailTypes = {OnboardingMail, NoInvitationMail, NoActivityMail, NoActivityReminder,
                   NoInvitationReminder, RecallMail, PendingMail, D2Mail, D4Mail,
                   InvitationMail, ActivationMail}
  /\ \A n \in 1..9 : CampaignTypes[n] \in EmailTypes
<1>1. 1..Len(CampaignTypes) = {1, 2, 3, 4, 5, 6, 7, 8, 9}
  BY CampaignNames
<1>2. {CampaignTypes[n] : n \in 1..Len(CampaignTypes)} =
        {OnboardingMail, NoInvitationMail, NoActivityMail, NoActivityReminder,
         NoInvitationReminder, RecallMail, PendingMail, D2Mail, D4Mail}
  BY <1>1, CampaignNames
<1>3. QED BY <1>1, <1>2, CampaignNames DEF EmailTypes

LEMMA MailingBegins == MailingInit => MailInv
<1> SUFFICES ASSUME MailingInit PROVE MailInv
  OBVIOUS
<1> USE MailAssumption DEF MailingInit
<1>1. MailingTypeOK
  <2>1. 0 \in MailDays
    BY DEF MailDays
  <2>2. 0 \in 0..Len(CampaignTypes)
    BY CampaignNames
  <2>3. letters \in [Posts -> Nat]
    OBVIOUS
  <2>4. QED BY <2>1, <2>2, <2>3 DEF MailingTypeOK
<1>2. RowsAreSingle /\ LastIsRecorded /\ OneStoryADay /\ NoReminderOnceActivated
      /\ NobodyWasInvited /\ RowsAreWhole
  BY DEF RowsAreSingle, LastIsRecorded, OneStoryADay, NoReminderOnceActivated,
         NobodyWasInvited, WrittenOn, RowsAreWhole
<1>3. ActivityComesLater /\ CampaignInv
  BY DEF ActivityComesLater, CampaignInv, OnboardingIsFair, RecallIsFair, CampaignIsFair,
         RecipientsAreRight, NobodyIsInvited, SomebodyWasInvited, RemindedWereAsleep
<1>4. QED BY <1>1, <1>2, <1>3 DEF MailInv

\* A new campaign that its query prepared well.
LEMMA CampaignBegins ==
  ASSUME MailInv, NEW n \in 1..9, NEW lists, NEW l \in lists, Campaign(n, lists),
         mailJob'.todo = l, CampaignInv'
  PROVE  MailInv'
<1> USE DEF Campaign
<1>0. /\ UNCHANGED <<mailDay, invitees, accounts, active, emails, letters>>
      /\ mailJob.campaign = n - 1
      /\ n = 1 => ~mailJob.ran
      /\ mailJob' = [campaign |-> n, todo |-> l, ran |-> TRUE]
  BY DEF Campaign
<1>1. MailingTypeOK'
  BY <1>0, CampaignNames DEF MailInv, MailingTypeOK
<1>2. (\A m \in emails : m.day <= mailDay)' /\ RowsAreSingle' /\ LastIsRecorded'
      /\ OneStoryADay' /\ NoReminderOnceActivated' /\ NobodyWasInvited' /\ RowsAreWhole'
  BY <1>0 DEF MailInv, RowsAreSingle, LastIsRecorded, OneStoryADay, WrittenOn, NoReminderOnceActivated,
              NobodyWasInvited, RowsAreWhole
<1>3. ActivityComesLater'
  BY <1>0 DEF MailInv, ActivityComesLater
<1>4. QED BY <1>0, <1>1, <1>2, <1>3 DEF MailInv

\* What the query of a campaign that writes to companies, or addresses, finds.
FoundBy(n, l) ==
  /\ n \in {2, 3, 4, 5, 7, 8, 9}
  /\ n \in {2, 3, 4, 5, 7} => l \subseteq MailCompany
  /\ n \in {8, 9} => l \subseteq Addresses
  /\ \A to \in l : ~WrittenTo(CampaignTypes[n], to)
  /\ n = 2 => \A c \in l : StaffOf(c) = {}
  /\ n = 3 => \A c \in l : \E e \in StaffOf(c) : invitees[e].created < mailDay
  /\ n \in {8, 9} => \A a \in l : ~accounts[a].activated

LEMMA ListedCampaignBegins ==
  ASSUME MailInv, NEW n, NEW l, Campaign(n, {l}), FoundBy(n, l)
  PROVE  MailInv'
<1> USE DEF FoundBy
<1>0. /\ UNCHANGED <<mailDay, invitees, accounts, active, emails>>
      /\ mailJob'.campaign = n /\ mailJob'.todo = l
      /\ recalled' = {} /\ unsent' = {}
  BY DEF Campaign, held
<1>1. OnboardingIsFair' /\ RecallIsFair'
  BY <1>0 DEF OnboardingIsFair, RecallIsFair
<1>2. CampaignIsFair'
  BY <1>0 DEF CampaignIsFair, WrittenTo
<1>3. RecipientsAreRight'
  BY <1>0 DEF RecipientsAreRight
<1>4. NobodyIsInvited'
  BY <1>0 DEF NobodyIsInvited, StaffOf
<1>5. SomebodyWasInvited'
  BY <1>0 DEF SomebodyWasInvited, StaffOf
<1>6. RemindedWereAsleep'
  BY <1>0 DEF RemindedWereAsleep
<1>7. CampaignInv'
  BY <1>1, <1>2, <1>3, <1>4, <1>5, <1>6 DEF CampaignInv
<1>8. n \in 1..9 /\ l \in {l}
  OBVIOUS
<1>9. QED BY <1>0, <1>7, <1>8, CampaignBegins

\* The queries of the seven.
LEMMA ListedCampaignsBegin ==
  ASSUME MailInv,
         \/ SendWithoutInvitation \/ SendWithoutActivities
         \/ SendWithoutActivityReminder \/ SendReminderNoInvitation
         \/ SendPendingInvitation \/ SendActivationD2 \/ SendActivationD4
  PROVE  MailInv'
<1> USE CampaignNames DEF FoundBy
<1>1. CASE SendWithoutInvitation
  <2>1. FoundBy(2, WithoutInvitations)
    BY DEF WithoutInvitations, CompaniesWithoutStaff
  <2>2. Campaign(2, {WithoutInvitations})
    BY <1>1 DEF SendWithoutInvitation
  <2>3. QED BY <2>1, <2>2, ListedCampaignBegins
<1>2. CASE SendWithoutActivities
  <2>1. FoundBy(3, WithoutActivity)
    <3>1. /\ mailDay \in Nat /\ FirstDelay \in Nat \ {0}
          /\ \A e \in Staff : invitees[e].created \in Nat
      BY MailAssumption DEF MailInv, MailingTypeOK, MailDays
    <3>2. \A c \in WithoutActivity :
            \E e \in StaffOf(c) : invitees[e].created <= mailDay - FirstDelay
      BY DEF WithoutActivity
    <3>3. \A c : StaffOf(c) \subseteq Staff
      BY DEF StaffOf
    <3>4. \A c \in WithoutActivity : \E e \in StaffOf(c) : invitees[e].created < mailDay
      BY <3>1, <3>2, <3>3
    <3>5. /\ WithoutActivity \subseteq MailCompany
          /\ \A to \in WithoutActivity : ~WrittenTo(CampaignTypes[3], to)
      BY DEF WithoutActivity
    <3>6. QED BY <3>4, <3>5
  <2>2. Campaign(3, {WithoutActivity})
    BY <1>2 DEF SendWithoutActivities
  <2>3. QED BY <2>1, <2>2, ListedCampaignBegins
<1>3. CASE SendWithoutActivityReminder
  <2>1. FoundBy(4, StillWithoutActivity)
    BY DEF StillWithoutActivity
  <2>2. Campaign(4, {StillWithoutActivity})
    BY <1>3 DEF SendWithoutActivityReminder
  <2>3. QED BY <2>1, <2>2, ListedCampaignBegins
<1>4. CASE SendReminderNoInvitation
  <2>1. FoundBy(5, StillWithoutInvitations)
    BY DEF StillWithoutInvitations, CompaniesWithoutStaff
  <2>2. Campaign(5, {StillWithoutInvitations})
    BY <1>4 DEF SendReminderNoInvitation
  <2>3. QED BY <2>1, <2>2, ListedCampaignBegins
<1>5. CASE SendPendingInvitation
  <2>1. FoundBy(7, PendingInvitations)
    BY DEF PendingInvitations
  <2>2. Campaign(7, {PendingInvitations})
    BY <1>5 DEF SendPendingInvitation
  <2>3. QED BY <2>1, <2>2, ListedCampaignBegins
<1>6. CASE SendActivationD2
  <2>1. FoundBy(8, RemindersD2)
    BY DEF RemindersD2, ToRemind
  <2>2. Campaign(8, {RemindersD2})
    BY <1>6 DEF SendActivationD2
  <2>3. QED BY <2>1, <2>2, ListedCampaignBegins
<1>7. CASE SendActivationD4
  <2>1. FoundBy(9, RemindersD4)
    BY DEF RemindersD4, ToRemind
  <2>2. Campaign(9, {RemindersD4})
    BY <1>7 DEF SendActivationD4
  <2>3. QED BY <2>1, <2>2, ListedCampaignBegins
<1>8. QED BY <1>1, <1>2, <1>3, <1>4, <1>5, <1>6, <1>7

LEMMA OnboardingBegins ==
  ASSUME MailInv, SendOnboarding
  PROVE  MailInv'
<1> DEFINE l == Onboarded
<1>1. Campaign(1, {l})
  BY DEF SendOnboarding
<1>2. \A e \in l : /\ e \in Staff /\ invitees[e].user # NoUser
                   /\ ~WrittenTo(OnboardingMail, invitees[e].user)
  BY DEF Onboarded, MailInv, MailingTypeOK
<1> HIDE DEF l
<1>3. /\ UNCHANGED <<mailDay, invitees, accounts, active, emails>>
      /\ mailJob'.campaign = 1 /\ mailJob'.todo = l
      /\ recalled' = {} /\ unsent' = {}
  BY <1>1 DEF Campaign, held
<1>4. OnboardingIsFair'
  BY <1>2, <1>3 DEF OnboardingIsFair, WrittenTo
<1>5. CampaignInv'
  BY <1>3, <1>4 DEF CampaignInv, RecallIsFair, CampaignIsFair, RecipientsAreRight,
     NobodyIsInvited, SomebodyWasInvited, RemindedWereAsleep
<1>6. 1 \in 1..9 /\ l \in {l}
  OBVIOUS
<1>7. QED BY <1>1, <1>3, <1>5, <1>6, CampaignBegins

\* One employment of each address is one at most.
LEMMA OneOfEach ==
  ASSUME NEW found, found \subseteq Staff, NEW l \in OneEach(found)
  PROVE  /\ l \subseteq found
         /\ \A e, f \in l : Mailbox[e] = Mailbox[f] => e = f
<1>1. l \subseteq found
  BY DEF OneEach
<1>2. ASSUME NEW e \in l, NEW f \in l, Mailbox[e] = Mailbox[f] PROVE e = f
  <2> DEFINE S == {p \in l : Mailbox[p] = Mailbox[e]}
  <2>1. Cardinality(S) = 1
    BY <1>1 DEF OneEach
  <2>2. S \subseteq Staff
    BY <1>1
  <2>3. IsFiniteSet(S)
    BY <2>2, MailAssumption, FS_Subset
  <2>4. e \in S /\ f \in S
    BY <1>2
  <2> HIDE DEF S
  <2>5. PICK x : S = {x}
    BY <2>1, <2>3, FS_Singleton
  <2>6. QED BY <2>4, <2>5
<1>3. QED BY <1>1, <1>2

LEMMA RecallsBegin ==
  ASSUME MailInv, SendInvitationRecalls
  PROVE  MailInv'
<1> DEFINE lists == OneEach(InvitedLongAgo)
<1>1. Campaign(6, lists)
  BY DEF SendInvitationRecalls
<1>2. PICK l \in lists : mailJob' = [campaign |-> 6, todo |-> l, ran |-> TRUE]
  BY <1>1 DEF Campaign
<1>3. InvitedLongAgo \subseteq Staff
  BY DEF InvitedLongAgo
<1>4. /\ l \subseteq InvitedLongAgo
      /\ \A e, f \in l : Mailbox[e] = Mailbox[f] => e = f
  BY <1>3, OneOfEach
<1>5. \A e \in l : ~WrittenTo(RecallMail, Mailbox[e])
  BY <1>4 DEF InvitedLongAgo
<1>6. /\ UNCHANGED <<mailDay, invitees, accounts, active, emails>>
      /\ recalled' = {} /\ unsent' = {}
  BY <1>1 DEF Campaign, held
<1>7. RecallIsFair'
  BY <1>2, <1>3, <1>4, <1>5, <1>6 DEF RecallIsFair, WrittenTo
<1>8. CampaignInv'
  BY <1>2, <1>7 DEF CampaignInv, OnboardingIsFair, CampaignIsFair, RecipientsAreRight,
     NobodyIsInvited, SomebodyWasInvited, RemindedWereAsleep
<1> HIDE DEF lists
<1>9. 6 \in 1..9 /\ mailJob'.todo = l
  BY <1>2
<1>10. QED BY <1>1, <1>8, <1>9, CampaignBegins

LEMMA LettersLeave ==
  ASSUME letters \in [Posts -> Nat], NEW ks, Leaves(ks)
  PROVE  /\ letters' \in [Posts -> Nat]
         /\ \A k \in Posts : letters'[k] = IF k \in ks THEN letters[k] + 1 ELSE letters[k]
BY DEF Leaves

\* A letter of a campaign leaves for somebody the campaign has not written to.
LEMMA RecipientIsFair ==
  ASSUME MailInv, NEW to \in mailJob.todo, mailJob.campaign \notin {0, 6}
  PROVE  /\ mailJob.campaign \in {1, 2, 3, 4, 5, 7, 8, 9}
         /\ Type = CampaignTypes[mailJob.campaign] /\ Type \in EmailTypes
         /\ Recipient(to) \in Addresses \cup MailCompany
         /\ ~Skipped(to) => ~WrittenTo(Type, Recipient(to))
<1>1. mailJob.campaign \in {1, 2, 3, 4, 5, 7, 8, 9}
  <2>1. 0..Len(CampaignTypes) = {0, 1, 2, 3, 4, 5, 6, 7, 8, 9}
    BY CampaignNames
  <2>2. QED BY <2>1 DEF MailInv, MailingTypeOK
<1>2. Type = CampaignTypes[mailJob.campaign] /\ Type \in EmailTypes
  BY <1>1, MailNames DEF Type
<1>3. mailJob.campaign = 1 => Recipient(to) = invitees[to].user
  BY DEF Recipient
<1>4. mailJob.campaign # 1 => Recipient(to) = to
  BY DEF Recipient
<1>5. ASSUME ~Skipped(to) PROVE ~WrittenTo(Type, Recipient(to))
  <2>1. CASE mailJob.campaign = 1
    <3>1. Type = OnboardingMail
      BY <2>1, <1>2, CampaignNames
    <3>2. \A m \in emails : m.type = OnboardingMail /\ m.address = Recipient(to) =>
            m.day = mailDay
      BY <2>1, <1>3 DEF MailInv, CampaignInv, OnboardingIsFair
    <3>3. ~WrittenOn(OnboardingMail, Recipient(to), mailDay)
      BY <1>5, <2>1, <3>1 DEF Skipped
    <3>4. QED BY <3>1, <3>2, <3>3 DEF WrittenTo, WrittenOn
  <2>2. CASE mailJob.campaign # 1
    BY <2>2, <1>1, <1>2, <1>4 DEF MailInv, CampaignInv, CampaignIsFair
  <2>3. QED BY <2>1, <2>2
<1>6. Recipient(to) \in Addresses \cup MailCompany
  <2>1. CASE mailJob.campaign = 1
    BY <2>1, <1>3 DEF MailInv, CampaignInv, OnboardingIsFair, MailingTypeOK
  <2>2. CASE mailJob.campaign # 1
    BY <2>2, <1>1, <1>4 DEF MailInv, CampaignInv, RecipientsAreRight
  <2>3. QED BY <2>1, <2>2
<1>7. QED BY <1>1, <1>2, <1>5, <1>6

\* The letters to whom nothing is recorded may leave again.
LEMMA LettersAreRight ==
  ASSUME MailInv, NEW ks, Leaves(ks),
         \A m \in emails :
           m.type \notin {InvitationMail, ActivationMail} => <<m.type, m.address>> \notin ks
  PROVE  /\ letters' \in [Posts -> Nat]
         /\ \A m \in emails :
              m.type \notin {InvitationMail, ActivationMail} =>
                m.rank = letters'[<<m.type, m.address>>]
<1>1. letters \in [Posts -> Nat]
  BY DEF MailInv, MailingTypeOK
<1>2. \A m \in emails : <<m.type, m.address>> \in Posts
  BY DEF MailInv, MailingTypeOK, Posts
<1>3. /\ letters' \in [Posts -> Nat]
      /\ \A k \in Posts : letters'[k] = IF k \in ks THEN letters[k] + 1 ELSE letters[k]
  BY <1>1, LettersLeave
<1>4. QED BY <1>2, <1>3 DEF MailInv, LastIsRecorded

LEMMA LetterOfDead ==
  ASSUME MailInv, NEW to \in mailJob.todo, DiesUnrecorded(to)
  PROVE  letters' \in [Posts -> Nat] /\ LastIsRecorded'
<1>1. PICK ks : ks = {<<Type, Recipient(to)>>} /\ Leaves(ks)
  BY DEF DiesUnrecorded
<1>2. ~WrittenTo(Type, Recipient(to)) /\ emails' = emails
  BY RecipientIsFair DEF DiesUnrecorded
<1>3. \A m \in emails : <<m.type, m.address>> \notin ks
  BY <1>1, <1>2 DEF WrittenTo
<1>4. QED BY <1>1, <1>2, <1>3, LettersAreRight DEF LastIsRecorded

\* The job that ends, stops, dies or rests records nothing.
LEMMA JobRests ==
  ASSUME MailInv,
         \/ EndDailyEmails \/ JobStops \/ NewDay
         \/ \E to \in mailJob.todo : DiesUnrecorded(to)
  PROVE  MailInv'
<1>0. /\ UNCHANGED <<invitees, accounts, active, emails>>
      /\ recalled' = {} /\ unsent' = {}
      /\ mailJob'.campaign = 0 /\ mailJob'.todo = {}
      /\ mailJob' = [campaign |-> mailJob'.campaign, todo |-> mailJob'.todo,
                     ran |-> mailJob'.ran]
      /\ mailJob'.ran \in BOOLEAN
  <2>1. CASE NewDay
    <3>1. mailJob' = [mailJob EXCEPT !.ran = FALSE] /\ mailJob.campaign = 0
      BY <2>1 DEF NewDay
    <3>2. mailJob = [campaign |-> mailJob.campaign, todo |-> mailJob.todo,
                     ran |-> mailJob.ran]
      BY DEF MailInv
    <3>3. mailJob' = [campaign |-> 0, todo |-> mailJob.todo, ran |-> FALSE]
      BY <3>1, <3>2
    <3>4. mailJob.todo = {}
      BY <3>1 DEF MailInv, CampaignInv, RecipientsAreRight
    <3>5. recalled' = {} /\ unsent' = {}
      BY <2>1, <3>1 DEF NewDay, held, MailInv, CampaignInv, RecallIsFair
    <3>6. QED BY <2>1, <3>3, <3>4, <3>5 DEF NewDay
  <2>2. CASE EndDailyEmails \/ JobStops
    <3>1. mailJob' = [campaign |-> 0, todo |-> {}, ran |-> TRUE]
      BY <2>2 DEF EndDailyEmails, JobStops, NoCampaign
    <3>2. UNCHANGED <<invitees, accounts, active, emails>>
      BY <2>2 DEF EndDailyEmails, JobStops
    <3>3. recalled' = {} /\ unsent' = {}
      BY <2>2, CampaignNames DEF EndDailyEmails, JobStops, held, MailInv, CampaignInv,
         RecallIsFair
    <3>4. QED BY <3>1, <3>2, <3>3
  <2>3. CASE \E to \in mailJob.todo : DiesUnrecorded(to)
    <3>1. PICK to \in mailJob.todo : DiesUnrecorded(to)
      BY <2>3
    <3>2. mailJob' = [campaign |-> 0, todo |-> {}, ran |-> TRUE]
      BY <3>1 DEF DiesUnrecorded, NoCampaign
    <3>3. UNCHANGED <<invitees, accounts, active, emails>>
      BY <3>1 DEF DiesUnrecorded
    <3>4. recalled' = {} /\ unsent' = {}
      BY <3>1 DEF DiesUnrecorded, held, MailInv, CampaignInv, RecallIsFair
    <3>5. QED BY <3>2, <3>3, <3>4
  <2>4. QED BY <2>1, <2>2, <2>3
<1>1. mailDay' \in MailDays /\ mailDay' \in Nat /\ mailDay <= mailDay' /\ mailDay \in Nat
      /\ \/ mailDay' = mailDay /\ mailJob'.ran
         \/ mailDay < mailDay'
  <2>1. CASE EndDailyEmails \/ JobStops \/ NewDay
    BY <2>1, MailAssumption DEF MailInv, MailingTypeOK, MailDays, EndDailyEmails, JobStops,
       NewDay, NoCampaign
  <2>2. CASE \E to \in mailJob.todo : DiesUnrecorded(to)
    <3>1. PICK to \in mailJob.todo : DiesUnrecorded(to)
      BY <2>2
    <3>2. mailDay' = mailDay /\ mailJob' = NoCampaign
      BY <3>1 DEF DiesUnrecorded
    <3>3. QED BY <3>2, MailAssumption DEF MailInv, MailingTypeOK, MailDays, NoCampaign
  <2>3. QED BY <2>1, <2>2
<1>2. \A m \in emails : m.day \in Nat /\ m.day <= mailDay
  BY MailAssumption DEF MailInv, MailingTypeOK, MailDays
<1>9. letters' \in [Posts -> Nat] /\ LastIsRecorded'
  <2>1. CASE EndDailyEmails \/ JobStops \/ NewDay
    BY <2>1, <1>0 DEF EndDailyEmails, JobStops, NewDay, MailInv, MailingTypeOK,
       LastIsRecorded
  <2>2. CASE \E to \in mailJob.todo : DiesUnrecorded(to)
    BY <2>2, LetterOfDead
  <2>3. QED BY <2>1, <2>2
<1>3. MailingTypeOK'
  <2>1. 0 \in 0..Len(CampaignTypes)
    BY CampaignNames
  <2>2. QED BY <1>0, <1>1, <1>9, <2>1 DEF MailInv, MailingTypeOK
<1>4. (\A m \in emails : m.day <= mailDay)'
  BY <1>0, <1>1, <1>2
<1>5. RowsAreSingle' /\ OneStoryADay' /\ NoReminderOnceActivated' /\ NobodyWasInvited'
      /\ RowsAreWhole'
  BY <1>0 DEF MailInv, RowsAreSingle, OneStoryADay, WrittenOn, NoReminderOnceActivated,
              NobodyWasInvited, RowsAreWhole
<1>6. ActivityComesLater'
  BY <1>0, <1>1, <1>2 DEF ActivityComesLater
<1>7. CampaignInv'
  BY <1>0 DEF CampaignInv, OnboardingIsFair, RecallIsFair, CampaignIsFair,
     RecipientsAreRight, NobodyIsInvited, SomebodyWasInvited, RemindedWereAsleep
<1>8. QED BY <1>0, <1>3, <1>4, <1>5, <1>6, <1>7, <1>9 DEF MailInv

\* What a request may do to what the job's queries said: it adds no mail of a
\* campaign, forgets no employment and dates what it does of today.
RequestStep ==
  /\ UNCHANGED <<mailDay, mailJob, recalled, unsent>>
  /\ emails \subseteq emails'
  /\ \A m \in emails' \ emails :
       m.type \in {InvitationMail, ActivationMail} /\ m.day = mailDay
  /\ \A k \in Posts :
       k[1] \notin {InvitationMail, ActivationMail} => letters'[k] = letters[k]
  /\ \A e \in Staff :
       /\ invitees[e].state # "none" =>
            invitees'[e].state # "none" /\ invitees'[e].created = invitees[e].created
       /\ invitees[e].state = "none" /\ invitees'[e].state # "none" =>
            invitees'[e].created = mailDay
       /\ invitees[e].user # NoUser => invitees'[e].user = invitees[e].user
  /\ \A a \in Addresses :
       /\ accounts[a].activated =>
            accounts'[a].activated /\ accounts'[a].since = accounts[a].since
       /\ ~accounts[a].activated /\ accounts'[a].activated =>
            accounts'[a].since = mailDay

LEMMA RequestsKeep ==
  ASSUME MailInv, RequestStep, MailingTypeOK', RowsAreWhole'
  PROVE  MailInv'
<1> USE DEF RequestStep
<1>0. /\ \A m \in emails : m.day \in Nat /\ m.day <= mailDay
      /\ mailDay \in Nat
  BY MailAssumption DEF MailInv, MailingTypeOK, MailDays
<1>1. \A m \in emails' : m \in emails \/ m.type \in {InvitationMail, ActivationMail}
  OBVIOUS
<1>2. \A t, a : t \notin {InvitationMail, ActivationMail} /\ ~WrittenTo(t, a) =>
        ~WrittenTo(t, a)'
  BY <1>1 DEF WrittenTo
<1>3. (\A m \in emails : m.day <= mailDay)'
  BY <1>0
<1>4. RowsAreSingle'
  <2>1. ASSUME NEW m \in emails', NEW n \in emails', m.type = n.type,
               m.address = n.address, m.type \notin {InvitationMail, ActivationMail}
        PROVE  m = n
    <3>1. m \in emails /\ n \in emails
      BY <2>1, <1>1
    <3>2. QED BY <2>1, <3>1 DEF MailInv, RowsAreSingle
  <2>2. QED BY <2>1 DEF RowsAreSingle
<1>17. LastIsRecorded'
  <2>1. ASSUME NEW m \in emails', m.type \notin {InvitationMail, ActivationMail}
        PROVE  m.rank = letters'[<<m.type, m.address>>]
    <3>1. m \in emails
      BY <2>1, <1>1
    <3>2. <<m.type, m.address>> \in Posts /\ <<m.type, m.address>>[1] = m.type
      BY <3>1 DEF MailInv, MailingTypeOK, Posts
    <3>3. letters'[<<m.type, m.address>>] = letters[<<m.type, m.address>>]
      BY <2>1, <3>2
    <3>4. QED BY <2>1, <3>1, <3>3 DEF MailInv, LastIsRecorded
  <2>2. QED BY <2>1 DEF LastIsRecorded
<1>5. OneStoryADay'
  BY <1>1 DEF MailInv, OneStoryADay, WrittenOn, NoInvitationMail, NoActivityMail,
     InvitationMail, ActivationMail
<1>6. NoReminderOnceActivated'
  <2>1. ASSUME NEW a \in Addresses, NEW m \in emails', m.address = a,
               accounts'[a].activated, m.type \in {D2Mail, D4Mail}
        PROVE  m.day <= accounts'[a].since
    <3>1. m \in emails
      BY <2>1, <1>1 DEF D2Mail, D4Mail, InvitationMail, ActivationMail
    <3>2. CASE accounts[a].activated
      BY <2>1, <3>1, <3>2 DEF MailInv, NoReminderOnceActivated
    <3>3. CASE ~accounts[a].activated
      BY <2>1, <3>1, <3>3, <1>0
    <3>4. QED BY <3>2, <3>3
  <2>2. QED BY <2>1 DEF NoReminderOnceActivated
<1>7. NobodyWasInvited'
  <2>1. ASSUME NEW m \in emails', NEW e \in Staff, m.type = NoInvitationMail,
               FirmOf[e] = m.address, invitees'[e].state # "none"
        PROVE  m.day <= invitees'[e].created
    <3>1. m \in emails
      BY <2>1, <1>1 DEF NoInvitationMail, InvitationMail, ActivationMail
    <3>2. CASE invitees[e].state # "none"
      BY <2>1, <3>1, <3>2 DEF MailInv, NobodyWasInvited
    <3>3. CASE invitees[e].state = "none"
      BY <2>1, <3>1, <3>3, <1>0
    <3>4. QED BY <3>2, <3>3
  <2>2. QED BY <2>1 DEF NobodyWasInvited
<1>8. ActivityComesLater'
  BY <1>1 DEF MailInv, ActivityComesLater, NoActivityMail, InvitationMail, ActivationMail
<1>9. OnboardingIsFair'
  BY <1>1 DEF MailInv, CampaignInv, OnboardingIsFair, OnboardingMail, InvitationMail,
     ActivationMail
<1>10. RecallIsFair'
  BY <1>2 DEF MailInv, CampaignInv, RecallIsFair, RecallMail, InvitationMail,
     ActivationMail
<1>11. CampaignIsFair'
  <2>1. ASSUME mailJob.campaign \in {2, 3, 4, 5, 7, 8, 9}
        PROVE  CampaignTypes[mailJob.campaign] \notin {InvitationMail, ActivationMail}
    BY <2>1, CampaignNames DEF NoInvitationMail, NoActivityMail, NoActivityReminder,
       NoInvitationReminder, PendingMail, D2Mail, D4Mail, InvitationMail, ActivationMail
  <2>2. QED BY <2>1, <1>2 DEF MailInv, CampaignInv, CampaignIsFair
<1>12. RecipientsAreRight'
  BY DEF MailInv, CampaignInv, RecipientsAreRight
<1>13. NobodyIsInvited'
  BY DEF MailInv, CampaignInv, NobodyIsInvited
<1>14. SomebodyWasInvited'
  <2>1. ASSUME mailJob.campaign = 3, NEW c \in mailJob.todo
        PROVE  \E e \in Staff : /\ FirmOf[e] = c /\ invitees'[e].state # "none"
                                /\ invitees'[e].created < mailDay
    <3>1. PICK e \in Staff : /\ FirmOf[e] = c /\ invitees[e].state # "none"
                             /\ invitees[e].created < mailDay
      BY <2>1 DEF MailInv, CampaignInv, SomebodyWasInvited
    <3>2. QED BY <3>1
  <2>2. QED BY <2>1 DEF SomebodyWasInvited
<1>15. RemindedWereAsleep'
  <2>1. ASSUME mailJob.campaign \in {8, 9}, NEW a \in mailJob.todo, accounts'[a].activated
        PROVE  accounts'[a].since = mailDay
    <3>1. a \in Addresses
      BY <2>1 DEF MailInv, CampaignInv, RecipientsAreRight
    <3>2. accounts[a].activated => accounts[a].since = mailDay
      BY <2>1 DEF MailInv, CampaignInv, RemindedWereAsleep
    <3>3. QED BY <2>1, <3>1, <3>2
  <2>2. QED BY <2>1 DEF RemindedWereAsleep
<1>16. QED BY <1>3, <1>4, <1>5, <1>6, <1>7, <1>8, <1>9, <1>10, <1>11, <1>12, <1>13, <1>14,
              <1>15, <1>17 DEF MailInv, CampaignInv

LEMMA SendNextKeeps ==
  ASSUME MailInv, NEW to \in mailJob.todo, NEW accepted \in BOOLEAN, SendNext(to, accepted)
  PROVE  MailInv'
<1>0. /\ mailDay \in Nat /\ mailDay \in MailDays
      /\ \A m \in emails : m.day \in Nat /\ m.day <= mailDay
      /\ mailJob.campaign \in {1, 2, 3, 4, 5, 7, 8, 9}
      /\ UNCHANGED <<mailDay, invitees, accounts, active>>
  <2>1. 0..Len(CampaignTypes) = {0, 1, 2, 3, 4, 5, 6, 7, 8, 9}
    BY CampaignNames
  <2>2. QED BY <2>1, MailAssumption DEF MailInv, MailingTypeOK, MailDays, SendNext
<1>1. /\ mailJob'.campaign = mailJob.campaign /\ mailJob'.ran = mailJob.ran
      /\ mailJob'.todo = mailJob.todo \ {to}
      /\ mailJob' = [campaign |-> mailJob'.campaign, todo |-> mailJob'.todo,
                     ran |-> mailJob'.ran]
  <2>1. mailJob' = [mailJob EXCEPT !.todo = mailJob.todo \ {to}]
    BY DEF SendNext
  <2>2. PICK c, t, r : mailJob = [campaign |-> c, todo |-> t, ran |-> r]
    BY DEF MailInv
  <2>3. mailJob' = [campaign |-> c, todo |-> t \ {to}, ran |-> r]
    BY <2>1, <2>2
  <2>4. QED BY <2>2, <2>3
<1>2. PICK address : address = Recipient(to)
  OBVIOUS
<1>3. PICK new : new = EmailSent(Type, address, NoUser, letters[<<Type, address>>] + 1)
  OBVIOUS
<1>4. /\ new.type = CampaignTypes[mailJob.campaign] /\ new.address = address
      /\ new.employment = NoUser /\ new.day = mailDay
      /\ new.rank = letters[<<new.type, address>>] + 1
  BY <1>3 DEF EmailSent, Type
<1>5. \/ emails' = emails /\ letters' = letters
      \/ /\ emails' = emails \cup {new} /\ ~Skipped(to)
         /\ Leaves({<<new.type, address>>})
  BY <1>2, <1>3, <1>4 DEF SendNext, Record, Type
<1>6. mailJob.campaign = 1 => address = invitees[to].user
  BY <1>2 DEF Recipient
<1>7. mailJob.campaign # 1 => address = to
  BY <1>2 DEF Recipient
<1>8. \/ emails' = emails /\ letters' = letters
      \/ ~WrittenTo(new.type, address)
  BY <1>0, <1>2, <1>4, <1>5, RecipientIsFair
<1>9. address \in Addresses \cup MailCompany
  BY <1>0, <1>2, RecipientIsFair
<1>23. letters' \in [Posts -> Nat] /\ LastIsRecorded'
  <2>1. CASE emails' = emails /\ letters' = letters
    BY <2>1 DEF MailInv, MailingTypeOK, LastIsRecorded
  <2>2. CASE /\ emails' = emails \cup {new} /\ ~WrittenTo(new.type, address)
             /\ Leaves({<<new.type, address>>})
    <3>1. PICK ks : ks = {<<new.type, address>>} /\ Leaves(ks)
      BY <2>2
    <3>2. \A m \in emails : <<m.type, m.address>> \notin ks
      BY <2>2, <3>1 DEF WrittenTo
    <3>3. /\ letters' \in [Posts -> Nat]
          /\ \A m \in emails :
               m.type \notin {InvitationMail, ActivationMail} =>
                 m.rank = letters'[<<m.type, m.address>>]
      BY <3>1, <3>2, LettersAreRight
    <3>4. <<new.type, address>> \in Posts
      BY <1>0, <1>4, <1>9, MailNames DEF Posts
    <3>5. letters \in [Posts -> Nat]
      BY DEF MailInv, MailingTypeOK
    <3>6. letters'[<<new.type, address>>] = new.rank
      BY <1>4, <3>1, <3>4, <3>5, LettersLeave
    <3>7. QED BY <1>4, <2>2, <3>3, <3>6 DEF LastIsRecorded
  <2>3. QED BY <2>1, <2>2, <1>5, <1>8
<1>10. MailingTypeOK'
  <2>1. new.type \in EmailTypes
    BY <1>0, <1>4, MailNames
  <2>2. QED BY <2>1, <1>0, <1>1, <1>4, <1>5, <1>9, <1>23 DEF MailInv, MailingTypeOK
<1>11. (\A m \in emails : m.day <= mailDay)' /\ RowsAreWhole'
  <2>1. new = [type |-> new.type, address |-> new.address, employment |-> new.employment,
               day |-> new.day, rank |-> new.rank]
    BY <1>3 DEF EmailSent
  <2>2. QED BY <2>1, <1>0, <1>4, <1>5 DEF MailInv, RowsAreWhole
<1>12. RowsAreSingle'
  <2>1. CASE emails' = emails
    BY <2>1 DEF MailInv, RowsAreSingle
  <2>2. CASE emails' = emails \cup {new} /\ ~WrittenTo(new.type, address)
    BY <2>2, <1>4 DEF MailInv, RowsAreSingle, WrittenTo
  <2>3. QED BY <2>1, <2>2, <1>5, <1>8
<1>13. OneStoryADay'
  <2>1. ASSUME NEW c \in MailCompany, NEW d \in MailDays, NEW m \in emails', NEW n \in emails',
               m.type = NoInvitationMail, n.type = NoActivityMail,
               m.address = c, n.address = c, m.day = d, n.day = d
        PROVE  FALSE
    <3>1. CASE m \in emails /\ n \in emails
      BY <2>1, <3>1 DEF MailInv, OneStoryADay, WrittenOn
    <3>2. CASE m = new /\ n \in emails
      <4>1. mailJob.campaign = 2
        BY <2>1, <3>2, <1>0, <1>4, CampaignNames DEF OnboardingMail, NoInvitationMail,
           NoActivityMail, NoActivityReminder, NoInvitationReminder, PendingMail, D2Mail,
           D4Mail
      <4>2. n.day = mailDay
        BY <2>1, <3>2, <1>4
      <4>3. QED BY <2>1, <3>2, <4>1, <4>2 DEF MailInv, ActivityComesLater
    <3>3. CASE n = new /\ m \in emails
      <4>1. mailJob.campaign = 3
        BY <2>1, <3>3, <1>0, <1>4, CampaignNames DEF OnboardingMail, NoInvitationMail,
           NoActivityMail, NoActivityReminder, NoInvitationReminder, PendingMail, D2Mail,
           D4Mail
      <4>2. c \in mailJob.todo
        BY <2>1, <3>3, <4>1, <1>4, <1>7
      <4>3. PICK e \in Staff : /\ FirmOf[e] = c /\ invitees[e].state # "none"
                               /\ invitees[e].created < mailDay
        BY <4>1, <4>2 DEF MailInv, CampaignInv, SomebodyWasInvited
      <4>4. m.day <= invitees[e].created
        BY <2>1, <3>3, <4>3 DEF MailInv, NobodyWasInvited
      <4>5. m.day = mailDay
        BY <2>1, <3>3, <1>4
      <4>6. invitees[e].created \in Nat
        BY MailAssumption DEF MailInv, MailingTypeOK, MailDays
      <4>7. QED BY <4>3, <4>4, <4>5, <4>6, <1>0
    <3>4. CASE m = new /\ n = new
      BY <2>1, <3>4 DEF NoInvitationMail, NoActivityMail
    <3>5. QED BY <3>1, <3>2, <3>3, <3>4, <1>5
  <2>2. QED BY <2>1 DEF OneStoryADay, WrittenOn
<1>14. NoReminderOnceActivated'
  <2>1. ASSUME NEW a \in Addresses, NEW m \in emails', m.address = a,
               accounts[a].activated, m.type \in {D2Mail, D4Mail}
        PROVE  m.day <= accounts[a].since
    <3>1. CASE m \in emails
      BY <2>1, <3>1 DEF MailInv, NoReminderOnceActivated
    <3>2. CASE m = new
      <4>1. mailJob.campaign \in {8, 9}
        BY <2>1, <3>2, <1>0, <1>4, CampaignNames DEF OnboardingMail, NoInvitationMail,
           NoActivityMail, NoActivityReminder, NoInvitationReminder, PendingMail, D2Mail,
           D4Mail
      <4>2. a = to /\ m.day = mailDay
        BY <2>1, <3>2, <4>1, <1>4, <1>7
      <4>3. accounts[a].since = mailDay
        BY <2>1, <4>1, <4>2 DEF MailInv, CampaignInv, RemindedWereAsleep
      <4>4. QED BY <4>2, <4>3, <1>0
    <3>3. QED BY <3>1, <3>2, <1>5
  <2>2. QED BY <2>1, <1>0 DEF NoReminderOnceActivated
<1>15. NobodyWasInvited'
  <2>1. ASSUME NEW m \in emails', NEW e \in Staff, m.type = NoInvitationMail,
               FirmOf[e] = m.address, invitees[e].state # "none"
        PROVE  m.day <= invitees[e].created
    <3>1. CASE m \in emails
      BY <2>1, <3>1 DEF MailInv, NobodyWasInvited
    <3>2. CASE m = new
      <4>1. mailJob.campaign = 2
        BY <2>1, <3>2, <1>0, <1>4, CampaignNames DEF OnboardingMail, NoInvitationMail,
           NoActivityMail, NoActivityReminder, NoInvitationReminder, PendingMail, D2Mail,
           D4Mail
      <4>2. FirmOf[e] = to /\ m.day = mailDay
        BY <2>1, <3>2, <4>1, <1>4, <1>7
      <4>3. invitees[e].created = mailDay
        BY <2>1, <4>1, <4>2 DEF MailInv, CampaignInv, NobodyIsInvited
      <4>4. QED BY <4>2, <4>3, <1>0
    <3>3. QED BY <3>1, <3>2, <1>5
  <2>2. QED BY <2>1, <1>0 DEF NobodyWasInvited
<1>16. ActivityComesLater'
  <2>1. ASSUME NEW m \in emails', m.type = NoActivityMail, m.day = mailDay
        PROVE  mailJob.ran /\ mailJob.campaign \notin {1, 2}
    <3>1. CASE m \in emails
      BY <2>1, <3>1 DEF MailInv, ActivityComesLater
    <3>2. CASE m = new
      BY <2>1, <3>2, <1>0, <1>4, CampaignNames DEF MailInv, ActivityComesLater,
         OnboardingMail, NoInvitationMail, NoActivityMail
    <3>3. QED BY <3>1, <3>2, <1>5
  <2>2. QED BY <2>1, <1>0, <1>1 DEF MailInv, ActivityComesLater
<1>17. OnboardingIsFair'
  <2>1. ASSUME mailJob.campaign = 1, NEW e \in mailJob.todo
        PROVE  /\ e \in Staff /\ invitees[e].user # NoUser
               /\ \A m \in emails' :
                    m.type = OnboardingMail /\ m.address = invitees[e].user =>
                      m.day = mailDay
    BY <2>1, <1>4, <1>5 DEF MailInv, CampaignInv, OnboardingIsFair
  <2>2. QED BY <2>1, <1>0, <1>1 DEF OnboardingIsFair
<1>18. CampaignIsFair'
  <2>1. ASSUME mailJob.campaign \in {2, 3, 4, 5, 7, 8, 9},
               NEW other \in mailJob.todo \ {to}, NEW m \in emails',
               m.type = CampaignTypes[mailJob.campaign], m.address = other
        PROVE  FALSE
    <3>1. ~WrittenTo(CampaignTypes[mailJob.campaign], other)
      BY <2>1 DEF MailInv, CampaignInv, CampaignIsFair
    <3>2. m \notin emails
      BY <2>1, <3>1 DEF WrittenTo
    <3>3. m = new
      BY <3>2, <1>5
    <3>4. QED BY <2>1, <3>3, <1>4, <1>7
  <2>2. QED BY <2>1, <1>1 DEF CampaignIsFair, WrittenTo
<1>19. RecipientsAreRight' /\ RecallIsFair'
  BY <1>0, <1>1 DEF SendNext, held, MailInv, CampaignInv, RecipientsAreRight, RecallIsFair
<1>20. NobodyIsInvited' /\ SomebodyWasInvited' /\ RemindedWereAsleep'
  BY <1>0, <1>1 DEF MailInv, CampaignInv, NobodyIsInvited, SomebodyWasInvited,
     RemindedWereAsleep
<1>21. mailJob'.ran \in BOOLEAN
  BY <1>1 DEF MailInv
<1>22. QED BY <1>1, <1>10, <1>11, <1>12, <1>13, <1>14, <1>15, <1>16, <1>17, <1>18, <1>19,
              <1>20, <1>21, <1>23 DEF MailInv, CampaignInv

\* A row that a deleted employment leaves tells all it told but whose it was.
Anonymous(m, refused) == [m EXCEPT !.employment = IF @ \in refused THEN NoUser ELSE @]

LEMMA AnonymousRow ==
  ASSUME NEW m, NEW refused, NEW t, NEW a, NEW e, NEW d, NEW r,
         m = [type |-> t, address |-> a, employment |-> e, day |-> d, rank |-> r]
  PROVE  Anonymous(m, refused) =
           [type |-> m.type, address |-> m.address,
            employment |-> IF m.employment \in refused THEN NoUser ELSE m.employment,
            day |-> m.day, rank |-> m.rank]
BY DEF Anonymous

LEMMA RecallsLeave ==
  ASSUME MailInv, NEW batch \in SUBSET mailJob.todo, NEW refused,
         SendInvitations(batch, refused)
  PROVE  MailInv'
<1>0. /\ mailJob.campaign = 6 /\ mailJob.todo \subseteq Staff
      /\ UNCHANGED <<mailDay, invitees, accounts, active, emails>>
      /\ refused \subseteq batch
      /\ recalled' = recalled \cup (batch \ refused)
  BY DEF MailInv, SendInvitations, CampaignInv, RecallIsFair
<1>1. /\ mailJob'.campaign = 6 /\ mailJob'.ran = mailJob.ran
      /\ mailJob'.todo = mailJob.todo \ batch
      /\ mailJob' = [campaign |-> mailJob'.campaign, todo |-> mailJob'.todo,
                     ran |-> mailJob'.ran]
  <2>1. mailJob' = [mailJob EXCEPT !.todo = mailJob.todo \ batch]
    BY DEF SendInvitations
  <2>2. PICK c, t, r : mailJob = [campaign |-> c, todo |-> t, ran |-> r]
    BY DEF MailInv
  <2>3. mailJob' = [campaign |-> c, todo |-> t \ batch, ran |-> r]
    BY <2>1, <2>2
  <2>4. QED BY <2>2, <2>3, <1>0
<1>2. PICK ks : ks = {<<RecallMail, Mailbox[e]>> : e \in batch \ refused} /\ Leaves(ks)
  BY DEF SendInvitations
<1>3. \A m \in emails : <<m.type, m.address>> \notin ks
  <2>1. ASSUME NEW m \in emails, NEW e \in batch,
               <<m.type, m.address>> = <<RecallMail, Mailbox[e]>>
        PROVE  FALSE
    <3>1. ~WrittenTo(RecallMail, Mailbox[e])
      BY <1>0 DEF MailInv, CampaignInv, RecallIsFair
    <3>2. QED BY <2>1, <3>1 DEF WrittenTo
  <2>2. QED BY <2>1, <1>2
<1>4. letters' \in [Posts -> Nat] /\ LastIsRecorded'
  BY <1>0, <1>2, <1>3, LettersAreRight DEF LastIsRecorded
<1>5. MailingTypeOK'
  BY <1>0, <1>1, <1>4, CampaignNames DEF MailInv, MailingTypeOK
<1>6. (\A m \in emails : m.day <= mailDay)' /\ RowsAreSingle' /\ OneStoryADay'
      /\ NoReminderOnceActivated' /\ NobodyWasInvited' /\ RowsAreWhole'
  BY <1>0 DEF MailInv, RowsAreSingle, OneStoryADay, WrittenOn, NoReminderOnceActivated,
              NobodyWasInvited, RowsAreWhole
<1>7. ActivityComesLater' /\ mailJob'.ran \in BOOLEAN
  BY <1>0, <1>1 DEF MailInv, ActivityComesLater
<1>8. RecallIsFair'
  BY <1>0, <1>1 DEF MailInv, CampaignInv, RecallIsFair, WrittenTo
<1>9. CampaignInv'
  BY <1>1, <1>8 DEF CampaignInv, OnboardingIsFair, CampaignIsFair, RecipientsAreRight,
     NobodyIsInvited, SomebodyWasInvited, RemindedWereAsleep
<1>10. QED BY <1>1, <1>4, <1>5, <1>6, <1>7, <1>9 DEF MailInv

\* The recalls that have left are recorded, their employments or those of the
\* mails that were refused gone.
RecallOf(e) ==
  EmailSent(RecallMail, Mailbox[e], e, letters[<<RecallMail, Mailbox[e]>>])

LEMMA RecallsKeep ==
  ASSUME MailInv, CommitInvitations
  PROVE  MailInv'
<1> DEFINE refused == unsent
<1>0. /\ mailDay \in Nat /\ mailDay \in MailDays
      /\ \A m \in emails : m.day \in Nat /\ m.day <= mailDay
      /\ mailJob.campaign = 6 /\ recalled \subseteq Staff
      /\ recalled' = {} /\ unsent' = {}
      /\ UNCHANGED <<mailDay, accounts, active, letters>>
  BY MailAssumption DEF MailInv, MailingTypeOK, MailDays, CommitInvitations, CampaignInv,
     RecallIsFair
<1>1. /\ mailJob'.campaign = 6 /\ mailJob'.ran = mailJob.ran /\ mailJob'.todo = {}
      /\ mailJob' = [campaign |-> mailJob'.campaign, todo |-> mailJob'.todo,
                     ran |-> mailJob'.ran]
  BY DEF CommitInvitations, MailInv
<1>2. \A m \in emails :
        Anonymous(m, refused) =
          [type |-> m.type, address |-> m.address,
           employment |-> IF m.employment \in refused THEN NoUser ELSE m.employment,
           day |-> m.day, rank |-> m.rank]
  <2>1. TAKE m \in emails
  <2>2. m = [type |-> m.type, address |-> m.address, employment |-> m.employment,
             day |-> m.day, rank |-> m.rank]
    BY DEF MailInv, RowsAreWhole
  <2>3. QED BY <2>2, AnonymousRow
\* Each row of the table comes from one of before, or is a recall of today.
<1> DEFINE Same(m, n) == /\ m.type = n.type /\ m.address = n.address /\ m.day = n.day
                      /\ m.rank = n.rank
<1>3. \A n \in emails' :
        \/ \E m \in emails : n = Anonymous(m, refused)
        \/ \E e \in recalled : n = RecallOf(e)
  BY DEF CommitInvitations, Anonymous, RecallOf
<1>4. \A n \in emails' :
        \/ \E m \in emails : n = Anonymous(m, refused) /\ Same(m, n)
        \/ \E e \in recalled :
             /\ n = RecallOf(e)
             /\ n.type = RecallMail /\ n.address = Mailbox[e] /\ n.day = mailDay
             /\ n.employment = e /\ n.rank = letters[<<RecallMail, Mailbox[e]>>]
  BY <1>2, <1>3 DEF EmailSent, RecallOf
<1>5. \A n \in emails' :
        n.type # RecallMail => \E m \in emails : Same(m, n)
  BY <1>4
<1>6. \A e \in Staff :
        /\ invitees'[e].state # "none" => invitees'[e] = invitees[e]
        /\ invitees'[e] = invitees[e] \/ invitees'[e] = Forgotten(e)
        /\ Forgotten(e).state = "none" /\ Forgotten(e).user = NoUser
        /\ Forgotten(e) \in [state : {"none", "pending", "approved"},
                             created : MailDays, validated : MailDays,
                             user : Addresses \cup {NoUser}, dismissed : BOOLEAN]
  <2>1. TAKE e \in Staff
  <2>2. invitees[e] \in [state : {"none", "pending", "approved"},
                         created : MailDays, validated : MailDays,
                         user : Addresses \cup {NoUser}, dismissed : BOOLEAN]
    BY DEF MailInv, MailingTypeOK
  <2>3. PICK row : row = invitees[e]
    OBVIOUS
  <2>4. Forgotten(e) = [row EXCEPT !.state = "none", !.user = NoUser]
    BY <2>3 DEF Forgotten
  <2>5. /\ Forgotten(e).state = "none" /\ Forgotten(e).user = NoUser
        /\ Forgotten(e) \in [state : {"none", "pending", "approved"},
                             created : MailDays, validated : MailDays,
                             user : Addresses \cup {NoUser}, dismissed : BOOLEAN]
    BY <2>2, <2>3, <2>4
  <2>6. invitees'[e] = IF e \in refused THEN Forgotten(e) ELSE invitees[e]
    BY DEF CommitInvitations
  <2>7. QED BY <2>5, <2>6
<1>7. MailingTypeOK'
  <2>1. invitees' \in [Staff -> [state : {"none", "pending", "approved"},
                                created : MailDays, validated : MailDays,
                                user : Addresses \cup {NoUser}, dismissed : BOOLEAN]]
    <3>1. invitees' = [e \in Staff |-> IF e \in refused THEN Forgotten(e) ELSE invitees[e]]
      BY DEF CommitInvitations
    <3>2. QED BY <3>1, <1>6 DEF MailInv, MailingTypeOK
  <2>2. \A e \in Staff : invitees'[e].user # NoUser =>
          invitees'[e].user = Mailbox[e] /\ accounts[Mailbox[e]].exists
    BY <1>6 DEF MailInv, MailingTypeOK
  <2>3. \A e \in Staff : invitees'[e].state = "approved" => invitees'[e].user # NoUser
    BY <1>6 DEF MailInv, MailingTypeOK
  <2>4. ASSUME NEW n \in emails'
        PROVE  /\ n.type \in EmailTypes /\ n.day \in MailDays
               /\ n.address \in Addresses \cup MailCompany
               /\ n.employment \in Staff \cup {NoUser}
    <3>1. CASE \E m \in emails : n = Anonymous(m, refused) /\ Same(m, n)
      BY <3>1, <1>2 DEF MailInv, MailingTypeOK
    <3>2. CASE \E e \in recalled :
                 /\ n.type = RecallMail /\ n.address = Mailbox[e] /\ n.day = mailDay
                 /\ n.employment = e
      BY <3>2, <1>0, MailNames DEF Addresses
    <3>3. QED BY <3>1, <3>2, <1>4
  <2>5. mailJob'.campaign \in 0..Len(CampaignTypes)
    BY <1>1, CampaignNames
  <2>6. QED BY <2>1, <2>2, <2>3, <2>4, <2>5, <1>0 DEF MailInv, MailingTypeOK
<1>8. RowsAreWhole'
  <2>1. ASSUME NEW n \in emails'
        PROVE  n = [type |-> n.type, address |-> n.address, employment |-> n.employment,
                    day |-> n.day, rank |-> n.rank]
    <3>1. CASE \E m \in emails : n = Anonymous(m, refused)
      BY <3>1, <1>2
    <3>2. CASE \E e \in recalled : n = RecallOf(e)
      BY <3>2 DEF EmailSent, RecallOf
    <3>3. QED BY <3>1, <3>2, <1>3
  <2>2. QED BY <2>1 DEF RowsAreWhole
<1>9. (\A m \in emails : m.day <= mailDay)'
  <2>1. ASSUME NEW n \in emails' PROVE n.day <= mailDay
    <3>1. CASE \E m \in emails : n.day = m.day
      BY <3>1, <1>0
    <3>2. CASE n.day = mailDay
      BY <3>2, <1>0
    <3>3. QED BY <3>1, <3>2, <1>4
  <2>2. QED BY <2>1, <1>0
<1>10. RowsAreSingle'
  <2>1. ASSUME NEW m \in emails', NEW n \in emails', m.type = n.type,
               m.address = n.address, m.type \notin {InvitationMail, ActivationMail}
        PROVE  m = n
    <3>1. CASE /\ \E x \in emails : m = Anonymous(x, refused) /\ Same(x, m)
               /\ \E x \in emails : n = Anonymous(x, refused) /\ Same(x, n)
      <4>1. PICK x \in emails : m = Anonymous(x, refused) /\ Same(x, m)
        BY <3>1
      <4>2. PICK y \in emails : n = Anonymous(y, refused) /\ Same(y, n)
        BY <3>1
      <4>3. x = y
        BY <2>1, <4>1, <4>2 DEF MailInv, RowsAreSingle
      <4>4. QED BY <4>1, <4>2, <4>3
    <3>2. ASSUME NEW x \in emails, NEW e \in recalled, Same(x, m) \/ Same(x, n),
                 m.type = RecallMail, m.address = Mailbox[e]
          PROVE  FALSE
      BY <2>1, <3>2, <1>0 DEF MailInv, CampaignInv, RecallIsFair, WrittenTo
    <3>3. ASSUME NEW e \in recalled, NEW f \in recalled,
                 m = RecallOf(e), n = RecallOf(f),
                 m.address = Mailbox[e], n.address = Mailbox[f]
          PROVE  m = n
      <4>1. e = f
        BY <2>1, <3>3, <1>0 DEF MailInv, CampaignInv, RecallIsFair
      <4>2. QED BY <3>3, <4>1
    <3>4. QED BY <2>1, <3>1, <3>2, <3>3, <1>4
  <2>2. QED BY <2>1 DEF RowsAreSingle
<1>18. LastIsRecorded'
  <2>1. ASSUME NEW n \in emails', n.type \notin {InvitationMail, ActivationMail}
        PROVE  n.rank = letters[<<n.type, n.address>>]
    <3>1. CASE \E m \in emails : Same(m, n)
      BY <2>1, <3>1 DEF MailInv, LastIsRecorded
    <3>2. CASE \E e \in recalled :
                 /\ n.type = RecallMail /\ n.address = Mailbox[e]
                 /\ n.rank = letters[<<RecallMail, Mailbox[e]>>]
      BY <3>2
    <3>3. QED BY <3>1, <3>2, <1>4
  <2>2. QED BY <2>1, <1>0 DEF LastIsRecorded
<1>11. OneStoryADay'
  <2>1. NoInvitationMail # RecallMail /\ NoActivityMail # RecallMail
    BY DEF NoInvitationMail, NoActivityMail, RecallMail
  <2>2. QED BY <2>1, <1>5 DEF MailInv, OneStoryADay, WrittenOn
<1>12. NoReminderOnceActivated'
  <2>1. D2Mail # RecallMail /\ D4Mail # RecallMail
    BY DEF D2Mail, D4Mail, RecallMail
  <2>2. QED BY <2>1, <1>0, <1>5 DEF MailInv, NoReminderOnceActivated
<1>13. NobodyWasInvited'
  <2>1. NoInvitationMail # RecallMail
    BY DEF NoInvitationMail, RecallMail
  <2>2. QED BY <2>1, <1>5, <1>6 DEF MailInv, NobodyWasInvited
<1>14. ActivityComesLater'
  <2>1. NoActivityMail # RecallMail
    BY DEF NoActivityMail, RecallMail
  <2>2. QED BY <2>1, <1>0, <1>1, <1>5 DEF MailInv, ActivityComesLater
<1>15. CampaignInv'
  BY <1>0, <1>1 DEF CampaignInv, OnboardingIsFair, RecallIsFair, CampaignIsFair,
     RecipientsAreRight, NobodyIsInvited, SomebodyWasInvited, RemindedWereAsleep, WrittenTo
<1>16. mailJob'.ran \in BOOLEAN
  BY <1>1 DEF MailInv
<1>17. QED BY <1>1, <1>7, <1>8, <1>9, <1>10, <1>11, <1>12, <1>13, <1>14, <1>15, <1>16,
              <1>18
           DEF MailInv

InviteeRow == [state : {"none", "pending", "approved"},
               created : MailDays, validated : MailDays,
               user : Addresses \cup {NoUser}, dismissed : BOOLEAN]

AccountRow == [exists : BOOLEAN, activated : BOOLEAN, since : MailDays]

AccountTypes ==
  /\ accounts \in [Addresses -> AccountRow]
  /\ \A a \in Addresses : accounts[a].activated => accounts[a].exists

\* What the rows of the requests' tables are.
RequestTypes ==
  /\ invitees \in [Staff -> InviteeRow]
  /\ AccountTypes
  /\ \A e \in Staff : invitees[e].user # NoUser =>
       invitees[e].user = Mailbox[e] /\ accounts[Mailbox[e]].exists
  /\ \A e \in Staff : invitees[e].state = "approved" => invitees[e].user # NoUser

MailTypes ==
  /\ \A m \in emails : /\ m.type \in EmailTypes /\ m.day \in MailDays
                       /\ m.address \in Addresses \cup MailCompany
                       /\ m.employment \in Staff \cup {NoUser}
  /\ letters \in [Posts -> Nat]
  /\ RowsAreWhole

\* A request that writes, or writes nothing.
MailStep ==
  /\ emails \subseteq emails'
  /\ \A m \in emails' \ emails :
       m.type \in {InvitationMail, ActivationMail} /\ m.day = mailDay
  /\ \A k \in Posts :
       k[1] \notin {InvitationMail, ActivationMail} => letters'[k] = letters[k]

InviteesStep ==
  \A e \in Staff :
    /\ invitees[e].state # "none" =>
         invitees'[e].state # "none" /\ invitees'[e].created = invitees[e].created
    /\ invitees[e].state = "none" /\ invitees'[e].state # "none" =>
         invitees'[e].created = mailDay
    /\ invitees[e].user # NoUser => invitees'[e].user = invitees[e].user

AccountsStep ==
  \A a \in Addresses :
    /\ accounts[a].activated =>
         accounts'[a].activated /\ accounts'[a].since = accounts[a].since
    /\ ~accounts[a].activated /\ accounts'[a].activated =>
         accounts'[a].since = mailDay

LEMMA RequestKeeps ==
  ASSUME MailInv, Others, MailStep, InviteesStep, AccountsStep, RequestTypes', MailTypes'
  PROVE  MailInv'
<1>1. RequestStep
  BY DEF RequestStep, Others, held, MailStep, InviteesStep, AccountsStep
<1>2. MailingTypeOK'
  BY DEF MailInv, MailingTypeOK, RequestTypes, MailTypes, InviteeRow, AccountRow,
     AccountTypes, Others
<1>3. QED BY <1>1, <1>2, RequestsKeep DEF MailTypes

LEMMA TypesOfMailInv ==
  MailInv => RequestTypes /\ MailTypes /\ mailDay \in MailDays /\ 0 \in MailDays
BY MailAssumption DEF MailInv, MailingTypeOK, RequestTypes, MailTypes, InviteeRow, AccountRow,
   AccountTypes, MailDays

LEMMA NothingMailed ==
  ASSUME MailInv, UNCHANGED <<emails, letters>>
  PROVE  MailStep /\ MailTypes'
BY TypesOfMailInv DEF MailStep, MailTypes, RowsAreWhole

LEMMA RequestMails ==
  ASSUME MailInv, NEW t \in {InvitationMail, ActivationMail}, NEW a \in Addresses,
         NEW e \in Staff \cup {NoUser}, Record(t, a, e)
  PROVE  MailStep /\ MailTypes'
<1>1. PICK new : new = EmailSent(t, a, e, letters[<<t, a>>] + 1)
  OBVIOUS
<1>2. emails' = emails \cup {new} /\ Leaves({<<t, a>>})
  BY <1>1 DEF Record
<1>3. /\ new.type = t /\ new.address = a /\ new.employment = e /\ new.day = mailDay
      /\ new = [type |-> new.type, address |-> new.address, employment |-> new.employment,
                day |-> new.day, rank |-> new.rank]
  BY <1>1 DEF EmailSent
<1>4. /\ letters' \in [Posts -> Nat]
      /\ \A k \in Posts : k # <<t, a>> => letters'[k] = letters[k]
  BY <1>2, LettersLeave, TypesOfMailInv DEF MailTypes
<1>5. MailStep
  BY <1>2, <1>3, <1>4 DEF MailStep
<1>6. t \in EmailTypes
  BY MailNames
<1>7. MailTypes'
  BY <1>2, <1>3, <1>4, <1>6, TypesOfMailInv DEF MailTypes, RowsAreWhole
<1>8. QED BY <1>5, <1>7

LEMMA AccountsUntouched == UNCHANGED accounts => AccountsStep
BY DEF AccountsStep

LEMMA InviteesUntouched == UNCHANGED invitees => InviteesStep
BY DEF InviteesStep

\* One row of the employments changes: bound to the user of its address.
LEMMA OneInviteeChanges ==
  ASSUME MailInv, NEW e \in Staff, NEW row \in InviteeRow,
         invitees' = [invitees EXCEPT ![e] = row],
         row.state # "none",
         invitees[e].state # "none" => row.created = invitees[e].created,
         invitees[e].state = "none" => row.created = mailDay,
         invitees[e].user # NoUser => row.user = invitees[e].user,
         row.user # NoUser => row.user = Mailbox[e] /\ accounts'[Mailbox[e]].exists,
         row.state = "approved" => row.user # NoUser,
         AccountTypes',
         \A a \in Addresses : accounts[a].exists => accounts'[a].exists
  PROVE  InviteesStep /\ RequestTypes'
<1>1. \A f \in Staff : invitees'[f] = IF f = e THEN row ELSE invitees[f]
  BY TypesOfMailInv DEF RequestTypes
<1>2. InviteesStep
  BY <1>1 DEF InviteesStep
<1>3. \A f \in Staff : Mailbox[f] \in Addresses
  BY DEF Addresses
<1>4. RequestTypes'
  <2>1. invitees' \in [Staff -> InviteeRow]
    BY TypesOfMailInv DEF RequestTypes
  <2>2. \A f \in Staff : invitees'[f].user # NoUser =>
          invitees'[f].user = Mailbox[f] /\ accounts'[Mailbox[f]].exists
    BY <1>1, <1>3, TypesOfMailInv DEF RequestTypes
  <2>3. \A f \in Staff : invitees'[f].state = "approved" => invitees'[f].user # NoUser
    BY <1>1, TypesOfMailInv DEF RequestTypes
  <2>4. QED BY <2>1, <2>2, <2>3 DEF RequestTypes
<1>5. QED BY <1>2, <1>4

LEMMA SendInvitationKeeps ==
  ASSUME MailInv, NEW e \in Staff, SendInvitation(e)
  PROVE  MailInv'
<1>1. PICK row : row = [state |-> "pending", created |-> mailDay, validated |-> 0,
                        user |-> IF accounts[Mailbox[e]].exists THEN Mailbox[e] ELSE NoUser,
                        dismissed |-> FALSE]
  OBVIOUS
<1>2. Mailbox[e] \in Addresses
  BY DEF Addresses
<1>3. row \in InviteeRow
  BY <1>1, <1>2, TypesOfMailInv DEF InviteeRow
<1>4. /\ invitees[e].state = "none" /\ invitees' = [invitees EXCEPT ![e] = row]
      /\ UNCHANGED accounts /\ Others
      /\ Record(InvitationMail, Mailbox[e], e)
  BY <1>1 DEF SendInvitation
<1>5. MailStep /\ MailTypes'
  BY <1>2, <1>4, RequestMails
<1>6. invitees[e].user # NoUser => row.user = invitees[e].user
  BY <1>1, TypesOfMailInv DEF RequestTypes
<1>7. row.user # NoUser => row.user = Mailbox[e] /\ accounts'[Mailbox[e]].exists
  BY <1>1, <1>4
<1>8. AccountTypes'
  BY <1>4, TypesOfMailInv DEF RequestTypes, AccountTypes
<1>9. /\ row.state = "pending" /\ row.created = mailDay
      /\ \A a \in Addresses : accounts[a].exists => accounts'[a].exists
  BY <1>1, <1>4
<1>10. InviteesStep /\ RequestTypes'
  BY <1>3, <1>4, <1>6, <1>7, <1>8, <1>9, OneInviteeChanges
<1>11. QED BY <1>4, <1>5, <1>10, AccountsUntouched, RequestKeeps

\* An employment that is approved is bound to the user of its address.
LEMMA ApprovedRow ==
  ASSUME MailInv, NEW e \in Staff, NEW a \in Addresses
  PROVE  /\ Approve(e, a) \in InviteeRow
         /\ Approve(e, a).state = "approved" /\ Approve(e, a).user = a
         /\ Approve(e, a).created = invitees[e].created
<1>1. PICK row \in InviteeRow : row = invitees[e]
  BY TypesOfMailInv DEF RequestTypes
<1>2. Approve(e, a) = [row EXCEPT !.state = "approved", !.validated = mailDay, !.user = a]
  BY <1>1 DEF Approve
<1>3. QED BY <1>1, <1>2, TypesOfMailInv DEF InviteeRow

LEMMA SignUpWithTokenKeeps ==
  ASSUME MailInv, NEW e \in Staff, SignUpWithToken(e)
  PROVE  MailInv'
<1>1. PICK a \in Addresses : a = Mailbox[e]
  BY DEF Addresses
<1>2. PICK account : account = [exists |-> TRUE, activated |-> TRUE, since |-> mailDay]
  OBVIOUS
<1>3. PICK row : row = Approve(e, a)
  OBVIOUS
<1>4. /\ Unanswered(e) /\ ~accounts[a].exists
      /\ accounts' = [accounts EXCEPT ![a] = account]
      /\ invitees' = [invitees EXCEPT ![e] = row]
      /\ UNCHANGED <<emails, letters>> /\ Others
  BY <1>1, <1>2, <1>3 DEF SignUpWithToken
<1>5. /\ row \in InviteeRow /\ row.state = "approved" /\ row.user = a
      /\ row.created = invitees[e].created
  BY <1>3, ApprovedRow
<1>6. account \in AccountRow
  BY <1>2, TypesOfMailInv DEF AccountRow
<1>7. /\ accounts' \in [Addresses -> AccountRow]
      /\ \A b \in Addresses : accounts'[b] = IF b = a THEN account ELSE accounts[b]
  BY <1>4, <1>6, TypesOfMailInv DEF RequestTypes, AccountTypes
<1>8. ~accounts[a].activated
  BY <1>4, TypesOfMailInv DEF RequestTypes, AccountTypes
<1>9. AccountsStep
  BY <1>2, <1>7, <1>8 DEF AccountsStep
<1>10. AccountTypes'
  BY <1>2, <1>7, TypesOfMailInv DEF RequestTypes, AccountTypes
<1>11. /\ invitees[e].state # "none" /\ invitees[e].user = NoUser
       /\ accounts'[a].exists
       /\ \A b \in Addresses : accounts[b].exists => accounts'[b].exists
  BY <1>2, <1>4, <1>7 DEF Unanswered
<1>12. a # NoUser /\ row.state # "none"
  BY <1>5, MailAssumption
<1>13. InviteesStep /\ RequestTypes'
  BY <1>1, <1>4, <1>5, <1>10, <1>11, <1>12, OneInviteeChanges
<1>14. QED BY <1>4, <1>9, <1>13, NothingMailed, RequestKeeps

LEMMA SignUpAloneKeeps ==
  ASSUME MailInv, NEW a \in Addresses, SignUpAlone(a)
  PROVE  MailInv'
<1>1. /\ ~accounts[a].exists /\ accounts' = [accounts EXCEPT ![a].exists = TRUE]
      /\ Record(ActivationMail, a, NoUser) /\ Others
      /\ invitees' = [e \in Staff |->
            IF Mailbox[e] = a /\ invitees[e].state # "none"
            THEN [invitees[e] EXCEPT !.user = a] ELSE invitees[e]]
  BY DEF SignUpAlone
<1>2. MailStep /\ MailTypes'
  BY <1>1, RequestMails
<1>3. PICK account \in AccountRow : account = accounts[a]
  BY TypesOfMailInv DEF RequestTypes, AccountTypes
<1>4. PICK signed : signed = [account EXCEPT !.exists = TRUE]
  OBVIOUS
<1>5. /\ signed \in AccountRow /\ signed.exists
      /\ signed.activated = account.activated /\ signed.since = account.since
  BY <1>3, <1>4 DEF AccountRow
<1>6. /\ accounts' \in [Addresses -> AccountRow]
      /\ \A b \in Addresses : accounts'[b] = IF b = a THEN signed ELSE accounts[b]
  <2>1. accounts' = [accounts EXCEPT ![a] = signed]
    BY <1>1, <1>3, <1>4
  <2>2. QED BY <2>1, <1>5, TypesOfMailInv DEF RequestTypes, AccountTypes
<1>7. AccountsStep /\ AccountTypes'
  BY <1>3, <1>5, <1>6, TypesOfMailInv DEF AccountsStep, RequestTypes, AccountTypes
<1>8. \A e \in Staff :
        /\ invitees'[e] \in InviteeRow
        /\ invitees'[e].state = invitees[e].state
        /\ invitees'[e].created = invitees[e].created
        /\ \/ invitees'[e].user = invitees[e].user
           \/ invitees'[e].user = a /\ Mailbox[e] = a
  <2>1. TAKE e \in Staff
  <2>2. PICK row \in InviteeRow : row = invitees[e]
    BY TypesOfMailInv DEF RequestTypes
  <2>3. PICK bound : bound = [row EXCEPT !.user = a]
    OBVIOUS
  <2>4. /\ bound \in InviteeRow /\ bound.user = a
        /\ bound.state = row.state /\ bound.created = row.created
    BY <2>2, <2>3 DEF InviteeRow
  <2>5. invitees'[e] = row \/ (invitees'[e] = bound /\ Mailbox[e] = a)
    BY <1>1, <2>2, <2>3
  <2>6. QED BY <2>2, <2>4, <2>5
<1>9. \A e \in Staff : Mailbox[e] = a => invitees[e].user = NoUser
  BY <1>1, TypesOfMailInv DEF RequestTypes
<1>10. InviteesStep
  BY <1>8, <1>9 DEF InviteesStep
<1>11. RequestTypes'
  <2>1. invitees' \in [Staff -> InviteeRow]
    BY <1>1, <1>8
  <2>2. \A e \in Staff : Mailbox[e] \in Addresses
    BY DEF Addresses
  <2>3. \A e \in Staff : invitees'[e].user # NoUser =>
          invitees'[e].user = Mailbox[e] /\ accounts'[Mailbox[e]].exists
    BY <1>5, <1>6, <1>8, <2>2, TypesOfMailInv DEF RequestTypes
  <2>4. \A e \in Staff : invitees'[e].state = "approved" => invitees'[e].user # NoUser
    BY <1>8, MailAssumption, TypesOfMailInv DEF RequestTypes
  <2>5. QED BY <2>1, <2>3, <2>4, <1>7 DEF RequestTypes
<1>12. QED BY <1>1, <1>2, <1>7, <1>10, <1>11, RequestKeeps

LEMMA InviteesRest ==
  ASSUME MailInv, UNCHANGED invitees, AccountTypes',
         \A a \in Addresses : accounts[a].exists => accounts'[a].exists
  PROVE  InviteesStep /\ RequestTypes'
<1>1. \A e \in Staff : Mailbox[e] \in Addresses
  BY DEF Addresses
<1>2. QED BY <1>1, TypesOfMailInv, InviteesUntouched DEF RequestTypes

LEMMA ResendActivationKeeps ==
  ASSUME MailInv, NEW a \in Addresses, ResendActivation(a)
  PROVE  MailInv'
<1>1. /\ Record(ActivationMail, a, NoUser) /\ Others
      /\ UNCHANGED <<invitees, accounts>>
  BY DEF ResendActivation
<1>2. MailStep /\ MailTypes'
  BY <1>1, RequestMails
<1>3. AccountTypes'
  BY <1>1, TypesOfMailInv DEF RequestTypes, AccountTypes
<1>4. InviteesStep /\ RequestTypes'
  BY <1>1, <1>3, InviteesRest
<1>5. QED BY <1>1, <1>2, <1>4, AccountsUntouched, RequestKeeps

LEMMA ActivateKeeps ==
  ASSUME MailInv, NEW a \in Addresses, Activate(a)
  PROVE  MailInv'
<1>1. /\ accounts[a].exists /\ ~accounts[a].activated
      /\ accounts' = [accounts EXCEPT ![a].activated = TRUE, ![a].since = mailDay]
      /\ UNCHANGED <<invitees, emails, letters>> /\ Others
  BY DEF Activate
<1>2. PICK account \in AccountRow : account = accounts[a]
  BY TypesOfMailInv DEF RequestTypes, AccountTypes
<1>3. PICK woken : woken = [account EXCEPT !.activated = TRUE, !.since = mailDay]
  OBVIOUS
<1>4. /\ woken \in AccountRow /\ woken.exists = account.exists
      /\ woken.activated /\ woken.since = mailDay
  BY <1>2, <1>3, TypesOfMailInv DEF AccountRow
<1>5. /\ accounts' \in [Addresses -> AccountRow]
      /\ \A b \in Addresses : accounts'[b] = IF b = a THEN woken ELSE accounts[b]
  <2>1. accounts' = [accounts EXCEPT ![a] = woken]
    BY <1>1, <1>2, <1>3, TypesOfMailInv DEF RequestTypes, AccountTypes
  <2>2. QED BY <2>1, <1>4, TypesOfMailInv DEF RequestTypes, AccountTypes
<1>6. AccountsStep /\ AccountTypes'
  BY <1>1, <1>2, <1>4, <1>5, TypesOfMailInv DEF AccountsStep, RequestTypes, AccountTypes
<1>7. \A b \in Addresses : accounts[b].exists => accounts'[b].exists
  BY <1>2, <1>4, <1>5
<1>8. InviteesStep /\ RequestTypes'
  BY <1>1, <1>6, <1>7, InviteesRest
<1>9. QED BY <1>1, <1>6, <1>8, NothingMailed, RequestKeeps

LEMMA AcceptKeeps ==
  ASSUME MailInv, NEW e \in Staff, Accept(e)
  PROVE  MailInv'
<1>1. PICK a : a = invitees[e].user
  OBVIOUS
<1>2. PICK row : row = Approve(e, a)
  OBVIOUS
<1>3. /\ invitees[e].state = "pending" /\ a # NoUser
      /\ invitees' = [invitees EXCEPT ![e] = row]
      /\ UNCHANGED <<accounts, emails, letters>> /\ Others
  <2>1. e \in DOMAIN invitees
    BY TypesOfMailInv DEF RequestTypes
  <2>2. QED BY <1>1, <1>2, <2>1 DEF Accept
<1>4. a \in Addresses /\ a = Mailbox[e] /\ accounts[a].exists
  BY <1>1, <1>3, TypesOfMailInv DEF RequestTypes, Addresses
<1>5. /\ row \in InviteeRow /\ row.state = "approved" /\ row.user = a
      /\ row.created = invitees[e].created
  BY <1>2, <1>4, ApprovedRow
<1>6. /\ AccountTypes' /\ accounts'[a].exists
      /\ \A b \in Addresses : accounts[b].exists => accounts'[b].exists
  BY <1>3, <1>4, TypesOfMailInv DEF RequestTypes, AccountTypes
<1>7. InviteesStep /\ RequestTypes'
  BY <1>1, <1>3, <1>4, <1>5, <1>6, OneInviteeChanges
<1>8. QED BY <1>3, <1>7, AccountsUntouched, NothingMailed, RequestKeeps

LEMMA CancelKeeps ==
  ASSUME MailInv, NEW e \in Staff, Cancel(e)
  PROVE  MailInv'
<1>1. PICK old \in InviteeRow : old = invitees[e]
  BY TypesOfMailInv DEF RequestTypes
<1>2. PICK row : row = [old EXCEPT !.dismissed = TRUE]
  OBVIOUS
<1>3. /\ old.state # "none" /\ UNCHANGED <<accounts, emails, letters>> /\ Others
      /\ invitees' = [invitees EXCEPT ![e] = row]
  BY <1>1, <1>2, TypesOfMailInv DEF Cancel, RequestTypes
<1>4. /\ row \in InviteeRow /\ row.state = old.state /\ row.user = old.user
      /\ row.created = old.created
  BY <1>1, <1>2 DEF InviteeRow
<1>5. /\ AccountTypes'
      /\ \A b \in Addresses : accounts[b].exists => accounts'[b].exists
  BY <1>3, TypesOfMailInv DEF RequestTypes, AccountTypes
<1>6. /\ row.user # NoUser => row.user = Mailbox[e] /\ accounts'[Mailbox[e]].exists
      /\ row.state = "approved" => row.user # NoUser
  BY <1>1, <1>3, <1>4, TypesOfMailInv DEF RequestTypes
<1>7. InviteesStep /\ RequestTypes'
  BY <1>1, <1>3, <1>4, <1>5, <1>6, OneInviteeChanges
<1>8. QED BY <1>3, <1>7, AccountsUntouched, NothingMailed, RequestKeeps

LEMMA FirstMissionKeeps ==
  ASSUME MailInv, NEW e \in Staff, FirstMission(e)
  PROVE  MailInv'
<1>1. UNCHANGED <<invitees, accounts, emails, letters>> /\ Others
  BY DEF FirstMission
<1>2. AccountTypes'
  BY <1>1, TypesOfMailInv DEF RequestTypes, AccountTypes
<1>3. InviteesStep /\ RequestTypes'
  BY <1>1, <1>2, InviteesRest
<1>4. QED BY <1>1, <1>3, AccountsUntouched, NothingMailed, RequestKeeps

LEMMA MailingStays ==
  ASSUME MailInv, UNCHANGED mailingVars
  PROVE  MailInv'
BY DEF mailingVars, held, MailInv, MailingTypeOK, RowsAreWhole, RowsAreSingle,
   LastIsRecorded, OneStoryADay,
   WrittenOn, NoReminderOnceActivated, NobodyWasInvited, ActivityComesLater, CampaignInv,
   OnboardingIsFair, RecallIsFair, CampaignIsFair, RecipientsAreRight, NobodyIsInvited,
   SomebodyWasInvited, RemindedWereAsleep, WrittenTo

\* For any staff, addresses and delays: no mail of a campaign leaves for somebody
\* after one that was recorded, no company is told two stories on one day, and
\* nobody is reminded of an activation after he made it, whatever requests run
\* between two campaigns.  A run that stops between a mail and its commit leaves
\* no record, and the next one writes again (WrittenToOnce).
THEOREM MailsStayFew == MailingSpec => []MailsAreFew
<1>1. MailInv /\ [MailingNext]_mailingVars => MailInv'
  <2> SUFFICES ASSUME MailInv, [MailingNext]_mailingVars PROVE MailInv'
    OBVIOUS
  <2>1. ASSUME MailingRequest PROVE MailInv'
    BY <2>1, SendInvitationKeeps, SignUpWithTokenKeeps, AcceptKeeps, CancelKeeps,
       FirstMissionKeeps, SignUpAloneKeeps, ResendActivationKeeps, ActivateKeeps
       DEF MailingRequest
  <2>2. ASSUME MailingJob PROVE MailInv'
    BY <2>2, OnboardingBegins, ListedCampaignsBegin, RecallsBegin, JobRests,
       SendNextKeeps, RecallsLeave, RecallsKeep DEF MailingJob
  <2>3. ASSUME UNCHANGED mailingVars PROVE MailInv'
    BY <2>3, MailingStays
  <2>4. QED BY <2>1, <2>2, <2>3 DEF MailingNext
<1>2. MailInv => MailsAreFew
  BY DEF MailInv, MailsAreFew, WrittenToOnce, RowsAreSingle, LastIsRecorded
<1>3. QED BY <1>1, <1>2, MailingBegins, PTL DEF MailingSpec
=============================================================================
