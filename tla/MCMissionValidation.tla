------------------------ MODULE MCMissionValidation ------------------------
(***************************************************************************)
(* Small instances of MissionValidation for TLC.                           *)
(***************************************************************************)
EXTENDS MissionValidation

CONSTANTS driver, mate, boss, m1, m2, m3

\* The driver creates every mission.
CreatedByDriver == [m \in Mission |-> driver]

\* No action reads the parity of the revisions, and the properties compare
\* it over a step only.  Asking for the types first makes TLC evaluate the
\* state it looks at in part.
Unrevised ==
  IF TypeOK THEN <<work, ended, holidays, validations, queue, job>> ELSE vars

\* A day off that was logged as an activity, beside two missions: the driver
\* works on one of them in every way, and logs the other once.
BatchIsSmall ==
  /\ holidays \subseteq {m1}
  /\ work[<<driver, m1>>] # "none" => m1 \in holidays
  /\ work[<<driver, m1>>] \in {"none", "stopped"}
  /\ work[<<driver, m3>>] \in {"none", "stopped"}
  /\ \A m \in {m1, m3} :
       /\ revision[<<driver, m>>] = IF work[<<driver, m>>] = "none" THEN 0 ELSE 1
       /\ \A v \in ValidationsFor(driver, m) : v.auto

BatchSpec ==
  Init /\ [][Next /\ BatchIsSmall']_vars /\ JobIsFair
=============================================================================
