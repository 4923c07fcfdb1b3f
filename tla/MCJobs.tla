------------------------------- MODULE MCJobs -------------------------------
(***************************************************************************)
(* The jobs that run beside the requests, on a small instance.  The        *)
(* components share no state: each behaviour works one of them, its scene, *)
(* while the others stay as they began, so one run explores them all.      *)
(***************************************************************************)
EXTENDS Anonymization, Exports, BrevoFunnel, CompanyRegistry

CONSTANTS w1, w2, c1, e1, e2, m1, m2, u1, u2, p1, p2, s1, s2, r1, r2

VARIABLE scene

jobVars ==
  <<anonVars, exportVars, funnelVars, registryVars, scene>>

Scenes == {"anonymization", "export", "funnel", "registry"}

-----------------------------------------------------------------------------
(* Constants. *)

\* A company whose administrator is u1 and whose worker is u2.
Places == [e \in Employment |-> [company |-> c1,
                                 user |-> IF e = e1 THEN u1 ELSE u2,
                                 admin |-> e = e1]]

\* Each employee worked every other day.
Rota == {<<u, d>> \in Employee \X (0..LastDate) : d % 2 = u % 2}

\* The user who asks for reports has an employee in each of two companies.
Staff == [c \in ExportCompany |-> {c}]

\* Two companies of one SIREN, or one with and one without.
Layouts == {[c \in Prospect |-> s1],
            [c \in Prospect |-> IF c = p1 THEN s2 ELSE NoSiren]}

-----------------------------------------------------------------------------
JobsInit ==
  /\ scene \in Scenes
  /\ AnonymizationInit /\ ExportInit /\ FunnelInit /\ RegistryInit
  /\ scene # "funnel" => \A p \in Prospect : prospects[p].siren = s1
  /\ scene # "registry" => \A s \in Siren : insee[s] = "open"

\* The scene stays, and so does what is not in it.
Keep(s, componentVars) == IF scene = s THEN TRUE ELSE UNCHANGED componentVars

RestStays ==
  /\ UNCHANGED scene
  /\ Keep("anonymization", anonVars)
  /\ Keep("export", exportVars) /\ Keep("funnel", funnelVars)
  /\ Keep("registry", registryVars)

JobsNext ==
  /\ RestStays
  /\ \/ scene = "anonymization" /\ AnonymizationNext
     \/ scene = "export" /\ ExportNext
     \/ scene = "funnel" /\ FunnelNext
     \/ scene = "registry" /\ RegistryNext

\* Each behaviour works one scene, so the fair processes of the scenes share
\* two names: what they do fairly in a scene is its component's fairness.
FairStep(w) ==
  /\ \/ scene = "export" /\ TaskStep(w)
     \/ scene = "anonymization" /\ w = w1 /\ JobStep
     \/ scene = "funnel" /\ w = w1 /\ SyncStep
     \/ scene = "registry" /\ IF w = w1 THEN CeasedJobStep ELSE NextRegistryDay
  /\ RestStays

JobsFairness == \A w \in ExportWorker : WF_jobVars(FairStep(w))

JobsSpec == JobsInit /\ [][JobsNext]_jobVars /\ JobsFairness

-----------------------------------------------------------------------------
\* What each job promises in the end, whatever fails before and as long as it
\* runs: a mission past the cut-off is deleted unless a foreign key refuses it
\* for ever, an export ends unless its failure could not be written, a deal
\* comes to the stage its company is in, and a company that closed is marked so.
JobsCatchUp ==
  /\ ExpiredIsDeleted
  /\ EveryExportEnds
  /\ FunnelCatchesUp
  /\ ClosedIsMarked

-----------------------------------------------------------------------------
(* Bounds. *)

\* A second export, and what its message brings, is one that is refused.  What
\* is cancelled, handed out or broken begins on the first day.
SmallReports ==
  /\ \A n \in 1..Len(broker) :
       n + Taken > 1 => broker[n].type = "refused_cgu"
  /\ Taken > 1 \/ lost > 0 \/ broken # {} \/ dropped # {} \/ checkout.at # "none" =>
       \A n \in 1..Len(exports) : exports[n].message.from = 0

\* The second prospect only signs up and activates its account.
OneIsQuiet ==
  /\ failures > 0 => prospects[p1].mail = "none"
  /\ prospects[p2].mail = "none" /\ prospects[p2].mission = NoMission
  /\ prospects[p2].creatorActive =>
       prospects[p1].creatorActive /\ prospects[p1].mail = "none"
         /\ prospects[p1].mission = NoMission /\ failures = 0

\* Requests for different companies do not meet, nor do sign-ups and the job.
RegistryIsSmall ==
  /\ \A r \in SignUpRequest :
       /\ signUps[r].siren = s2 =>
            r = r2 /\ signUps[r].by = "software" /\ signUps[r].asked = {{}}
       /\ r = r1 /\ signUps[r].by = "software" => signUps[r].asked = {{}}
       /\ ceasedJob.ran \/ (\E c \in Rows : registered[c].infoAge > 0
                                          \/ registered[c].worker # Nobody) =>
            /\ signUps[r].phase \in {"none", "answered"}
            /\ signUps[r].asked \subseteq {{}}
  /\ \A c \in Rows \ {1} : registered[c].worker = Nobody
  /\ insee[s2] # "closed"
  /\ signUps[r2].phase # "none" => signUps[r1].phase # "none" /\ outages = 0

\* The second mission is of the worker, begins after the first left the queue,
\* and no night was cut short before; the company then has no software, which
\* it has in nights that end.  An employment is not both ended and dismissed.
FewMissions ==
  /\ missions[m2].is # "none" =>
       /\ missions[m1].is # "none" /\ m1 \notin queue
       /\ missions[m2].user = u2 /\ crashes = 0 /\ clients[c1] = "none"
  /\ clients[c1] # "none" => crashes = 0
  /\ employments[e2].ended => ~employments[e2].dismissed

JobsAreSmall == SmallReports /\ OneIsQuiet /\ RegistryIsSmall /\ FewMissions
=============================================================================
