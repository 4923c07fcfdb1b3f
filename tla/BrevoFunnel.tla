---------------------------- MODULE BrevoFunnel ----------------------------
(***************************************************************************)
(* The nightly synchronisation of the companies with Brevo, the tool of    *)
(* the sales team: each company has a deal, in the pipeline "Acquisition"  *)
(* until its creator activates the account, then in "Activation"           *)
(* (services/brevo, helpers/brevo.py).                                     *)
(*                                                                         *)
(* Both lists are computed when the command starts.  Then, for each        *)
(* pipeline, the deals are asked once and the companies are treated one by *)
(* one against that answer while the companies change.  Any request may    *)
(* fail and the command may be killed; MaxFailures bounds how often.       *)
(***************************************************************************)
EXTENDS Integers, FiniteSets

CONSTANTS
  Prospect,          \* bound: the companies, all created on day 0
  FunnelSiren,
  NoSiren,           \* the company of an old account, or a foreign one
  SirenLayouts,      \* bound: the SIREN or NoSiren of each company
  KnownSirens,       \* those of the companies that Brevo holds itself
  LastFunnelDay,     \* bound: the days are 0..LastFunnelDay
  AccountDeadline,   \* ACCOUNT_ACTIVATION_DEADLINE_DAYS: 14
  PhoningDay,        \* ACTIVATION_PHONING_J10_DAYS: 10
  MissionDeadline,   \* ACTIVATION_DEADLINE_DAYS: 21
  MaxFailures        \* bound: the requests that fail, the runs killed

VARIABLES
  funnelDay,   \* date.today()
  prospects,   \* what the queries read of each company
  deals,       \* the deals that Brevo holds, by pipeline
  sync,        \* the command: the pipeline, whom it has still to treat
  failures     \* how many requests failed, or runs were killed

funnelVars == <<funnelDay, prospects, deals, sync, failures>>

ASSUME FunnelAssumption ==
  /\ LastFunnelDay \in Nat /\ MissionDeadline \in Nat /\ MaxFailures \in Nat
  /\ SirenLayouts \subseteq [Prospect -> FunnelSiren \cup {NoSiren}]
  /\ NoSiren \notin FunnelSiren

Pipelines == {"acquisition", "activation"}

FunnelDays == 0..LastFunnelDay

NoMission == -1

-----------------------------------------------------------------------------
(* The classification.                                                     *)

SirenOf(c) == prospects[c].siren

AcquisitionStage(c) ==
  IF prospects[c].creatorActive THEN "won"
  ELSE IF funnelDay >= AccountDeadline THEN "lost"
  ELSE "registered"

\* Seeded fault: the age of the company is looked at before its missions.
ActivationStageByAge(c) ==
  IF funnelDay > MissionDeadline THEN "lost"
  ELSE IF prospects[c].mission \in 0..MissionDeadline THEN "won"
  ELSE "no mission"

\* "none" leaves the company out of this pipeline: its first mission came
\* after the deadline.
ActivationStage(c) ==
  LET p == prospects[c] IN
  CASE p.mission # NoMission /\ p.mission <= MissionDeadline -> "won"
    [] p.mission # NoMission /\ p.mission > MissionDeadline -> "none"
    [] p.mission = NoMission ->
         IF funnelDay > MissionDeadline THEN "lost"
         ELSE IF p.mail = "reminder" THEN "reminded at D14"
         ELSE IF p.mail = "first" /\ funnelDay >= PhoningDay THEN "D10"
         ELSE IF p.mail = "first" THEN "reminded at D7"
         ELSE "no mission"

Stages == {"won", "lost", "registered", "reminded at D14", "D10",
           "reminded at D7", "no mission"}

ActivationCompanies ==
  {c \in Prospect : prospects[c].creatorActive /\ ActivationStage(c) # "none"}

\* The companies of the other list are left out.
AcquisitionCompanies == Prospect \ ActivationCompanies

Listed(p) ==
  IF p = "activation"
  THEN {[company |-> c, stage |-> ActivationStage(c)] : c \in ActivationCompanies}
  ELSE {[company |-> c, stage |-> AcquisitionStage(c)] : c \in AcquisitionCompanies}

-----------------------------------------------------------------------------
(* The deals.                                                              *)

Deal == [id : Nat, siren : FunnelSiren \cup {NoSiren},
         name : Prospect, stage : Stages, linked : BOOLEAN]

NextDealId(p) == Cardinality(deals[p]) + 1

NewDeal(c, p, stage) ==
  [id |-> NextDealId(p), siren |-> SirenOf(c), name |-> c, stage |-> stage,
   linked |-> FALSE]

\* Whether Brevo holds a company under the SIREN of the deal.
HasBrevoCompany(d) == d.siren \in KnownSirens

Linked(d) == [d EXCEPT !.linked = @ \/ HasBrevoCompany(d)]

\* The pipeline with deal d as f makes it.
WithDeal(known, d, f) == {IF e.id = d.id THEN f ELSE e : e \in known}

BySiren(c, known) ==
  {d \in known : d.siren = SirenOf(c) /\ SirenOf(c) # NoSiren}

ByName(c, known) == {d \in known : d.siren = NoSiren /\ d.name = c}

\* A dictionary: of two deals with one identifier it keeps either.
ExistingDeals(c, known) ==
  IF BySiren(c, known) # {} THEN BySiren(c, known) ELSE ByName(c, known)

UpdateDealIdentifier(known, d) == known \cup {d}

StageChanged(d, stage) == d.stage # stage

-----------------------------------------------------------------------------
(* The command.                                                            *)

IdleSync == [pipeline |-> "none", todo |-> {}, later |-> {},
             asked |-> FALSE, known |-> {}]

FunnelInit ==
  /\ funnelDay = 0
  /\ \E l \in SirenLayouts : prospects = [c \in Prospect |->
        [siren |-> l[c], creatorActive |-> FALSE, mission |-> NoMission, mail |-> "none"]]
  /\ deals = [p \in Pipelines |-> {}]
  /\ sync = IdleSync
  /\ failures = 0

Companies == UNCHANGED <<funnelDay, prospects>>

Fail == failures < MaxFailures /\ failures' = failures + 1

SyncAllFunnels ==
  /\ sync.pipeline = "none"
  /\ sync' = [IdleSync EXCEPT !.pipeline = "acquisition",
                 !.todo = Listed("acquisition"), !.later = Listed("activation")]
  /\ UNCHANGED <<deals, failures>> /\ Companies

\* Nothing is asked of Brevo when the list of the pipeline is empty.
AskDeals ==
  /\ sync.pipeline # "none" /\ ~sync.asked /\ sync.todo # {}
  /\ sync' = [sync EXCEPT !.asked = TRUE, !.known = deals[sync.pipeline]]
  /\ UNCHANGED <<deals, failures>> /\ Companies

\* A request that fails, or is refused at the rate limit, is an empty list.
AskDealsFails ==
  /\ sync.pipeline # "none" /\ ~sync.asked /\ sync.todo # {}
  /\ Fail
  /\ sync' = [sync EXCEPT !.asked = TRUE, !.known = {}]
  /\ UNCHANGED deals /\ Companies

\* The pipeline or its stages are not found.
SkipPipeline ==
  /\ sync.pipeline # "none" /\ ~sync.asked /\ sync.todo # {}
  /\ Fail
  /\ sync' = [sync EXCEPT !.todo = {}]
  /\ UNCHANGED deals /\ Companies

\* The pipelines cannot be asked, or the command is killed.
SyncEnds ==
  /\ sync.pipeline # "none"
  /\ Fail
  /\ sync' = IdleSync
  /\ UNCHANGED deals /\ Companies

\* The stage that the deal had when the deals were asked decides; the link
\* is sent again every night, and a link that fails is only logged.
UpdateExistingDeal(item, d) ==
  LET now == CHOOSE e \in deals[sync.pipeline] : e.id = d.id
      moved == IF StageChanged(d, item.stage)
               THEN [now EXCEPT !.stage = item.stage] ELSE now IN
  /\ d \in ExistingDeals(item.company, sync.known)
  /\ \/ deals' = [deals EXCEPT ![sync.pipeline] = WithDeal(@, now, Linked(moved))]
        /\ UNCHANGED failures
     \/ deals' = [deals EXCEPT ![sync.pipeline] = WithDeal(@, now, moved)]
        /\ Fail
  /\ sync' = [sync EXCEPT !.todo = @ \ {item}]

CreateNewDeal(item) ==
  LET d == NewDeal(item.company, sync.pipeline, item.stage) IN
  /\ ExistingDeals(item.company, sync.known) = {}
  /\ \/ deals' = [deals EXCEPT ![sync.pipeline] = @ \cup {Linked(d)}]
        /\ UNCHANGED failures
     \/ deals' = [deals EXCEPT ![sync.pipeline] = @ \cup {d}] /\ Fail
  /\ sync' = [sync EXCEPT !.todo = @ \ {item},
                          !.known = UpdateDealIdentifier(@, d)]

\* The deal is created and the answer lost.
CreationUnanswered(item) ==
  /\ ExistingDeals(item.company, sync.known) = {}
  /\ Fail
  /\ deals' = [deals EXCEPT ![sync.pipeline] =
        @ \cup {NewDeal(item.company, sync.pipeline, item.stage)}]
  /\ sync' = [sync EXCEPT !.todo = @ \ {item}]

\* The company is passed over until the next night.
CompanyFails(item) ==
  /\ Fail
  /\ sync' = [sync EXCEPT !.todo = @ \ {item}]
  /\ UNCHANGED deals

SyncSingleCompany(item) ==
  /\ sync.asked /\ item \in sync.todo
  /\ \/ \E d \in sync.known : UpdateExistingDeal(item, d)
     \/ CreateNewDeal(item)
  /\ Companies

SyncSingleCompanyFails(item) ==
  /\ sync.asked /\ item \in sync.todo
  /\ CreationUnanswered(item) \/ CompanyFails(item)
  /\ Companies

\* Deals without a SIREN are passed over.
LinkExistingDeal(p, d) ==
  /\ d \in deals[p] /\ d.siren # NoSiren
  /\ deals' = [deals EXCEPT ![p] = WithDeal(@, d, Linked(d))]
  /\ UNCHANGED <<sync, failures>> /\ Companies

\* The command for the deals created before links were.
LinkBrevoDeals == \E p \in Pipelines : \E d \in deals[p] : LinkExistingDeal(p, d)

EndPipeline ==
  /\ sync.pipeline # "none" /\ sync.todo = {}
  /\ sync' = IF sync.pipeline = "activation" THEN IdleSync
             ELSE [IdleSync EXCEPT !.pipeline = "activation",
                                   !.todo = sync.later]
  /\ UNCHANGED <<deals, failures>> /\ Companies

SyncStep ==
  \/ SyncAllFunnels \/ AskDeals \/ EndPipeline
  \/ \E item \in sync.todo : SyncSingleCompany(item)

SyncFails ==
  \/ AskDealsFails \/ SkipPipeline \/ SyncEnds
  \/ \E item \in sync.todo : SyncSingleCompanyFails(item)

-----------------------------------------------------------------------------
(* The companies.                                                          *)

Change(c, p) ==
  /\ prospects' = [prospects EXCEPT ![c] = p]
  /\ UNCHANGED <<funnelDay, deals, sync, failures>>

CreatorActivates(c) ==
  ~prospects[c].creatorActive
  /\ Change(c, [prospects[c] EXCEPT !.creatorActive = TRUE])

FirstMissionValidated(c) ==
  prospects[c].creatorActive /\ prospects[c].mission = NoMission
  /\ Change(c, [prospects[c] EXCEPT !.mission = funnelDay])

CompanyIsWrittenTo(c) ==
  prospects[c].mission = NoMission /\ prospects[c].mail # "reminder"
  /\ Change(c, [prospects[c] EXCEPT !.mail =
                  IF @ = "none" THEN "first" ELSE "reminder"])

NextFunnelDay ==
  /\ funnelDay < LastFunnelDay
  /\ funnelDay' = funnelDay + 1
  /\ UNCHANGED <<prospects, deals, sync, failures>>

CompanyStep ==
  \/ NextFunnelDay
  \/ \E c \in Prospect : CreatorActivates(c) \/ FirstMissionValidated(c)
                         \/ CompanyIsWrittenTo(c)

FunnelNext ==
  \/ SyncStep \/ SyncFails \/ CompanyStep
  \/ LinkBrevoDeals

\* The command is scheduled every night and is not killed for ever.
FunnelSpec == FunnelInit /\ [][FunnelNext]_funnelVars /\ WF_funnelVars(SyncStep)

-----------------------------------------------------------------------------
(* Properties.                                                             *)

\* Every variable holds a value of its type, and deals have one identifier.
FunnelTypeOK ==
  /\ funnelDay \in FunnelDays /\ failures \in 0..MaxFailures
  /\ \A c \in Prospect :
        /\ prospects[c].mission \in FunnelDays \cup {NoMission}
        /\ prospects[c].mail \in {"none", "first", "reminder"}
  /\ \A p \in Pipelines :
        /\ deals[p] \subseteq Deal
        /\ \A d, e \in deals[p] : d.id = e.id => d = e
  /\ \A item \in sync.todo \cup sync.later : item.stage \in Stages

\* Two companies that share a SIREN share a deal: a second deal of a SIREN
\* in a pipeline has a request that failed as its cause.
SecondDealHasCause ==
  \A p \in Pipelines, c \in Prospect :
     SirenOf(c) # NoSiren =>
       Cardinality({d \in deals[p] : d.siren = SirenOf(c)}) <= 1 + failures

\* No company with the same SIREN is dealt with in "Activation".
Alone(c) ==
  \A o \in Prospect \ {c} :
     SirenOf(o) = SirenOf(c) /\ SirenOf(c) # NoSiren => ~prospects[o].creatorActive

DealsOf(c, p) == {d \in deals[p] : d.name = c}

\* A company won over in the pipeline "Activation" is never lost again, for
\* as long as no other company has its SIREN.
WonForGood ==
  [][\A c \in Prospect : Alone(c)' =>
       \A d \in DealsOf(c, "activation") : d.stage = "won" =>
          \E e \in DealsOf(c, "activation")' : e.id = d.id /\ e.stage = "won"]_funnelVars

\* Whatever requests fail and whenever the command is killed, a company that
\* changes no more ends with a deal in the stage it is in, linked to the
\* company that Brevo holds if it holds one, and it stays so.
FunnelCatchesUp ==
  \A c \in Prospect : []Alone(c) =>
     <>[](c \in ActivationCompanies =>
            \E d \in DealsOf(c, "activation") :
               d.stage = ActivationStage(c)
               /\ (SirenOf(c) \in KnownSirens => d.linked))

\* The deals are one for a SIREN unless a request failed, and never lost once
\* won.
FunnelIsTrue ==
  /\ []FunnelTypeOK
  /\ []SecondDealHasCause
  /\ WonForGood
=============================================================================
