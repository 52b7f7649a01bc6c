------------------------- MODULE WorkflowStagesProofs -------------------------
(***************************************************************************)
(* Proofs about WorkflowStages: in every order of commands, failed saves,  *)
(* restarts and ended times to live the current snapshots belong together, *)
(* nothing is sent behind the review, what a result reports was sent, and  *)
(* a submission in doubt stays in front of the operator.  They hold for    *)
(* any trackers, findings, answers, identifiers and bounds, with and       *)
(* without the approval gate.                                              *)
(***************************************************************************)
EXTENDS WorkflowStages, WellFoundedInduction, TLAPS

-----------------------------------------------------------------------------
(* The invariant.                                                          *)

\* The snapshots of w belong together; without the gate nothing is approved.
Chain(w) ==
    /\ Mode # "gate" => w.approval = None
    /\ w.proj # None => w.proj.release = w.release
    /\ w.dupes # None => w.proj # None /\ w.dupes.proj = w.proj.id
    /\ w.approval # None =>
            w.dupes # None /\ w.approval.dupes = w.dupes.id /\ w.approval.approved \subseteq Eligible(w)
    /\ w.media # None =>
            /\ w.dupes # None /\ (Mode = "gate" => w.approval # None)
            /\ w.media.release = w.release /\ w.media.proj = w.proj.id
            /\ w.media.approval = Id(w.approval) /\ w.media.fits = Targets(w)
    /\ w.desc # None =>
            w.media # None /\ w.desc.media = w.media.id /\ w.desc.approval = w.media.approval

\* The current result is retained, and is one of the current snapshots.
ResultOK ==
    wf.result # None =>
        /\ \E r \in results : r.id = wf.result
        /\ \A r \in results : r.id = wf.result => Matches(r, wf)

\* A plan of the current snapshots is for trackers that may go on.
PlansOK ==
    \A p \in Plans :
        /\ p.ready \subseteq p.trackers /\ p.asking \subseteq p.trackers
        /\ Matches(p, wf) => p.trackers \subseteq Targets(wf)

\* Only the current plan asks for decisions on its preparation, and only before
\* there is a result.
PrepareOK ==
    \A t \in Trackers : Action("prepare", t) \in wf.actions =>
        /\ wf.result = None
        /\ \A p \in Plans : p.id = wf.plan => t \in p.asking

\* A submission is confirmed only if the tracker has it.
ConfirmedOK == \A t \in Trackers : fence[t] = "done" => landed[t]

StagesInv ==
    TypeOK /\ Chain(wf) /\ ResultOK /\ PlansOK /\ PrepareOK /\ ConfirmedOK /\ ReportedWasSent

\* What has been decided when tracker t is reached.
Reviewed(t) ==
    /\ wf.dupes # None
    /\ t \in DOMAIN wf.dupes.dec \cap wf.proj.ready /\ wf.dupes.dec[t] \in {"clear", "ignored"}
    /\ Mode = "gate" => /\ wf.approval # None /\ wf.approval.dupes = wf.dupes.id
                         /\ t \in wf.approval.approved

\* A step that sends nothing behind the review.
ReviewStep == \A t \in Trackers : Sends(t) => Reviewed(t)

\* A step after which a submission in doubt is still asked about.
DoubtStep ==
    \A t \in Trackers :
        Action("reconcile", t) \in wf.actions /\ wf.result # None /\ wf'.result = wf.result /\ fence'[t] = "unknown"
            => Action("reconcile", t) \in wf'.actions \/ Action("confirm", None) \in wf'.actions

\* What every step of the workflow is shown to be.
GoodStep == StagesInv' /\ ReviewStep /\ DoubtStep

-----------------------------------------------------------------------------
(* Identifiers.                                                            *)

\* A set of numbers has a least one.
LEMMA Least ==
    ASSUME NEW T \in SUBSET Nat, T # {} PROVE \E m \in T : \A n \in T : m <= n
<1>1. PICK m \in T : \A n \in T : ~ (<<n, m>> \in OpToRel(<, Nat))
    BY WFMin, NatLessThanWellFounded
<1>2. ASSUME NEW n \in T, n < m PROVE FALSE
    BY <1>1, <1>2 DEF OpToRel
<1>3. \A n \in T : m <= n BY <1>2
<1> QED BY <1>3

\* A new identifier is one that nothing names.
LEMMA NewIdIs ==
    ASSUME NEW kind, NEW i \in NewId(kind) PROVE i \in Ids \ Used(kind)
<1> DEFINE free == Ids \ Used(kind)
<1>1. free # {} /\ i = Min(free) BY DEF NewId
<1>2. free \in SUBSET Nat BY StagesAssumption
<1>3. \E m \in free : \A n \in free : m <= n BY <1>1, <1>2, Least
<1>4. Min(free) = CHOOSE m \in free : \A n \in free : m <= n BY DEF Min
<1> QED BY <1>1, <1>3, <1>4

\* No identifier is the absent value.
LEMMA NoneIsNoId == None \notin Ids /\ None \notin Trackers BY StagesAssumption

\* The new identifier of a result is that of no retained one.
LEMMA NewResultId ==
    ASSUME NEW i \in NewId("result") PROVE i \in Ids /\ \A r \in results : r.id # i
<1>1. i \in Ids /\ i \notin Used("result") BY NewIdIs
<1> QED BY <1>1 DEF Used

\* The new identifier of a plan is that of no plan.
LEMMA NewPlanId ==
    ASSUME NEW i \in NewId("plan") PROVE i \in Ids /\ \A p \in Plans : p.id # i
<1>1. i \in Ids /\ i \notin Used("plan") BY NewIdIs
<1> QED BY <1>1 DEF Used, Plans

\* The new identifier of descriptions is in no plan.
LEMMA NewDescId ==
    ASSUME vault \subseteq Payloads \cup UploadPlans, NEW i \in NewId("desc")
    PROVE  i \in Ids /\ \A p \in Plans : p.desc # i
<1>1. i \in Ids /\ i \notin Used("desc") BY NewIdIs
<1>2. ASSUME NEW p \in Plans PROVE p \in UploadPlans /\ "desc" \in DOMAIN p
    BY DEF Plans, Payloads, UploadPlans
<1>3. {r["desc"] : r \in {x \in Plans \cup results : "desc" \in DOMAIN x}} \subseteq Used("desc")
    BY DEF Used
<1>4. ASSUME NEW p \in Plans PROVE p.desc # i
    <2>1. p \in {x \in Plans \cup results : "desc" \in DOMAIN x} BY <1>2
    <2> QED BY <1>1, <1>3, <2>1
<1> QED BY <1>1, <1>4

-----------------------------------------------------------------------------
(* Workflows with some stages less.                                        *)

\* What the submissions depend on is the same.
SameStages(w, x) ==
    /\ w.release = x.release /\ w.proj = x.proj /\ w.dupes = x.dupes
    /\ w.approval = x.approval /\ w.media = x.media /\ w.desc = x.desc

\* The chain depends on those stages only.
LEMMA ChainSame ==
    ASSUME NEW w, NEW x, SameStages(w, x), Chain(x) PROVE Chain(w)
<1>1. Eligible(w) = Eligible(x) BY DEF Eligible, SameStages
<1>2. Targets(w) = Targets(x) BY <1>1 DEF Targets, SameStages
<1> QED BY <1>1, <1>2 DEF Chain, SameStages

\* Every stage may be absent.
LEMMA AbsentType ==
    /\ None \in OrNone(Ids) /\ None \in OrNone(Projections) /\ None \in OrNone(Preflights)
    /\ None \in OrNone(Assessments) /\ None \in OrNone(Approvals) /\ None \in OrNone(MediaSets)
    /\ None \in OrNone(Descriptions)
BY DEF OrNone

\* u is w after InvalidateUploadPlan.
PlanDropped(u, w) ==
    /\ u \in Workflows /\ SameStages(u, w) /\ u.preflight = w.preflight
    /\ u.plan = None /\ u.result = None /\ u.actions = w.actions

\* InvalidateUploadPlan drops the plan and the result.
LEMMA UploadPlanDropped ==
    ASSUME NEW w \in Workflows PROVE PlanDropped(InvalidateUploadPlan(w), w)
<1> DEFINE s == IF w.status = "completed" THEN "active" ELSE w.status
           u == [w EXCEPT !.plan = None, !.result = None, !.status = s]
<1>1. s \in {"draft", "active", "blocked", "completed", "canceled"} BY DEF Workflows
<1>2. InvalidateUploadPlan(w) = u BY DEF InvalidateUploadPlan
<1> HIDE DEF s
<1>3. u \in Workflows BY <1>1, AbsentType DEF Workflows
<1>4. SameStages(u, w) /\ u.preflight = w.preflight
      /\ u.plan = None /\ u.result = None /\ u.actions = w.actions
    BY DEF Workflows, SameStages
<1> QED BY <1>2, <1>3, <1>4 DEF PlanDropped

\* u is w without duplicates and what follows them.
DupesDropped(u, w) ==
    /\ u \in Workflows /\ u.release = w.release /\ u.proj = w.proj /\ u.preflight = w.preflight
    /\ u.dupes = None /\ u.approval = None /\ u.media = None /\ u.desc = None
    /\ u.plan = None /\ u.result = None /\ u.actions = w.actions

\* InvalidateDupes drops the duplicates and what follows them.
LEMMA DropDupes ==
    ASSUME NEW w \in Workflows PROVE DupesDropped(InvalidateDupes(w), w)
<1> DEFINE x == [w EXCEPT !.dupes = None, !.approval = None, !.media = None, !.desc = None]
<1>1. x \in Workflows BY AbsentType DEF Workflows
<1>2. x.release = w.release /\ x.proj = w.proj /\ x.preflight = w.preflight /\ x.dupes = None
      /\ x.approval = None /\ x.media = None /\ x.desc = None /\ x.actions = w.actions
    BY DEF Workflows
<1>3. InvalidateDupes(w) = InvalidateUploadPlan(x) BY DEF InvalidateDupes
<1> HIDE DEF x
<1>4. PlanDropped(InvalidateUploadPlan(x), x) BY <1>1, UploadPlanDropped
<1> QED BY <1>2, <1>3, <1>4 DEF PlanDropped, SameStages, DupesDropped

\* u is w without projections and what follows them.
LEMMA DropProjection ==
    ASSUME NEW w \in Workflows
    PROVE  /\ InvalidateProjection(w) \in Workflows
           /\ InvalidateProjection(w).release = w.release /\ InvalidateProjection(w).proj = None
           /\ InvalidateProjection(w).preflight = None /\ InvalidateProjection(w).dupes = None
           /\ InvalidateProjection(w).approval = None /\ InvalidateProjection(w).media = None
           /\ InvalidateProjection(w).desc = None /\ InvalidateProjection(w).plan = None
           /\ InvalidateProjection(w).result = None
<1> DEFINE x == [w EXCEPT !.proj = None]
           y == [x EXCEPT !.preflight = None]
<1>1. x \in Workflows /\ x.release = w.release /\ x.proj = None BY AbsentType DEF Workflows
<1>2. InvalidateProjection(w) = InvalidateDupes(y)
    BY DEF InvalidateProjection, InvalidatePreflight
<1> HIDE DEF x
<1>3. y \in Workflows /\ y.release = w.release /\ y.proj = None /\ y.preflight = None
    BY <1>1, AbsentType DEF Workflows
<1> HIDE DEF y
<1>4. DupesDropped(InvalidateDupes(y), y) BY <1>3, DropDupes
<1> QED BY <1>2, <1>3, <1>4 DEF DupesDropped

\* u is w with other actions.
Reasked(u, w, acts) ==
    /\ u \in Workflows /\ SameStages(u, w) /\ u.preflight = w.preflight
    /\ u.plan = w.plan /\ u.result = w.result /\ u.actions = acts

\* The status and the actions of a workflow are replaced together.
LEMMA Replaced ==
    ASSUME NEW w \in Workflows, NEW acts \in SUBSET Actions,
           NEW s \in {"draft", "active", "blocked", "completed", "canceled"}
    PROVE  Reasked([w EXCEPT !.status = s, !.actions = acts], w, acts)
<1> DEFINE u == [w EXCEPT !.status = s, !.actions = acts]
<1>1. u \in Workflows BY DEF Workflows
<1>2. SameStages(u, w) /\ u.preflight = w.preflight
      /\ u.plan = w.plan /\ u.result = w.result /\ u.actions = acts
    BY DEF Workflows, SameStages
<1> QED BY <1>1, <1>2 DEF Reasked

\* setWorkflowStageStatus.
LEMMA StatusSet ==
    ASSUME NEW w \in Workflows, NEW acts \in SUBSET Actions
    PROVE  Reasked(SetStageStatus(w, acts), w, acts)
<1> DEFINE s == IF acts = {} THEN "active" ELSE "blocked"
           u == [w EXCEPT !.actions = acts, !.status = s]
<1>1. s \in {"draft", "active", "blocked", "completed", "canceled"} OBVIOUS
<1>2. SetStageStatus(w, acts) = u BY DEF SetStageStatus
<1> HIDE DEF s
<1>3. u \in Workflows BY <1>1 DEF Workflows
<1>4. SameStages(u, w) /\ u.preflight = w.preflight
      /\ u.plan = w.plan /\ u.result = w.result /\ u.actions = acts
    BY DEF Workflows, SameStages
<1> QED BY <1>2, <1>3, <1>4 DEF Reasked

\* The status of a workflow that has lost an action.
LEMMA StatusUnblocked ==
    ASSUME NEW w \in Workflows PROVE Reasked(Unblocked(w), w, w.actions)
<1>1. Reasked(w, w, w.actions) BY DEF Reasked, SameStages
<1> DEFINE s == IF w.result # None THEN "completed" ELSE "active"
           u == [w EXCEPT !.status = s]
<1>2. s \in {"draft", "active", "blocked", "completed", "canceled"} OBVIOUS
<1>3. Unblocked(w) = u \/ Unblocked(w) = w BY DEF Unblocked
<1> HIDE DEF s
<1>4. u \in Workflows BY <1>2 DEF Workflows
<1>5. SameStages(u, w) /\ u.preflight = w.preflight
      /\ u.plan = w.plan /\ u.result = w.result /\ u.actions = w.actions
    BY DEF Workflows, SameStages
<1>6. Reasked(u, w, w.actions) BY <1>4, <1>5 DEF Reasked
<1> QED BY <1>1, <1>3, <1>6

\* A single action.
LEMMA ActionType ==
    ASSUME NEW kind \in ActionKinds, NEW t \in OrNone(Trackers)
    PROVE  Action(kind, t) \in Actions /\ Action(kind, t).kind = kind /\ Action(kind, t).tracker = t
BY DEF Action, Actions

-----------------------------------------------------------------------------
(* The end of a command.                                                   *)

\* The submissions in doubt are still asked about among acts.
AskedStill(acts) ==
    \A t \in Trackers : Action("reconcile", t) \in wf.actions =>
        Action("reconcile", t) \in acts \/ Action("confirm", None) \in acts

\* What an ended command may leave in the place of wf: snapshots that belong
\* together; those that a plan or a result names are as before, or descriptions
\* are missing or new; nothing is asked about another plan; a result that stays
\* keeps its questions.
Follows(w) ==
    /\ w \in Workflows /\ Chain(w)
    /\ SameStages(w, wf) \/ w.desc = None \/ \A p \in Plans : p.desc # w.desc.id
    /\ w.result = None \/ (w.result = wf.result /\ SameStages(w, wf))
    /\ w.plan \in {None, wf.plan}
    /\ \/ w.plan = None /\ w.result = None
       \/ \A t \in Trackers : Action("prepare", t) \in w.actions => Action("prepare", t) \in wf.actions
    /\ w.result = None \/ AskedStill(w.actions)

\* A step that sends nothing.
Quiet == landed' = landed /\ \A t \in Trackers : fence[t] = "free" => fence'[t] = "free"

\* Nothing that is not sent is sent behind the review.
LEMMA QuietReview == Quiet => ReviewStep
BY DEF Quiet, ReviewStep, Sends

\* The questions of a workflow that stays as it is, or of one that follows.
LEMMA AskedDoubt ==
    /\ wf' = wf => DoubtStep
    /\ \A w : Follows(w) /\ wf' = w => DoubtStep
<1>1. wf' = wf => DoubtStep BY DEF DoubtStep
<1>2. ASSUME NEW w, Follows(w), wf' = w PROVE DoubtStep
    <2>1. w.result = None \/ AskedStill(w.actions) BY <1>2 DEF Follows
    <2> QED BY <1>2, <2>1 DEF DoubtStep, AskedStill
<1> QED BY <1>1, <1>2

\* The parts that no command of the workflow itself touches.
Outside == live' \in BOOLEAN /\ faults' \in 0 .. MaxFaults /\ lapses' \in 0 .. MaxLapses

\* What is sent stays true.
LedgerOK ==
    /\ fence' \in [Trackers -> {"free", "unknown", "done"}]
    /\ landed' \in [Trackers -> BOOLEAN]
    /\ \A t \in Trackers : landed[t] => landed'[t]
    /\ ConfirmedOK'

\* What matches depends on those stages only.
LEMMA MatchesSame ==
    ASSUME NEW p, NEW w, NEW x, SameStages(w, x) PROVE Matches(p, w) <=> Matches(p, x)
BY DEF Matches, SameStages

\* And so do the targets.
LEMMA TargetsSame ==
    ASSUME NEW w, NEW x, SameStages(w, x) PROVE Targets(w) = Targets(x) /\ Eligible(w) = Eligible(x)
BY DEF Eligible, Targets, SameStages

\* Plans keep to the targets.
LEMMA PlansKept ==
    ASSUME TypeOK, PlansOK, NEW w \in Workflows, wf' = w, Plans' \subseteq Plans,
           SameStages(w, wf) \/ w.desc = None \/ \A p \in Plans : p.desc # w.desc.id
    PROVE  PlansOK'
<1>1. ASSUME NEW p \in Plans, Matches(p, w) PROVE p.trackers \subseteq Targets(w)
    <2>1. w.desc # None /\ p.desc = w.desc.id BY <1>1 DEF Matches
    <2>2. SameStages(w, wf) BY <1>1, <2>1
    <2>3. Matches(p, wf) /\ Targets(w) = Targets(wf) BY <1>1, <2>2, MatchesSame, TargetsSame
    <2> QED BY <1>1, <2>3 DEF PlansOK
<1>2. \A p \in Plans' : Matches(p, wf)' => p.trackers \subseteq Targets(wf)'
    BY <1>1
<1> QED BY <1>2 DEF PlansOK

\* Nothing is lost when a command that leaves wf as it was fails.
LEMMA FailureKeeps ==
    ASSUME StagesInv, wf' = wf, results' = results, vault' \subseteq vault, LedgerOK, Outside
    PROVE  StagesInv'
<1>1. Plans' \subseteq Plans BY DEF Plans
<1>2. TypeOK' BY DEF StagesInv, TypeOK, LedgerOK, Outside
<1>3. Chain(wf)' /\ ResultOK' BY DEF StagesInv, ResultOK, Chain, Matches, Eligible, Targets
<1>4. PlansOK'
    <2>1. wf \in Workflows /\ SameStages(wf, wf) BY DEF StagesInv, TypeOK, SameStages
    <2> QED BY <1>1, <2>1, PlansKept DEF StagesInv
<1>5. PrepareOK' BY <1>1 DEF StagesInv, PrepareOK
<1>6. ConfirmedOK' /\ ReportedWasSent'
    <2>1. \A r \in results : DOMAIN r.out \in SUBSET Trackers BY DEF StagesInv, TypeOK, Results
    <2> QED BY <2>1 DEF StagesInv, ReportedWasSent, LedgerOK
<1> QED BY <1>2, <1>3, <1>4, <1>5, <1>6 DEF StagesInv

\* Nor when it is saved.
LEMMA FollowsKeeps ==
    ASSUME StagesInv, NEW w, Follows(w), wf' = w,
           results' = Reachable(w, results) \/ results' = results, vault' \subseteq vault \cup Payloads, LedgerOK, Outside
    PROVE  StagesInv'
<1>0. w \in Workflows /\ Chain(w) /\ TypeOK BY DEF Follows, StagesInv
<1>1. Plans' \subseteq Plans BY DEF Plans, Payloads
<1>2. results' \subseteq results BY DEF Reachable
<1>3. TypeOK' BY <1>0, <1>2 DEF TypeOK, LedgerOK, Outside
<1>4. Chain(wf)' BY <1>0
<1>5. ResultOK'
    <2>1. CASE w.result = None BY <2>1 DEF ResultOK
    <2>2. CASE w.result # None
        <3>1. w.result = wf.result /\ SameStages(w, wf) BY <2>2 DEF Follows
        <3>2. /\ \E r \in results : r.id = wf.result
              /\ \A r \in results : r.id = wf.result => Matches(r, wf)
            BY <2>2, <3>1 DEF StagesInv, ResultOK
        <3>3. \E r \in results' : r.id = w.result BY <3>1, <3>2 DEF Reachable
        <3>4. \A r \in results' : r.id = w.result => Matches(r, w)
            BY <1>2, <3>1, <3>2, MatchesSame
        <3> QED BY <3>3, <3>4 DEF ResultOK
    <2> QED BY <2>1, <2>2
<1>6. PlansOK' BY <1>0, <1>1, PlansKept DEF Follows, StagesInv
<1>7. PrepareOK'
    <2> SUFFICES ASSUME NEW t \in Trackers, Action("prepare", t) \in w.actions
                 PROVE  w.result = None /\ \A p \in Plans' : p.id = w.plan => t \in p.asking
        BY DEF PrepareOK
    <2>1. \A p \in Plans : p.id # None
        BY <1>0, NoneIsNoId DEF TypeOK, Plans, Payloads, UploadPlans
    <2>2. CASE w.plan = None /\ w.result = None BY <1>1, <2>1, <2>2
    <2>3. CASE ~(w.plan = None /\ w.result = None)
        <3>1. Action("prepare", t) \in wf.actions BY <2>3 DEF Follows
        <3>2. wf.result = None /\ \A p \in Plans : p.id = wf.plan => t \in p.asking
            BY <3>1 DEF StagesInv, PrepareOK
        <3> QED BY <1>1, <2>1, <3>2 DEF Follows
    <2> QED BY <2>2, <2>3
<1>8. ConfirmedOK' /\ ReportedWasSent'
    <2>1. \A r \in results : DOMAIN r.out \in SUBSET Trackers BY <1>0 DEF TypeOK, Results
    <2> QED BY <1>2, <2>1 DEF StagesInv, ReportedWasSent, LedgerOK
<1> QED BY <1>3, <1>4, <1>5, <1>6, <1>7, <1>8 DEF StagesInv

\* Nothing new is left of the vault by a commit.
LEMMA NamedIn == ASSUME NEW w, NEW rs, NEW v PROVE Named(w, rs, v) \subseteq v
<1> DEFINE N(r) == CASE r.kind = "authority" -> \E x \in rs : x.id = r.id
                     [] r.kind = "plan" -> w.plan = r.id
                     [] OTHER -> Id(w[r.kind]) = r.id
<1>1. Named(w, rs, v) = {r \in v : N(r)} BY DEF Named
<1> HIDE DEF N
<1> QED BY <1>1

\* How a save ends.
LEMMA SaveEnds ==
    ASSUME TypeOK, NEW w, NEW new, NEW keep, NEW cleans, NEW rs, NEW sent, NEW resolved,
           Save(w, new, keep, cleans, rs, sent, resolved), UNCHANGED lapses
    PROVE  /\ Outside
           /\ \/ /\ wf' = w /\ vault' \subseteq keep \cup new /\ results' = Reachable(w, rs)
                 /\ fence' = resolved
              \/ wf' = wf /\ vault' \subseteq keep /\ results' = results /\ fence' = sent
<1>1. MaxFaults \in Nat /\ MaxLapses \in Nat BY StagesAssumption
<1>2. Outside
    <2>1. faults' = faults \/ (faults > 0 /\ faults' = faults - 1) BY DEF Save
    <2>2. live' = live \/ live' = FALSE BY DEF Save
    <2>3. live' \in BOOLEAN BY <2>2 DEF TypeOK
    <2>4. faults' \in 0 .. MaxFaults /\ lapses' \in 0 .. MaxLapses BY <1>1, <2>1 DEF TypeOK
    <2> QED BY <2>3, <2>4 DEF Outside
<1>3. CASE /\ wf' = w /\ results' = Reachable(w, rs) /\ fence' = resolved
           /\ vault' = Named(w, Reachable(w, rs), (keep \cup new) \ Superseded(w, cleans))
    <2>1. vault' \subseteq (keep \cup new) \ Superseded(w, cleans) BY <1>3, NamedIn
    <2> QED BY <1>2, <1>3, <2>1
<1>4. CASE vault' \subseteq keep /\ fence' = sent /\ wf' = wf /\ results' = results
    BY <1>2, <1>4
<1> QED BY <1>3, <1>4 DEF Save

\* The ledger of a command that sends nothing.
LEMMA NothingSent ==
    ASSUME StagesInv, UNCHANGED <<fence, landed>> PROVE LedgerOK
BY DEF StagesInv, TypeOK, LedgerOK, ConfirmedOK

\* A command of the workflow itself.
LEMMA PublishKeeps ==
    ASSUME StagesInv, NEW w, Follows(w), NEW new \in SUBSET Payloads, NEW keep \in SUBSET vault,
           NEW cleans, Publish(w, new, keep, cleans)
    PROVE  GoodStep
<1>1. Save(w, new, keep, cleans, results, fence, fence) /\ UNCHANGED <<landed, lapses>>
    BY DEF Publish
<1>2. TypeOK BY DEF StagesInv
<1>3. /\ Outside
      /\ \/ /\ wf' = w /\ vault' \subseteq keep \cup new /\ results' = Reachable(w, results)
            /\ fence' = fence
         \/ wf' = wf /\ vault' \subseteq keep /\ results' = results /\ fence' = fence
    BY <1>1, <1>2, SaveEnds
<1>4. LedgerOK BY <1>1, <1>3, NothingSent
<1>5. ReviewStep BY <1>1, <1>3, QuietReview DEF Quiet
<1>6. DoubtStep BY <1>3, AskedDoubt
<1>7. CASE wf' = w /\ vault' \subseteq keep \cup new /\ results' = Reachable(w, results)
    <2>1. vault' \subseteq vault \cup Payloads BY <1>7
    <2>2. StagesInv' BY <1>3, <1>4, <1>7, <2>1, FollowsKeeps
    <2> QED BY <1>5, <1>6, <2>2 DEF GoodStep
<1>8. CASE wf' = wf /\ vault' \subseteq keep /\ results' = results
    <2>1. vault' \subseteq vault BY <1>8
    <2>2. StagesInv' BY <1>3, <1>4, <1>8, <2>1, FailureKeeps
    <2> QED BY <1>5, <1>6, <2>2 DEF GoodStep
<1> QED BY <1>3, <1>7, <1>8

\* Without descriptions, plan and result nothing else is asked of a workflow.
Fallen(w) ==
    w \in Workflows /\ Chain(w) /\ w.desc = None /\ w.plan = None /\ w.result = None

\* Such a workflow may be left by any command.
LEMMA FallenFollows == ASSUME NEW w, Fallen(w) PROVE Follows(w)
BY DEF Fallen, Follows

\* Whatever is asked of it.
LEMMA ReaskedFallen ==
    ASSUME NEW w, NEW u, NEW acts, Fallen(w), Reasked(u, w, acts) PROVE Fallen(u)
BY ChainSame DEF Fallen, Reasked, SameStages

\* Other actions are asked of the same workflow.
LEMMA ReaskedFollows ==
    ASSUME StagesInv, NEW w, NEW acts, Reasked(w, wf, acts),
           \A t \in Trackers : Action("prepare", t) \in acts => Action("prepare", t) \in wf.actions,
           AskedStill(acts)
    PROVE  Follows(w)
<1>1. w \in Workflows /\ SameStages(w, wf) /\ w.plan = wf.plan /\ w.result = wf.result
      /\ w.actions = acts
    BY DEF Reasked
<1>2. Chain(w) BY <1>1, ChainSame DEF StagesInv
<1> QED BY <1>1, <1>2 DEF Follows

\* Without projections nothing depends on the release.
LEMMA ProjectionFallen ==
    ASSUME NEW w \in Workflows, NEW acts \in SUBSET Actions, NEW r \in OrNone(Ids),
           NEW s \in {"draft", "active", "blocked", "completed", "canceled"}
    PROVE  /\ Fallen([InvalidateProjection(w) EXCEPT !.release = r, !.status = s, !.actions = acts])
           /\ Fallen([InvalidateProjection(w) EXCEPT !.status = s, !.actions = acts])
<1> DEFINE x == InvalidateProjection(w)
<1>1. /\ x \in Workflows /\ x.proj = None /\ x.dupes = None /\ x.approval = None
      /\ x.media = None /\ x.desc = None /\ x.plan = None /\ x.result = None
    BY DropProjection
<1> HIDE DEF x
<1> DEFINE y == [x EXCEPT !.release = r, !.status = s, !.actions = acts]
           z == [x EXCEPT !.status = s, !.actions = acts]
<1>2. y \in Workflows BY <1>1 DEF Workflows
<1>3. /\ y.proj = None /\ y.dupes = None /\ y.approval = None
      /\ y.media = None /\ y.desc = None /\ y.plan = None /\ y.result = None
    BY <1>1 DEF Workflows
<1>4. z \in Workflows BY <1>1 DEF Workflows
<1>5. /\ z.proj = None /\ z.dupes = None /\ z.approval = None
      /\ z.media = None /\ z.desc = None /\ z.plan = None /\ z.result = None
    BY <1>1 DEF Workflows
<1> HIDE DEF y, z
<1>6. Chain(y) /\ Chain(z) BY <1>3, <1>5 DEF Chain
<1>7. Fallen(y) /\ Fallen(z) BY <1>2, <1>3, <1>4, <1>5, <1>6 DEF Fallen
<1> QED BY <1>7 DEF x, y, z

\* A workflow without a release.
LEMMA FactsFallen == ASSUME TypeOK PROVE Fallen(FactsReplaced)
<1> DEFINE x == [wf EXCEPT !.release = None]
<1>1. x \in Workflows BY DEF TypeOK, Workflows, OrNone
<1>2. FactsReplaced = [InvalidateProjection(x) EXCEPT !.status = "draft", !.actions = {}]
    BY DEF FactsReplaced, InvalidatePrepared
<1> HIDE DEF x
<1>3. {} \in SUBSET Actions /\ None \in OrNone(Ids) BY DEF OrNone
<1> QED BY <1>1, <1>2, <1>3, ProjectionFallen

\* What a preparation leaves in the place of the workflow w.
LEMMA PreparedFollows ==
    ASSUME StagesInv, NEW w, Fallen(w) \/ w = wf, NEW p \in PreparedFrom(w)
    PROVE  Follows(p.wf)
<1>1. w \in Workflows BY DEF StagesInv, TypeOK, Fallen
<1>2. ASSUME NEW i \in NewId("release"),
             p.wf = [InvalidateProjection(w) EXCEPT !.release = i, !.status = "active", !.actions = {}]
      PROVE  Follows(p.wf)
    <2>1. i \in OrNone(Ids) /\ {} \in SUBSET Actions BY <1>2, NewIdIs DEF OrNone
    <2> QED BY <1>1, <1>2, <2>1, ProjectionFallen, FallenFollows
<1>3. ASSUME p.wf = [w EXCEPT !.status = "blocked", !.actions = {Action("confirm", None)}]
      PROVE  Follows(p.wf)
    <2> DEFINE acts == {Action("confirm", None)}
    <2>1. Action("confirm", None) \in Actions /\ Action("confirm", None).kind = "confirm"
        BY ActionType DEF ActionKinds, OrNone
    <2>2. acts \in SUBSET Actions BY <2>1
    <2>3. AskedStill(acts) /\ \A t \in Trackers : Action("prepare", t) \notin acts
        BY <2>1 DEF Action, AskedStill
    <2> HIDE DEF acts
    <2>4. Reasked(p.wf, w, acts) BY <1>1, <1>3, <2>2, Replaced DEF acts
    <2>5. CASE Fallen(w) BY <2>4, <2>5, ReaskedFallen, FallenFollows
    <2>6. CASE w = wf BY <2>3, <2>4, <2>6, ReaskedFollows
    <2> QED BY <2>5, <2>6
<1> DEFINE made(i) == [InvalidateProjection(w) EXCEPT !.release = i, !.status = "active", !.actions = {}]
           asked == [w EXCEPT !.status = "blocked", !.actions = {Action("confirm", None)}]
           first(i) == [wf |-> made(i), keeps |-> FALSE]
           second == [wf |-> asked, keeps |-> w = wf]
           M == Maybe("confirm") \cap {TRUE}
<1>4. PreparedFrom(w) = {first(i) : i \in NewId("release")} \cup {second : x \in M}
    BY DEF PreparedFrom
<1>5. second.wf = asked /\ \A i : first(i).wf = made(i) OBVIOUS
<1> HIDE DEF first, second, M
<1>6. (\E i \in NewId("release") : p = first(i)) \/ p = second BY <1>4
<1>7. (\E i \in NewId("release") : p.wf = made(i)) \/ p.wf = asked
    <2>1. ASSUME NEW i \in NewId("release"), p = first(i) PROVE p.wf = made(i)
        <3> HIDE DEF made
        <3> QED BY <1>5, <2>1
    <2> HIDE DEF made, asked
    <2> QED BY <1>5, <1>6, <2>1
<1> QED BY <1>2, <1>3, <1>7

\* Release: nothing of an earlier release is left.
LEMMA ReleaseKeeps == ASSUME StagesInv, ReleaseStep PROVE GoodStep
<1>0. TypeOK /\ {} \in SUBSET Payloads /\ {} \in SUBSET vault BY DEF StagesInv
<1>1. CASE ReplaceFactInstructions
    BY <1>0, <1>1, FactsFallen, FallenFollows, PublishKeeps DEF ReplaceFactInstructions
<1>2. CASE PrepareRelease
    <2>1. PICK p \in PreparedFrom(wf) : Publish(p.wf, {}, IF p.keeps THEN vault ELSE {}, {})
        BY <1>2 DEF PrepareRelease
    <2>2. Follows(p.wf) BY PreparedFollows
    <2>3. (IF p.keeps THEN vault ELSE {}) \in SUBSET vault OBVIOUS
    <2> QED BY <1>0, <2>1, <2>2, <2>3, PublishKeeps
<1>3. CASE ReplaceFactsAndPrepare
    <2>1. PICK p \in PreparedFrom(FactsReplaced) : Publish(p.wf, {}, {}, {})
        BY <1>3 DEF ReplaceFactsAndPrepare
    <2>2. Follows(p.wf) BY <1>0, FactsFallen, PreparedFollows
    <2> QED BY <1>0, <2>1, <2>2, PublishKeeps
<1> QED BY <1>1, <1>2, <1>3 DEF ReleaseStep

-----------------------------------------------------------------------------
(* Trackers.                                                               *)

\* Without approval and media, only the projections and the duplicates count.
LEMMA TrackersFallen ==
    ASSUME NEW w \in Workflows, w.approval = None, w.media = None, w.desc = None,
           w.plan = None, w.result = None, w.proj # None => w.proj.release = w.release,
           w.dupes # None => w.proj # None /\ w.dupes.proj = w.proj.id
    PROVE  Fallen(w)
BY DEF Chain, Fallen

\* A projection.
LEMMA ProjectionType ==
    ASSUME NEW i \in Ids, NEW r \in Ids, NEW f \in OrNone(Ids), NEW ts \in SUBSET Trackers,
           NEW ready \in SUBSET Trackers, NEW open \in BOOLEAN, NEW asks \in SUBSET Actions
    PROVE  [id |-> i, release |-> r, preflight |-> f, trackers |-> ts, ready |-> ready,
            open |-> open, asks |-> asks] \in Projections
BY DEF Projections

\* The actions that ask for input.
LEMMA AsksType ==
    ASSUME NEW S \in SUBSET Trackers PROVE {Action("input", t) : t \in S} \in SUBSET Actions
BY ActionType DEF ActionKinds, OrNone

\* projectTrackers.
LEMMA ProjectKeeps == ASSUME StagesInv, ProjectTrackers PROVE GoodStep
<1>0. wf \in Workflows /\ wf.release \in Ids /\ wf.release # None
      /\ {} \in SUBSET Payloads /\ {} \in SUBSET vault /\ vault \in SUBSET vault
    BY DEF StagesInv, TypeOK, Workflows, OrNone, ProjectTrackers
<1>1. PICK requested \in (SUBSET Trackers) \ {{}} :
        LET rest == {t \in requested : fence[t] # "done"}
        IN  IF rest = {}
            THEN Publish([InvalidateProjection(wf) EXCEPT !.status = "completed", !.actions = {}],
                         {}, vault, {})
            ELSE \E i \in NewId("proj"), asking \in {IF x THEN rest ELSE {} : x \in Maybe("input")} :
                    LET asks == {Action("input", t) : t \in asking}
                        p == [id |-> i, release |-> wf.release, preflight |-> None, trackers |-> rest,
                              ready |-> {}, open |-> FALSE, asks |-> asks]
                    IN  Publish(SetStageStatus([InvalidateProjection(wf) EXCEPT !.proj = p], asks), {}, {}, {})
    BY DEF ProjectTrackers
<1> DEFINE rest == {t \in requested : fence[t] # "done"}
<1>2. rest \in SUBSET Trackers OBVIOUS
<1>3. CASE rest = {}
    <2> DEFINE w == [InvalidateProjection(wf) EXCEPT !.status = "completed", !.actions = {}]
    <2>1. Publish(w, {}, vault, {}) BY <1>1, <1>3
    <2>2. Fallen(w)
        <3>1. {} \in SUBSET Actions /\ None \in OrNone(Ids) BY DEF OrNone
        <3> QED BY <1>0, <3>1, ProjectionFallen
    <2> HIDE DEF w
    <2>3. Follows(w) BY <2>2, FallenFollows
    <2> QED BY <1>0, <2>1, <2>3, PublishKeeps
<1>4. CASE rest # {}
    <2>1. PICK i \in NewId("proj"), asking \in {IF x THEN rest ELSE {} : x \in Maybe("input")} :
            LET asks == {Action("input", t) : t \in asking}
                p == [id |-> i, release |-> wf.release, preflight |-> None, trackers |-> rest,
                      ready |-> {}, open |-> FALSE, asks |-> asks]
            IN  Publish(SetStageStatus([InvalidateProjection(wf) EXCEPT !.proj = p], asks), {}, {}, {})
        BY <1>1, <1>4
    <2>2. asking \in SUBSET Trackers BY <1>2
    <2> HIDE DEF rest
    <2> DEFINE asks == {Action("input", t) : t \in asking}
               p == [id |-> i, release |-> wf.release, preflight |-> None, trackers |-> rest,
                     ready |-> {}, open |-> FALSE, asks |-> asks]
               y == InvalidateProjection(wf)
               x == [y EXCEPT !.proj = p]
               w == SetStageStatus(x, asks)
    <2>3. Publish(w, {}, {}, {}) BY <2>1
    <2>4. asks \in SUBSET Actions BY <2>2, AsksType
    <2> HIDE DEF asks
    <2>5. p \in Projections /\ p.release = wf.release
        <3>1. i \in Ids /\ None \in OrNone(Ids) /\ {} \in SUBSET Trackers BY NewIdIs DEF OrNone
        <3>2. FALSE \in BOOLEAN OBVIOUS
        <3>3. p \in Projections BY <1>0, <1>2, <2>4, <3>1, <3>2, ProjectionType
        <3>4. p.release = wf.release OBVIOUS
        <3> QED BY <3>3, <3>4
    <2> HIDE DEF p
    <2>6. /\ y \in Workflows /\ y.release = wf.release /\ y.dupes = None /\ y.approval = None
          /\ y.media = None /\ y.desc = None /\ y.plan = None /\ y.result = None
        BY <1>0, DropProjection
    <2> HIDE DEF y
    <2>7. x \in Workflows BY <2>5, <2>6 DEF Workflows, OrNone
    <2>8. /\ x.release = wf.release /\ x.proj = p /\ x.dupes = None /\ x.approval = None
          /\ x.media = None /\ x.desc = None /\ x.plan = None /\ x.result = None
        BY <2>6 DEF Workflows
    <2> HIDE DEF x
    <2>9. Fallen(x) BY <2>5, <2>7, <2>8, TrackersFallen
    <2>10. Follows(w) BY <2>4, <2>7, <2>9, StatusSet, ReaskedFallen, FallenFollows
    <2> HIDE DEF w
    <2> QED BY <1>0, <2>3, <2>10, PublishKeeps
<1> QED BY <1>3, <1>4

\* preflightTrackers.
LEMMA PreflightKeeps == ASSUME StagesInv, PreflightTrackers PROVE GoodStep
<1>0. wf \in Workflows /\ wf.proj \in Projections /\ Chain(wf)
      /\ {} \in SUBSET Payloads /\ {} \in SUBSET vault
    BY DEF StagesInv, TypeOK, Workflows, OrNone, PreflightTrackers
<1>1. PICK i \in NewId("proj"), j \in NewId("preflight"), ready \in SUBSET wf.proj.trackers :
        \E asking \in {IF x THEN wf.proj.trackers \ ready ELSE {} : x \in Maybe("input")} :
        LET asks == {Action("input", t) : t \in asking}
            p == [wf.proj EXCEPT !.id = i, !.preflight = j, !.ready = ready, !.open = ready # {}, !.asks = asks]
            f == [id |-> j, ready |-> ready # {}, fresh |-> TRUE]
        IN  Publish(SetStageStatus(InvalidateDupes([wf EXCEPT !.proj = p, !.preflight = f]), asks), {}, {}, {})
    BY DEF PreflightTrackers
<1>2. PICK asking \in {IF x THEN wf.proj.trackers \ ready ELSE {} : x \in Maybe("input")} :
        LET asks == {Action("input", t) : t \in asking}
            p == [wf.proj EXCEPT !.id = i, !.preflight = j, !.ready = ready, !.open = ready # {}, !.asks = asks]
            f == [id |-> j, ready |-> ready # {}, fresh |-> TRUE]
        IN  Publish(SetStageStatus(InvalidateDupes([wf EXCEPT !.proj = p, !.preflight = f]), asks), {}, {}, {})
    BY <1>1
<1> DEFINE asks == {Action("input", t) : t \in asking}
           some == ready # {}
           p == [wf.proj EXCEPT !.id = i, !.preflight = j, !.ready = ready, !.open = some, !.asks = asks]
           f == [id |-> j, ready |-> some, fresh |-> TRUE]
           x == [wf EXCEPT !.proj = p, !.preflight = f]
           y == InvalidateDupes(x)
           w == SetStageStatus(y, asks)
<1>3. Publish(w, {}, {}, {}) BY <1>2
<1>4. i \in Ids /\ j \in Ids BY NewIdIs
<1>5. wf.proj.trackers \in SUBSET Trackers /\ ready \in SUBSET Trackers BY <1>0 DEF Projections
<1>6. asks \in SUBSET Actions
    <2>1. asking \in SUBSET Trackers BY <1>5
    <2> QED BY <2>1, AsksType
<1>7. some \in BOOLEAN OBVIOUS
<1> HIDE DEF asks, some
<1>8. p \in Projections /\ p.release = wf.proj.release BY <1>0, <1>4, <1>5, <1>6, <1>7 DEF Projections, OrNone
<1>9. f \in Preflights BY <1>4, <1>7 DEF Preflights
<1> HIDE DEF p, f
<1>10. x \in Workflows BY <1>0, <1>8, <1>9 DEF Workflows, OrNone
<1>11. x.release = wf.release /\ x.proj = p BY <1>0 DEF Workflows
<1> HIDE DEF x
<1>12. DupesDropped(y, x) BY <1>10, DropDupes
<1> HIDE DEF y
<1>13. wf.proj.release = wf.release BY <1>0, AbsentAssumption DEF Chain
<1>14. Fallen(y) BY <1>8, <1>11, <1>12, <1>13, TrackersFallen DEF DupesDropped
<1>15. y \in Workflows BY <1>12 DEF DupesDropped
<1>16. Follows(w) BY <1>6, <1>14, <1>15, StatusSet, ReaskedFallen, FallenFollows
<1> HIDE DEF w
<1> QED BY <1>0, <1>3, <1>16, PublishKeeps

\* The decisions of an assessment are decisions about trackers.
LEMMA DecisionsType ==
    ASSUME NEW d \in Assessments
    PROVE  DOMAIN d.dec \in SUBSET Trackers /\ \A t \in DOMAIN d.dec : d.dec[t] \in Decisions
BY DEF Assessments

\* An assessment.
LEMMA AssessmentType ==
    ASSUME NEW i \in Ids, NEW p \in Ids, NEW fresh \in BOOLEAN, NEW S \in SUBSET Trackers,
           NEW dec \in [S -> Decisions]
    PROVE  [id |-> i, proj |-> p, fresh |-> fresh, dec |-> dec] \in Assessments
<1>1. dec \in UNION {[T -> Decisions] : T \in SUBSET Trackers} OBVIOUS
<1> QED BY <1>1 DEF Assessments

\* invalidateTrackers: what is left is published without approval and media.
LEMMA InvalidateKeeps == ASSUME StagesInv, InvalidateTrackers PROVE GoodStep
<1>0. wf \in Workflows /\ wf.proj \in Projections /\ wf.proj # None /\ Chain(wf)
      /\ {} \in SUBSET Payloads /\ {} \in SUBSET vault
    BY DEF StagesInv, TypeOK, Workflows, OrNone, InvalidateTrackers
<1>1. PICK invalid \in (SUBSET Trackers) \ {{}}, i \in NewId("proj"), j \in NewId("preflight"), k \in NewId("dupes") :
        LET rest == wf.proj.trackers \ invalid
            ask == Action("input", None)
            p == [wf.proj EXCEPT !.id = i, !.preflight = None, !.trackers = rest,
                                 !.ready = wf.proj.ready \cap rest, !.open = FALSE, !.asks = wf.proj.asks \cup {ask}]
            left ==
                IF rest = {} THEN [wf EXCEPT !.proj = None, !.preflight = None, !.dupes = None]
                ELSE [wf EXCEPT
                        !.proj = p,
                        !.preflight = IF wf.preflight = None THEN None
                                      ELSE [id |-> j, ready |-> FALSE, fresh |-> FALSE],
                        !.dupes = IF wf.dupes = None THEN None
                                  ELSE [id |-> k, proj |-> i, fresh |-> FALSE,
                                        dec |-> [t \in DOMAIN wf.dupes.dec \cap rest |-> wf.dupes.dec[t]]]]
            w == InvalidateUploadPlan([left EXCEPT !.approval = None, !.media = None, !.desc = None])
        IN  Publish([w EXCEPT !.status = "blocked", !.actions = wf.actions \cup {ask}], {}, {}, {})
    BY DEF InvalidateTrackers
<1> DEFINE rest == wf.proj.trackers \ invalid
           ask == Action("input", None)
           ready == wf.proj.ready \cap rest
           asks == wf.proj.asks \cup {ask}
           closed == FALSE
           p == [wf.proj EXCEPT !.id = i, !.preflight = None, !.trackers = rest,
                                !.ready = ready, !.open = closed, !.asks = asks]
           f == [id |-> j, ready |-> FALSE, fresh |-> FALSE]
           dec == [t \in DOMAIN wf.dupes.dec \cap rest |-> wf.dupes.dec[t]]
           d == [id |-> k, proj |-> i, fresh |-> closed, dec |-> dec]
           left ==
                IF rest = {} THEN [wf EXCEPT !.proj = None, !.preflight = None, !.dupes = None]
                ELSE [wf EXCEPT !.proj = p,
                                !.preflight = IF wf.preflight = None THEN None ELSE f,
                                !.dupes = IF wf.dupes = None THEN None ELSE d]
           x == [left EXCEPT !.approval = None, !.media = None, !.desc = None]
           y == InvalidateUploadPlan(x)
           acts == wf.actions \cup {ask}
           w == [y EXCEPT !.status = "blocked", !.actions = acts]
<1>2. Publish(w, {}, {}, {}) BY <1>1
<1>3. i \in Ids /\ j \in Ids /\ k \in Ids BY NewIdIs
<1>4. ask \in Actions BY ActionType DEF ActionKinds, OrNone
<1>5. wf.proj.trackers \in SUBSET Trackers /\ wf.proj.ready \in SUBSET Trackers /\ wf.proj.asks \in SUBSET Actions
    BY <1>0 DEF Projections
<1>6. wf.actions \in SUBSET Actions BY <1>0 DEF Workflows
<1> HIDE DEF ask
<1>7. rest \in SUBSET Trackers /\ ready \in SUBSET Trackers /\ asks \in SUBSET Actions /\ acts \in SUBSET Actions
    BY <1>4, <1>5, <1>6
<1>8. closed \in BOOLEAN OBVIOUS
<1>9. ASSUME wf.dupes # None PROVE d \in Assessments
    <2>1. wf.dupes \in Assessments BY <1>0, <1>9 DEF Workflows, OrNone
    <2>2. DOMAIN wf.dupes.dec \cap rest \in SUBSET Trackers BY <1>7
    <2>3. dec \in [DOMAIN wf.dupes.dec \cap rest -> Decisions] BY <2>1, DecisionsType
    <2> HIDE DEF dec, closed
    <2> QED BY <1>3, <1>8, <2>2, <2>3, AssessmentType
<1>10. f \in Preflights BY <1>3 DEF Preflights
<1>11. d.proj = i OBVIOUS
<1> HIDE DEF rest, ready, asks, acts, closed, dec
<1>12. p \in Projections /\ p.release = wf.proj.release /\ p.id = i
    BY <1>0, <1>3, <1>7, <1>8 DEF Projections, OrNone
<1>13. wf.proj.release = wf.release BY <1>0 DEF Chain
<1>14. p # None BY <1>12, AbsentAssumption
<1> HIDE DEF p, f, d
<1>15. left \in Workflows /\ left.release = wf.release
       /\ (left.proj # None => left.proj.release = wf.release)
       /\ (left.dupes # None => left.proj # None /\ left.dupes.proj = left.proj.id)
    <2>1. CASE rest = {}
        <3>1. left = [wf EXCEPT !.proj = None, !.preflight = None, !.dupes = None] BY <2>1
        <3> HIDE DEF left
        <3> QED BY <1>0, <3>1 DEF Workflows, OrNone
    <2>2. CASE rest # {}
        <3> DEFINE f1 == IF wf.preflight = None THEN None ELSE f
                   d1 == IF wf.dupes = None THEN None ELSE d
        <3>1. left = [wf EXCEPT !.proj = p, !.preflight = f1, !.dupes = d1] BY <2>2
        <3>2. f1 \in OrNone(Preflights) /\ d1 \in OrNone(Assessments) BY <1>9, <1>10 DEF OrNone
        <3>3. d1 # None => d1.proj = i BY <1>11
        <3> HIDE DEF left, f1, d1
        <3>4. left \in Workflows BY <1>0, <1>12, <3>1, <3>2 DEF Workflows, OrNone
        <3>5. left.release = wf.release /\ left.proj = p /\ left.dupes = d1 BY <1>0, <3>1 DEF Workflows
        <3> QED BY <1>12, <1>13, <1>14, <3>3, <3>4, <3>5
    <2> QED BY <2>1, <2>2
<1> HIDE DEF left
<1>16. x \in Workflows /\ x.release = left.release /\ x.proj = left.proj /\ x.dupes = left.dupes
       /\ x.approval = None /\ x.media = None /\ x.desc = None
    BY <1>15 DEF Workflows, OrNone
<1> HIDE DEF x
<1>17. PlanDropped(y, x) BY <1>16, UploadPlanDropped
<1> HIDE DEF y
<1>18. y \in Workflows BY <1>17 DEF PlanDropped
<1>19. Fallen(y) BY <1>15, <1>16, <1>17, TrackersFallen DEF PlanDropped, SameStages
<1>20. Follows(w) BY <1>7, <1>18, <1>19, Replaced, ReaskedFallen, FallenFollows
<1> HIDE DEF w
<1> QED BY <1>0, <1>2, <1>20, PublishKeeps

-----------------------------------------------------------------------------
(* Media.                                                                  *)

\* What the targets are resolved from.
LEMMA ResolvedFacts ==
    ASSUME NEW w \in Workflows, Resolved(w)
    PROVE  /\ w.release \in Ids /\ w.proj \in Projections /\ w.preflight \in Preflights
           /\ w.dupes \in Assessments /\ (Mode = "gate" => w.approval \in Approvals)
           /\ Eligible(w) \in SUBSET Trackers /\ Targets(w) \in SUBSET Trackers
           /\ ApprovalRef(w) \in OrNone(Ids)
<1>1. /\ w.release \in Ids /\ w.proj \in Projections /\ w.preflight \in Preflights
      /\ w.dupes \in Assessments
    BY DEF Resolved, Evidence, Workflows, OrNone
<1>2. Mode = "gate" => w.approval \in Approvals
    BY DEF Resolved, ApprovalCurrent, Workflows, OrNone
<1>3. w.proj.ready \in SUBSET Trackers BY <1>1 DEF Projections
<1>4. Eligible(w) \in SUBSET Trackers BY <1>3 DEF Eligible
<1>5. Mode = "gate" => w.approval.approved \in SUBSET Trackers /\ w.approval.id \in Ids /\ w.approval # None
    BY <1>2, AbsentAssumption DEF Approvals
<1>6. Targets(w) \in SUBSET Trackers BY <1>4, <1>5 DEF Targets
<1>7. ApprovalRef(w) \in OrNone(Ids) BY <1>5 DEF ApprovalRef, Id, Field, OrNone
<1> QED BY <1>1, <1>2, <1>4, <1>6, <1>7

\* m is a media set for what is current in w.
Serves(m, w) ==
    /\ m.release = w.release /\ m.proj = w.proj.id
    /\ m.approval = ApprovalRef(w) /\ m.fits = Targets(w)

\* A set that is built for the current targets serves.
LEMMA NewMediaServes ==
    ASSUME NEW w \in Workflows, Resolved(w), NEW i \in Ids, NEW enough \in BOOLEAN,
           NEW failed \in SUBSET Trackers, NEW skipped \in BOOLEAN, NEW doubt \in BOOLEAN
    PROVE  /\ NewMedia(w, i, enough, failed, skipped, doubt) \in MediaSets
           /\ Serves(NewMedia(w, i, enough, failed, skipped, doubt), w)
<1>1. /\ w.release \in Ids /\ w.proj.id \in Ids /\ Targets(w) \in SUBSET Trackers
      /\ ApprovalRef(w) \in OrNone(Ids)
    BY ResolvedFacts DEF Projections
<1>2. NewMedia(w, i, enough, failed, skipped, doubt) \in MediaSets BY <1>1 DEF NewMedia, MediaSets
<1>3. Serves(NewMedia(w, i, enough, failed, skipped, doubt), w) BY DEF NewMedia, Serves
<1> QED BY <1>2, <1>3

\* The reference to the approval is that of the approval there is.
LEMMA ApprovalRefIs == ASSUME NEW w, Chain(w) PROVE ApprovalRef(w) = Id(w.approval)
BY DEF Chain, ApprovalRef, Id, Field

\* Media that serve may be put into the workflow.
LEMMA ServesChain ==
    ASSUME NEW w, Chain(w), Resolved(w), NEW m, Serves(m, w), NEW x,
           x.release = w.release, x.proj = w.proj, x.dupes = w.dupes, x.approval = w.approval,
           x.media = m, x.desc = None
    PROVE  Chain(x)
<1>1. Eligible(x) = Eligible(w) /\ Targets(x) = Targets(w) BY DEF Eligible, Targets
<1>2. w.dupes # None /\ (Mode = "gate" => w.approval # None)
    BY DEF Resolved, Evidence, ApprovalCurrent
<1>3. ApprovalRef(w) = Id(w.approval) BY ApprovalRefIs
<1> QED BY <1>1, <1>2, <1>3 DEF Chain, Serves

\* The actions of a media set.
LEMMA MediaActionsType ==
    ASSUME NEW m
    PROVE  /\ MediaActions(m) \in SUBSET Actions
           /\ \A t \in Trackers : Action("prepare", t) \notin MediaActions(m)
<1>1. Action("provide", None) \in Actions /\ Action("reconcileImage", None) \in Actions
    BY ActionType DEF ActionKinds, OrNone
<1>2. \A t \in Trackers : Action("prepare", t) # Action("provide", None)
                           /\ Action("prepare", t) # Action("reconcileImage", None)
    BY DEF Action
<1> QED BY <1>1, <1>2 DEF MediaActions

\* publishMedia: the descriptions and what follows them are gone.
LEMMA PublishedMedia ==
    ASSUME NEW w \in Workflows, Chain(w), Resolved(w), NEW m \in MediaSets, Serves(m, w)
    PROVE  Fallen(PublishMedia(w, m))
<1> DEFINE x == [w EXCEPT !.media = m, !.desc = None]
           y == InvalidateUploadPlan(x)
           acts == MediaActions(m)
<1>1. x \in Workflows BY DEF Workflows, OrNone
<1>2. /\ x.release = w.release /\ x.proj = w.proj /\ x.dupes = w.dupes /\ x.approval = w.approval
      /\ x.media = m /\ x.desc = None
    BY DEF Workflows
<1>3. PublishMedia(w, m) = SetStageStatus(y, acts) BY DEF PublishMedia
<1>4. acts \in SUBSET Actions BY MediaActionsType
<1> HIDE DEF x, acts
<1>5. Chain(x) BY <1>2, ServesChain
<1>6. PlanDropped(y, x) BY <1>1, UploadPlanDropped
<1> HIDE DEF y
<1>7. y \in Workflows /\ SameStages(y, x) /\ y.plan = None /\ y.result = None
    BY <1>6 DEF PlanDropped
<1>8. y.desc = None BY <1>2, <1>7 DEF SameStages
<1>9. Fallen(y) BY <1>5, <1>7, <1>8, ChainSame DEF Fallen
<1> QED BY <1>3, <1>4, <1>7, <1>9, StatusSet, ReaskedFallen

\* The private resource of a snapshot.
LEMMA ResourceType ==
    ASSUME NEW kind \in {"dupes", "media", "desc", "authority"}, NEW i \in Ids
    PROVE  Resource(kind, i) \in Payloads
BY DEF Resource, Payloads

\* Whether a hitch happens is a Boolean.
LEMMA MaybeType == ASSUME NEW hitch, NEW x \in Maybe(hitch) PROVE x \in BOOLEAN
BY DEF Maybe

\* What restoreReusableMedia leaves: the workflow as it was, or with media that serve.
LEMMA RestoredFallen ==
    ASSUME StagesInv, NEW w, Fallen(w), NEW keep, NEW m \in RestoredMedia(w, keep)
    PROVE  Fallen(m.wf) /\ m.new \in SUBSET Payloads
<1>0. w \in Workflows /\ Chain(w) BY DEF Fallen
<1> DEFINE same == [wf |-> w, new |-> {}]
           acts == MediaActions(wf.media)
           x == [w EXCEPT !.media = wf.media]
           kept == [wf |-> SetStageStatus(x, acts), new |-> {}]
           made(i, short) == [wf |-> PublishMedia(w, NewMedia(w, i, ~short, {}, FALSE, FALSE)),
                              new |-> {Resource("media", i)}]
           saved == {made(i, short) : i \in NewId("media"), short \in Maybe("images")}
<1>1. RestoredMedia(w, keep) =
        IF ~Resolved(w) THEN {same}
        ELSE IF Reusable(wf.media, w, keep) THEN {kept} ELSE {same} \cup saved
    BY DEF RestoredMedia
<1>2. CASE m = same BY <1>2
<1>3. CASE m = kept /\ Resolved(w) /\ Reusable(wf.media, w, keep)
    <2>1. wf.media \in MediaSets BY <1>3 DEF StagesInv, TypeOK, Workflows, OrNone, Reusable
    <2>2. x \in Workflows /\ x.release = w.release /\ x.proj = w.proj /\ x.dupes = w.dupes
          /\ x.approval = w.approval /\ x.media = wf.media /\ x.desc = None /\ x.plan = None
          /\ x.result = None
        BY <1>0, <2>1 DEF Workflows, OrNone, Fallen
    <2>3. acts \in SUBSET Actions BY MediaActionsType
    <2>4. Serves(wf.media, w) BY <1>3 DEF Reusable, Serves
    <2>5. m.wf = SetStageStatus(x, acts) /\ m.new = {} BY <1>3
    <2> HIDE DEF x, acts
    <2>6. Chain(x) BY <1>0, <1>3, <2>2, <2>4, ServesChain
    <2>7. Fallen(x) BY <2>2, <2>6 DEF Fallen
    <2> QED BY <2>2, <2>3, <2>5, <2>7, StatusSet, ReaskedFallen
<1>4. ASSUME NEW i \in NewId("media"), NEW short \in Maybe("images"), m = made(i, short), Resolved(w)
      PROVE  Fallen(m.wf) /\ m.new \in SUBSET Payloads
    <2> DEFINE enough == ~short
               no == FALSE
               n == NewMedia(w, i, enough, {}, no, no)
    <2>1. m.wf = PublishMedia(w, n) /\ m.new = {Resource("media", i)} BY <1>4
    <2>2. enough \in BOOLEAN /\ no \in BOOLEAN OBVIOUS
    <2>3. i \in Ids BY NewIdIs
    <2>4. {} \in SUBSET Trackers OBVIOUS
    <2> HIDE DEF enough, no
    <2>5. n \in MediaSets /\ Serves(n, w) BY <1>0, <1>4, <2>2, <2>3, <2>4, NewMediaServes
    <2> HIDE DEF n
    <2>6. Fallen(m.wf) BY <1>0, <1>4, <2>1, <2>5, PublishedMedia
    <2>7. Resource("media", i) \in Payloads BY <2>3, ResourceType
    <2> QED BY <2>1, <2>6, <2>7
<1> HIDE DEF same, kept, made
<1>5. m \in {same} \/ (Resolved(w) /\ Reusable(wf.media, w, keep) /\ m \in {kept})
      \/ (Resolved(w) /\ m \in saved)
    BY <1>1
<1> QED BY <1>2, <1>3, <1>4, <1>5

-----------------------------------------------------------------------------
(* Duplicates and approval.                                                *)

\* publishDupes: an assessment of the current projections.
LEMMA PublishDupesKeeps ==
    ASSUME StagesInv, NEW d \in Assessments, wf.proj # None, d.proj = wf.proj.id,
           NEW evidence, PublishDupes(d, evidence)
    PROVE  GoodStep
<1>0. wf \in Workflows /\ wf.proj \in Projections /\ Chain(wf) /\ vault \in SUBSET vault
    BY DEF StagesInv, TypeOK, Workflows, OrNone
<1> DEFINE strict == {t \in DOMAIN d.dec : d.dec[t] = "strict"}
           asked == {Action("review", t) : t \in {x \in DOMAIN d.dec : d.dec[x] = "pending"}}
           acts == {a \in wf.proj.asks \cup asked : a.tracker \notin strict}
           x == [wf EXCEPT !.dupes = d, !.approval = None, !.media = None, !.desc = None]
           y == InvalidateUploadPlan(x)
           w == SetStageStatus(y, acts)
           new == IF evidence THEN {Resource("dupes", d.id)} ELSE {}
<1>1. \E m \in RestoredMedia(w, vault) : Publish(m.wf, m.new \cup new, vault, {"dupes", "media", "desc"})
    BY DEF PublishDupes
<1>2. acts \in SUBSET Actions
    <2>1. wf.proj.asks \in SUBSET Actions BY <1>0 DEF Projections
    <2>2. DOMAIN d.dec \in SUBSET Trackers BY DecisionsType
    <2>3. \A t \in Trackers : Action("review", t) \in Actions BY ActionType DEF ActionKinds, OrNone
    <2>4. asked \in SUBSET Actions BY <2>2, <2>3
    <2> HIDE DEF asked
    <2> QED BY <2>1, <2>4
<1>3. new \in SUBSET Payloads
    <2>1. d.id \in Ids BY DEF Assessments
    <2>2. Resource("dupes", d.id) \in Payloads BY <2>1, ResourceType
    <2> QED BY <2>2
<1> HIDE DEF acts, new
<1>4. /\ x \in Workflows /\ x.release = wf.release /\ x.proj = wf.proj /\ x.dupes = d
      /\ x.approval = None /\ x.media = None /\ x.desc = None
    BY <1>0 DEF Workflows, OrNone
<1> HIDE DEF x
<1>5. PlanDropped(y, x) BY <1>4, UploadPlanDropped
<1> HIDE DEF y
<1>6. y \in Workflows BY <1>5 DEF PlanDropped
<1>7. wf.proj.release = wf.release BY <1>0 DEF Chain
<1>8. Fallen(y) BY <1>4, <1>5, <1>7, TrackersFallen DEF PlanDropped, SameStages
<1>9. Fallen(w) BY <1>2, <1>6, <1>8, StatusSet, ReaskedFallen
<1> HIDE DEF w
<1>10. PICK m \in RestoredMedia(w, vault) : Publish(m.wf, m.new \cup new, vault, {"dupes", "media", "desc"})
    BY <1>1
<1>11. Fallen(m.wf) /\ m.new \in SUBSET Payloads BY <1>9, RestoredFallen
<1>12. m.new \cup new \in SUBSET Payloads BY <1>3, <1>11
<1>13. Follows(m.wf) BY <1>11, FallenFollows
<1> QED BY <1>0, <1>10, <1>12, <1>13, PublishKeeps

\* checkDuplicates.
LEMMA CheckKeeps == ASSUME StagesInv, CheckDuplicates PROVE GoodStep
<1>0. wf.proj \in Projections /\ wf.proj # None
    BY DEF StagesInv, TypeOK, Workflows, OrNone, CheckDuplicates, PreflightUsable
<1>1. PICK i \in NewId("dupes"), dec \in [wf.proj.trackers -> Findings] :
        PublishDupes([id |-> i, proj |-> wf.proj.id, fresh |-> TRUE, dec |-> dec], TRUE)
    BY DEF CheckDuplicates
<1> DEFINE fresh == TRUE
           d == [id |-> i, proj |-> wf.proj.id, fresh |-> fresh, dec |-> dec]
<1>2. PublishDupes(d, fresh) BY <1>1
<1>3. i \in Ids BY NewIdIs
<1>4. wf.proj.id \in Ids /\ wf.proj.trackers \in SUBSET Trackers BY <1>0 DEF Projections
<1>5. dec \in [wf.proj.trackers -> Decisions] BY StagesAssumption DEF Decisions
<1>6. fresh \in BOOLEAN /\ d.proj = wf.proj.id OBVIOUS
<1> HIDE DEF fresh
<1>7. d \in Assessments BY <1>3, <1>4, <1>5, <1>6, AssessmentType
<1> HIDE DEF d
<1> QED BY <1>0, <1>2, <1>6, <1>7, PublishDupesKeeps

\* decideDuplicates.
LEMMA DecideKeeps == ASSUME StagesInv, DecideDuplicates PROVE GoodStep
<1>0. wf.proj \in Projections /\ wf.proj # None /\ wf.dupes \in Assessments
    BY DEF StagesInv, TypeOK, Workflows, OrNone, DecideDuplicates, PreflightUsable
<1>1a. PICK decided \in (SUBSET DOMAIN wf.dupes.dec) \ {{}} :
        \E i \in NewId("dupes"), answer \in [decided -> {"accepted", "ignored"}] :
        PublishDupes([wf.dupes EXCEPT !.id = i, !.proj = wf.proj.id,
                        !.dec = [t \in DOMAIN wf.dupes.dec |->
                                    IF t \in decided /\ wf.dupes.dec[t] # "strict" THEN answer[t] ELSE wf.dupes.dec[t]]],
                     Held("dupes", wf.dupes.id))
    BY DEF DecideDuplicates
<1>1. PICK i \in NewId("dupes"), answer \in [decided -> {"accepted", "ignored"}] :
        PublishDupes([wf.dupes EXCEPT !.id = i, !.proj = wf.proj.id,
                        !.dec = [t \in DOMAIN wf.dupes.dec |->
                                    IF t \in decided /\ wf.dupes.dec[t] # "strict" THEN answer[t] ELSE wf.dupes.dec[t]]],
                     Held("dupes", wf.dupes.id))
    BY <1>1a
<1> DEFINE S == DOMAIN wf.dupes.dec
           dec == [t \in S |-> IF t \in decided /\ wf.dupes.dec[t] # "strict" THEN answer[t] ELSE wf.dupes.dec[t]]
           d == [wf.dupes EXCEPT !.id = i, !.proj = wf.proj.id, !.dec = dec]
           evidence == Held("dupes", wf.dupes.id)
<1>2. PublishDupes(d, evidence) BY <1>1
<1>3. i \in Ids BY NewIdIs
<1>4. wf.proj.id \in Ids BY <1>0 DEF Projections
<1>5. S \in SUBSET Trackers /\ \A t \in S : wf.dupes.dec[t] \in Decisions BY <1>0, DecisionsType
<1>6. dec \in [S -> Decisions]
    <2>1. ASSUME NEW t \in S
          PROVE  (IF t \in decided /\ wf.dupes.dec[t] # "strict" THEN answer[t] ELSE wf.dupes.dec[t]) \in Decisions
        <3>1. CASE t \in decided
            <4>1. answer[t] \in {"accepted", "ignored"} BY <3>1
            <4> QED BY <1>5, <4>1 DEF Decisions
        <3>2. CASE t \notin decided BY <1>5, <3>2
        <3> QED BY <3>1, <3>2
    <2> QED BY <2>1
<1> HIDE DEF dec, S, evidence
<1>7. d \in Assessments /\ d.proj = wf.proj.id
    <2> DEFINE e == wf.dupes
               q == wf.proj.id
               u == [e EXCEPT !.id = i, !.proj = q, !.dec = dec]
    <2>1. d = u OBVIOUS
    <2>2. e \in Assessments /\ q \in Ids BY <1>0, <1>4
    <2>3. S \in SUBSET Trackers BY <1>5
    <2>4. q = wf.proj.id OBVIOUS
    <2> HIDE DEF d, e, q
    <2> DEFINE D == UNION {[T -> Decisions] : T \in SUBSET Trackers}
    <2>5. dec \in D BY <1>6, <2>3
    <2>6. Assessments = [id : Ids, proj : Ids, fresh : BOOLEAN, dec : D] BY DEF Assessments
    <2> HIDE DEF D
    <2>7. u \in Assessments /\ u.proj = q BY <1>3, <2>2, <2>5, <2>6
    <2> HIDE DEF u
    <2> QED BY <2>1, <2>4, <2>7
<1> HIDE DEF d
<1> QED BY <1>0, <1>2, <1>7, PublishDupesKeeps

\* approveTrackers: the approved trackers are eligible.
LEMMA ApproveKeeps == ASSUME StagesInv, ApproveTrackers PROVE GoodStep
<1>0. wf \in Workflows /\ Chain(wf) /\ vault \in SUBSET vault /\ Mode = "gate"
      /\ wf.proj \in Projections /\ wf.preflight \in Preflights /\ wf.dupes \in Assessments
      /\ wf.dupes # None
    BY DEF StagesInv, TypeOK, Workflows, OrNone, ApproveTrackers, Evidence
<1>1. PICK approved \in (SUBSET ApprovalCandidates(wf)) \ {{}}, i \in NewId("approval") :
        LET a == [id |-> i, proj |-> wf.proj.id, preflight |-> wf.preflight.id, dupes |-> wf.dupes.id,
                  candidates |-> ApprovalCandidates(wf), approved |-> approved]
            w == [InvalidateUploadPlan([wf EXCEPT !.approval = a, !.media = None, !.desc = None])
                    EXCEPT !.actions = {}, !.status = "active"]
        IN  \E m \in RestoredMedia(w, vault) :
                Publish(m.wf, m.new, vault, IF m.wf.media = None THEN {} ELSE {"media", "desc"})
    BY DEF ApproveTrackers
<1> DEFINE a == [id |-> i, proj |-> wf.proj.id, preflight |-> wf.preflight.id, dupes |-> wf.dupes.id,
                 candidates |-> ApprovalCandidates(wf), approved |-> approved]
           x == [wf EXCEPT !.approval = a, !.media = None, !.desc = None]
           y == InvalidateUploadPlan(x)
           none == {}
           w == [y EXCEPT !.actions = none, !.status = "active"]
<1>2. \E m \in RestoredMedia(w, vault) :
        Publish(m.wf, m.new, vault, IF m.wf.media = None THEN {} ELSE {"media", "desc"})
    BY <1>1
<1>3. i \in Ids BY NewIdIs
<1>4. wf.proj.id \in Ids /\ wf.preflight.id \in Ids /\ wf.dupes.id \in Ids /\ wf.proj.ready \in SUBSET Trackers
    BY <1>0 DEF Projections, Preflights, Assessments
<1>5. Eligible(wf) \in SUBSET Trackers BY <1>4 DEF Eligible
<1>6. ApprovalCandidates(wf) \in SUBSET Eligible(wf) BY DEF ApprovalCandidates
<1>7. approved \in SUBSET Eligible(wf) BY <1>6
<1>8. a \in Approvals /\ a.dupes = wf.dupes.id /\ a.approved \subseteq Eligible(wf)
    BY <1>3, <1>4, <1>5, <1>6, <1>7 DEF Approvals
<1> HIDE DEF a
<1>9. /\ x \in Workflows /\ x.release = wf.release /\ x.proj = wf.proj /\ x.dupes = wf.dupes
      /\ x.approval = a /\ x.media = None /\ x.desc = None
    BY <1>0, <1>8 DEF Workflows, OrNone
<1> HIDE DEF x
<1>10. Eligible(x) = Eligible(wf) BY <1>9 DEF Eligible
<1>11. Chain(x) BY <1>0, <1>8, <1>9, <1>10 DEF Chain
<1>12. PlanDropped(y, x) BY <1>9, UploadPlanDropped
<1> HIDE DEF y
<1>13. y \in Workflows BY <1>12 DEF PlanDropped
<1>14. Fallen(y) BY <1>9, <1>11, <1>12, ChainSame DEF PlanDropped, SameStages, Fallen
<1>15. none \in SUBSET Actions OBVIOUS
<1> HIDE DEF none
<1>16. w = [y EXCEPT !.status = "active", !.actions = none] BY <1>13 DEF Workflows
<1>17. Fallen(w) BY <1>13, <1>14, <1>15, <1>16, Replaced, ReaskedFallen
<1> HIDE DEF w
<1>18. PICK m \in RestoredMedia(w, vault) :
        Publish(m.wf, m.new, vault, IF m.wf.media = None THEN {} ELSE {"media", "desc"})
    BY <1>2
<1>19. Fallen(m.wf) /\ m.new \in SUBSET Payloads BY <1>17, RestoredFallen
<1>20. Follows(m.wf) BY <1>19, FallenFollows
<1> QED BY <1>0, <1>18, <1>19, <1>20, PublishKeeps

\* Trackers.
LEMMA TrackerKeeps == ASSUME StagesInv, TrackerStep PROVE GoodStep
BY ProjectKeeps, PreflightKeeps, InvalidateKeeps, CheckKeeps, DecideKeeps, ApproveKeeps DEF TrackerStep

-----------------------------------------------------------------------------
(* Content.                                                                *)

\* A new media set is published.
LEMMA NewMediaKeeps ==
    ASSUME StagesInv, Resolved(wf), NEW i \in NewId("media"), NEW enough \in BOOLEAN,
           NEW failed \in SUBSET Trackers, NEW skipped \in BOOLEAN, NEW doubt \in BOOLEAN, NEW cleans,
           Publish(PublishMedia(wf, NewMedia(wf, i, enough, failed, skipped, doubt)),
                   {Resource("media", i)}, vault, cleans)
    PROVE  GoodStep
<1> DEFINE n == NewMedia(wf, i, enough, failed, skipped, doubt)
           w == PublishMedia(wf, n)
           new == {Resource("media", i)}
<1>1. Publish(w, new, vault, cleans) OBVIOUS
<1>2. wf \in Workflows /\ Chain(wf) /\ vault \in SUBSET vault /\ i \in Ids
    BY NewIdIs DEF StagesInv, TypeOK
<1>3. n \in MediaSets /\ Serves(n, wf) BY <1>2, NewMediaServes
<1> HIDE DEF n
<1>4. Fallen(w) BY <1>2, <1>3, PublishedMedia
<1> HIDE DEF w
<1>5. Resource("media", i) \in Payloads BY <1>2, ResourceType
<1>6. new \in SUBSET Payloads BY <1>5
<1> HIDE DEF new
<1> QED BY <1>1, <1>2, <1>4, <1>6, FallenFollows, PublishKeeps

\* The trackers current media could not be hosted for.
LEMMA FailedType ==
    ASSUME StagesInv, wf.media # None
    PROVE  wf.media.failed \in SUBSET Trackers /\ wf.media.skipped \in BOOLEAN /\ wf.media.doubt \in BOOLEAN
<1>1. wf.media \in MediaSets BY DEF StagesInv, TypeOK, Workflows, OrNone
<1> QED BY <1>1 DEF MediaSets

\* captureMedia.
LEMMA CaptureKeeps == ASSUME StagesInv, CaptureMedia PROVE GoodStep
<1>1. Resolved(wf) BY DEF CaptureMedia
<1>2. PICK i \in NewId("media"), short \in Maybe("images"), failed \in {{}, IF wf.media = None THEN {} ELSE wf.media.failed} :
        Publish(PublishMedia(wf, NewMedia(wf, i, ~short, failed, FALSE, FALSE)),
                {Resource("media", i)}, vault, {"media", "desc"})
    BY DEF CaptureMedia
<1>3. failed \in SUBSET Trackers BY FailedType
<1> DEFINE enough == ~short
           no == FALSE
<1>4. enough \in BOOLEAN /\ no \in BOOLEAN OBVIOUS
<1>5. Publish(PublishMedia(wf, NewMedia(wf, i, enough, failed, no, no)), {Resource("media", i)}, vault, {"media", "desc"})
    BY <1>2
<1> HIDE DEF enough, no
<1> QED BY <1>1, <1>3, <1>4, <1>5, NewMediaKeeps

\* One mutation of the current media.
LEMMA MutateKeeps ==
    ASSUME StagesInv, NEW failed \in SUBSET Trackers, NEW skipped \in BOOLEAN, NEW doubt \in BOOLEAN,
           MutateMedia(failed, skipped, doubt)
    PROVE  GoodStep
<1>1. Resolved(wf) BY DEF MutateMedia, MediaMutable
<1>2. PICK i \in NewId("media"), short \in Maybe("images") :
        Publish(PublishMedia(wf, NewMedia(wf, i, ~short /\ (failed = Targets(wf) => skipped), failed, skipped, doubt)),
                {Resource("media", i)}, vault, {"media", "desc"})
    BY DEF MutateMedia
<1> DEFINE enough == ~short /\ (failed = Targets(wf) => skipped)
<1>3. enough \in BOOLEAN OBVIOUS
<1>4. Publish(PublishMedia(wf, NewMedia(wf, i, enough, failed, skipped, doubt)),
              {Resource("media", i)}, vault, {"media", "desc"})
    BY <1>2
<1> HIDE DEF enough
<1> QED BY <1>1, <1>3, <1>4, NewMediaKeeps

\* The commands that mutate media.
LEMMA MediaKeeps == ASSUME StagesInv, ChangeMedia \/ UploadMediaImages PROVE GoodStep
<1> DEFINE no == FALSE
           yes == TRUE
<1>0. wf.media # None /\ no \in BOOLEAN /\ yes \in BOOLEAN
    BY DEF ChangeMedia, UploadMediaImages, MediaMutable
<1>1. wf.media.failed \in SUBSET Trackers /\ wf.media.doubt \in BOOLEAN BY <1>0, FailedType
<1>2. CASE ChangeMedia
    <2>1. MutateMedia(wf.media.failed, no, wf.media.doubt) BY <1>2 DEF ChangeMedia
    <2> HIDE DEF no
    <2> QED BY <1>0, <1>1, <2>1, MutateKeeps
<1>3. CASE UploadMediaImages
    <2>1. MediaMutable
          /\ \/ MutateMedia(wf.media.failed, yes, wf.media.doubt)
             \/ \E failed \in (IF "host" \in Hitches THEN SUBSET Targets(wf) ELSE {{}}) :
                    MutateMedia(failed, no, wf.media.doubt)
             \/ MutateMedia(wf.media.failed, no, yes)
        BY <1>3 DEF UploadMediaImages
    <2>2. Targets(wf) \in SUBSET Trackers
        <3>1. wf \in Workflows BY DEF StagesInv, TypeOK
        <3> QED BY <2>1, <3>1, ResolvedFacts DEF MediaMutable
    <2> HIDE DEF no, yes
    <2>3. CASE MutateMedia(wf.media.failed, yes, wf.media.doubt) BY <1>0, <1>1, <2>3, MutateKeeps
    <2>4. ASSUME NEW failed \in (IF "host" \in Hitches THEN SUBSET Targets(wf) ELSE {{}}),
                 MutateMedia(failed, no, wf.media.doubt)
          PROVE  GoodStep
        <3>1. failed \in SUBSET Trackers BY <2>2
        <3> QED BY <1>0, <1>1, <2>4, <3>1, MutateKeeps
    <2>5. CASE MutateMedia(wf.media.failed, no, yes) BY <1>0, <1>1, <2>5, MutateKeeps
    <2> QED BY <2>1, <2>3, <2>4, <2>5
<1> QED BY <1>2, <1>3

\* New descriptions are published; no plan names them.
LEMMA DescriptionsKeep ==
    ASSUME StagesInv, wf.media # None, Resolved(wf), PublishDescriptions PROVE GoodStep
<1>0. wf \in Workflows /\ wf.media \in MediaSets /\ Chain(wf) /\ vault \in SUBSET vault
      /\ vault \subseteq Payloads \cup UploadPlans
    BY DEF StagesInv, TypeOK, Workflows, OrNone
<1>1. PICK i \in NewId("desc"), unusable \in Maybe("description") :
        LET d == [id |-> i, proj |-> wf.proj.id, media |-> wf.media.id, approval |-> ApprovalRef(wf), viable |-> ~unusable]
        IN  Publish(SetStageStatus(InvalidateUploadPlan([wf EXCEPT !.desc = d]), {}),
                    {Resource("desc", i)}, vault, {"media", "desc"})
    BY DEF PublishDescriptions
<1> DEFINE viable == ~unusable
           d == [id |-> i, proj |-> wf.proj.id, media |-> wf.media.id, approval |-> ApprovalRef(wf), viable |-> viable]
           x == [wf EXCEPT !.desc = d]
           y == InvalidateUploadPlan(x)
           none == {}
           w == SetStageStatus(y, none)
           new == {Resource("desc", i)}
<1>2. Publish(w, new, vault, {"media", "desc"}) BY <1>1
<1>3. i \in Ids /\ \A p \in Plans : p.desc # i BY <1>0, NewDescId
<1>4. wf.proj.id \in Ids /\ wf.media.id \in Ids /\ ApprovalRef(wf) \in OrNone(Ids)
    BY <1>0, ResolvedFacts DEF Projections, MediaSets
<1>5. viable \in BOOLEAN /\ none \in SUBSET Actions OBVIOUS
<1>6. Resource("desc", i) \in Payloads BY <1>3, ResourceType
<1>7. new \in SUBSET Payloads BY <1>6
<1> HIDE DEF viable, none, new
<1>8. d \in Descriptions /\ d.id = i /\ d.media = wf.media.id /\ d.approval = ApprovalRef(wf)
    BY <1>3, <1>4, <1>5 DEF Descriptions
<1> HIDE DEF d
<1>9. /\ x \in Workflows /\ x.release = wf.release /\ x.proj = wf.proj /\ x.dupes = wf.dupes
      /\ x.approval = wf.approval /\ x.media = wf.media /\ x.desc = d
    BY <1>0, <1>8 DEF Workflows, OrNone
<1> HIDE DEF x
<1>10. ApprovalRef(wf) = wf.media.approval BY <1>0, ApprovalRefIs DEF Chain
<1>11. Eligible(x) = Eligible(wf) /\ Targets(x) = Targets(wf) BY <1>9 DEF Eligible, Targets
<1>12. Chain(x) BY <1>0, <1>8, <1>9, <1>10, <1>11 DEF Chain
<1>13. PlanDropped(y, x) BY <1>9, UploadPlanDropped
<1> HIDE DEF y
<1>14. y \in Workflows BY <1>13 DEF PlanDropped
<1>15. Reasked(w, y, none) BY <1>5, <1>14, StatusSet
<1> HIDE DEF w
<1>16. w \in Workflows /\ w.plan = None /\ w.result = None /\ w.desc = d /\ SameStages(w, x)
    BY <1>9, <1>13, <1>15 DEF Reasked, PlanDropped, SameStages
<1>17. Chain(w) BY <1>12, <1>16, ChainSame
<1>18. Follows(w) BY <1>3, <1>8, <1>16, <1>17 DEF Follows
<1> QED BY <1>0, <1>2, <1>7, <1>18, PublishKeeps

\* Content.
LEMMA ContentKeeps == ASSUME StagesInv, ContentStep PROVE GoodStep
<1>1. CASE CaptureMedia BY <1>1, CaptureKeeps
<1>2. CASE ChangeMedia \/ UploadMediaImages BY <1>2, MediaKeeps
<1>3. CASE GenerateDescriptions
    BY <1>3, DescriptionsKeep DEF GenerateDescriptions, ReadyToRender
<1>4. CASE MutateDescriptionOverride
    BY <1>4, DescriptionsKeep DEF MutateDescriptionOverride, ReadyToRender
<1> QED BY <1>1, <1>2, <1>3, <1>4 DEF ContentStep

-----------------------------------------------------------------------------
(* Required actions and recovery.                                          *)

\* u is w without some of its last stages; a current result protects them.
Trimmed(u, w) ==
    /\ u \in Workflows /\ Chain(u) /\ u.actions = w.actions
    /\ u.result = w.result /\ u.plan \in {None, w.plan}
    /\ SameStages(u, w) \/ (u.desc = None /\ w.result = None)

\* The stages of u that have a private resource have it in v.
AllHeld(u, v) ==
    /\ u.dupes # None => \E r \in v : r.kind = "dupes" /\ r.id = u.dupes.id
    /\ u.media # None => \E r \in v : r.kind = "media" /\ r.id = u.media.id
    /\ u.desc # None => \E r \in v : r.kind = "desc" /\ r.id = u.desc.id
    /\ u.plan # None => \E r \in v : r.kind = "plan" /\ r.id = u.plan

\* The duplicates without evidence go with everything around them.
LEMMA TrimDupes ==
    ASSUME NEW w \in Workflows, w.result = None
    PROVE  Trimmed(InvalidateDupes([w EXCEPT !.proj = None, !.preflight = None]), w)
           /\ InvalidateDupes([w EXCEPT !.proj = None, !.preflight = None]).dupes = None
<1> DEFINE x == [w EXCEPT !.proj = None, !.preflight = None]
           u == InvalidateDupes(x)
<1>1. x \in Workflows /\ x.proj = None /\ x.actions = w.actions
    <2>1. x \in Workflows BY AbsentType DEF Workflows
    <2>2. x.proj = None /\ x.actions = w.actions BY DEF Workflows
    <2> QED BY <2>1, <2>2
<1> HIDE DEF x
<1>2. DupesDropped(u, x) BY <1>1, DropDupes
<1> HIDE DEF u
<1>3. Chain(u) BY <1>1, <1>2 DEF DupesDropped, Chain
<1>4. Trimmed(u, w) /\ u.dupes = None BY <1>1, <1>2, <1>3 DEF DupesDropped, Trimmed
<1> QED BY <1>4 DEF u, x

\* The media without their resource go with what follows them.
LEMMA TrimMedia ==
    ASSUME NEW w \in Workflows, Chain(w), w.result = None
    PROVE  /\ Trimmed(InvalidateUploadPlan([w EXCEPT !.media = None, !.desc = None]), w)
           /\ InvalidateUploadPlan([w EXCEPT !.media = None, !.desc = None]).media = None
           /\ InvalidateUploadPlan([w EXCEPT !.media = None, !.desc = None]).dupes = w.dupes
<1> DEFINE x == [w EXCEPT !.media = None, !.desc = None]
           u == InvalidateUploadPlan(x)
<1>1. /\ x \in Workflows /\ x.release = w.release /\ x.proj = w.proj /\ x.dupes = w.dupes
      /\ x.approval = w.approval /\ x.media = None /\ x.desc = None /\ x.actions = w.actions
    <2>1. x \in Workflows BY AbsentType DEF Workflows
    <2>2. /\ x.release = w.release /\ x.proj = w.proj /\ x.dupes = w.dupes
          /\ x.approval = w.approval /\ x.media = None /\ x.desc = None /\ x.actions = w.actions
        BY DEF Workflows
    <2> QED BY <2>1, <2>2
<1> HIDE DEF x
<1>2. PlanDropped(u, x) BY <1>1, UploadPlanDropped
<1> HIDE DEF u
<1>3. Eligible(x) = Eligible(w) BY <1>1 DEF Eligible
<1>4. Chain(x) BY <1>1, <1>3 DEF Chain
<1>5. Chain(u) BY <1>2, <1>4, ChainSame DEF PlanDropped
<1>6. Trimmed(u, w) /\ u.media = None /\ u.dupes = w.dupes
    BY <1>1, <1>2, <1>5 DEF PlanDropped, SameStages, Trimmed
<1> QED BY <1>6 DEF u, x

\* The descriptions without their resource go with what follows them.
LEMMA TrimDesc ==
    ASSUME NEW w \in Workflows, Chain(w), w.result = None
    PROVE  /\ Trimmed(InvalidateUploadPlan([w EXCEPT !.desc = None]), w)
           /\ InvalidateUploadPlan([w EXCEPT !.desc = None]).desc = None
           /\ InvalidateUploadPlan([w EXCEPT !.desc = None]).dupes = w.dupes
           /\ InvalidateUploadPlan([w EXCEPT !.desc = None]).media = w.media
<1> DEFINE x == [w EXCEPT !.desc = None]
           u == InvalidateUploadPlan(x)
<1>1. /\ x \in Workflows /\ x.release = w.release /\ x.proj = w.proj /\ x.dupes = w.dupes
      /\ x.approval = w.approval /\ x.media = w.media /\ x.desc = None /\ x.actions = w.actions
    <2>1. x \in Workflows BY AbsentType DEF Workflows
    <2>2. /\ x.release = w.release /\ x.proj = w.proj /\ x.dupes = w.dupes
          /\ x.approval = w.approval /\ x.media = w.media /\ x.desc = None /\ x.actions = w.actions
        BY DEF Workflows
    <2> QED BY <2>1, <2>2
<1> HIDE DEF x
<1>2. PlanDropped(u, x) BY <1>1, UploadPlanDropped
<1> HIDE DEF u
<1>3. Eligible(x) = Eligible(w) /\ Targets(x) = Targets(w) BY <1>1 DEF Eligible, Targets
<1>4. Chain(x) BY <1>1, <1>3 DEF Chain
<1>5. Chain(u) BY <1>2, <1>4, ChainSame DEF PlanDropped
<1>6. Trimmed(u, w) /\ u.desc = None /\ u.dupes = w.dupes /\ u.media = w.media
    BY <1>1, <1>2, <1>5 DEF PlanDropped, SameStages, Trimmed
<1> QED BY <1>6 DEF u, x

\* A plan that is lost is no longer current.
LEMMA TrimPlan ==
    ASSUME NEW w \in Workflows, Chain(w)
    PROVE  /\ Trimmed([w EXCEPT !.plan = None], w) /\ [w EXCEPT !.plan = None].plan = None
           /\ SameStages([w EXCEPT !.plan = None], w)
<1> DEFINE u == [w EXCEPT !.plan = None]
<1>1. u \in Workflows /\ SameStages(u, w) /\ u.actions = w.actions /\ u.result = w.result /\ u.plan = None
    BY DEF Workflows, OrNone, SameStages
<1> HIDE DEF u
<1>2. Trimmed(u, w) /\ u.plan = None /\ SameStages(u, w) BY <1>1, ChainSame DEF Trimmed
<1> QED BY <1>2 DEF u

\* Stages are taken away one after the other.
LEMMA TrimAgain ==
    ASSUME NEW u, NEW x, NEW w, Trimmed(u, x), Trimmed(x, w) PROVE Trimmed(u, w)
BY DEF Trimmed, SameStages

\* invalidateUnavailablePrivateAuthority.
LEMMA Trimming ==
    ASSUME NEW w \in Workflows, Chain(w), NEW v
    PROVE  /\ Trimmed(InvalidateUnavailable(w, v), w)
           /\ w.result = None /\ ~(\E x \in w.actions : x.kind \in Reconciling)
                => AllHeld(InvalidateUnavailable(w, v), v)
<1>0. Trimmed(w, w) BY DEF Trimmed, SameStages
<1> DEFINE has(kind, id) == \E r \in v : r.kind = kind /\ r.id = id
           a == IF w.dupes # None /\ ~has("dupes", Id(w.dupes))
                THEN InvalidateDupes([w EXCEPT !.proj = None, !.preflight = None]) ELSE w
           b == IF a.dupes # None /\ a.media # None /\ ~has("media", Id(a.media))
                THEN InvalidateUploadPlan([a EXCEPT !.media = None, !.desc = None]) ELSE a
           c == IF b.media # None /\ b.desc # None /\ ~has("desc", Id(b.desc))
                THEN InvalidateUploadPlan([b EXCEPT !.desc = None]) ELSE b
           d == IF c.plan # None /\ ~has("plan", c.plan) THEN [c EXCEPT !.plan = None] ELSE c
           protected == w.result # None \/ \E x \in w.actions : x.kind \in Reconciling
<1>1. InvalidateUnavailable(w, v) = IF protected THEN w ELSE d BY DEF InvalidateUnavailable
<1>2. CASE protected BY <1>0, <1>1, <1>2
<1>3. CASE ~protected
    <2>0. w.result = None BY <1>3
    <2>1. Trimmed(a, w) /\ (a.dupes # None => has("dupes", Id(a.dupes)))
        <3>1. CASE w.dupes # None /\ ~has("dupes", Id(w.dupes)) BY <2>0, <3>1, TrimDupes
        <3>2. CASE ~(w.dupes # None /\ ~has("dupes", Id(w.dupes)))
            <4>1. a = w BY <3>2
            <4> QED BY <1>0, <3>2, <4>1
        <3> QED BY <3>1, <3>2
    <2> HIDE DEF a
    <2>2. a \in Workflows /\ Chain(a) /\ a.result = None BY <2>0, <2>1 DEF Trimmed
    <2>3. /\ Trimmed(b, a) /\ b.dupes = a.dupes
          /\ b.media # None => has("media", Id(b.media))
        <3>1. CASE a.dupes # None /\ a.media # None /\ ~has("media", Id(a.media)) BY <2>2, <3>1, TrimMedia
        <3>2. CASE ~(a.dupes # None /\ a.media # None /\ ~has("media", Id(a.media)))
            <4>1. b = a BY <3>2
            <4>2. Trimmed(a, a) BY <2>2 DEF Trimmed, SameStages
            <4>3. a.media # None => a.dupes # None BY <2>2 DEF Chain
            <4> QED BY <3>2, <4>1, <4>2, <4>3
        <3> QED BY <3>1, <3>2
    <2> HIDE DEF b
    <2>4. b \in Workflows /\ Chain(b) /\ b.result = None BY <2>2, <2>3 DEF Trimmed
    <2>5. /\ Trimmed(c, b) /\ c.dupes = b.dupes /\ c.media = b.media
          /\ c.desc # None => has("desc", Id(c.desc))
        <3>1. CASE b.media # None /\ b.desc # None /\ ~has("desc", Id(b.desc)) BY <2>4, <3>1, TrimDesc
        <3>2. CASE ~(b.media # None /\ b.desc # None /\ ~has("desc", Id(b.desc)))
            <4>1. c = b BY <3>2
            <4>2. Trimmed(b, b) BY <2>4 DEF Trimmed, SameStages
            <4>3. b.desc # None => b.media # None BY <2>4 DEF Chain
            <4> QED BY <3>2, <4>1, <4>2, <4>3
        <3> QED BY <3>1, <3>2
    <2> HIDE DEF c
    <2>6. c \in Workflows /\ Chain(c) BY <2>4, <2>5 DEF Trimmed
    <2>7. Trimmed(d, c) /\ SameStages(d, c) /\ (d.plan # None => has("plan", d.plan))
        <3>1. CASE c.plan # None /\ ~has("plan", c.plan) BY <2>6, <3>1, TrimPlan
        <3>2. CASE ~(c.plan # None /\ ~has("plan", c.plan))
            <4>1. d = c BY <3>2
            <4>2. Trimmed(c, c) /\ SameStages(c, c) BY <2>6 DEF Trimmed, SameStages
            <4> QED BY <3>2, <4>1, <4>2
        <3> QED BY <3>1, <3>2
    <2> HIDE DEF d
    <2>8. Trimmed(d, w) BY <2>1, <2>3, <2>5, <2>7, TrimAgain
    <2>9. AllHeld(d, v)
        <3>1. d.dupes = a.dupes /\ d.media = b.media /\ d.desc = c.desc
            BY <2>3, <2>5, <2>7 DEF SameStages
        <3> QED BY <2>1, <2>3, <2>5, <2>7, <3>1 DEF AllHeld, Id, Field
    <2> QED BY <1>1, <1>3, <2>8, <2>9
<1> QED BY <1>2, <1>3

\* Nothing happens to the workflow.
LEMMA CurrentFollows == ASSUME StagesInv PROVE Follows(wf)
BY DEF StagesInv, TypeOK, Follows, SameStages, AskedStill, Workflows, OrNone

\* What follows stays so when the last stages are taken away.
LEMMA TrimmedFollows ==
    ASSUME NEW w, Follows(w), NEW u, Trimmed(u, w) PROVE Follows(u)
<1>1. SameStages(u, w) \/ u.desc = None BY DEF Trimmed
<1>2. SameStages(u, wf) \/ u.desc = None \/ \A p \in Plans : p.desc # u.desc.id
    BY <1>1 DEF Follows, SameStages
<1>3. u.result = None \/ (u.result = wf.result /\ SameStages(u, wf))
    <2>1. CASE w.result = None BY <2>1 DEF Trimmed
    <2>2. CASE w.result # None BY <2>2 DEF Trimmed, Follows, SameStages
    <2> QED BY <2>1, <2>2
<1>4. u.plan \in {None, wf.plan} BY DEF Trimmed, Follows
<1>5. \/ u.plan = None /\ u.result = None
      \/ \A t \in Trackers : Action("prepare", t) \in u.actions => Action("prepare", t) \in wf.actions
    BY DEF Trimmed, Follows
<1>6. u.result = None \/ AskedStill(u.actions) BY DEF Trimmed, Follows
<1> QED BY <1>2, <1>3, <1>4, <1>5, <1>6 DEF Follows, Trimmed

\* And when less is asked.
LEMMA LessAskedFollows ==
    ASSUME NEW w, Follows(w), NEW u, NEW acts, Reasked(u, w, acts), acts \subseteq w.actions,
           w.result = None \/ AskedStill(acts)
    PROVE  Follows(u)
<1>1. Chain(u) BY ChainSame DEF Follows, Reasked
<1>2. SameStages(u, wf) \/ u.desc = None \/ \A p \in Plans : p.desc # u.desc.id
    BY DEF Follows, Reasked, SameStages
<1>3. u.result = None \/ (u.result = wf.result /\ SameStages(u, wf))
    BY DEF Follows, Reasked, SameStages
<1> QED BY <1>1, <1>2, <1>3 DEF Follows, Reasked

\* And when the plan goes.
LEMMA PlanlessFollows ==
    ASSUME NEW w, Follows(w), NEW u, PlanDropped(u, w) PROVE Follows(u)
<1>1. Chain(u) BY ChainSame DEF Follows, PlanDropped
<1>2. SameStages(u, wf) \/ u.desc = None \/ \A p \in Plans : p.desc # u.desc.id
    BY DEF Follows, PlanDropped, SameStages
<1> QED BY <1>1, <1>2 DEF Follows, PlanDropped

\* One action less.
LEMMA ActionsLeft ==
    ASSUME NEW w \in Workflows, NEW acts \in SUBSET Actions
    PROVE  Reasked([w EXCEPT !.actions = acts], w, acts)
<1> DEFINE u == [w EXCEPT !.actions = acts]
<1>1. u \in Workflows BY DEF Workflows
<1>2. SameStages(u, w) /\ u.preflight = w.preflight
      /\ u.plan = w.plan /\ u.result = w.result /\ u.actions = acts
    BY DEF Workflows, SameStages
<1> QED BY <1>1, <1>2 DEF Reasked

\* An action is answered and forgotten, the question of a submission excepted.
LEMMA AnsweredFollows ==
    ASSUME StagesInv, NEW a, a.kind # "reconcile"
    PROVE  Follows(Unblocked([wf EXCEPT !.actions = wf.actions \ {a}]))
<1> DEFINE acts == wf.actions \ {a}
           x == [wf EXCEPT !.actions = acts]
<1>1. wf \in Workflows BY DEF StagesInv, TypeOK
<1>2. acts \in SUBSET Actions /\ acts \subseteq wf.actions BY <1>1 DEF Workflows
<1>3. AskedStill(acts)
    <2>1. \A t \in Trackers : Action("reconcile", t) # a BY DEF Action
    <2> QED BY <2>1 DEF AskedStill
<1> HIDE DEF acts
<1>4. Reasked(x, wf, acts) BY <1>1, <1>2, ActionsLeft
<1> HIDE DEF x
<1>5. Follows(x) BY <1>2, <1>3, <1>4, CurrentFollows, LessAskedFollows
<1>6. Reasked(Unblocked(x), x, x.actions) BY <1>4, StatusUnblocked DEF Reasked
<1>7. x.result = None \/ AskedStill(x.actions) BY <1>3, <1>4 DEF Reasked
<1>8. Follows(Unblocked(x)) BY <1>5, <1>6, <1>7, LessAskedFollows
<1> QED BY <1>8 DEF x, acts

\* An action is answered, and the plan and the result go.
LEMMA DroppedFollows ==
    ASSUME StagesInv, NEW a, NEW v
    PROVE  Follows(Unblocked(InvalidateUnavailable(
               InvalidateUploadPlan([wf EXCEPT !.actions = wf.actions \ {a}]), v)))
<1> DEFINE acts == wf.actions \ {a}
           x == [wf EXCEPT !.actions = acts]
           y == InvalidateUploadPlan(x)
           z == InvalidateUnavailable(y, v)
<1>1. wf \in Workflows /\ Chain(wf) BY DEF StagesInv, TypeOK
<1>2. acts \in SUBSET Actions BY <1>1 DEF Workflows
<1> HIDE DEF acts
<1>3. Reasked(x, wf, acts) BY <1>1, <1>2, ActionsLeft
<1> HIDE DEF x
<1>4. PlanDropped(y, x) BY <1>3, UploadPlanDropped DEF Reasked
<1> HIDE DEF y
<1>5. y \in Workflows /\ SameStages(y, wf) /\ y.plan = None /\ y.result = None
    BY <1>3, <1>4 DEF Reasked, PlanDropped, SameStages
<1>6. Chain(y) BY <1>1, <1>5, ChainSame
<1>7. Follows(y) BY <1>5, <1>6 DEF Follows
<1>8. Trimmed(z, y) BY <1>5, <1>6, Trimming
<1> HIDE DEF z
<1>9. Follows(z) /\ z \in Workflows /\ z.result = None
    BY <1>5, <1>7, <1>8, TrimmedFollows DEF Trimmed
<1>10. Reasked(Unblocked(z), z, z.actions) BY <1>9, StatusUnblocked
<1>11. Follows(Unblocked(z)) BY <1>9, <1>10, LessAskedFollows
<1> QED BY <1>11 DEF z, y, x, acts

\* resolveAction for a submission in doubt: the tracker does not have it.
LEMMA ReconcileKeeps == ASSUME StagesInv, ReconcileSubmission PROVE GoodStep
<1>1. PICK t \in Trackers :
        LET w == InvalidateUploadPlan([wf EXCEPT !.actions = wf.actions \ {Action("reconcile", t)}])
        IN  Save(Unblocked(InvalidateUnavailable(w, vault)), {}, vault, {"plan"}, results,
                 fence, [fence EXCEPT ![t] = "free"])
    BY DEF ReconcileSubmission
<1> DEFINE a == Action("reconcile", t)
           w == Unblocked(InvalidateUnavailable(InvalidateUploadPlan([wf EXCEPT !.actions = wf.actions \ {a}]), vault))
           resolved == [fence EXCEPT ![t] = "free"]
<1>2. Save(w, {}, vault, {"plan"}, results, fence, resolved) BY <1>1
<1>3. Follows(w) BY DroppedFollows
<1> HIDE DEF w
<1>4. UNCHANGED <<landed, lapses>> /\ TypeOK BY DEF ReconcileSubmission, StagesInv
<1>5. /\ Outside
      /\ \/ /\ wf' = w /\ vault' \subseteq vault \cup {} /\ results' = Reachable(w, results)
            /\ fence' = resolved
         \/ wf' = wf /\ vault' \subseteq vault /\ results' = results /\ fence' = fence
    BY <1>2, <1>4, SaveEnds
<1>6. /\ resolved \in [Trackers -> {"free", "unknown", "done"}]
      /\ \A x \in Trackers : resolved[x] = "done" => fence[x] = "done"
      /\ \A x \in Trackers : fence[x] = "free" => resolved[x] = "free"
    BY <1>4 DEF TypeOK
<1> HIDE DEF resolved
<1>7. CASE wf' = w /\ vault' \subseteq vault \cup {} /\ results' = Reachable(w, results) /\ fence' = resolved
    <2>1. LedgerOK BY <1>4, <1>6, <1>7 DEF LedgerOK, StagesInv, TypeOK, ConfirmedOK
    <2>2. vault' \subseteq vault \cup Payloads BY <1>7
    <2>3. StagesInv' BY <1>3, <1>5, <1>7, <2>1, <2>2, FollowsKeeps
    <2>4. ReviewStep
        <3>1. landed' = landed /\ fence' = resolved BY <1>4, <1>7
        <3>2. \A x \in Trackers : fence[x] = "free" => fence'[x] = "free" BY <1>6, <3>1
        <3>3. Quiet BY <3>1, <3>2 DEF Quiet
        <3> QED BY <3>3, QuietReview
    <2>5. DoubtStep BY <1>3, <1>7, AskedDoubt
    <2> QED BY <2>3, <2>4, <2>5 DEF GoodStep
<1>8. CASE wf' = wf /\ vault' \subseteq vault /\ results' = results /\ fence' = fence
    <2>1. LedgerOK BY <1>4, <1>8, NothingSent
    <2>2. StagesInv' BY <1>5, <1>8, <2>1, FailureKeeps
    <2>3. ReviewStep BY <1>4, <1>8, QuietReview DEF Quiet
    <2>4. DoubtStep BY <1>8, AskedDoubt
    <2> QED BY <2>2, <2>3, <2>4 DEF GoodStep
<1> QED BY <1>5, <1>7, <1>8

\* The plan of a dry run is dropped.
LEMMA DryRunReconcileKeeps == ASSUME StagesInv, ReconcileDryRun PROVE GoodStep
<1>1. PICK a \in wf.actions :
        LET w == InvalidateUploadPlan([wf EXCEPT !.actions = wf.actions \ {a}])
        IN  Publish(Unblocked(InvalidateUnavailable(w, vault)), {}, vault, {"plan"})
    BY DEF ReconcileDryRun
<1> DEFINE w == Unblocked(InvalidateUnavailable(InvalidateUploadPlan([wf EXCEPT !.actions = wf.actions \ {a}]), vault))
<1>2. Publish(w, {}, vault, {"plan"}) BY <1>1
<1>3. Follows(w) BY DroppedFollows
<1> HIDE DEF w
<1>4. {} \in SUBSET Payloads /\ vault \in SUBSET vault OBVIOUS
<1> QED BY <1>2, <1>3, <1>4, PublishKeeps

\* Media and what follows them are dropped along with an action.
LEMMA MediaDroppedFallen ==
    ASSUME StagesInv, NEW a
    PROVE  Fallen(Unblocked(InvalidateUploadPlan(
               [wf EXCEPT !.media = None, !.desc = None, !.actions = wf.actions \ {a}])))
<1> DEFINE acts == wf.actions \ {a}
           x == [wf EXCEPT !.media = None, !.desc = None, !.actions = acts]
           y == InvalidateUploadPlan(x)
<1>1. wf \in Workflows /\ Chain(wf) BY DEF StagesInv, TypeOK
<1>2. acts \in SUBSET Actions BY <1>1 DEF Workflows
<1> HIDE DEF acts
<1>3. /\ x \in Workflows /\ x.release = wf.release /\ x.proj = wf.proj /\ x.dupes = wf.dupes
      /\ x.approval = wf.approval /\ x.media = None /\ x.desc = None
    BY <1>1, <1>2 DEF Workflows, OrNone
<1> HIDE DEF x
<1>4. Eligible(x) = Eligible(wf) BY <1>3 DEF Eligible
<1>5. Chain(x) BY <1>1, <1>3, <1>4 DEF Chain
<1>6. PlanDropped(y, x) BY <1>3, UploadPlanDropped
<1> HIDE DEF y
<1>7. Fallen(y) BY <1>3, <1>5, <1>6, ChainSame DEF PlanDropped, SameStages, Fallen
<1>8. Reasked(Unblocked(y), y, y.actions) BY <1>7, StatusUnblocked DEF Fallen
<1>9. Fallen(Unblocked(y)) BY <1>7, <1>8, ReaskedFallen
<1> QED BY <1>9 DEF y, x, acts

\* Media that are left unavailable take what follows them along.
LEMMA TrimmedFallen ==
    ASSUME NEW w, Fallen(w), NEW u, Trimmed(u, w) PROVE Fallen(u)
BY DEF Fallen, Trimmed, SameStages

\* resolveImageHostingAction.
LEMMA HostingKeeps == ASSUME StagesInv, ReconcileImageHosting PROVE GoodStep
<1> DEFINE a == Action("reconcileImage", None)
<1>0. wf \in Workflows /\ Chain(wf) /\ vault \in SUBSET vault BY DEF StagesInv, TypeOK
<1>1. CASE MediaMutable
    <2>1. PICK i \in NewId("media"), short \in Maybe("images") :
            LET new == {Resource("media", i)}
                w == PublishMedia(wf, NewMedia(wf, i, ~short, wf.media.failed, wf.media.skipped, FALSE))
            IN  Publish(InvalidateUnavailable(w, vault \cup new), new, vault, {"media", "desc", "plan"})
        BY <1>1 DEF ReconcileImageHosting
    <2> DEFINE enough == ~short
               no == FALSE
               new == {Resource("media", i)}
               n == NewMedia(wf, i, enough, wf.media.failed, wf.media.skipped, no)
               w == PublishMedia(wf, n)
               u == InvalidateUnavailable(w, vault \cup new)
    <2>2. Publish(u, new, vault, {"media", "desc", "plan"}) BY <2>1
    <2>3. enough \in BOOLEAN /\ no \in BOOLEAN OBVIOUS
    <2>4. wf.media # None /\ Resolved(wf) BY <1>1 DEF MediaMutable
    <2>5. wf.media.failed \in SUBSET Trackers /\ wf.media.skipped \in BOOLEAN BY <2>4, FailedType
    <2>6. i \in Ids BY NewIdIs
    <2>7. Resource("media", i) \in Payloads BY <2>6, ResourceType
    <2>8. new \in SUBSET Payloads BY <2>7
    <2> HIDE DEF enough, no, new
    <2>9. n \in MediaSets /\ Serves(n, wf) BY <1>0, <2>3, <2>4, <2>5, <2>6, NewMediaServes
    <2> HIDE DEF n
    <2>10. Fallen(w) BY <1>0, <2>4, <2>9, PublishedMedia
    <2> HIDE DEF w
    <2>11. Trimmed(u, w) BY <2>10, Trimming DEF Fallen
    <2> HIDE DEF u
    <2>12. Follows(u) BY <2>10, <2>11, TrimmedFallen, FallenFollows
    <2> QED BY <1>0, <2>2, <2>8, <2>12, PublishKeeps
<1>2. CASE ~MediaMutable
    <2> DEFINE w == Unblocked(InvalidateUploadPlan([wf EXCEPT !.media = None, !.desc = None, !.actions = wf.actions \ {a}]))
               u == InvalidateUnavailable(w, vault)
    <2>1. Publish(u, {}, vault, {"plan"}) BY <1>2 DEF ReconcileImageHosting
    <2>2. Fallen(w) BY MediaDroppedFallen
    <2> HIDE DEF w
    <2>3. Trimmed(u, w) BY <2>2, Trimming DEF Fallen
    <2> HIDE DEF u
    <2>4. Follows(u) BY <2>2, <2>3, TrimmedFallen, FallenFollows
    <2>5. {} \in SUBSET Payloads OBVIOUS
    <2> QED BY <1>0, <2>1, <2>4, <2>5, PublishKeeps
<1> QED BY <1>1, <1>2

\* resolveAction for the rest.
LEMMA ResolveKeeps == ASSUME StagesInv, ResolveAction PROVE GoodStep
<1>1. PICK a \in wf.actions : /\ a.kind \in {"input", "confirm", "review", "provide"}
                              /\ Publish(Unblocked([wf EXCEPT !.actions = wf.actions \ {a}]), {}, vault, {})
    BY DEF ResolveAction
<1> DEFINE w == Unblocked([wf EXCEPT !.actions = wf.actions \ {a}])
<1>2. Publish(w, {}, vault, {}) BY <1>1
<1>3. Follows(w) BY <1>1, AnsweredFollows
<1> HIDE DEF w
<1>4. {} \in SUBSET Payloads /\ vault \in SUBSET vault OBVIOUS
<1> QED BY <1>2, <1>3, <1>4, PublishKeeps

\* A workflow that starts or is canceled holds nothing.
LEMMA DraftFallen ==
    ASSUME NEW s \in {"draft", "active", "blocked", "completed", "canceled"}
    PROVE  Fallen([Draft EXCEPT !.status = s])
<1> DEFINE w == [Draft EXCEPT !.status = s]
<1>1. /\ w \in Workflows /\ w.release = None /\ w.proj = None /\ w.dupes = None /\ w.approval = None
      /\ w.media = None /\ w.desc = None /\ w.plan = None /\ w.result = None
    BY DEF Draft, Workflows, OrNone
<1> HIDE DEF w
<1>2. Fallen(w) BY <1>1, TrackersFallen
<1> QED BY <1>2 DEF w

\* cancel.
LEMMA CancelKeeps == ASSUME StagesInv, CancelWorkflow PROVE GoodStep
<1> DEFINE w == [Draft EXCEPT !.status = "canceled"]
<1>1. Publish(w, {}, {}, {}) BY DEF CancelWorkflow
<1>2. Follows(w) BY DraftFallen, FallenFollows
<1> HIDE DEF w
<1>3. {} \in SUBSET Payloads /\ {} \in SUBSET vault OBVIOUS
<1> QED BY <1>1, <1>2, <1>3, PublishKeeps

-----------------------------------------------------------------------------
(* Restart, recovery and the end of a time to live.                        *)

\* A restart loses the plans.
LEMMA RestartKeeps == ASSUME StagesInv, Restart PROVE GoodStep
<1>1. vault' \subseteq vault /\ UNCHANGED <<wf, results, fence, landed>> BY DEF Restart
<1>2. MaxFaults \in Nat /\ MaxLapses \in Nat BY StagesAssumption
<1>3. Outside
    <2>1. faults > 0 /\ faults' = faults - 1 /\ lapses' = lapses BY DEF Restart
    <2>2. faults \in 0 .. MaxFaults /\ lapses \in 0 .. MaxLapses BY DEF StagesInv, TypeOK
    <2>3. faults' \in 0 .. MaxFaults /\ lapses' \in 0 .. MaxLapses BY <1>2, <2>1, <2>2
    <2>4. live' \in BOOLEAN BY DEF Restart
    <2> QED BY <2>3, <2>4 DEF Outside
<1>4. StagesInv' BY <1>1, <1>3, NothingSent, FailureKeeps
<1>5. ReviewStep BY <1>1, QuietReview DEF Quiet
<1> QED BY <1>1, <1>4, <1>5, AskedDoubt DEF GoodStep

\* An operation goes on by itself.
LEMMA ResumeKeeps == ASSUME StagesInv, Resume PROVE GoodStep
<1>1. Outside BY DEF Resume, StagesInv, TypeOK, Outside
<1>2. StagesInv' BY <1>1, NothingSent, FailureKeeps DEF Resume
<1>3. ReviewStep BY QuietReview DEF Resume, Quiet
<1>4. wf' = wf BY DEF Resume
<1> QED BY <1>2, <1>3, <1>4, AskedDoubt DEF GoodStep

\* What recovery leaves follows.
LEMMA RecoveredFollows ==
    ASSUME StagesInv, NEW u, Trimmed(u, wf),
           NEW acts \in SUBSET Actions, acts \subseteq u.actions, u.result = None \/ AskedStill(acts)
    PROVE  Follows(SetStageStatus(u, acts))
<1>1. Follows(u) /\ u \in Workflows BY CurrentFollows, TrimmedFollows DEF Trimmed
<1>2. Reasked(SetStageStatus(u, acts), u, acts) BY <1>1, StatusSet
<1> QED BY <1>1, <1>2, LessAskedFollows

\* recoverAfterRestart.
LEMMA RecoverKeeps == ASSUME StagesInv, Recover PROVE GoodStep
<1> DEFINE u == InvalidateUnavailable(wf, vault)
           acts == {a \in u.actions : KeptAction(u, a)}
           w == IF NeedsRecovery THEN SetStageStatus(u, acts) ELSE wf
<1>1. wf' = w /\ UNCHANGED <<vault, results, fence, landed>> BY DEF Recover
<1>2. wf \in Workflows /\ Chain(wf) BY DEF StagesInv, TypeOK
<1>3. Trimmed(u, wf) BY <1>2, Trimming
<1>4. acts \subseteq u.actions
    <2> DEFINE K(a) == KeptAction(u, a)
    <2> HIDE DEF K
    <2>1. {a \in u.actions : K(a)} \subseteq u.actions OBVIOUS
    <2> QED BY <2>1 DEF K
<1>5. acts \in SUBSET Actions BY <1>3, <1>4 DEF Trimmed, Workflows
<1>6. u.result = None \/ AskedStill(acts)
    <2> SUFFICES ASSUME u.result # None, NEW t \in Trackers, Action("reconcile", t) \in wf.actions
                 PROVE  Action("reconcile", t) \in acts
        BY DEF AskedStill
    <2>1. Action("reconcile", t) \in u.actions BY <1>3 DEF Trimmed
    <2>2. Action("reconcile", t).kind = "reconcile" BY DEF Action
    <2> HIDE DEF u
    <2>3. KeptAction(u, Action("reconcile", t)) BY <2>2 DEF KeptAction, Reconciling
    <2> QED BY <2>1, <2>3
<1> HIDE DEF u, acts
<1>7. Follows(w) BY <1>3, <1>4, <1>5, <1>6, RecoveredFollows, CurrentFollows
<1> HIDE DEF w
<1>8. Outside BY DEF Recover, StagesInv, TypeOK, Outside
<1>9. vault' \subseteq vault \cup Payloads BY <1>1
<1>10. StagesInv' BY <1>1, <1>7, <1>8, <1>9, NothingSent, FollowsKeeps
<1>11. ReviewStep BY <1>1, QuietReview DEF Quiet
<1>12. DoubtStep BY <1>1, <1>7, AskedDoubt
<1> QED BY <1>10, <1>11, <1>12 DEF GoodStep

\* The time to live of a private resource or of a snapshot ends.
LEMMA LapseKeeps == ASSUME StagesInv, Lapse PROVE GoodStep
<1>0. UNCHANGED <<results, fence, landed>> /\ wf \in Workflows BY DEF Lapse, StagesInv, TypeOK
<1>1. Outside
    <2>1. MaxLapses \in Nat BY StagesAssumption
    <2> QED BY <2>1 DEF Lapse, StagesInv, TypeOK, Outside
<1>2. LedgerOK BY <1>0, NothingSent
<1>3. ReviewStep
    <2>1. landed' = landed /\ fence' = fence BY DEF Lapse
    <2> QED BY <2>1, QuietReview DEF Quiet
<1>4. CASE wf' = wf /\ vault' \subseteq vault
    <2>1. StagesInv' BY <1>0, <1>1, <1>2, <1>4, FailureKeeps
    <2> QED BY <1>3, <1>4, <2>1, AskedDoubt DEF GoodStep
<1>5. CASE /\ wf.preflight # None /\ wf' = [wf EXCEPT !.preflight.fresh = FALSE] /\ vault' = vault
    <2> DEFINE no == FALSE
               f == [wf.preflight EXCEPT !.fresh = no]
               w == [wf EXCEPT !.preflight = f]
    <2>1. wf' = w BY <1>0, <1>5 DEF Workflows
    <2>2. no \in BOOLEAN OBVIOUS
    <2> HIDE DEF no
    <2>3. wf.preflight \in Preflights BY <1>0, <1>5 DEF Workflows, OrNone
    <2>4. f \in Preflights BY <2>2, <2>3 DEF Preflights
    <2> HIDE DEF f
    <2>5. w \in Workflows /\ SameStages(w, wf) /\ w.plan = wf.plan /\ w.result = wf.result
          /\ w.actions = wf.actions
        BY <1>0, <2>4 DEF Workflows, OrNone, SameStages
    <2> HIDE DEF w
    <2>6. Follows(w) BY <2>5, ChainSame DEF Follows, StagesInv, AskedStill
    <2>7. vault' \subseteq vault \cup Payloads BY <1>5
    <2>8. StagesInv' BY <1>0, <1>1, <1>2, <2>1, <2>6, <2>7, FollowsKeeps
    <2> QED BY <1>3, <2>1, <2>6, <2>8, AskedDoubt DEF GoodStep
<1>6. CASE /\ wf.dupes # None /\ wf' = [wf EXCEPT !.dupes.fresh = FALSE] /\ vault' \subseteq vault
    <2> DEFINE no == FALSE
               d == [wf.dupes EXCEPT !.fresh = no]
               w == [wf EXCEPT !.dupes = d]
    <2>1. wf' = w BY <1>0, <1>6 DEF Workflows
    <2>2. no \in BOOLEAN OBVIOUS
    <2> HIDE DEF no
    <2>3. wf.dupes \in Assessments BY <1>0, <1>6 DEF Workflows, OrNone
    <2>4. d \in Assessments /\ d.id = wf.dupes.id /\ d.proj = wf.dupes.proj /\ d.dec = wf.dupes.dec
        <3> DEFINE D == UNION {[T -> Decisions] : T \in SUBSET Trackers}
        <3>1. Assessments = [id : Ids, proj : Ids, fresh : BOOLEAN, dec : D] BY DEF Assessments
        <3> HIDE DEF D
        <3> QED BY <2>2, <2>3, <3>1
    <2>5. d # None BY <2>4, AbsentAssumption
    <2> HIDE DEF d
    <2>6. /\ w \in Workflows /\ w.release = wf.release /\ w.proj = wf.proj /\ w.dupes = d
          /\ w.approval = wf.approval /\ w.media = wf.media /\ w.desc = wf.desc
          /\ w.plan = wf.plan /\ w.result = wf.result /\ w.actions = wf.actions
        BY <1>0, <2>4 DEF Workflows, OrNone
    <2> HIDE DEF w
    <2>7. Eligible(w) = Eligible(wf) BY <2>4, <2>6 DEF Eligible
    <2>8. Targets(w) = Targets(wf) BY <2>6, <2>7 DEF Targets
    <2>9. \A p : Matches(p, w) <=> Matches(p, wf) BY <1>6, <2>4, <2>5, <2>6 DEF Matches
    <2>10. Plans' \subseteq Plans BY <1>6 DEF Plans
    <2>11. TypeOK' BY <1>0, <1>1, <1>2, <1>6, <2>1, <2>6 DEF StagesInv, TypeOK, Outside, LedgerOK
    <2>12. Chain(w) BY <1>6, <2>4, <2>5, <2>6, <2>7, <2>8 DEF StagesInv, Chain
    <2>13. Chain(wf)' BY <2>1, <2>12
    <2>14. ResultOK' BY <1>0, <2>1, <2>6, <2>9 DEF StagesInv, ResultOK
    <2>15. PlansOK'
        <3>1. \A p \in Plans' : p \in Plans /\ (Matches(p, wf)' => Matches(p, wf)) BY <2>1, <2>9, <2>10
        <3>2. Targets(wf)' = Targets(wf) BY <2>1, <2>8
        <3> QED BY <3>1, <3>2 DEF StagesInv, PlansOK
    <2>16. PrepareOK' BY <2>1, <2>6, <2>10 DEF StagesInv, PrepareOK
    <2>17. ConfirmedOK' /\ ReportedWasSent' BY <1>0 DEF StagesInv, ConfirmedOK, ReportedWasSent
    <2>18. StagesInv' BY <2>11, <2>13, <2>14, <2>15, <2>16, <2>17 DEF StagesInv
    <2>19. DoubtStep BY <2>1, <2>6 DEF DoubtStep
    <2> QED BY <1>3, <2>18, <2>19 DEF GoodStep
<1> QED BY <1>4, <1>5, <1>6 DEF Lapse

-----------------------------------------------------------------------------
(* Plans.                                                                  *)

\* A plan is one of the reviewed plans.
LEMMA PlanType ==
    ASSUME TypeOK, NEW p \in Plans PROVE p \in UploadPlans /\ p \in vault /\ p.kind = "plan"
BY DEF TypeOK, Plans, Payloads, UploadPlans

\* What is saved by a command that publishes a plan.
LEMMA PlanSaved ==
    ASSUME StagesInv, NEW w \in Workflows, SameStages(w, wf), NEW i \in NewId("plan"), w.plan = i,
           w.result = wf.result, NEW plan \in UploadPlans, plan.id = i,
           plan.ready \subseteq plan.trackers, plan.asking \subseteq plan.trackers,
           Matches(plan, wf) => plan.trackers \subseteq Targets(wf),
           \A t \in Trackers : Action("prepare", t) \in w.actions => wf.result = None /\ t \in plan.asking,
           wf' = w, results' = Reachable(w, results), vault' \subseteq vault \cup {plan}, LedgerOK, Outside
    PROVE  StagesInv'
<1>0. TypeOK BY DEF StagesInv
<1>1. Plans' \subseteq Plans \cup {plan} BY DEF Plans
<1>2. results' \subseteq results BY DEF Reachable
<1>3. TypeOK' BY <1>0, <1>2 DEF TypeOK, LedgerOK, Outside
<1>4. Chain(wf)' BY ChainSame DEF StagesInv
<1>5. ResultOK'
    <2>1. CASE w.result = None BY <2>1 DEF ResultOK
    <2>2. CASE w.result # None
        <3>1. /\ \E r \in results : r.id = wf.result
              /\ \A r \in results : r.id = wf.result => Matches(r, wf)
            BY <2>2 DEF StagesInv, ResultOK
        <3>2. \E r \in results' : r.id = w.result BY <3>1 DEF Reachable
        <3>3. \A r \in results' : r.id = w.result => Matches(r, w) BY <1>2, <3>1, MatchesSame
        <3> QED BY <3>2, <3>3 DEF ResultOK
    <2> QED BY <2>1, <2>2
<1>6. PlansOK'
    <2>1. Targets(w) = Targets(wf) BY TargetsSame
    <2>2. \A p \in Plans' : /\ p.ready \subseteq p.trackers /\ p.asking \subseteq p.trackers
                            /\ Matches(p, w) => p.trackers \subseteq Targets(w)
        BY <1>1, <2>1, MatchesSame DEF StagesInv, PlansOK
    <2> QED BY <2>2 DEF PlansOK
<1>7. PrepareOK'
    <2>1. \A p \in Plans : p.id # i BY NewPlanId
    <2> QED BY <1>1, <2>1 DEF PrepareOK
<1>8. ConfirmedOK' /\ ReportedWasSent'
    <2>1. \A r \in results : DOMAIN r.out \in SUBSET Trackers BY <1>0 DEF TypeOK, Results
    <2> QED BY <1>2, <2>1 DEF StagesInv, ReportedWasSent, LedgerOK
<1> QED BY <1>3, <1>4, <1>5, <1>6, <1>7, <1>8 DEF StagesInv

\* A command that publishes a plan.
LEMMA PlanKeeps ==
    ASSUME StagesInv, NEW w \in Workflows, SameStages(w, wf), NEW i \in NewId("plan"), w.plan = i,
           w.result = wf.result, NEW plan \in UploadPlans, plan.id = i,
           plan.ready \subseteq plan.trackers, plan.asking \subseteq plan.trackers,
           Matches(plan, wf) => plan.trackers \subseteq Targets(wf),
           \A t \in Trackers : Action("prepare", t) \in w.actions => wf.result = None /\ t \in plan.asking,
           wf.result = None \/ w.actions = wf.actions,
           NEW keep \in SUBSET vault, NEW cleans, Publish(w, {plan}, keep, cleans)
    PROVE  GoodStep
<1>1. Save(w, {plan}, keep, cleans, results, fence, fence) /\ UNCHANGED <<landed, lapses>>
    BY DEF Publish
<1>2. TypeOK BY DEF StagesInv
<1>3. /\ Outside
      /\ \/ /\ wf' = w /\ vault' \subseteq keep \cup {plan} /\ results' = Reachable(w, results)
            /\ fence' = fence
         \/ wf' = wf /\ vault' \subseteq keep /\ results' = results /\ fence' = fence
    BY <1>1, <1>2, SaveEnds
<1>4. LedgerOK BY <1>1, <1>3, NothingSent
<1>5. ReviewStep BY <1>1, <1>3, QuietReview DEF Quiet
<1>6. CASE wf' = w /\ vault' \subseteq keep \cup {plan} /\ results' = Reachable(w, results)
    <2>1. vault' \subseteq vault \cup {plan} BY <1>6
    <2>2. StagesInv' BY <1>3, <1>4, <1>6, <2>1, PlanSaved
    <2>3. DoubtStep BY <1>6 DEF DoubtStep
    <2> QED BY <1>5, <2>2, <2>3 DEF GoodStep
<1>7. CASE wf' = wf /\ vault' \subseteq keep /\ results' = results
    <2>1. vault' \subseteq vault BY <1>7
    <2>2. StagesInv' BY <1>3, <1>4, <1>7, <2>1, FailureKeeps
    <2>3. DoubtStep BY <1>7, AskedDoubt
    <2> QED BY <1>5, <2>2, <2>3 DEF GoodStep
<1> QED BY <1>3, <1>6, <1>7

\* What can be prepared is current, and the trackers are among the targets.
LEMMA PreparedFacts ==
    ASSUME StagesInv, NEW trackers, CanPrepare(trackers)
    PROVE  /\ wf.proj \in Projections /\ wf.dupes \in Assessments /\ wf.media \in MediaSets
           /\ wf.desc \in Descriptions /\ Resolved(wf)
           /\ wf.proj # None /\ wf.dupes # None /\ wf.media # None /\ wf.desc # None
           /\ ApprovalRef(wf) = Id(wf.approval) /\ ApprovalRef(wf) \in OrNone(Ids)
           /\ trackers \subseteq Targets(wf) /\ Targets(wf) \in SUBSET Trackers
<1>1. wf \in Workflows /\ Chain(wf) BY DEF StagesInv, TypeOK
<1>2. Resolved(wf) /\ wf.proj # None /\ wf.dupes # None /\ wf.media # None /\ wf.desc # None
      /\ trackers \subseteq Targets(wf)
    BY DEF CanPrepare, ReadyToRender, UploadTargets
<1>3. /\ wf.proj \in Projections /\ wf.dupes \in Assessments /\ wf.media \in MediaSets
      /\ wf.desc \in Descriptions
    BY <1>1, <1>2 DEF Workflows, OrNone
<1> QED BY <1>1, <1>2, <1>3, ApprovalRefIs, ResolvedFacts

\* What a plan can be.
LEMMA PlansForFacts ==
    ASSUME NEW i, NEW trackers, NEW p \in PlansFor(i, trackers)
    PROVE  /\ p.kind = "plan" /\ p.id = i /\ p.proj = wf.proj.id /\ p.dupes = wf.dupes.id
           /\ p.approval = ApprovalRef(wf) /\ p.media = wf.media.id /\ p.desc = wf.desc.id
           /\ p.trackers = trackers /\ p.ready \subseteq trackers /\ p.asking \subseteq trackers
           /\ p.declined = {}
           /\ p = [kind |-> p.kind, id |-> p.id, proj |-> p.proj, dupes |-> p.dupes, approval |-> p.approval,
                   media |-> p.media, desc |-> p.desc, trackers |-> p.trackers, ready |-> p.ready,
                   asking |-> p.asking, declined |-> p.declined, doubt |-> {}]
<1> DEFINE made(ready, asking) ==
             [kind |-> "plan", id |-> i, proj |-> wf.proj.id, dupes |-> wf.dupes.id, approval |-> ApprovalRef(wf),
              media |-> wf.media.id, desc |-> wf.desc.id, trackers |-> trackers, ready |-> ready, asking |-> asking,
              declined |-> {}, doubt |-> {}]
           A == {{}} \cup (IF "prepare" \in Hitches THEN {{t} : t \in trackers} ELSE {})
<1>1. PlansFor(i, trackers) = {made(ready, asking) : ready \in SUBSET trackers, asking \in A}
    BY DEF PlansFor
<1>2. A \subseteq SUBSET trackers OBVIOUS
<1> HIDE DEF made, A
<1>3. PICK ready \in SUBSET trackers, asking \in A : p = made(ready, asking) BY <1>1
<1> QED BY <1>2, <1>3 DEF made

\* The actions of a plan.
LEMMA PlanActionsType ==
    ASSUME NEW plan, plan.asking \in SUBSET Trackers, plan.doubt \in SUBSET Trackers
    PROVE  /\ PlanActions(plan) \in SUBSET Actions
           /\ \A t \in Trackers : Action("prepare", t) \in PlanActions(plan) => t \in plan.asking
<1>1. \A t \in Trackers : Action("prepare", t) \in Actions /\ Action("reconcileDry", t) \in Actions
    BY ActionType DEF ActionKinds, OrNone
<1>2. PlanActions(plan) \in SUBSET Actions BY <1>1 DEF PlanActions
<1>3. ASSUME NEW t \in Trackers, Action("prepare", t) \in PlanActions(plan) PROVE t \in plan.asking
    <2>1. CASE Action("prepare", t) \in {Action("prepare", x) : x \in plan.asking}
        BY <2>1 DEF Action
    <2>2. CASE Action("prepare", t) \in {Action("reconcileDry", x) : x \in plan.doubt}
        BY <2>2 DEF Action
    <2> QED BY <1>3, <2>1, <2>2 DEF PlanActions
<1> QED BY <1>2, <1>3

\* A workflow gets another plan.
LEMMA PlanSet ==
    ASSUME NEW w \in Workflows, NEW i \in Ids
    PROVE  /\ [w EXCEPT !.plan = i] \in Workflows /\ SameStages([w EXCEPT !.plan = i], w)
           /\ [w EXCEPT !.plan = i].plan = i /\ [w EXCEPT !.plan = i].result = w.result
           /\ [w EXCEPT !.plan = i].actions = w.actions
BY DEF Workflows, OrNone, SameStages

\* dryRunUploads.
LEMMA DryRunKeeps == ASSUME StagesInv, DryRunUploads PROVE GoodStep
<1>0. TypeOK /\ wf \in Workflows BY DEF StagesInv, TypeOK
<1>1. PICK trackers \in (SUBSET Trackers) \ {{}}, i \in NewId("plan") :
        /\ CanPrepare(trackers)
        /\ \E p \in PlansFor(i, trackers), doubt \in {{}} \cup (IF "seedUnknown" \in Hitches THEN {{t} : t \in trackers} ELSE {}) :
            LET plan == [p EXCEPT !.doubt = doubt]
                w == [wf EXCEPT !.plan = i]
            IN  /\ WellFormedPlan(p) /\ doubt \subseteq p.ready
                /\ Publish(IF wf.result = None THEN SetStageStatus(w, PlanActions(plan)) ELSE w,
                           {plan}, vault \ {r \in Plans : r.id = wf.plan}, {})
    BY DEF DryRunUploads
<1>2. PICK p \in PlansFor(i, trackers), doubt \in {{}} \cup (IF "seedUnknown" \in Hitches THEN {{t} : t \in trackers} ELSE {}) :
        LET plan == [p EXCEPT !.doubt = doubt]
            w == [wf EXCEPT !.plan = i]
        IN  /\ WellFormedPlan(p) /\ doubt \subseteq p.ready
            /\ Publish(IF wf.result = None THEN SetStageStatus(w, PlanActions(plan)) ELSE w,
                       {plan}, vault \ {r \in Plans : r.id = wf.plan}, {})
    BY <1>1
<1> DEFINE plan == [p EXCEPT !.doubt = doubt]
           x == [wf EXCEPT !.plan = i]
           acts == PlanActions(plan)
           w == IF wf.result = None THEN SetStageStatus(x, acts) ELSE x
           keep == vault \ {r \in Plans : r.id = wf.plan}
<1>3. doubt \subseteq p.ready /\ Publish(w, {plan}, keep, {}) BY <1>2
<1>4. i \in Ids BY NewPlanId
<1>5. /\ wf.proj.id \in Ids /\ wf.dupes.id \in Ids /\ wf.media.id \in Ids /\ wf.desc.id \in Ids
      /\ ApprovalRef(wf) \in OrNone(Ids) /\ trackers \subseteq Targets(wf) /\ trackers \in SUBSET Trackers
    BY <1>1, PreparedFacts DEF Projections, Assessments, MediaSets, Descriptions
<1>6. /\ p.kind = "plan" /\ p.id = i /\ p.proj \in Ids /\ p.dupes \in Ids
      /\ p.approval \in OrNone(Ids) /\ p.media \in Ids /\ p.desc \in Ids
      /\ p.trackers = trackers /\ p.ready \subseteq trackers /\ p.asking \subseteq trackers
      /\ p.declined = {}
    BY <1>5, PlansForFacts
<1>7. plan = [kind |-> p.kind, id |-> p.id, proj |-> p.proj, dupes |-> p.dupes, approval |-> p.approval,
              media |-> p.media, desc |-> p.desc, trackers |-> p.trackers, ready |-> p.ready,
              asking |-> p.asking, declined |-> p.declined, doubt |-> doubt]
    <2>1. p = [kind |-> p.kind, id |-> p.id, proj |-> p.proj, dupes |-> p.dupes, approval |-> p.approval,
               media |-> p.media, desc |-> p.desc, trackers |-> p.trackers, ready |-> p.ready,
               asking |-> p.asking, declined |-> p.declined, doubt |-> {}]
        BY PlansForFacts
    <2> QED BY <2>1
<1>8. plan \in UploadPlans BY <1>3, <1>4, <1>5, <1>6, <1>7 DEF UploadPlans
<1>9. plan.id = i /\ plan.trackers = trackers /\ plan.ready \subseteq trackers /\ plan.asking \subseteq trackers
      /\ plan.doubt \subseteq trackers
    BY <1>3, <1>6, <1>7
<1> HIDE DEF plan
<1>10. acts \in SUBSET Actions /\ \A t \in Trackers : Action("prepare", t) \in acts => t \in plan.asking
    <2>1. plan.asking \in SUBSET Trackers /\ plan.doubt \in SUBSET Trackers BY <1>5, <1>9
    <2> QED BY <2>1, PlanActionsType
<1> HIDE DEF acts
<1>11. x \in Workflows /\ SameStages(x, wf) /\ x.plan = i /\ x.result = wf.result /\ x.actions = wf.actions
    BY <1>0, <1>4, PlanSet
<1> HIDE DEF x
<1>12. w \in Workflows /\ SameStages(w, wf) /\ w.plan = i /\ w.result = wf.result
       /\ (wf.result = None \/ w.actions = wf.actions)
       /\ \A t \in Trackers : Action("prepare", t) \in w.actions => wf.result = None /\ t \in plan.asking
    <2>1. CASE wf.result = None
        <3>1. Reasked(SetStageStatus(x, acts), x, acts) BY <1>10, <1>11, StatusSet
        <3>2. w = SetStageStatus(x, acts) BY <2>1
        <3> HIDE DEF w
        <3> QED BY <1>10, <1>11, <2>1, <3>1, <3>2 DEF Reasked, SameStages
    <2>2. CASE wf.result # None
        <3>1. \A t \in Trackers : Action("prepare", t) \notin wf.actions
            BY <2>2 DEF StagesInv, PrepareOK
        <3> QED BY <1>11, <2>2, <3>1
    <2> QED BY <2>1, <2>2
<1> HIDE DEF w
<1>13. keep \in SUBSET vault OBVIOUS
<1> HIDE DEF keep
<1> QED BY <1>3, <1>5, <1>8, <1>9, <1>12, <1>13, PlanKeeps

\* resolveTrackerPreparationAction: the decision is about a tracker of the plan.
LEMMA PreparationKeeps == ASSUME StagesInv, ResolveTrackerPreparation PROVE GoodStep
<1>0. TypeOK /\ wf \in Workflows BY DEF StagesInv, TypeOK
<1>1. PICK t \in Trackers, p \in Plans, i \in NewId("plan"), go \in BOOLEAN :
        /\ Action("prepare", t) \in wf.actions
        /\ wf.plan = p.id
        /\ LET plan == [p EXCEPT !.id = i, !.asking = p.asking \ {t},
                                 !.ready = IF go THEN p.ready \cup {t} ELSE p.ready,
                                 !.declined = IF go THEN p.declined ELSE p.declined \cup {t}]
           IN  Publish(SetStageStatus([wf EXCEPT !.plan = i], PlanActions(plan)), {plan}, vault \ {p}, {})
    BY DEF ResolveTrackerPreparation
<1> DEFINE asking == p.asking \ {t}
           ready == IF go THEN p.ready \cup {t} ELSE p.ready
           declined == IF go THEN p.declined ELSE p.declined \cup {t}
           plan == [p EXCEPT !.id = i, !.asking = asking, !.ready = ready, !.declined = declined]
           x == [wf EXCEPT !.plan = i]
           acts == PlanActions(plan)
           w == SetStageStatus(x, acts)
           keep == vault \ {p}
<1>2. Publish(w, {plan}, keep, {}) BY <1>1
<1>3. wf.result = None /\ t \in p.asking BY <1>1 DEF StagesInv, PrepareOK
<1>4. i \in Ids BY NewPlanId
<1>5. p \in UploadPlans BY <1>0, PlanType
<1>6. p.ready \subseteq p.trackers /\ p.asking \subseteq p.trackers
      /\ (Matches(p, wf) => p.trackers \subseteq Targets(wf))
    BY DEF StagesInv, PlansOK
<1>7. p.trackers \in SUBSET Trackers /\ p.declined \in SUBSET Trackers BY <1>5 DEF UploadPlans
<1>8. asking \subseteq p.trackers /\ ready \subseteq p.trackers /\ declined \in SUBSET Trackers
    BY <1>3, <1>6, <1>7
<1> HIDE DEF asking, ready, declined
<1>9. plan \in UploadPlans BY <1>4, <1>5, <1>7, <1>8 DEF UploadPlans
<1>10. /\ plan.id = i /\ plan.trackers = p.trackers /\ plan.ready = ready /\ plan.asking = asking
       /\ plan.proj = p.proj /\ plan.dupes = p.dupes /\ plan.approval = p.approval
       /\ plan.media = p.media /\ plan.desc = p.desc /\ plan.doubt = p.doubt
    BY <1>5 DEF UploadPlans
<1> HIDE DEF plan
<1>11. Matches(plan, wf) => plan.trackers \subseteq Targets(wf) BY <1>6, <1>10 DEF Matches
<1>12. acts \in SUBSET Actions /\ \A u \in Trackers : Action("prepare", u) \in acts => u \in plan.asking
    <2>1. plan.asking \in SUBSET Trackers /\ plan.doubt \in SUBSET Trackers
        BY <1>7, <1>8, <1>9, <1>10 DEF UploadPlans
    <2> QED BY <2>1, PlanActionsType
<1> HIDE DEF acts
<1>13. x \in Workflows /\ SameStages(x, wf) /\ x.plan = i /\ x.result = wf.result
    BY <1>0, <1>4, PlanSet
<1> HIDE DEF x
<1>14. Reasked(w, x, acts) BY <1>12, <1>13, StatusSet
<1> HIDE DEF w
<1>15. w \in Workflows /\ SameStages(w, wf) /\ w.plan = i /\ w.result = wf.result
       /\ \A u \in Trackers : Action("prepare", u) \in w.actions => wf.result = None /\ u \in plan.asking
    BY <1>3, <1>12, <1>13, <1>14 DEF Reasked, SameStages
<1>16. keep \in SUBSET vault OBVIOUS
<1> HIDE DEF keep
<1> QED BY <1>2, <1>3, <1>8, <1>9, <1>10, <1>11, <1>15, <1>16, PlanKeeps

-----------------------------------------------------------------------------
(* Results.                                                                *)

\* What is reported as submitted was submitted.
Reported(n) == \A t \in DOMAIN n.out : n.out[t] \in Submitted => landed'[t]

\* What is saved by a command that publishes a result.
LEMMA ResultSaved ==
    ASSUME StagesInv, NEW w \in Workflows, SameStages(w, wf), NEW i \in NewId("result"), w.result = i,
           \A t \in Trackers : Action("prepare", t) \notin w.actions,
           NEW n \in Results, n.id = i, Matches(n, wf), Reported(n),
           wf' = w, results' = Reachable(w, results \cup {n}), vault' \subseteq vault \cup Payloads,
           LedgerOK, Outside
    PROVE  StagesInv'
<1>0. TypeOK BY DEF StagesInv
<1>1. Plans' \subseteq Plans BY DEF Plans, Payloads
<1>2. results' \subseteq results \cup {n} BY DEF Reachable
<1>3. TypeOK' BY <1>0, <1>2 DEF TypeOK, LedgerOK, Outside
<1>4. Chain(wf)' BY ChainSame DEF StagesInv
<1>5. ResultOK'
    <2>1. \A r \in results : r.id # i BY NewResultId
    <2>2. n \in results' BY DEF Reachable
    <2>3. Matches(n, w) BY MatchesSame
    <2>4. \E r \in results' : r.id = w.result BY <2>2
    <2>5. \A r \in results' : r.id = w.result => Matches(r, w) BY <1>2, <2>1, <2>3
    <2> QED BY <2>4, <2>5 DEF ResultOK
<1>6. PlansOK' BY <1>0, <1>1, PlansKept DEF StagesInv
<1>7. PrepareOK' BY DEF PrepareOK
<1>8. ConfirmedOK' /\ ReportedWasSent'
    <2>1. \A r \in results : DOMAIN r.out \in SUBSET Trackers BY <1>0 DEF TypeOK, Results
    <2>2. \A r \in results : Reported(r) BY <2>1 DEF StagesInv, ReportedWasSent, LedgerOK, Reported
    <2>3. \A r \in results' : Reported(r) BY <1>2, <2>2
    <2> QED BY <2>3 DEF ReportedWasSent, Reported, LedgerOK
<1> QED BY <1>3, <1>4, <1>5, <1>6, <1>7, <1>8 DEF StagesInv

\* What matches names snapshots.
LEMMA MatchesType ==
    ASSUME NEW p, NEW w \in Workflows, Matches(p, w)
    PROVE  p.proj \in Ids /\ p.dupes \in Ids /\ p.approval \in OrNone(Ids) /\ p.media \in Ids /\ p.desc \in Ids
<1>1. /\ w.proj \in Projections /\ w.dupes \in Assessments /\ w.media \in MediaSets
      /\ w.desc \in Descriptions /\ w.approval \in OrNone(Approvals)
    BY DEF Matches, Workflows, OrNone
<1>2. w.proj.id \in Ids /\ w.dupes.id \in Ids /\ w.media.id \in Ids /\ w.desc.id \in Ids
    BY <1>1 DEF Projections, Assessments, MediaSets, Descriptions
<1>3. Id(w.approval) \in OrNone(Ids) BY <1>1 DEF Id, Field, OrNone, Approvals
<1> QED BY <1>2, <1>3 DEF Matches

\* The actions of a result; none asks for a decision on a preparation.
LEMMA ResultActionsType ==
    ASSUME NEW T \in SUBSET Trackers, NEW out \in [T -> Outcomes]
    PROVE  /\ ResultActions(out) \in SUBSET Actions
           /\ \A t \in Trackers : Action("prepare", t) \notin ResultActions(out)
<1> DEFINE U == {x \in DOMAIN out : out[x] = "unknown"}
           D == {x \in DOMAIN out : out[x] = "doubtful"}
<1>1. U \in SUBSET Trackers /\ D \in SUBSET Trackers OBVIOUS
<1>2. ResultActions(out) = {Action("reconcile", t) : t \in U} \cup {Action("reconcileClient", t) : t \in D}
    BY DEF ResultActions
<1>3. \A t \in Trackers : Action("reconcile", t) \in Actions /\ Action("reconcileClient", t) \in Actions
    BY ActionType DEF ActionKinds, OrNone
<1> HIDE DEF U, D
<1>4. ResultActions(out) \in SUBSET Actions BY <1>1, <1>2, <1>3
<1>5. \A t \in Trackers : Action("prepare", t) \notin ResultActions(out)
    <2> SUFFICES ASSUME NEW t \in Trackers, Action("prepare", t) \in ResultActions(out) PROVE FALSE
        OBVIOUS
    <2>1. \E x \in U \cup D : Action("prepare", t) = Action("reconcile", x)
                              \/ Action("prepare", t) = Action("reconcileClient", x)
        BY <1>2
    <2> QED BY <2>1 DEF Action
<1> QED BY <1>4, <1>5

\* u is w with another result and other actions.
Resulted(u, w, i, acts) == u \in Workflows /\ SameStages(u, w) /\ u.result = i /\ u.actions = acts

\* A workflow gets a result.
LEMMA ResultSet ==
    ASSUME NEW w \in Workflows, NEW i \in Ids, NEW acts \in SUBSET Actions,
           NEW s \in {"draft", "active", "blocked", "completed", "canceled"}
    PROVE  Resulted([w EXCEPT !.result = i, !.actions = acts, !.status = s], w, i, acts)
<1> DEFINE u == [w EXCEPT !.result = i, !.actions = acts, !.status = s]
<1>1. u \in Workflows
    <2>1. i \in OrNone(Ids) BY DEF OrNone
    <2> QED BY <2>1 DEF Workflows
<1>2. SameStages(u, w) /\ u.result = i /\ u.actions = acts BY DEF Workflows, SameStages
<1> QED BY <1>1, <1>2 DEF Resulted

\* The ledger after a submission.
LEMMA SentLedger ==
    ASSUME StagesInv, NEW out, NEW sent, NEW arrived \in BOOLEAN,
           fence' = FenceAfter(out, sent), landed' = LandedAfter(out, sent, arrived)
    PROVE  LedgerOK
<1>1. fence \in [Trackers -> {"free", "unknown", "done"}] /\ landed \in [Trackers -> BOOLEAN] /\ ConfirmedOK
    BY DEF StagesInv, TypeOK
<1> DEFINE F(t) == IF t \notin sent \/ fence[t] # "free" THEN fence[t]
                   ELSE IF out[t] \in Submitted THEN "done"
                   ELSE IF out[t] = "unknown" THEN "unknown" ELSE "free"
           L(t) == landed[t] \/ (t \in sent /\ fence[t] = "free"
                                  /\ (out[t] \in Submitted \/ (out[t] = "unknown" /\ arrived)))
<1>2. fence' = [t \in Trackers |-> F(t)] /\ landed' = [t \in Trackers |-> L(t)]
    BY DEF FenceAfter, LandedAfter
<1>3. ASSUME NEW t \in Trackers
      PROVE  /\ F(t) \in {"free", "unknown", "done"} /\ L(t) \in BOOLEAN
             /\ landed[t] => L(t)
             /\ F(t) = "done" => L(t)
    <2>1. fence[t] \in {"free", "unknown", "done"} /\ landed[t] \in BOOLEAN /\ (fence[t] = "done" => landed[t])
        BY <1>1 DEF ConfirmedOK
    <2>2. F(t) \in {"free", "unknown", "done"} BY <2>1
    <2>3. L(t) \in BOOLEAN /\ (landed[t] => L(t)) BY <2>1
    <2>4. F(t) = "done" => L(t)
        <3>1. CASE t \notin sent \/ fence[t] # "free" BY <2>1, <3>1
        <3>2. CASE t \in sent /\ fence[t] = "free" BY <3>2
        <3> QED BY <3>1, <3>2
    <2> QED BY <2>2, <2>3, <2>4
<1> HIDE DEF F, L
<1> QED BY <1>2, <1>3 DEF LedgerOK, ConfirmedOK

\* Outcomes that can be answered for by what is sent.
Covered(out, sent) ==
    \A t \in DOMAIN out : out[t] \in Submitted => landed[t] \/ (t \in sent /\ fence[t] = "free")

\* A new result is another one.
LEMMA NewResultDoubt ==
    ASSUME StagesInv, NEW i \in NewId("result"), wf'.result = i PROVE DoubtStep
<1>1. wf.result # None => wf.result # i BY NewResultId DEF StagesInv, ResultOK
<1> QED BY <1>1 DEF DoubtStep

\* A tracker that may go on with what matches was reviewed.
LEMMA TargetsReviewed ==
    ASSUME Chain(wf), NEW p, Matches(p, wf), NEW t \in Targets(wf) PROVE Reviewed(t)
<1>1. wf.dupes # None /\ wf.media # None BY DEF Matches
<1>2. CASE Mode = "gate"
    <2>1. /\ wf.approval # None /\ wf.approval.dupes = wf.dupes.id
          /\ t \in wf.approval.approved /\ t \in Eligible(wf)
        BY <1>1, <1>2 DEF Chain, Targets
    <2> QED BY <1>1, <2>1 DEF Reviewed, Eligible
<1>3. CASE Mode # "gate" BY <1>1, <1>3 DEF Reviewed, Targets, Eligible
<1> QED BY <1>2, <1>3

\* Only the trackers that are sent to are reached.
LEMMA SentReached ==
    ASSUME TypeOK, NEW out, NEW sent, NEW arrived \in BOOLEAN, NEW t \in Trackers, Sends(t),
           fence' = FenceAfter(out, sent), landed' = LandedAfter(out, sent, arrived)
    PROVE  t \in sent
<1> SUFFICES ASSUME t \notin sent PROVE FALSE OBVIOUS
<1>1. fence'[t] = fence[t] BY DEF FenceAfter
<1>2. landed'[t] = landed[t] BY DEF LandedAfter, TypeOK
<1> QED BY <1>1, <1>2 DEF Sends

\* A command that publishes a result.
LEMMA ResultKeeps ==
    ASSUME StagesInv, NEW p, Matches(p, wf), NEW T \in SUBSET Trackers, NEW out \in [T -> Outcomes],
           NEW sent \in SUBSET Targets(wf), Covered(out, sent), NEW keep \in SUBSET vault, PublishResult(p, out, sent, keep)
    PROVE  GoodStep
<1>0. TypeOK /\ wf \in Workflows BY DEF StagesInv, TypeOK
<1>1. PICK i \in NewId("result"), arrived \in BOOLEAN :
        /\ Save(WithResult(wf, i, out), Artifacts(i, out), keep, {},
                results \cup {NewResult(p, i, out)}, FenceAfter(out, sent), FenceAfter(out, sent))
        /\ landed' = LandedAfter(out, sent, arrived)
    BY DEF PublishResult
<1> DEFINE w == WithResult(wf, i, out)
           n == NewResult(p, i, out)
           acts == ResultActions(out)
           s == IF acts = {} THEN "completed" ELSE "blocked"
           u == [wf EXCEPT !.result = i, !.actions = acts, !.status = s]
           artifacts == Artifacts(i, out)
           after == FenceAfter(out, sent)
<1>2. Save(w, artifacts, keep, {}, results \cup {n}, after, after) BY <1>1
<1>3. UNCHANGED lapses BY DEF PublishResult
<1>4. i \in Ids BY NewResultId
<1>5. n \in Results
    <2> DEFINE O == UNION {[S -> Outcomes] : S \in SUBSET Trackers}
    <2>1. out \in O OBVIOUS
    <2>2. Results = [id : Ids, proj : Ids, dupes : Ids, approval : OrNone(Ids), media : Ids, desc : Ids, out : O]
        BY DEF Results
    <2>3. p.proj \in Ids /\ p.dupes \in Ids /\ p.approval \in OrNone(Ids) /\ p.media \in Ids /\ p.desc \in Ids
        BY <1>0, MatchesType
    <2> HIDE DEF O
    <2> QED BY <1>4, <2>1, <2>2, <2>3 DEF NewResult
<1>6. n.id = i /\ n.out = out /\ Matches(n, wf) BY DEF NewResult, Matches
<1>7. acts \in SUBSET Actions /\ \A t \in Trackers : Action("prepare", t) \notin acts
    BY ResultActionsType
<1>8. w = u BY DEF WithResult
<1>9. s \in {"draft", "active", "blocked", "completed", "canceled"} OBVIOUS
<1>10. artifacts \in SUBSET Payloads
    <2>1. Resource("authority", i) \in Payloads BY <1>4, ResourceType
    <2> QED BY <2>1 DEF Artifacts
<1> HIDE DEF w, acts, s, n, artifacts, after
<1>11. w \in Workflows /\ SameStages(w, wf) /\ w.result = i /\ w.actions = acts
    <2>1. Resulted(u, wf, i, acts) BY <1>0, <1>4, <1>7, <1>9, ResultSet
    <2> QED BY <1>8, <2>1 DEF Resulted
<1> HIDE DEF u
<1>12. /\ Outside
       /\ \/ /\ wf' = w /\ vault' \subseteq keep \cup artifacts /\ results' = Reachable(w, results \cup {n})
             /\ fence' = after
          \/ wf' = wf /\ vault' \subseteq keep /\ results' = results /\ fence' = after
    BY <1>0, <1>2, <1>3, SaveEnds
<1>13. LedgerOK BY <1>1, <1>12, SentLedger DEF after
<1>14. Reported(n)
    <2>1. ASSUME NEW t \in DOMAIN out, out[t] \in Submitted PROVE landed'[t]
        <3>1. t \in Trackers OBVIOUS
        <3>2. landed[t] \/ (t \in sent /\ fence[t] = "free") BY <2>1 DEF Covered
        <3> QED BY <1>1, <2>1, <3>1, <3>2 DEF LandedAfter
    <2> QED BY <1>6, <2>1 DEF Reported
<1>15. ReviewStep
    <2> SUFFICES ASSUME NEW t \in Trackers, Sends(t) PROVE Reviewed(t) BY DEF ReviewStep
    <2>1. t \in Targets(wf) BY <1>0, <1>1, <1>12, SentReached DEF after
    <2> QED BY <2>1, TargetsReviewed DEF StagesInv
<1>16. CASE wf' = w /\ vault' \subseteq keep \cup artifacts /\ results' = Reachable(w, results \cup {n})
    <2>1. vault' \subseteq vault \cup Payloads BY <1>10, <1>16
    <2>2. StagesInv' BY <1>5, <1>6, <1>7, <1>11, <1>12, <1>13, <1>14, <1>16, <2>1, ResultSaved
    <2>3. DoubtStep BY <1>11, <1>16, NewResultDoubt
    <2> QED BY <1>15, <2>2, <2>3 DEF GoodStep
<1>17. CASE wf' = wf /\ vault' \subseteq keep /\ results' = results
    <2>1. vault' \subseteq vault BY <1>17
    <2>2. StagesInv' BY <1>12, <1>13, <1>17, <2>1, FailureKeeps
    <2>3. DoubtStep BY <1>17, AskedDoubt
    <2> QED BY <1>15, <2>2, <2>3 DEF GoodStep
<1> QED BY <1>12, <1>16, <1>17

\* An answer that reports a submission is covered.
LEMMA AnswerCovered ==
    ASSUME StagesInv, NEW t \in Trackers, NEW o, CanAnswer(t, o), o \in Submitted
    PROVE  landed[t] \/ fence[t] = "free"
<1>1. fence[t] \in {"free", "unknown", "done"} /\ (fence[t] = "done" => landed[t])
    BY DEF StagesInv, TypeOK, ConfirmedOK
<1> QED BY <1>1 DEF CanAnswer, Submitted

\* The outcomes of a plan are covered by the selected trackers.
LEMMA OutcomesCovered ==
    ASSUME StagesInv, NEW p, p.trackers \in SUBSET Trackers, NEW selected, NEW out \in OutcomesOf(p, selected)
    PROVE  out \in [p.trackers -> Outcomes] /\ Covered(out, selected)
<1>1. out \in [p.trackers -> Outcomes] BY DEF OutcomesOf
<1>2. ASSUME NEW t \in DOMAIN out, out[t] \in Submitted
      PROVE  landed[t] \/ (t \in selected /\ fence[t] = "free")
    <2>1. t \in p.trackers /\ t \in Trackers BY <1>1
    <2>2. t \in selected /\ CanAnswer(t, out[t]) BY <1>2, <2>1 DEF OutcomesOf, Submitted
    <2> QED BY <1>2, <2>1, <2>2, AnswerCovered
<1> QED BY <1>1, <1>2 DEF Covered

\* executeUploads with a reviewed plan.
LEMMA ReviewedKeeps == ASSUME StagesInv, ExecuteReviewed PROVE GoodStep
<1>0. TypeOK BY DEF StagesInv
<1>1. PICK p \in Plans, selected \in SUBSET Trackers :
        IF /\ Matches(p, wf)
           /\ selected \subseteq p.ready
           /\ selected = {} => p.declined = p.trackers
        THEN \E out \in OutcomesOf(p, selected) : PublishResult(p, out, selected, vault \ {p})
        ELSE /\ vault' = vault \ {p}
             /\ UNCHANGED <<wf, results, fence, landed, live, faults, lapses>>
    BY DEF ExecuteReviewed
<1>2. CASE /\ Matches(p, wf) /\ selected \subseteq p.ready
           /\ \E out \in OutcomesOf(p, selected) : PublishResult(p, out, selected, vault \ {p})
    <2>1. PICK out \in OutcomesOf(p, selected) : PublishResult(p, out, selected, vault \ {p}) BY <1>2
    <2> DEFINE T == p.trackers
               keep == vault \ {p}
    <2>2. T \in SUBSET Trackers BY <1>0, PlanType DEF UploadPlans
    <2>3. out \in [T -> Outcomes] /\ Covered(out, selected) BY <2>2, OutcomesCovered
    <2>4. keep \in SUBSET vault /\ PublishResult(p, out, selected, keep) BY <2>1
    <2>5. selected \in SUBSET Targets(wf) BY <1>2 DEF StagesInv, PlansOK
    <2> HIDE DEF T, keep
    <2> QED BY <1>2, <2>2, <2>3, <2>4, <2>5, ResultKeeps
<1>3. CASE vault' = vault \ {p} /\ UNCHANGED <<wf, results, fence, landed, live, faults, lapses>>
    <2>1. Outside BY <1>0, <1>3 DEF TypeOK, Outside
    <2>2. vault' \subseteq vault BY <1>3
    <2>3. StagesInv' BY <1>3, <2>1, <2>2, NothingSent, FailureKeeps
    <2>4. ReviewStep BY <1>3, QuietReview DEF Quiet
    <2>5. DoubtStep BY <1>3, AskedDoubt
    <2> QED BY <2>3, <2>4, <2>5 DEF GoodStep
<1> QED BY <1>1, <1>2, <1>3

\* A plan that is made on the spot is one of the current snapshots.
LEMMA DirectMatches ==
    ASSUME StagesInv, NEW trackers, CanPrepare(trackers), NEW p \in PlansFor(None, trackers)
    PROVE  Matches(p, wf)
BY PreparedFacts, PlansForFacts DEF Matches

\* executeUploads without a reviewed plan.
LEMMA DirectKeeps == ASSUME StagesInv, ExecuteDirect PROVE GoodStep
<1>1. PICK selected \in (SUBSET Trackers) \ {{}} :
        /\ CanPrepare(selected)
        /\ \E p \in PlansFor(None, selected) :
            /\ p.asking = {} /\ p.ready # {}
            /\ \E out \in OutcomesOf(p, p.ready) : PublishResult(p, out, p.ready, vault)
    BY DEF ExecuteDirect
<1>2. PICK p \in PlansFor(None, selected) :
        \E out \in OutcomesOf(p, p.ready) : PublishResult(p, out, p.ready, vault)
    BY <1>1
<1>3. PICK out \in OutcomesOf(p, p.ready) : PublishResult(p, out, p.ready, vault) BY <1>2
<1> DEFINE T == p.trackers
           sent == p.ready
<1>4. T \in SUBSET Trackers BY PlansForFacts
<1>5. out \in [T -> Outcomes] /\ Covered(out, sent) BY <1>4, OutcomesCovered
<1>6. Matches(p, wf) BY <1>1, DirectMatches
<1>7. vault \in SUBSET vault /\ PublishResult(p, out, sent, vault) BY <1>3
<1>8. sent \in SUBSET Targets(wf)
    <2>1. selected \subseteq Targets(wf) BY <1>1, PreparedFacts
    <2> QED BY <2>1, PlansForFacts
<1> HIDE DEF T, sent
<1> QED BY <1>4, <1>5, <1>6, <1>7, <1>8, ResultKeeps

\* The outcomes of a result with those of some trackers in place of its own.
Merged(r, out, trackers) == [t \in DOMAIN r.out |-> IF t \in trackers THEN out[t] ELSE r.out[t]]

\* What is merged into a result is covered if the new outcomes are.
LEMMA MergedCovered ==
    ASSUME StagesInv, NEW r \in results, NEW trackers, NEW out \in [trackers -> Outcomes], NEW sent,
           \A t \in trackers : t \in DOMAIN r.out
                /\ (out[t] \in Submitted => landed[t] \/ (t \in sent /\ fence[t] = "free"))
    PROVE  /\ DOMAIN r.out \in SUBSET Trackers
           /\ Merged(r, out, trackers) \in [DOMAIN r.out -> Outcomes]
           /\ Covered(Merged(r, out, trackers), sent)
<1>1. r \in Results BY DEF StagesInv, TypeOK
<1>2. DOMAIN r.out \in SUBSET Trackers /\ \A t \in DOMAIN r.out : r.out[t] \in Outcomes
    BY <1>1 DEF Results
<1> DEFINE D == DOMAIN r.out
           m == Merged(r, out, trackers)
           M(t) == IF t \in trackers THEN out[t] ELSE r.out[t]
<1>3. m = [t \in D |-> M(t)] BY DEF Merged
<1>4. ASSUME NEW t \in D
      PROVE  M(t) \in Outcomes /\ (M(t) \in Submitted => landed[t] \/ (t \in sent /\ fence[t] = "free"))
    <2>1. CASE t \in trackers BY <2>1
    <2>2. CASE t \notin trackers BY <1>2, <2>2 DEF StagesInv, ReportedWasSent
    <2> QED BY <2>1, <2>2
<1> HIDE DEF M, m
<1>5. m \in [D -> Outcomes] BY <1>3, <1>4
<1>6. Covered(m, sent) BY <1>3, <1>4 DEF Covered
<1> QED BY <1>2, <1>5, <1>6 DEF m

\* retryFailedUploads.
LEMMA RetryKeeps == ASSUME StagesInv, RetryFailedUploads PROVE GoodStep
<1>1. PICK r \in results, trackers \in (SUBSET Trackers) \ {{}} :
        /\ Matches(r, wf)
        /\ \A t \in trackers : t \in DOMAIN r.out /\ r.out[t] = "failed"
        /\ CanPrepare(trackers)
        /\ \E out \in [trackers -> Outcomes] :
            /\ \A t \in trackers : CanAnswer(t, out[t]) \/ out[t] = "failed"
            /\ PublishResult(r, [t \in DOMAIN r.out |-> IF t \in trackers THEN out[t] ELSE r.out[t]],
                             trackers, vault)
    BY DEF RetryFailedUploads
<1>2. PICK out \in [trackers -> Outcomes] :
        /\ \A t \in trackers : CanAnswer(t, out[t]) \/ out[t] = "failed"
        /\ PublishResult(r, [t \in DOMAIN r.out |-> IF t \in trackers THEN out[t] ELSE r.out[t]],
                         trackers, vault)
    BY <1>1
<1> DEFINE m == Merged(r, out, trackers)
           T == DOMAIN r.out
<1>3. PublishResult(r, m, trackers, vault) BY <1>2 DEF Merged
<1>4. ASSUME NEW t \in trackers
      PROVE  t \in DOMAIN r.out /\ (out[t] \in Submitted => landed[t] \/ (t \in trackers /\ fence[t] = "free"))
    <2>1. t \in Trackers /\ (CanAnswer(t, out[t]) \/ out[t] = "failed") BY <1>2
    <2>2. out[t] \in Submitted => CanAnswer(t, out[t]) BY <2>1 DEF Submitted
    <2> QED BY <1>1, <2>1, <2>2, AnswerCovered
<1>5. T \in SUBSET Trackers /\ m \in [T -> Outcomes] /\ Covered(m, trackers) BY <1>4, MergedCovered
<1>6. vault \in SUBSET vault OBVIOUS
<1>7. trackers \in SUBSET Targets(wf) BY <1>1, PreparedFacts
<1> HIDE DEF m, T
<1> QED BY <1>1, <1>3, <1>5, <1>6, <1>7, ResultKeeps

\* retryClientInjections: what is retried was submitted.
LEMMA InjectionsKeep == ASSUME StagesInv, RetryClientInjections PROVE GoodStep
<1>1. PICK r \in results, trackers \in (SUBSET Trackers) \ {{}} :
        /\ Matches(r, wf)
        /\ \A t \in trackers : t \in DOMAIN r.out /\ r.out[t] = "partial"
        /\ \E out \in [trackers -> Submitted \cap Answers] :
            PublishResult(r, [t \in DOMAIN r.out |-> IF t \in trackers THEN out[t] ELSE r.out[t]], {}, vault)
    BY DEF RetryClientInjections
<1>2. PICK out \in [trackers -> Submitted \cap Answers] :
        PublishResult(r, [t \in DOMAIN r.out |-> IF t \in trackers THEN out[t] ELSE r.out[t]], {}, vault)
    BY <1>1
<1> DEFINE m == Merged(r, out, trackers)
           T == DOMAIN r.out
           none == {}
<1>3. PublishResult(r, m, none, vault) BY <1>2 DEF Merged
<1>4. ASSUME NEW t \in trackers
      PROVE  t \in DOMAIN r.out /\ (out[t] \in Submitted => landed[t] \/ (t \in none /\ fence[t] = "free"))
    <2>1. t \in DOMAIN r.out /\ r.out[t] \in Submitted BY <1>1 DEF Submitted
    <2> QED BY <2>1 DEF StagesInv, ReportedWasSent
<1>5. out \in [trackers -> Outcomes] BY DEF Outcomes
<1>6. none \in SUBSET Targets(wf) OBVIOUS
<1> HIDE DEF none
<1>7. T \in SUBSET Trackers /\ m \in [T -> Outcomes] /\ Covered(m, none) BY <1>4, <1>5, MergedCovered
<1>8. vault \in SUBSET vault OBVIOUS
<1> HIDE DEF m, T
<1> QED BY <1>1, <1>3, <1>6, <1>7, <1>8, ResultKeeps

\* Uploads.
LEMMA UploadKeeps == ASSUME StagesInv, UploadStep PROVE GoodStep
BY DryRunKeeps, PreparationKeeps, ReviewedKeeps, DirectKeeps, RetryKeeps, InjectionsKeep DEF UploadStep

\* n is r under a new id, as true as r.
Republished(n, r, i) ==
    n \in Results /\ n.id = i /\ Reported(n) /\ (Matches(r, wf) => Matches(n, wf))

\* A result that is published again with another outcome of one tracker.
LEMMA OutcomeReplaced ==
    ASSUME StagesInv, NEW r \in results, NEW i \in Ids, NEW t \in DOMAIN r.out, NEW o \in Submitted,
           r.out[t] \in Submitted, landed' = landed
    PROVE  Republished([r EXCEPT !.id = i, !.out[t] = o], r, i)
<1>1. r \in Results BY DEF StagesInv, TypeOK
<1>2. DOMAIN r.out \in SUBSET Trackers /\ \A x \in DOMAIN r.out : r.out[x] \in Outcomes
    BY <1>1 DEF Results
<1>3. r.out \in [DOMAIN r.out -> Outcomes] BY <1>1, <1>2 DEF Results
<1> DEFINE O == UNION {[S -> Outcomes] : S \in SUBSET Trackers}
           D == DOMAIN r.out
           out == [r.out EXCEPT ![t] = o]
           n == [r EXCEPT !.id = i, !.out = out]
<1>4. out \in [D -> Outcomes] /\ \A x \in D : out[x] = IF x = t THEN o ELSE r.out[x]
    BY <1>3 DEF Outcomes
<1>5. out \in O BY <1>2, <1>4
<1>6. Results = [id : Ids, proj : Ids, dupes : Ids, approval : OrNone(Ids), media : Ids, desc : Ids, out : O]
    BY DEF Results
<1>7. [r EXCEPT !.id = i, !.out[t] = o] = n BY <1>1 DEF Results
<1>8. landed[t] BY <1>2 DEF StagesInv, ReportedWasSent
<1> HIDE DEF O, out
<1>9. n \in Results /\ n.id = i /\ n.out = out /\ n.proj = r.proj /\ n.dupes = r.dupes
      /\ n.approval = r.approval /\ n.media = r.media /\ n.desc = r.desc
    BY <1>1, <1>5, <1>6
<1> HIDE DEF n
<1>10. Reported(n)
    <2>1. DOMAIN out = D BY <1>4
    <2>2. ASSUME NEW x \in D, out[x] \in Submitted PROVE landed[x]
        <3>1. CASE x = t BY <1>8, <3>1
        <3>2. CASE x # t
            <4>1. r.out[x] \in Submitted BY <1>4, <2>2, <3>2
            <4> QED BY <4>1 DEF StagesInv, ReportedWasSent
        <3> QED BY <3>1, <3>2
    <2> HIDE DEF D
    <2> QED BY <1>9, <2>1, <2>2 DEF Reported
<1>11. Matches(r, wf) => Matches(n, wf) BY <1>9 DEF Matches
<1>12. Republished(n, r, i) BY <1>9, <1>10, <1>11 DEF Republished
<1> QED BY <1>7, <1>12

\* reconcileClientInjectionResult: the result is published again.
LEMMA ClientKeeps == ASSUME StagesInv, ReconcileClient PROVE GoodStep
<1>0. TypeOK /\ wf \in Workflows BY DEF StagesInv, TypeOK
<1>1. PICK t \in Trackers, r \in results :
        /\ Action("reconcileClient", t) \in wf.actions
        /\ r.id = wf.result
        /\ LET w == [wf EXCEPT !.actions = wf.actions \ {Action("reconcileClient", t)}]
               held == Held("authority", r.id)
           IN  IF t \in DOMAIN r.out /\ r.out[t] = "doubtful"
               THEN \E i \in NewId("result") :
                    Save(Unblocked([w EXCEPT !.result = i]),
                         IF held THEN {Resource("authority", i)} ELSE {}, vault, {},
                         results \cup {[r EXCEPT !.id = i, !.out[t] = IF held THEN "partial" ELSE "done"]}, fence, fence)
               ELSE Save(Unblocked(w), {}, vault, {}, results, fence, fence)
    BY DEF ReconcileClient
<1> DEFINE a == Action("reconcileClient", t)
           acts == wf.actions \ {a}
           x == [wf EXCEPT !.actions = acts]
           held == Held("authority", r.id)
<1>2. landed' = landed /\ lapses' = lapses BY DEF ReconcileClient
<1>3. r \in Results /\ wf.result # None
    <2>1. r \in Results BY <1>0 DEF TypeOK
    <2>2. r.id \in Ids BY <2>1 DEF Results
    <2> QED BY <1>1, <2>1, <2>2, NoneIsNoId
<1>4. Matches(r, wf) BY <1>1, <1>3 DEF StagesInv, ResultOK
<1>5. acts \in SUBSET Actions /\ acts \subseteq wf.actions BY <1>0 DEF Workflows
<1>6. \A u \in Trackers : Action("prepare", u) \notin wf.actions BY <1>3 DEF StagesInv, PrepareOK
<1>7. CASE t \in DOMAIN r.out /\ r.out[t] = "doubtful"
    <2>1. PICK i \in NewId("result") :
            Save(Unblocked([x EXCEPT !.result = i]), IF held THEN {Resource("authority", i)} ELSE {}, vault, {},
                 results \cup {[r EXCEPT !.id = i, !.out[t] = IF held THEN "partial" ELSE "done"]}, fence, fence)
        BY <1>1, <1>7
    <2> DEFINE o == IF held THEN "partial" ELSE "done"
               n == [r EXCEPT !.id = i, !.out[t] = o]
               y == [x EXCEPT !.result = i]
               w == Unblocked(y)
               new == IF held THEN {Resource("authority", i)} ELSE {}
    <2>2. Save(w, new, vault, {}, results \cup {n}, fence, fence) BY <2>1
    <2>3. i \in Ids BY NewResultId
    <2>4. o \in Submitted BY DEF Submitted
    <2>5. new \in SUBSET Payloads
        <3>1. Resource("authority", i) \in Payloads BY <2>3, ResourceType
        <3> QED BY <3>1
    <2> HIDE DEF o, new, acts, held
    <2>6. n \in Results /\ n.id = i /\ Reported(n) /\ Matches(n, wf)
        <3>1. r.out[t] \in Submitted BY <1>7 DEF Submitted
        <3>2. Republished(n, r, i) BY <1>2, <1>7, <2>3, <2>4, <3>1, OutcomeReplaced
        <3> HIDE DEF n
        <3> QED BY <1>4, <3>2 DEF Republished
    <2> HIDE DEF n
    <2>7. y \in Workflows /\ SameStages(y, wf) /\ y.result = i /\ y.actions = acts
        <3>1. x \in Workflows BY <1>0, <1>5 DEF Workflows
        <3>2. SameStages(x, wf) /\ x.actions = acts BY <1>0 DEF Workflows, SameStages
        <3> HIDE DEF x
        <3>3. i \in OrNone(Ids) BY <2>3 DEF OrNone
        <3>4. y \in Workflows BY <3>1, <3>3 DEF Workflows
        <3>5. SameStages(y, x) /\ y.result = i /\ y.actions = x.actions BY <3>1 DEF Workflows, SameStages
        <3> HIDE DEF y
        <3> QED BY <3>2, <3>4, <3>5 DEF SameStages
    <2> HIDE DEF x, y
    <2>8. Reasked(w, y, y.actions) BY <2>7, StatusUnblocked
    <2> HIDE DEF w
    <2>9. w \in Workflows /\ SameStages(w, wf) /\ w.result = i /\ w.actions = acts
        BY <2>7, <2>8 DEF Reasked, SameStages
    <2>10. \A u \in Trackers : Action("prepare", u) \notin w.actions BY <1>5, <1>6, <2>9
    <2>11. /\ Outside
           /\ \/ /\ wf' = w /\ vault' \subseteq vault \cup new /\ results' = Reachable(w, results \cup {n})
                 /\ fence' = fence
              \/ wf' = wf /\ vault' \subseteq vault /\ results' = results /\ fence' = fence
        BY <1>0, <1>2, <2>2, SaveEnds
    <2>12. LedgerOK BY <1>2, <2>11, NothingSent
    <2>13. ReviewStep BY <1>2, <2>11, QuietReview DEF Quiet
    <2>14. CASE wf' = w /\ vault' \subseteq vault \cup new /\ results' = Reachable(w, results \cup {n})
        <3>1. vault' \subseteq vault \cup Payloads BY <2>5, <2>14
        <3>2. StagesInv' BY <2>6, <2>9, <2>10, <2>11, <2>12, <2>14, <3>1, ResultSaved
        <3>3. DoubtStep BY <2>9, <2>14, NewResultDoubt
        <3> QED BY <2>13, <3>2, <3>3 DEF GoodStep
    <2>15. CASE wf' = wf /\ vault' \subseteq vault /\ results' = results
        <3>1. StagesInv' BY <2>11, <2>12, <2>15, FailureKeeps
        <3>2. DoubtStep BY <2>15, AskedDoubt
        <3> QED BY <2>13, <3>1, <3>2 DEF GoodStep
    <2> QED BY <2>11, <2>14, <2>15
<1>8. CASE ~(t \in DOMAIN r.out /\ r.out[t] = "doubtful")
    <2> DEFINE w == Unblocked([wf EXCEPT !.actions = wf.actions \ {a}])
    <2>1. Save(w, {}, vault, {}, results, fence, fence) BY <1>1, <1>8
    <2>2. a.kind # "reconcile" BY DEF Action
    <2>3. Follows(w) BY <2>2, AnsweredFollows
    <2> HIDE DEF w
    <2>4. /\ Outside
          /\ \/ /\ wf' = w /\ vault' \subseteq vault \cup {} /\ results' = Reachable(w, results)
                /\ fence' = fence
             \/ wf' = wf /\ vault' \subseteq vault /\ results' = results /\ fence' = fence
        BY <1>0, <1>2, <2>1, SaveEnds
    <2>5. LedgerOK BY <1>2, <2>4, NothingSent
    <2>6. ReviewStep BY <1>2, <2>4, QuietReview DEF Quiet
    <2>7. CASE wf' = w /\ vault' \subseteq vault \cup {} /\ results' = Reachable(w, results)
        <3>1. vault' \subseteq vault \cup Payloads BY <2>7
        <3>2. StagesInv' BY <2>3, <2>4, <2>5, <2>7, <3>1, FollowsKeeps
        <3> QED BY <2>3, <2>6, <2>7, <3>2, AskedDoubt DEF GoodStep
    <2>8. CASE wf' = wf /\ vault' \subseteq vault /\ results' = results
        <3>1. StagesInv' BY <2>4, <2>5, <2>8, FailureKeeps
        <3> QED BY <2>6, <2>8, <3>1, AskedDoubt DEF GoodStep
    <2> QED BY <2>4, <2>7, <2>8
<1> QED BY <1>7, <1>8

\* Required actions.
LEMMA ActionKeeps == ASSUME StagesInv, ActionStep PROVE GoodStep
BY ReconcileKeeps, ClientKeeps, DryRunReconcileKeeps, HostingKeeps, ResolveKeeps, CancelKeeps DEF ActionStep

-----------------------------------------------------------------------------
(* The theorems.                                                           *)

\* The invariant holds of a new workflow.
LEMMA StagesInit == ASSUME Init PROVE StagesInv
<1>1. MaxFaults \in Nat /\ MaxLapses \in Nat BY StagesAssumption
<1>2. /\ wf \in Workflows /\ wf.release = None /\ wf.proj = None /\ wf.dupes = None /\ wf.approval = None
      /\ wf.media = None /\ wf.desc = None /\ wf.plan = None /\ wf.result = None /\ wf.actions = {}
    BY DEF Init, Draft, Workflows, OrNone
<1>3. vault = {} /\ results = {} /\ Plans = {} BY DEF Init, Plans
<1>4. TypeOK
    <2>1. faults \in 0 .. MaxFaults /\ lapses \in 0 .. MaxLapses BY <1>1 DEF Init
    <2>2. fence \in [Trackers -> {"free", "unknown", "done"}] /\ landed \in [Trackers -> BOOLEAN]
        BY DEF Init
    <2>3. live \in BOOLEAN BY DEF Init
    <2> QED BY <1>2, <1>3, <2>1, <2>2, <2>3 DEF TypeOK
<1>5. Chain(wf) BY <1>2 DEF Chain
<1>6. ResultOK /\ PlansOK /\ PrepareOK BY <1>2, <1>3 DEF ResultOK, PlansOK, PrepareOK
<1>7. ConfirmedOK /\ ReportedWasSent BY <1>3 DEF Init, ConfirmedOK, ReportedWasSent
<1> QED BY <1>4, <1>5, <1>6, <1>7 DEF StagesInv

\* Every step is a good one.
LEMMA StagesStep == ASSUME StagesInv, Next PROVE GoodStep
BY ReleaseKeeps, TrackerKeeps, ContentKeeps, UploadKeeps, ActionKeeps,
   RestartKeeps, RecoverKeeps, ResumeKeeps, LapseKeeps DEF Next

\* Nothing changes when nothing happens.
LEMMA StagesStutter == ASSUME StagesInv, UNCHANGED vars PROVE StagesInv'
<1>1. Outside BY DEF vars, StagesInv, TypeOK, Outside
<1>2. LedgerOK BY NothingSent DEF vars
<1> QED BY <1>1, <1>2, FailureKeeps DEF vars

\* The stages stay well typed and consistent with the plans, the results, the
\* required actions and the ledger, in every order of commands, failed saves,
\* dead processes, recoveries and ended times to live.
THEOREM StagesInvariant == Spec => []StagesInv
<1>1. StagesInv /\ [Next]_vars => StagesInv' BY StagesStep, StagesStutter DEF GoodStep
<1> QED BY <1>1, StagesInit, PTL DEF Spec

\* The current snapshots belong together: each was built from the current ones
\* before it, the approval covers eligible trackers only, and media were
\* captured for exactly the trackers that may go on (the invalidations and
\* restoreReusableMedia).
THEOREM LineageTheorem == Spec => []LineageCurrent
<1>1. StagesInv => LineageCurrent
    <2> SUFFICES ASSUME StagesInv PROVE LineageCurrent OBVIOUS
    <2>1. wf.result # None => \E r \in results : r.id = wf.result /\ Matches(r, wf)
        BY DEF StagesInv, ResultOK
    <2>2. Chain(wf) BY DEF StagesInv
    <2> QED BY <2>1, <2>2 DEF LineageCurrent, Chain
<1> QED BY <1>1, StagesInvariant, PTL

\* What a retained result reports as submitted was submitted
\* (publishUploadResult, the retries and reconcileClientInjectionResult).
THEOREM ReportedTheorem == Spec => []ReportedWasSent
<1>1. StagesInv => ReportedWasSent BY DEF StagesInv
<1> QED BY <1>1, StagesInvariant, PTL

\* No tracker is sent anything behind its duplicate decision and, where trackers
\* are approved, its approval (executeUploads and retryFailedUploads).
THEOREM ReviewTheorem == Spec => SendsUnderReview
<1>1. StagesInv /\ [Next]_vars =>
        [\A t \in Trackers : Sends(t) =>
          /\ wf.dupes # None
          /\ t \in DOMAIN wf.dupes.dec \cap wf.proj.ready /\ wf.dupes.dec[t] \in {"clear", "ignored"}
          /\ Mode = "gate" => /\ wf.approval # None /\ wf.approval.dupes = wf.dupes.id
                               /\ t \in wf.approval.approved]_vars
    BY StagesStep DEF GoodStep, ReviewStep, Reviewed
<1> QED BY <1>1, StagesInvariant, PTL DEF Spec, SendsUnderReview

\* A submission in doubt stays in front of the operator as long as its result is
\* current and the ledger has not resolved it (resolveAction, publishUploadResult,
\* dryRunUploads and recoverAfterRestart).
THEOREM DoubtTheorem == Spec => DoubtStaysAsked
<1>1. StagesInv /\ [Next]_vars =>
        [\A t \in Trackers :
          Action("reconcile", t) \in wf.actions /\ wf.result # None /\ wf'.result = wf.result /\ fence'[t] = "unknown"
              => Action("reconcile", t) \in wf'.actions \/ Action("confirm", None) \in wf'.actions]_vars
    BY StagesStep DEF GoodStep, DoubtStep
<1> QED BY <1>1, StagesInvariant, PTL DEF Spec, DoubtStaysAsked

\* What recovery leaves has its private resources.
LEMMA RecoveryBacked ==
    ASSUME StagesInv, Recover, NeedsRecovery, wf.result = None, ~(\E a \in wf.actions : a.kind \in Reconciling),
           NEW k \in {"dupes", "media", "desc", "plan"}, wf'[k] # None
    PROVE  Backed(wf', vault', k)
<1> DEFINE u == InvalidateUnavailable(wf, vault)
           acts == {a \in u.actions : KeptAction(u, a)}
<1>1. wf' = SetStageStatus(u, acts) /\ vault' = vault BY DEF Recover
<1>2. wf \in Workflows /\ Chain(wf) BY DEF StagesInv, TypeOK
<1>3. Trimmed(u, wf) /\ AllHeld(u, vault) BY <1>2, Trimming
<1>4. acts \in SUBSET Actions
    <2> DEFINE K(a) == KeptAction(u, a)
    <2> HIDE DEF K
    <2>1. {a \in u.actions : K(a)} \subseteq u.actions OBVIOUS
    <2> QED BY <1>3, <2>1 DEF K, Trimmed, Workflows
<1> HIDE DEF u, acts
<1>5. Reasked(SetStageStatus(u, acts), u, acts) BY <1>3, <1>4, StatusSet DEF Trimmed
<1>6. wf'.dupes = u.dupes /\ wf'.media = u.media /\ wf'.desc = u.desc /\ wf'.plan = u.plan
    BY <1>1, <1>5 DEF Reasked, SameStages
<1>7. CASE k = "dupes" BY <1>1, <1>3, <1>6, <1>7 DEF AllHeld, Backed, Id, Field
<1>8. CASE k = "media" BY <1>1, <1>3, <1>6, <1>8 DEF AllHeld, Backed, Id, Field
<1>9. CASE k = "desc" BY <1>1, <1>3, <1>6, <1>9 DEF AllHeld, Backed, Id, Field
<1>10. CASE k = "plan" BY <1>1, <1>3, <1>6, <1>10 DEF AllHeld, Backed
<1> QED BY <1>7, <1>8, <1>9, <1>10

\* Recovery leaves no current snapshot without its private resource, unless a
\* result or a pending reconciliation needs it
\* (invalidateUnavailablePrivateAuthority in recoverAfterRestart).
THEOREM RecoveryTheorem == Spec => RecoveryLeavesBacked
<1>1. StagesInv =>
        [Recover /\ NeedsRecovery /\ wf.result = None /\ ~(\E a \in wf.actions : a.kind \in Reconciling)
          => \A k \in {"dupes", "media", "desc", "plan"} : wf'[k] # None => Backed(wf', vault', k)]_vars
    BY RecoveryBacked
<1> QED BY <1>1, StagesInvariant, PTL DEF Spec, RecoveryLeavesBacked
=============================================================================
