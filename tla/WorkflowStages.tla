--------------------------- MODULE WorkflowStages ---------------------------
(***************************************************************************)
(* The stages of one release workflow: release, tracker projections,       *)
(* preflight, duplicate assessment, tracker approval, media, descriptions, *)
(* upload plan, upload result.  internal/releaseworkflow/module.go.        *)
(*                                                                         *)
(* A command holds the lock of its workflow and names the revision it was  *)
(* prepared from (execute), so it is one action: it reads the workflow,    *)
(* touches the private vault, may reach the outside world, and ends with   *)
(* one Save.  A Save that fails, or a process that dies, leaves the        *)
(* workflow as it was and keeps what was already done to the vault and to  *)
(* the trackers: this is what makes the stages hard.                       *)
(*                                                                         *)
(* A current reference is the record of the snapshot it names: its id and  *)
(* the ids of the snapshots it was built from.  Rendering, corrections,    *)
(* HDR and audio analysis, the reuse of duplicate searches across a        *)
(* metadata refresh and the receipts of repeated commands are left out.    *)
(***************************************************************************)
EXTENDS Naturals, FiniteSets, FiniteSetsExt

CONSTANTS
    Trackers,     \* the trackers a release can be sent to
    None,         \* no current snapshot
    Mode,         \* "gate" (trackers are approved after the duplicate review) or "controls"
    Findings,     \* what a duplicate search can say of a tracker
    Answers,      \* what a tracker can answer to a submission
    Hitches,      \* what else can go less than well, one name for each place
    Ids,          \* snapshot ids of each kind: an id nothing names any more is used again
    MaxResults,   \* bound: upload results retained of the current snapshots
    MaxFaults,    \* bound: saves that fail, processes that die
    MaxLapses     \* bound: snapshots and private resources whose time to live ends

ASSUME StagesAssumption ==
    /\ None \notin Trackers \cup Ids
    /\ Mode \in {"gate", "controls"}
    /\ Findings \subseteq {"clear", "pending", "failed", "strict"}
    /\ Answers \subseteq {"failed", "unknown", "done", "partial", "doubtful"}
    /\ Hitches \subseteq {"confirm", "input", "images", "host", "hostSkipped", "hostUnknown",
                          "description", "prepare", "seedUnknown"}
    /\ Ids \subseteq Nat
    /\ {MaxResults, MaxFaults, MaxLapses} \subseteq Nat

OrNone(S) == S \cup {None}

Decisions == {"clear", "pending", "failed", "strict", "accepted", "ignored"}

Submitted == {"done", "partial", "doubtful"}

Outcomes == {"skipped", "failed", "unknown"} \cup Submitted

\* A required action: what is asked, and of which tracker.
Action(kind, t) == [kind |-> kind, tracker |-> t]

ActionKinds == {"input", "confirm", "review", "provide", "prepare", "reconcile",
                "reconcileClient", "reconcileDry", "reconcileImage"}

\* The kinds the code calls reconcile_submission.
Reconciling == {"reconcile", "reconcileClient", "reconcileDry", "reconcileImage"}

Actions == [kind : ActionKinds, tracker : OrNone(Trackers)]

\* A snapshot of each stage.
Projections ==
    [id : Ids, release : Ids, preflight : OrNone(Ids), trackers : SUBSET Trackers,
     ready : SUBSET Trackers, open : BOOLEAN, asks : SUBSET Actions]
Preflights == [id : Ids, ready : BOOLEAN, fresh : BOOLEAN]
Assessments ==
    [id : Ids, proj : Ids, fresh : BOOLEAN, dec : UNION {[S -> Decisions] : S \in SUBSET Trackers}]
Approvals ==
    [id : Ids, proj : Ids, preflight : Ids, dupes : Ids,
     candidates : SUBSET Trackers, approved : SUBSET Trackers]
MediaSets ==
    [id : Ids, release : Ids, proj : Ids, approval : OrNone(Ids), fits : SUBSET Trackers,
     enough : BOOLEAN, failed : SUBSET Trackers, skipped : BOOLEAN, doubt : BOOLEAN]
Descriptions == [id : Ids, proj : Ids, media : Ids, approval : OrNone(Ids), viable : BOOLEAN]

Workflows ==
    [release : OrNone(Ids), proj : OrNone(Projections), preflight : OrNone(Preflights),
     dupes : OrNone(Assessments), approval : OrNone(Approvals), media : OrNone(MediaSets),
     desc : OrNone(Descriptions), plan : OrNone(Ids), result : OrNone(Ids),
     status : {"draft", "active", "blocked", "completed", "canceled"}, actions : SUBSET Actions]

\* The private resources, a reviewed plan being one that names what it was made from.
Payloads == [kind : {"dupes", "media", "desc", "authority"}, id : Ids]
UploadPlans ==
    [kind : {"plan"}, id : Ids, proj : Ids, dupes : Ids, approval : OrNone(Ids), media : Ids,
     desc : Ids, trackers : SUBSET Trackers, ready : SUBSET Trackers, asking : SUBSET Trackers,
     declined : SUBSET Trackers, doubt : SUBSET Trackers]

Results ==
    [id : Ids, proj : Ids, dupes : Ids, approval : OrNone(Ids), media : Ids, desc : Ids,
     out : UNION {[S -> Outcomes] : S \in SUBSET Trackers}]

ASSUME AbsentAssumption ==
    /\ None \notin Projections /\ None \notin Preflights /\ None \notin Assessments
    /\ None \notin Approvals /\ None \notin MediaSets /\ None \notin Descriptions

VARIABLES
    wf,        \* the workflow row: the current snapshots, status and required actions
    vault,     \* the private resources something names; the plans live in memory only
    results,   \* the retained upload results a command can still name
    fence,     \* the submission ledger, per tracker: free, unknown or done
    landed,    \* what really happened: the tracker holds the upload
    live,      \* the workflow was recovered by the running process
    faults, lapses

vars == <<wf, vault, results, fence, landed, live, faults, lapses>>

Draft ==
    [release |-> None, proj |-> None, preflight |-> None, dupes |-> None, approval |-> None,
     media |-> None, desc |-> None, plan |-> None, result |-> None,
     status |-> "draft", actions |-> {}]

Init ==
    /\ wf = Draft
    /\ vault = {}
    /\ results = {}
    /\ fence = [t \in Trackers |-> "free"]
    /\ landed = [t \in Trackers |-> FALSE]
    /\ live = TRUE
    /\ faults = MaxFaults /\ lapses = MaxLapses

-----------------------------------------------------------------------------
(* Identifiers, and the private resource of a snapshot.                    *)

Field(r, f) == IF r = None THEN None ELSE r[f]

Id(r) == Field(r, "id")

Resource(kind, id) == [kind |-> kind, id |-> id]

\* Whether a hitch happens.
Maybe(hitch) == IF hitch \in Hitches THEN BOOLEAN ELSE {FALSE}

Held(kind, id) == \E r \in vault : r.kind = kind /\ r.id = id

Plans == {r \in vault : r.kind = "plan"}

\* The ids of a kind that something still names.
Used(kind) ==
    {r.id : r \in {x \in vault : x.kind = kind}}
        \cup CASE kind = "release" -> {wf.release} \cup {Field(wf[k], "release") : k \in {"proj", "media"}}
               [] kind = "result" -> {r.id : r \in results}
               [] OTHER -> (IF kind = "plan" THEN {wf.plan} ELSE {Id(wf[kind])})
                              \cup {Field(wf[k], kind) : k \in {j \in {"proj", "dupes", "approval", "media", "desc"} :
                                        wf[j] # None /\ kind \in DOMAIN wf[j]}}
                              \cup {r[kind] : r \in {x \in Plans \cup results : kind \in DOMAIN x}}

\* newID: the snapshot gets an id nothing names (none is left at the bound).
NewId(kind) ==
    LET free == Ids \ Used(kind)
    IN  IF free = {} THEN {} ELSE {Min(free)}

-----------------------------------------------------------------------------
(* Invalidation: a stage that changes takes everything after it along.     *)

InvalidateUploadPlan(w) ==
    [w EXCEPT !.plan = None, !.result = None,
              !.status = IF w.status = "completed" THEN "active" ELSE w.status]

InvalidateDupes_KeepsApproval(w) ==
    InvalidateUploadPlan([w EXCEPT !.dupes = None, !.media = None, !.desc = None])

InvalidateDupes(w) ==
    InvalidateUploadPlan([w EXCEPT !.dupes = None, !.approval = None, !.media = None, !.desc = None])

InvalidatePreflight(w) == InvalidateDupes([w EXCEPT !.preflight = None])

InvalidateProjection(w) == InvalidatePreflight([w EXCEPT !.proj = None])

InvalidatePrepared(w) == InvalidateProjection([w EXCEPT !.release = None])

\* setWorkflowStageStatus replaces the actions of the stage before.
SetStageStatus(w, acts) ==
    [w EXCEPT !.actions = acts, !.status = IF acts = {} THEN "active" ELSE "blocked"]

\* What is left of the status once an action is gone.
Unblocked(w) ==
    IF w.actions = {} /\ w.status = "blocked"
    THEN [w EXCEPT !.status = IF w.result # None THEN "completed" ELSE "active"]
    ELSE w

-----------------------------------------------------------------------------
(* Which trackers may go on: eligibility.go.                               *)

Eligible_Undecided(w) == w.proj.ready \cap DOMAIN w.dupes.dec

\* DownstreamEligibleProjections: ready, searched, and the search lets it pass.
Eligible(w) ==
    {t \in w.proj.ready : t \in DOMAIN w.dupes.dec /\ w.dupes.dec[t] \in {"clear", "ignored"}}

\* currentDownstreamEvidence: current snapshots that belong together, not yet expired.
Evidence(w) ==
    /\ w.release # None /\ w.proj # None /\ w.preflight # None /\ w.dupes # None
    /\ w.proj.preflight = w.preflight.id
    /\ w.dupes.proj = w.proj.id
    /\ w.preflight.ready /\ w.preflight.fresh /\ w.dupes.fresh
    /\ Eligible(w) # {}

\* trackerApprovalCandidates: no candidates while a ready tracker awaits a decision.
ApprovalCandidates(w) ==
    IF \E t \in w.proj.ready : t \notin DOMAIN w.dupes.dec \/ w.dupes.dec[t] = "pending"
    THEN {} ELSE Eligible(w)

\* currentTrackerApproval.
ApprovalCurrent(w) ==
    /\ w.approval # None
    /\ w.approval.proj = w.proj.id /\ w.approval.preflight = w.preflight.id
    /\ w.approval.dupes = w.dupes.id
    /\ w.approval.candidates = Eligible(w)

\* resolveDownstreamTrackerSet succeeds for media.
Resolved(w) == Evidence(w) /\ (Mode = "gate" => ApprovalCurrent(w))

\* The trackers it returns, and the approval it returns them under.
Targets(w) == IF Mode = "gate" THEN w.approval.approved ELSE Eligible(w)

ApprovalRef(w) == IF Mode = "gate" THEN Id(w.approval) ELSE None

\* TrackerImageHostFailure: a host failure blocks its tracker unless hosting is skipped.
HostBlocked(m) == IF m.skipped THEN {} ELSE m.failed

\* resolveDownstreamTrackerSet for descriptions and upload.
UploadTargets(w) == Targets(w) \ HostBlocked(w.media)

ReadyToRender(w) == Resolved(w) /\ UploadTargets(w) # {}

-----------------------------------------------------------------------------
(* The end of a command.                                                   *)

\* What a committed command deletes: resources of snapshots it replaced.
\* cleans names the stages whose replaced resources this command looks at.
Superseded(w, cleans) ==
    {r \in vault : \E k \in cleans : /\ r.kind = k
                                     /\ IF k = "plan" THEN r.id = wf.plan /\ w.plan = None
                                        ELSE wf[k] # None /\ r.id = wf[k].id /\ w[k] # wf[k]}

\* uploadResultMatchesCurrent, and the checks of preparedUploadsForExecution.
Matches(p, w) ==
    /\ w.proj # None /\ p.proj = w.proj.id
    /\ w.dupes # None /\ p.dupes = w.dupes.id
    /\ p.approval = Id(w.approval)
    /\ w.media # None /\ p.media = w.media.id
    /\ w.desc # None /\ p.desc = w.desc.id

\* Ids are never issued twice: a result of other snapshots and a resource that
\* nothing names are out of reach for good, and the model forgets them.
Reachable(w, rs) == {r \in rs : r.id = w.result \/ Matches(r, w)}

Named(w, rs, v) ==
    {r \in v : CASE r.kind = "authority" -> \E x \in rs : x.id = r.id
                 [] r.kind = "plan" -> w.plan = r.id
                 [] OTHER -> Id(w[r.kind]) = r.id}

\* Save the workflow w.  new: the resources put for it; keep: what is left of
\* the vault by then; sent: the ledger after the command; effect: the entry the
\* save itself resolves.  A failed save deletes the new resources
\* (cleanupUncommittedResult), a dead process cannot and loses the plans; both
\* keep the deletions already made and what was already sent.
Save(w, new, keep, cleans, rs, sent, resolved) ==
    \/ /\ wf' = w
       /\ vault' = Named(w, Reachable(w, rs), (keep \cup new) \ Superseded(w, cleans))
       /\ results' = Reachable(w, rs)
       /\ fence' = resolved
       /\ UNCHANGED <<live, faults>>
    \/ /\ faults > 0 /\ faults' = faults - 1
       /\ vault' = keep
       /\ fence' = sent
       /\ UNCHANGED <<wf, results, live>>
    \/ /\ faults > 0 /\ faults' = faults - 1
       /\ vault' = {r \in keep : r.kind # "plan"}
       /\ fence' = sent
       /\ live' = FALSE
       /\ UNCHANGED <<wf, results>>

\* A command that reaches nothing outside the workflow and the vault.
Publish(w, new, keep, cleans) ==
    /\ live
    /\ Save(w, new, keep, cleans, results, fence, fence)
    /\ UNCHANGED <<landed, lapses>>

-----------------------------------------------------------------------------
(* Release and trackers.                                                   *)

\* replaceFactInstructions: the prepared release and the whole vault go.
FactsReplaced == [InvalidatePrepared(wf) EXCEPT !.status = "draft", !.actions = {}]

ReplaceFactInstructions == Publish(FactsReplaced, {}, {}, {})

\* prepareRelease from the workflow w: a new release, or a question that
\* replaces every other action and touches nothing else.
PreparedFrom(w) ==
    {[wf |-> [InvalidateProjection(w) EXCEPT !.release = i, !.status = "active", !.actions = {}],
      keeps |-> FALSE] : i \in NewId("release")}
    \cup {[wf |-> [w EXCEPT !.status = "blocked", !.actions = {Action("confirm", None)}],
           keeps |-> w = wf] : x \in Maybe("confirm") \cap {TRUE}}

PrepareRelease ==
    \E p \in PreparedFrom(wf) : Publish(p.wf, {}, IF p.keeps THEN vault ELSE {}, {})

\* resetRelease and selectBlurayCandidate: new facts and a preparation, one save.
ReplaceFactsAndPrepare ==
    /\ wf.release # None
    /\ \E p \in PreparedFrom(FactsReplaced) : Publish(p.wf, {}, {}, {})

\* projectTrackers: trackers with a confirmed submission are left out; with
\* nothing left the workflow is completed, without a call to the vault.
ProjectTrackers ==
    /\ wf.release # None
    /\ \E requested \in (SUBSET Trackers) \ {{}} :
        LET rest == {t \in requested : fence[t] # "done"}
        IN  IF rest = {}
            THEN Publish([InvalidateProjection(wf) EXCEPT !.status = "completed", !.actions = {}],
                         {}, vault, {})
            ELSE \E i \in NewId("proj"), asking \in {IF x THEN rest ELSE {} : x \in Maybe("input")} :
                    LET asks == {Action("input", t) : t \in asking}
                        p == [id |-> i, release |-> wf.release, preflight |-> None, trackers |-> rest,
                              ready |-> {}, open |-> FALSE, asks |-> asks]
                    IN  Publish(SetStageStatus([InvalidateProjection(wf) EXCEPT !.proj = p], asks), {}, {}, {})

\* preflightTrackers publishes the assessment and the finalized projections.
PreflightTrackers ==
    /\ wf.proj # None
    /\ \E i \in NewId("proj"), j \in NewId("preflight"), ready \in SUBSET wf.proj.trackers :
       \E asking \in {IF x THEN wf.proj.trackers \ ready ELSE {} : x \in Maybe("input")} :
        LET asks == {Action("input", t) : t \in asking}
            p == [wf.proj EXCEPT !.id = i, !.preflight = j, !.ready = ready, !.open = ready # {}, !.asks = asks]
            f == [id |-> j, ready |-> ready # {}, fresh |-> TRUE]
        IN  Publish(SetStageStatus(InvalidateDupes([wf EXCEPT !.proj = p, !.preflight = f]), asks), {}, {}, {})

\* invalidateTrackers: what is left of projections, preflight and dupes is
\* published again as stale, under new ids.
InvalidateTrackers ==
    /\ wf.proj # None
    /\ \E invalid \in (SUBSET Trackers) \ {{}} :
       \E i \in NewId("proj"), j \in NewId("preflight"), k \in NewId("dupes") :
        LET rest == wf.proj.trackers \ invalid
            ask == Action("input", None)
            p == [wf.proj EXCEPT !.id = i, !.preflight = None, !.trackers = rest,
                                 !.ready = wf.proj.ready \cap rest, !.open = FALSE, !.asks = wf.proj.asks \cup {ask}]
            left ==
                IF rest = {} THEN [wf EXCEPT !.proj = None, !.preflight = None, !.dupes = None]
                ELSE [wf EXCEPT
                        !.proj = p,
                        !.preflight = IF wf.preflight = None THEN None
                                      ELSE [id |-> j, ready |-> FALSE, fresh |-> FALSE],
                        !.dupes = IF wf.dupes = None THEN None
                                  ELSE [id |-> k, proj |-> i, fresh |-> FALSE,
                                        dec |-> [t \in DOMAIN wf.dupes.dec \cap rest |-> wf.dupes.dec[t]]]]
            w == InvalidateUploadPlan([left EXCEPT !.approval = None, !.media = None, !.desc = None])
        IN  Publish([w EXCEPT !.status = "blocked", !.actions = wf.actions \cup {ask}], {}, {}, {})

-----------------------------------------------------------------------------
(* Media.                                                                  *)

\* refreshMutatedMediaStatus: images are missing, or an upload is in doubt.
MediaActions(m) ==
    (IF m.enough THEN {} ELSE {Action("provide", None)})
        \cup (IF m.doubt THEN {Action("reconcileImage", None)} ELSE {})

MediaDone(m) == MediaActions(m) = {}

\* publishMedia.
PublishMedia(w, m) ==
    SetStageStatus(InvalidateUploadPlan([w EXCEPT !.media = m, !.desc = None]), MediaActions(m))

\* A media set built for the current targets.
NewMedia(w, i, enough, failed, skipped, doubt) ==
    [id |-> i, release |-> w.release, proj |-> w.proj.id, approval |-> ApprovalRef(w),
     fits |-> Targets(w), enough |-> enough, failed |-> failed, skipped |-> skipped, doubt |-> doubt]

\* The media before still serve: same release, projections, targets and
\* approval, and the private resource is there.
Reusable(prior, w, keep) ==
    /\ prior # None
    /\ prior.release = w.release /\ prior.proj = w.proj.id
    /\ prior.fits = Targets(w) /\ prior.approval = ApprovalRef(w)
    /\ Resource("media", prior.id) \in keep

\* restoreReusableMedia, after dupes or an approval were published: nothing
\* while the targets are unresolved; else the media before if they still serve,
\* else compatible saved media, if any.
RestoredMedia(w, keep) ==
    LET saved == {[wf |-> PublishMedia(w, NewMedia(w, i, ~short, {}, FALSE, FALSE)),
                   new |-> {Resource("media", i)}] : i \in NewId("media"), short \in Maybe("images")}
    IN  IF ~Resolved(w) THEN {[wf |-> w, new |-> {}]}
        ELSE IF Reusable(wf.media, w, keep)
        THEN {[wf |-> SetStageStatus([w EXCEPT !.media = wf.media], MediaActions(wf.media)), new |-> {}]}
        ELSE {[wf |-> w, new |-> {}]} \cup saved

\* captureMedia refuses while an external effect is in doubt.
CaptureMedia ==
    /\ ~ \E a \in wf.actions : a.kind \in Reconciling
    /\ Resolved(wf)
    /\ wf.media # None => Held("media", wf.media.id)
    /\ \E i \in NewId("media"), short \in Maybe("images"), failed \in {{}, IF wf.media = None THEN {} ELSE wf.media.failed} :
        Publish(PublishMedia(wf, NewMedia(wf, i, ~short, failed, FALSE, FALSE)),
                {Resource("media", i)}, vault, {"media", "desc"})

\* currentMutableMedia and the target check of publishMediaMutation.
MediaMutable == wf.media # None /\ Held("media", wf.media.id) /\ Resolved(wf)

\* One mutation of the current media: a new set with a new private resource.
MutateMedia(failed, skipped, doubt) ==
    /\ MediaMutable
    /\ \E i \in NewId("media"), short \in Maybe("images") :
        Publish(PublishMedia(wf, NewMedia(wf, i, ~short /\ (failed = Targets(wf) => skipped), failed, skipped, doubt)),
                {Resource("media", i)}, vault, {"media", "desc"})

\* setMediaSelection, reorder, attach, delete and removeHostedImages.
ChangeMedia == wf.media # None /\ MutateMedia(wf.media.failed, FALSE, wf.media.doubt)

\* uploadMediaImages: skipped, done (some trackers may be left without a host), or in doubt.
UploadMediaImages ==
    /\ MediaMutable
    /\ \/ "hostSkipped" \in Hitches /\ MutateMedia(wf.media.failed, TRUE, wf.media.doubt)
       \/ \E failed \in (IF "host" \in Hitches THEN SUBSET Targets(wf) ELSE {{}}) :
              MutateMedia(failed, FALSE, wf.media.doubt)
       \/ "hostUnknown" \in Hitches /\ MutateMedia(wf.media.failed, FALSE, TRUE)

-----------------------------------------------------------------------------
(* Duplicates and approval.                                                *)

\* publishDupes, then restoreReusableMedia; evidence: the private resource exists.
PublishDupes(d, evidence) ==
    LET strict == {t \in DOMAIN d.dec : d.dec[t] = "strict"}
        acts == {a \in wf.proj.asks \cup {Action("review", t) : t \in {x \in DOMAIN d.dec : d.dec[x] = "pending"}} :
                    a.tracker \notin strict}
        w == SetStageStatus(InvalidateUploadPlan([wf EXCEPT !.dupes = d, !.approval = None,
                                                            !.media = None, !.desc = None]), acts)
    IN  \E m \in RestoredMedia(w, vault) :
            Publish(m.wf, m.new \cup (IF evidence THEN {Resource("dupes", d.id)} ELSE {}),
                    vault, {"dupes", "media", "desc"})

PreflightUsable ==
    /\ wf.proj # None /\ wf.preflight # None
    /\ wf.preflight.ready /\ wf.preflight.fresh

CheckDuplicates ==
    /\ PreflightUsable
    /\ wf.proj.preflight = wf.preflight.id /\ wf.proj.open
    /\ \E i \in NewId("dupes"), dec \in [wf.proj.trackers -> Findings] :
        PublishDupes([id |-> i, proj |-> wf.proj.id, fresh |-> TRUE, dec |-> dec], TRUE)

\* decideDuplicates: a strict duplicate cannot be ignored; the answer replaces
\* the assessment and carries its evidence over when there is any.
DecideDuplicates ==
    /\ PreflightUsable
    /\ wf.proj.preflight \in {None, wf.preflight.id}
    /\ wf.dupes # None /\ wf.dupes.fresh
    /\ \E decided \in (SUBSET DOMAIN wf.dupes.dec) \ {{}} :
       \E i \in NewId("dupes"), answer \in [decided -> {"accepted", "ignored"}] :
        /\ \A t \in decided : /\ wf.dupes.dec[t] \in {"pending", "accepted", "ignored", "strict"}
                              /\ wf.dupes.dec[t] = "strict" => answer[t] = "accepted"
        /\ PublishDupes([wf.dupes EXCEPT !.id = i, !.proj = wf.proj.id,
                            !.dec = [t \in DOMAIN wf.dupes.dec |->
                                        IF t \in decided /\ wf.dupes.dec[t] # "strict" THEN answer[t] ELSE wf.dupes.dec[t]]],
                        Held("dupes", wf.dupes.id))

\* approveTrackers, possible once between two duplicate assessments.
ApproveTrackers ==
    /\ Mode = "gate" /\ wf.approval = None
    /\ Evidence(wf)
    /\ \E approved \in (SUBSET ApprovalCandidates(wf)) \ {{}}, i \in NewId("approval") :
        LET a == [id |-> i, proj |-> wf.proj.id, preflight |-> wf.preflight.id, dupes |-> wf.dupes.id,
                  candidates |-> ApprovalCandidates(wf), approved |-> approved]
            w == [InvalidateUploadPlan([wf EXCEPT !.approval = a, !.media = None, !.desc = None])
                    EXCEPT !.actions = {}, !.status = "active"]
        IN  \E m \in RestoredMedia(w, vault) :
                Publish(m.wf, m.new, vault, IF m.wf.media = None THEN {} ELSE {"media", "desc"})

-----------------------------------------------------------------------------
(* Descriptions.                                                           *)

PublishDescriptions ==
    \E i \in NewId("desc"), unusable \in Maybe("description") :
        LET d == [id |-> i, proj |-> wf.proj.id, media |-> wf.media.id, approval |-> ApprovalRef(wf), viable |-> ~unusable]
        IN  Publish(SetStageStatus(InvalidateUploadPlan([wf EXCEPT !.desc = d]), {}),
                    {Resource("desc", i)}, vault, {"media", "desc"})

GenerateDescriptions ==
    /\ wf.media # None /\ MediaDone(wf.media)
    /\ wf.media.proj = wf.proj.id
    /\ ReadyToRender(wf)
    /\ Held("media", wf.media.id)
    /\ PublishDescriptions

\* saveDescriptionOverride and resetDescriptionOverride rebuild one group.
MutateDescriptionOverride ==
    /\ wf.media # None /\ wf.desc # None /\ wf.desc.media = wf.media.id
    /\ Held("desc", wf.desc.id) /\ Held("media", wf.media.id)
    /\ ReadyToRender(wf)
    /\ PublishDescriptions

-----------------------------------------------------------------------------
(* Uploads.                                                                *)

\* prepareUploads: everything before is current, done and held in the vault.
CanPrepare(trackers) ==
    /\ wf.proj # None /\ wf.dupes # None /\ wf.media # None /\ wf.desc # None
    /\ wf.media.proj = wf.proj.id /\ wf.desc.proj = wf.proj.id /\ wf.desc.media = wf.media.id
    /\ wf.proj.open /\ MediaDone(wf.media) /\ wf.desc.viable
    /\ ReadyToRender(wf)
    /\ wf.media.approval = ApprovalRef(wf) /\ wf.desc.approval = ApprovalRef(wf)
    /\ trackers \subseteq UploadTargets(wf)
    /\ Held("dupes", wf.dupes.id) /\ Held("media", wf.media.id) /\ Held("desc", wf.desc.id)

\* What a plan can be: the ready trackers, and those that ask for a decision first.
PlansFor(i, trackers) ==
    {[kind |-> "plan", id |-> i, proj |-> wf.proj.id, dupes |-> wf.dupes.id, approval |-> ApprovalRef(wf),
      media |-> wf.media.id, desc |-> wf.desc.id, trackers |-> trackers, ready |-> ready, asking |-> asking,
      declined |-> {}, doubt |-> {}] : ready \in SUBSET trackers, asking \in {{}} \cup (IF "prepare" \in Hitches THEN {{t} : t \in trackers} ELSE {})}

WellFormedPlan(p) == p.asking \cap p.ready = {}

\* The actions of a plan: preparation decisions, and seeding runs in doubt.
PlanActions(p) ==
    {Action("prepare", t) : t \in p.asking} \cup {Action("reconcileDry", t) : t \in p.doubt}

\* dryRunUploads: the plan reviewed before is deleted ahead of the save.  A
\* retained result keeps its own actions and status.
DryRunUploads ==
    \E trackers \in (SUBSET Trackers) \ {{}}, i \in NewId("plan") :
        /\ CanPrepare(trackers)
        /\ \E p \in PlansFor(i, trackers), doubt \in {{}} \cup (IF "seedUnknown" \in Hitches THEN {{t} : t \in trackers} ELSE {}) :
            LET plan == [p EXCEPT !.doubt = doubt]
                w == [wf EXCEPT !.plan = i]
            IN  /\ WellFormedPlan(p) /\ doubt \subseteq p.ready
                /\ Publish(IF wf.result = None THEN SetStageStatus(w, PlanActions(plan)) ELSE w,
                           {plan}, vault \ {r \in Plans : r.id = wf.plan}, {})

\* resolveTrackerPreparationAction takes the plan out of the vault, decides
\* the tracker and publishes the plan again under a new id.
ResolveTrackerPreparation ==
    \E t \in Trackers, p \in Plans, i \in NewId("plan"), go \in BOOLEAN :
        /\ Action("prepare", t) \in wf.actions
        /\ wf.plan = p.id
        /\ LET plan == [p EXCEPT !.id = i, !.asking = p.asking \ {t},
                                 !.ready = IF go THEN p.ready \cup {t} ELSE p.ready,
                                 !.declined = IF go THEN p.declined ELSE p.declined \cup {t}]
           IN  Publish(SetStageStatus([wf EXCEPT !.plan = i], PlanActions(plan)), {plan}, vault \ {p}, {})

CanAnswer_AssumesDone(t, o) ==
    IF fence[t] # "free" THEN o = "done" ELSE o \in Answers

\* Sending to the tracker: a confirmed submission is not sent again, one in
\* doubt stays in doubt, else the tracker answers.
CanAnswer(t, o) ==
    CASE fence[t] = "done" -> o = "done"
      [] fence[t] = "unknown" -> o = "unknown"
      [] OTHER -> o \in Answers

FenceAfter(out, sent) ==
    [t \in Trackers |-> IF t \notin sent \/ fence[t] # "free" THEN fence[t]
                        ELSE IF out[t] \in Submitted THEN "done"
                        ELSE IF out[t] = "unknown" THEN "unknown" ELSE "free"]

\* A submission of unknown outcome may or may not have reached the tracker.
LandedAfter(out, sent, arrived) ==
    [t \in Trackers |-> landed[t] \/ (t \in sent /\ fence[t] = "free"
                                        /\ (out[t] \in Submitted \/ (out[t] = "unknown" /\ arrived)))]

\* completeUploadExecutionResults: trackers that were not selected are skipped,
\* trackers that could not be prepared count as failed.
OutcomesOf(p, selected) ==
    {out \in [p.trackers -> Outcomes] :
        \A t \in p.trackers :
            IF t \in selected THEN CanAnswer(t, out[t])
            ELSE out[t] = IF t \in p.ready \cup p.declined THEN "skipped" ELSE "failed"}

ResultActions(out) ==
    {Action("reconcile", t) : t \in {x \in DOMAIN out : out[x] = "unknown"}}
        \cup {Action("reconcileClient", t) : t \in {x \in DOMAIN out : out[x] = "doubtful"}}

NewResult(p, i, out) ==
    [id |-> i, proj |-> p.proj, dupes |-> p.dupes, approval |-> p.approval,
     media |-> p.media, desc |-> p.desc, out |-> out]

\* publishUploadResult: the result becomes current, with one action for each
\* outcome in doubt; artifacts are kept while a client can be retried.
WithResult(w, i, out) ==
    [w EXCEPT !.result = i, !.actions = ResultActions(out),
              !.status = IF ResultActions(out) = {} THEN "completed" ELSE "blocked"]

Artifacts(i, out) ==
    IF \E t \in DOMAIN out : out[t] \in {"partial", "doubtful"} THEN {Resource("authority", i)} ELSE {}

\* Trackers were reached: ledger and trackers keep it whatever the save does.
PublishResult(p, out, sent, keep) ==
    /\ live
    /\ Cardinality(results) < MaxResults
    /\ \E i \in NewId("result"), arrived \in BOOLEAN :
        /\ Save(WithResult(wf, i, out), Artifacts(i, out), keep, {},
                results \cup {NewResult(p, i, out)}, FenceAfter(out, sent), FenceAfter(out, sent))
        /\ landed' = LandedAfter(out, sent, arrived)
    /\ UNCHANGED lapses

\* The pending decisions executeUploads refuses to pass over.
Undecided(selected) == \E t \in selected : Action("prepare", t) \in wf.actions

\* executeUploads with a reviewed plan: the plan leaves the vault first, so it
\* runs at most once; it is refused when it no longer matches.
ExecuteReviewed ==
    /\ live /\ wf.result = None
    /\ \E p \in Plans, selected \in SUBSET Trackers :
        /\ wf.plan = p.id
        /\ ~Undecided(selected)
        /\ IF /\ Matches(p, wf)
              /\ selected \subseteq p.ready
              /\ selected = {} => p.declined = p.trackers
           THEN \E out \in OutcomesOf(p, selected) : PublishResult(p, out, selected, vault \ {p})
           ELSE /\ vault' = vault \ {p}
                /\ UNCHANGED <<wf, results, fence, landed, live, faults, lapses>>

\* executeUploads without one: the plan is made on the spot and may ask nothing.
ExecuteDirect ==
    /\ wf.result = None /\ wf.plan = None
    /\ \E selected \in (SUBSET Trackers) \ {{}} :
        /\ CanPrepare(selected)
        /\ \E p \in PlansFor(None, selected) :
            /\ p.asking = {} /\ p.ready # {}
            /\ \E out \in OutcomesOf(p, p.ready) : PublishResult(p, out, p.ready, vault)

\* retryFailedUploads merges the new outcomes into the result it names, which
\* may be any retained result of the current snapshots; a tracker that cannot
\* be prepared again fails without being reached.
RetryFailedUploads ==
    \E r \in results, trackers \in (SUBSET Trackers) \ {{}} :
        /\ Matches(r, wf)
        /\ \A t \in trackers : t \in DOMAIN r.out /\ r.out[t] = "failed"
        /\ CanPrepare(trackers)
        /\ \E out \in [trackers -> Outcomes] :
            /\ \A t \in trackers : CanAnswer(t, out[t]) \/ out[t] = "failed"
            /\ PublishResult(r, [t \in DOMAIN r.out |-> IF t \in trackers THEN out[t] ELSE r.out[t]],
                             trackers, vault)

\* retryClientInjections needs the retained artifacts and submits nothing.
RetryClientInjections ==
    \E r \in results, trackers \in (SUBSET Trackers) \ {{}} :
        /\ Matches(r, wf)
        /\ \A t \in trackers : t \in DOMAIN r.out /\ r.out[t] = "partial"
        /\ Held("authority", r.id)
        /\ \E out \in [trackers -> Submitted \cap Answers] :
            PublishResult(r, [t \in DOMAIN r.out |-> IF t \in trackers THEN out[t] ELSE r.out[t]], {}, vault)

-----------------------------------------------------------------------------
(* Required actions, cancellation and restart.                             *)

InvalidateUnavailable_DupesOnly(w, v) ==
    IF w.dupes # None /\ ~(\E r \in v : r.kind = "dupes" /\ r.id = w.dupes.id)
    THEN InvalidateDupes([w EXCEPT !.proj = None, !.preflight = None]) ELSE w

\* invalidateUnavailablePrivateAuthority, over the vault v: a stage without its
\* private resource goes, with everything after it; a result or a pending
\* reconciliation protects all of them.
InvalidateUnavailable(w, v) ==
    LET has(kind, id) == \E r \in v : r.kind = kind /\ r.id = id
        a == IF w.dupes # None /\ ~has("dupes", Id(w.dupes))
             THEN InvalidateDupes([w EXCEPT !.proj = None, !.preflight = None]) ELSE w
        b == IF a.dupes # None /\ a.media # None /\ ~has("media", Id(a.media))
             THEN InvalidateUploadPlan([a EXCEPT !.media = None, !.desc = None]) ELSE a
        c == IF b.media # None /\ b.desc # None /\ ~has("desc", Id(b.desc))
             THEN InvalidateUploadPlan([b EXCEPT !.desc = None]) ELSE b
        d == IF c.plan # None /\ ~has("plan", c.plan) THEN [c EXCEPT !.plan = None] ELSE c
    IN  IF w.result # None \/ \E x \in w.actions : x.kind \in Reconciling THEN w ELSE d

\* resolveAction for a submission in doubt: the operator found that it never
\* reached the tracker; the ledger entry is resolved by the same save.
ReconcileSubmission ==
    /\ live
    /\ \E t \in Trackers :
        /\ Action("reconcile", t) \in wf.actions
        /\ fence[t] = "unknown" /\ ~landed[t]
        /\ LET w == InvalidateUploadPlan([wf EXCEPT !.actions = wf.actions \ {Action("reconcile", t)}])
           IN  Save(Unblocked(InvalidateUnavailable(w, vault)), {}, vault, {"plan"}, results,
                    fence, [fence EXCEPT ![t] = "free"])
    /\ UNCHANGED <<landed, lapses>>

\* The same for a client: reconcileClientInjectionResult publishes the result
\* again, retryable when the artifacts are still held.
ReconcileClient ==
    /\ live
    /\ Cardinality(results) < MaxResults
    /\ \E t \in Trackers, r \in results :
        /\ Action("reconcileClient", t) \in wf.actions
        /\ r.id = wf.result
        /\ LET w == [wf EXCEPT !.actions = wf.actions \ {Action("reconcileClient", t)}]
               held == Held("authority", r.id)
           IN  IF t \in DOMAIN r.out /\ r.out[t] = "doubtful"
               THEN \E i \in NewId("result") :
                    Save(Unblocked([w EXCEPT !.result = i]),
                         IF held THEN {Resource("authority", i)} ELSE {}, vault, {},
                         results \cup {[r EXCEPT !.id = i, !.out[t] = IF held THEN "partial" ELSE "done"]}, fence, fence)
               ELSE Save(Unblocked(w), {}, vault, {}, results, fence, fence)
    /\ UNCHANGED <<landed, lapses>>

\* The same for the client of a dry run, or when the result is already gone:
\* the reviewed plan is dropped.
ReconcileDryRun ==
    \E a \in wf.actions :
        /\ a.kind = "reconcileDry" \/ (a.kind = "reconcileClient" /\ wf.result = None)
        /\ LET w == InvalidateUploadPlan([wf EXCEPT !.actions = wf.actions \ {a}])
           IN  Publish(Unblocked(InvalidateUnavailable(w, vault)), {}, vault, {"plan"})

\* resolveImageHostingAction: the media are published again without the doubt,
\* or dropped when they can no longer be published.
ReconcileImageHosting ==
    LET a == Action("reconcileImage", None)
        dropped == Unblocked(InvalidateUploadPlan([wf EXCEPT !.media = None, !.desc = None, !.actions = wf.actions \ {a}]))
    IN  /\ a \in wf.actions
        /\ IF MediaMutable
           THEN \E i \in NewId("media"), short \in Maybe("images") :
                LET new == {Resource("media", i)}
                    w == PublishMedia(wf, NewMedia(wf, i, ~short, wf.media.failed, wf.media.skipped, FALSE))
                IN  Publish(InvalidateUnavailable(w, vault \cup new), new, vault, {"media", "desc", "plan"})
           ELSE Publish(InvalidateUnavailable(dropped, vault), {}, vault, {"plan"})

\* resolveAction for everything else that is answered and forgotten.
ResolveAction ==
    \E a \in wf.actions :
        /\ a.kind \in {"input", "confirm", "review", "provide"}
        /\ Publish(Unblocked([wf EXCEPT !.actions = wf.actions \ {a}]), {}, vault, {})

CancelWorkflow ==
    /\ wf.status \notin {"completed", "canceled"}
    /\ Publish([Draft EXCEPT !.status = "canceled"], {}, {}, {})

Restart ==
    /\ faults > 0 /\ faults' = faults - 1
    /\ live' = FALSE
    /\ vault' = vault \ Plans
    /\ UNCHANGED <<wf, results, fence, landed, lapses>>

\* workflowNeedsRestartRecovery.
NeedsRecovery ==
    /\ wf.status \notin {"completed", "canceled"}
    /\ wf.release # None \/ wf.status \in {"active", "blocked"}

KeptAction_Doubt(w, a) == a.kind \notin Reconciling

\* The actions a restart forgets: their subject is gone.
KeptAction(w, a) ==
    CASE a.kind = "review" -> w.dupes # None
      [] a.kind \in Reconciling -> w.result # None \/ w.media # None
      [] a.kind = "prepare" -> w.plan # None
      [] OTHER -> TRUE

\* recoverAfterRestart runs before the first command of the new process.
Recover ==
    /\ ~live /\ live' = TRUE
    /\ LET w == InvalidateUnavailable(wf, vault)
       IN  wf' = IF NeedsRecovery THEN SetStageStatus(w, {a \in w.actions : KeptAction(w, a)}) ELSE wf
    /\ UNCHANGED <<vault, results, fence, landed, faults, lapses>>

\* An operation that is itself recovered goes on without it.
Resume ==
    /\ ~live /\ live' = TRUE
    /\ UNCHANGED <<wf, vault, results, fence, landed, faults, lapses>>

\* The time to live of a private resource or of a snapshot ends.
Lapse ==
    /\ lapses > 0 /\ lapses' = lapses - 1
    /\ \/ /\ \E r \in vault : vault' = vault \ {r}
          /\ UNCHANGED wf
       \/ /\ wf.preflight # None /\ wf.preflight.fresh
          /\ wf' = [wf EXCEPT !.preflight.fresh = FALSE]
          /\ UNCHANGED vault
       \/ /\ wf.dupes # None /\ wf.dupes.fresh
          /\ wf' = [wf EXCEPT !.dupes.fresh = FALSE]
          /\ vault' = vault \ {Resource("dupes", wf.dupes.id)}
    /\ UNCHANGED <<results, fence, landed, live, faults>>

-----------------------------------------------------------------------------

ReleaseStep == ReplaceFactInstructions \/ PrepareRelease \/ ReplaceFactsAndPrepare

TrackerStep ==
    \/ ProjectTrackers \/ PreflightTrackers \/ InvalidateTrackers
    \/ CheckDuplicates \/ DecideDuplicates \/ ApproveTrackers

ContentStep ==
    \/ CaptureMedia \/ ChangeMedia \/ UploadMediaImages
    \/ GenerateDescriptions \/ MutateDescriptionOverride

UploadStep ==
    \/ DryRunUploads \/ ResolveTrackerPreparation \/ ExecuteReviewed \/ ExecuteDirect
    \/ RetryFailedUploads \/ RetryClientInjections

ActionStep ==
    \/ ReconcileSubmission \/ ReconcileClient \/ ReconcileDryRun \/ ReconcileImageHosting
    \/ ResolveAction \/ CancelWorkflow

Next ==
    \/ ReleaseStep \/ TrackerStep \/ ContentStep \/ UploadStep \/ ActionStep
    \/ Restart \/ Recover \/ Resume \/ Lapse

Spec == Init /\ [][Next]_vars

-----------------------------------------------------------------------------
(* Properties.                                                             *)

TypeOK ==
    /\ wf \in Workflows
    /\ vault \subseteq Payloads \cup UploadPlans
    /\ results \subseteq Results
    /\ fence \in [Trackers -> {"free", "unknown", "done"}]
    /\ landed \in [Trackers -> BOOLEAN]
    /\ live \in BOOLEAN /\ faults \in 0..MaxFaults /\ lapses \in 0..MaxLapses

\* Whatever order the commands, failed saves and restarts come in, the current
\* snapshots belong together: each was built from the current ones before it,
\* the approval covers eligible trackers only, and media were captured for
\* exactly the trackers that may go on now (also media taken over from an
\* earlier duplicate decision by restoreReusableMedia).
LineageCurrent ==
    /\ wf.proj # None => wf.proj.release = wf.release
    /\ wf.dupes # None => wf.proj # None /\ wf.dupes.proj = wf.proj.id
    /\ wf.approval # None =>
            wf.dupes # None /\ wf.approval.dupes = wf.dupes.id /\ wf.approval.approved \subseteq Eligible(wf)
    /\ wf.media # None =>
            /\ wf.dupes # None /\ (Mode = "gate" => wf.approval # None)
            /\ wf.media.release = wf.release /\ wf.media.proj = wf.proj.id
            /\ wf.media.approval = Id(wf.approval) /\ wf.media.fits = Targets(wf)
    /\ wf.desc # None => wf.media # None /\ wf.desc.media = wf.media.id /\ wf.desc.approval = wf.media.approval
    /\ wf.result # None => \E r \in results : r.id = wf.result /\ Matches(r, wf)

\* What the current result reports as submitted was submitted, through retries
\* that merge earlier results and reconciliations that rewrite them.
ReportedWasSent ==
    \A r \in results : \A t \in DOMAIN r.out : r.out[t] \in Submitted => landed[t]

\* A submission in doubt stays in front of the operator as long as its result
\* is current and the ledger has not resolved it: other reconciliations,
\* retries of a client, dry runs and restarts keep its action.  Only the
\* question of a new preparation replaces it.
DoubtStaysAsked ==
    [][\A t \in Trackers :
          Action("reconcile", t) \in wf.actions /\ wf.result # None /\ wf'.result = wf.result /\ fence'[t] = "unknown"
              => Action("reconcile", t) \in wf'.actions \/ Action("confirm", None) \in wf'.actions]_vars

\* An unknown outcome is never treated as success: while the current result
\* retains one the ledger has not resolved, the workflow is not completed.
UnknownNotCompleted ==
    \A r \in results : \A t \in DOMAIN r.out :
        r.id = wf.result /\ r.out[t] = "unknown" /\ fence[t] = "unknown" => wf.status # "completed"

\* The steps at which tracker t is sent the release.
Sends(t) == (fence[t] = "free" /\ fence'[t] # "free") \/ (~landed[t] /\ landed'[t])

\* Nothing is sent to a tracker behind the review: when a tracker is reached,
\* its current duplicate decision lets it pass and, where trackers are
\* approved, the current approval of the current duplicates names it.  Plans
\* reviewed earlier, retries of earlier results and restarts included.
SendsUnderReview ==
    [][\A t \in Trackers : Sends(t) =>
          /\ wf.dupes # None
          /\ t \in DOMAIN wf.dupes.dec \cap wf.proj.ready /\ wf.dupes.dec[t] \in {"clear", "ignored"}
          /\ Mode = "gate" => /\ wf.approval # None /\ wf.approval.dupes = wf.dupes.id
                               /\ t \in wf.approval.approved]_vars

Backed(w, v, k) == \E r \in v : r.kind = k /\ r.id = (IF k = "plan" THEN w.plan ELSE Id(w[k]))

\* Recovery leaves no current snapshot without its private resource, unless a
\* result or a pending reconciliation still needs the snapshots.
RecoveryLeavesBacked ==
    [][Recover /\ NeedsRecovery /\ wf.result = None /\ ~(\E a \in wf.actions : a.kind \in Reconciling)
          => \A k \in {"dupes", "media", "desc", "plan"} : wf'[k] # None => Backed(wf', vault', k)]_vars

\* Media are taken over only once every duplicate decision is made.
ReuseAwaitsDecisions ==
    [][(wf'.dupes # wf.dupes /\ wf'.media # None)
          => \A t \in wf'.proj.ready : wf'.dupes.dec[t] # "pending"]_vars

=============================================================================
