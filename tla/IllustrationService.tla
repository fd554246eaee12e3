------------------------- MODULE IllustrationService -------------------------
(***************************************************************************)
(* The API side of the pipeline: the five operations of                    *)
(* illustration.service.ts that put jobs in the queue, each a sequence of  *)
(* steps between two awaits, working on the entities it loaded first.      *)
(*                                                                         *)
(*   all        queueStoryIllustrations      remaining  queueRemaining...  *)
(*   affected   queueAffectedPages           page       regeneratePage     *)
(*   cover      regenerateCover                                            *)
(*                                                                         *)
(* A step makes at most one write to the database and one call to Redis or *)
(* the queue.  A request that is refused before it wrote anything has no   *)
(* step.  Statements sent to PostgreSQL do not fail.                       *)
(***************************************************************************)
EXTENDS IllustrationStore

Claiming  == {"all", "remaining", "affected"}  \* take the story's attempt id
Cascading == {"all", "remaining"}              \* load the story with its pages

IsNext(r, t) == t \in req[r].todo /\ \A u \in req[r].todo : t <= u

Resume(r, m) == req' = [req EXCEPT ![r] = m]
Goto(r, pc)  == Resume(r, [req[r] EXCEPT !.pc = pc])
Finish(r)    == Resume(r, [NoReq EXCEPT !.pc = "done", !.op = req[r].op])
Continue(r, m) == IF m.pc = "done" THEN Finish(r) ELSE Resume(r, m)

(* storyRepository.save(story) of the entity that request r holds.         *)
SaveLoadedStory(m) ==
  /\ SaveStory(m.story)
  /\ pages' = IF m.op \in Cascading THEN m.pages ELSE pages

(* What follows a step, by operation.                                      *)
AfterClaim(op)     == IF op = "all" THEN "reserve" ELSE "translate"
AfterReserve(op)   == CASE op = "all"      -> "translate"
                        [] op = "affected" -> "claim"
                        [] OTHER           -> "lookup"
AfterTranslate(op) == IF op = "remaining" THEN "afford" ELSE "save"
AfterQueued(op)    == IF op \in Cascading THEN "refresh" ELSE "reset"
AfterReset(op)     == IF op = "affected" THEN "refresh" ELSE "done"
AfterRefresh(op)   == IF op \in Cascading THEN "reset" ELSE "done"
(* Mutant: every catch block releases the attempt and restores nothing.    *)
AfterQueueErrorReleases(op, t) == "release"

(* The catch blocks: who restores the previous status, who only releases.  *)
AfterQueueError(op, t) ==
  IF op \in {"page", "cover"} \/ (op = "all" /\ t # Cover) THEN "restore"
                                                           ELSE "release"

-----------------------------------------------------------------------------
(* The entities are loaded.                                                *)

Load(r, op, todo, pc) ==
  /\ req[r].pc = "idle"
  /\ op \in Ops
  /\ Resume(r, [pc |-> pc, op |-> op, story |-> story, pages |-> pages,
                todo |-> todo, prev |-> "PENDING"])
  /\ UNCHANGED <<dbVars, quotaVars, budgetVars, noticeVars, cleared, jobs, run>>

(* A recorded attempt whose pages show no work in progress.                *)
StaleClaim == /\ story.attempt # None
              /\ ComputeStatus(pages) \notin {"GENERATING", "QUEUED"}

ToClaim == IF StaleClaim THEN "clear" ELSE "claim"

GenerateAll(r) ==
  /\ ComputeStatus(pages) # "COMPLETED"
  /\ \E regenerate \in BOOLEAN :
       Load(r, "all", {Cover} \union SelectedForQueueing(pages, regenerate),
            ToClaim)

GenerateRemaining(r) ==
  /\ SelectedAsRemaining(pages) # {}
  /\ Load(r, "remaining", SelectedAsRemaining(pages), ToClaim)

GenerateAffected(r) ==
  \E ps \in SUBSET Pages \ {{}} : Load(r, "affected", ps, "reserve")

RegeneratePage(r) == \E p \in Pages : Load(r, "page", {p}, "reserve")

RegenerateCover(r) == Load(r, "cover", {Cover}, "reserve")

-----------------------------------------------------------------------------
(* Claims and quotas.                                                      *)

(* UPDATE ... SET attempt = NULL WHERE attempt IS NOT NULL: whatever       *)
(* attempt is recorded by now.                                             *)
ClearStaleClaim(r) ==
  /\ req[r].pc = "clear"
  /\ UpdateStory([story EXCEPT !.attempt = None])
  /\ Resume(r, [req[r] EXCEPT !.pc = "claim", !.story.attempt = None])
  /\ UNCHANGED <<pages, quotaVars, budgetVars, noticeVars, jobs, run>>

(* UPDATE ... SET attempt = r WHERE attempt IS NULL.                       *)
ClaimAttempt(r) ==
  /\ req[r].pc = "claim"
  /\ story.attempt = None
  /\ UpdateStory([story EXCEPT !.attempt = r])
  /\ Resume(r, [req[r] EXCEPT !.pc = AfterClaim(req[r].op),
                              !.story.attempt = r])
  /\ UNCHANGED <<pages, quotaVars, budgetVars, noticeVars, jobs, run>>

ClaimRefused(r) ==
  /\ req[r].pc = "claim"
  /\ story.attempt # None
  /\ Finish(r)
  /\ UNCHANGED <<dbVars, quotaVars, budgetVars, noticeVars, cleared, jobs, run>>

(* Mutant: the cover is not counted.                                       *)
ImagesWithoutCover(r) == req[r].todo \ {Cover}

(* The images a request asks the allowance for: the selected pages, and    *)
(* one more for the cover of "all".                                        *)
Images(r) == req[r].todo

(* assertDailyImageAllowance: one Lua script checks and adds.              *)
QuotaAllows(r) == quota + Cardinality(Images(r)) <= DailyLimit

ReserveQuota(r) ==
  /\ req[r].pc = "reserve"
  /\ QuotaApplies => QuotaAllows(r)
  /\ IF QuotaApplies
     THEN /\ quota' = quota + Cardinality(Images(r))
          /\ reserved' = reserved \union (Images(r) \X {r})
     ELSE UNCHANGED quotaVars
  /\ Goto(r, AfterReserve(req[r].op))
  /\ UNCHANGED <<dbVars, budgetVars, noticeVars, cleared, jobs, run>>

(* The 429 of queueStoryIllustrations is thrown with the claim held.       *)
QuotaRefused(r) ==
  /\ req[r].pc = "reserve"
  /\ QuotaApplies
  /\ ~ QuotaAllows(r)
  /\ Finish(r)
  /\ UNCHANGED <<dbVars, quotaVars, budgetVars, noticeVars, cleared, jobs, run>>

(* regeneratePage loads the page only now, regenerateCover looks at the    *)
(* story it loaded first; both refuse a target that is being processed.    *)
LookupTarget(r) ==
  /\ req[r].pc = "lookup"
  /\ \E t \in req[r].todo :
       LET m == IF t = Cover THEN req[r]
                ELSE [req[r] EXCEPT !.pages[t] = pages[t]]
           status == IF t = Cover THEN m.story.cover ELSE m.pages[t].status
       IN  IF status \in ActiveStatuses
           THEN Finish(r)
           ELSE Resume(r, [m EXCEPT !.pc = "translate", !.prev = status])
  /\ UNCHANGED <<dbVars, quotaVars, budgetVars, noticeVars, cleared, jobs, run>>

-----------------------------------------------------------------------------
(* Queueing.                                                               *)

(* queueAffectedPages skips the pages that its copy shows as processed,    *)
(* and gives the claim back when nothing is left.                          *)
Translate(r) ==
  /\ req[r].pc = "translate"
  /\ LET op   == req[r].op
         todo == {t \in req[r].todo : op = "affected" =>
                    req[r].pages[t].status \notin ActiveStatuses}
     IN  Resume(r, [req[r] EXCEPT
                      !.todo = todo,
                      !.pc = IF todo = {} THEN "release"
                                          ELSE AfterTranslate(op)])
  /\ UNCHANGED <<dbVars, quotaVars, budgetVars, noticeVars, cleared, jobs, run>>

TranslateFails(r) ==
  /\ req[r].pc = "translate"
  /\ "translate" \in Faults
  /\ Goto(r, IF req[r].op \in Claiming THEN "release" ELSE "restore")
  /\ UNCHANGED <<dbVars, quotaVars, budgetVars, noticeVars, cleared, jobs, run>>

(* queueRemainingIllustrations keeps the first pages the remaining neurons *)
(* of the day can pay for, at the moment it reads the counter.             *)
Affordable == IF neurons > SafetyLimit THEN 0
              ELSE (SafetyLimit - neurons) \div Cost

KeepAffordable(r) ==
  /\ req[r].pc = "afford"
  /\ LET todo == {t \in req[r].todo :
                    Cardinality({u \in req[r].todo : u < t}) < Affordable}
     IN  Resume(r, [req[r] EXCEPT
                      !.todo = todo,
                      !.pc = IF todo = {} THEN "release" ELSE "save"])
  /\ UNCHANGED <<dbVars, quotaVars, budgetVars, noticeVars, cleared, jobs, run>>

(* Mutant: queueing a page drops its old image at once.                    *)
QueuedPageDropsImage(row) == [status |-> "QUEUED", image |-> FALSE]

(* The old image stays until a new one replaces it.                        *)
QueuedPage(row) == [row EXCEPT !.status = "QUEUED"]

(* status = QUEUED is saved before the job is added.                       *)
MarkQueued(r) ==
  /\ req[r].pc = "save"
  /\ \E t \in req[r].todo :
       /\ IsNext(r, t)
       /\ IF t = Cover
          THEN LET m == [req[r] EXCEPT !.pc = "add", !.story.cover = "QUEUED",
                           !.prev = IF req[r].op = "cover" THEN req[r].prev
                                    ELSE req[r].story.cover]
               IN  SaveLoadedStory(m) /\ Resume(r, m)
          ELSE LET m == [req[r] EXCEPT !.pc = "add",
                           !.pages[t] = QueuedPage(req[r].pages[t]),
                           !.prev = req[r].pages[t].status]
               IN  /\ SavePage(t, m.pages[t])
                   /\ Resume(r, m)
                   /\ UNCHANGED <<story, cleared>>
  /\ UNCHANGED <<quotaVars, budgetVars, noticeVars, jobs, run>>

(* Queue.add with a job id made of the target and the attempt id.          *)
AddJob(r) ==
  /\ req[r].pc = "add"
  /\ \E t \in req[r].todo :
       LET left == req[r].todo \ {t}
       IN  /\ IsNext(r, t)
           /\ jobs' = [jobs EXCEPT ![<<t, r>>] = [NoJob EXCEPT !.state = "waiting"]]
           /\ Resume(r, [req[r] EXCEPT
                           !.todo = left,
                           !.pc = IF left = {} THEN AfterQueued(req[r].op)
                                               ELSE "save"])
  /\ UNCHANGED <<dbVars, quotaVars, budgetVars, noticeVars, cleared, run>>

AddJobFails(r) ==
  /\ req[r].pc = "add"
  /\ "queue" \in Faults
  /\ \E t \in req[r].todo :
       IsNext(r, t) /\ Goto(r, AfterQueueError(req[r].op, t))
  /\ UNCHANGED <<dbVars, quotaVars, budgetVars, noticeVars, cleared, jobs, run>>

(* The previous status, saved with the rest of the loaded copy.            *)
RestoreStatus(r) ==
  /\ req[r].pc = "restore"
  /\ LET next == IF req[r].op = "all" THEN "release" ELSE "done"
     IN  \E t \in req[r].todo :
           /\ IsNext(r, t)
           /\ IF t = Cover
              THEN LET m == [req[r] EXCEPT !.pc = next,
                               !.story.cover = req[r].prev]
                   IN  SaveLoadedStory(m) /\ Continue(r, m)
              ELSE LET m == [req[r] EXCEPT !.pc = next,
                               !.pages[t].status = req[r].prev]
                   IN  /\ SavePage(t, m.pages[t])
                       /\ Continue(r, m)
                       /\ UNCHANGED <<story, cleared>>
  /\ UNCHANGED <<quotaVars, budgetVars, noticeVars, jobs, run>>

(* UPDATE ... SET attempt = NULL WHERE attempt = r.                        *)
ReleaseAttempt(r) ==
  /\ req[r].pc = "release"
  /\ UpdateStory(IF story.attempt = r THEN [story EXCEPT !.attempt = None]
                                      ELSE story)
  /\ Finish(r)
  /\ UNCHANGED <<pages, quotaVars, budgetVars, noticeVars, jobs, run>>

-----------------------------------------------------------------------------
(* After the jobs are in the queue.                                        *)

(* refreshStoryStatus computes the status from the loaded pages.           *)
RefreshLoadedStatus(r) ==
  /\ req[r].pc = "refresh"
  /\ LET m == [req[r] EXCEPT !.pc = AfterRefresh(req[r].op),
                 !.story.status = ComputeStatus(req[r].pages)]
     IN  SaveLoadedStory(m) /\ Continue(r, m)
  /\ UNCHANGED <<quotaVars, budgetVars, noticeVars, jobs, run>>

(* resetGenerationNotified saves only if the loaded copy has a date.       *)
ResetNotified(r) ==
  /\ req[r].pc = "reset"
  /\ LET m == [req[r] EXCEPT !.pc = AfterReset(req[r].op),
                 !.story.notified = FALSE]
     IN  /\ IF req[r].story.notified
            THEN SaveLoadedStory(m)
            ELSE UNCHANGED <<dbVars, cleared>>
         /\ Continue(r, m)
  /\ UNCHANGED <<quotaVars, budgetVars, noticeVars, jobs, run>>

(* The process that serves the request dies.                               *)
RequestDies(r) ==
  /\ "crash" \in Faults
  /\ req[r].pc \notin {"idle", "done"}
  /\ Finish(r)
  /\ UNCHANGED <<dbVars, quotaVars, budgetVars, noticeVars, cleared, jobs, run>>

Begin(r) ==
  \/ GenerateAll(r)
  \/ GenerateRemaining(r)
  \/ GenerateAffected(r)
  \/ RegeneratePage(r)
  \/ RegenerateCover(r)

Proceed(r) ==
  \/ ClearStaleClaim(r)
  \/ ClaimAttempt(r)
  \/ ClaimRefused(r)
  \/ ReserveQuota(r)
  \/ QuotaRefused(r)
  \/ LookupTarget(r)
  \/ Translate(r)
  \/ TranslateFails(r)
  \/ KeepAffordable(r)
  \/ MarkQueued(r)
  \/ AddJob(r)
  \/ AddJobFails(r)
  \/ RestoreStatus(r)
  \/ ReleaseAttempt(r)
  \/ RefreshLoadedStatus(r)
  \/ ResetNotified(r)

RequestStep(r) == Begin(r) \/ Proceed(r) \/ RequestDies(r)

=============================================================================
