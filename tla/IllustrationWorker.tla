------------------------- MODULE IllustrationWorker --------------------------
(***************************************************************************)
(* The queue side of the pipeline: illustration.processor.ts, and the part *)
(* of story-progress.service.ts it calls.  A job <<t, r>> illustrates      *)
(* target t for request r; its worker holds the page row (for a page) and  *)
(* the story row it loaded when it started.                                *)
(*                                                                         *)
(* BullMQ is external: any waiting job may be taken (a retry is delayed,   *)
(* so order is not kept), a job whose handler throws is retried until it   *)
(* has made MaxAttempts attempts whatever it throws, and a job whose       *)
(* worker dies is redelivered MaxStalls times.                             *)
(***************************************************************************)
EXTENDS IllustrationStore

Target(j)  == j[1]
IsPage(j)  == Target(j) # Cover

(* The target's status in the worker's memory m.                           *)
StatusIn(m, j) == IF IsPage(j) THEN m.page.status ELSE m.story.cover

WithStatus(m, j, status) ==
  IF IsPage(j) THEN [m EXCEPT !.page.status = status]
               ELSE [m EXCEPT !.story.cover = status]

WithImage(m, j) ==
  IF IsPage(j)
  THEN [m EXCEPT !.page = [status |-> "COMPLETED", image |-> TRUE]]
  ELSE [m EXCEPT !.story.cover = "COMPLETED", !.story.coverImage = TRUE]

Remember(j, m) == run' = [run EXCEPT ![j] = m]
Move(j, pc)    == Remember(j, [run[j] EXCEPT !.pc = pc])

(* save(page) for a page job, save(story) for a cover job.                 *)
SaveTarget(j, m) ==
  IF IsPage(j)
  THEN SavePage(Target(j), m.page) /\ UNCHANGED <<story, cleared>>
  ELSE SaveStory(m.story) /\ UNCHANGED pages

Handling(j, pc) == jobs[j].state = "active" /\ run[j].pc = pc

-----------------------------------------------------------------------------
(* BullMQ hands the job to a worker, which loads the rows.  A page is      *)
(* saved as GENERATING at once; a cover after its neurons are reserved.    *)
StartJob(j) ==
  /\ jobs[j].state = "waiting"
  /\ Cardinality({k \in JobIds : jobs[k].state = "active"}) < Concurrency
  /\ jobs' = [jobs EXCEPT ![j].state = "active"]
  /\ LET m == [NoRun EXCEPT !.pc = "reserve", !.story = story]
     IN  IF IsPage(j)
         THEN LET n == [m EXCEPT !.page = [pages[Target(j)] EXCEPT
                                             !.status = "GENERATING"]]
              IN  Remember(j, n) /\ SavePage(Target(j), n.page)
         ELSE Remember(j, m) /\ UNCHANGED pages
  /\ UNCHANGED <<story, cleared, quotaVars, budgetVars, noticeVars, req>>

(* Mutant: the usage so far is compared, not the usage after the request.  *)
BudgetAllowsBefore == neurons < SafetyLimit

(* canMakeRequest: one Lua script checks and adds.                         *)
BudgetAllows == neurons + Cost <= SafetyLimit

(* Mutant: a job that reserved neurons in an earlier attempt does not      *)
(* reserve them again.                                                     *)
ChargeOncePerJob(j) ==
  IF \E d \in charged : d[1] = j
  THEN UNCHANGED budgetVars
  ELSE /\ neurons' = neurons + Cost
       /\ charged' = charged \union {Delivery(j)}
       /\ UNCHANGED called

Charge(j) ==
  /\ neurons' = neurons + Cost
  /\ charged' = charged \union {Delivery(j)}
  /\ UNCHANGED called

ReserveNeurons(j) ==
  /\ Handling(j, "reserve")
  /\ BudgetAllows
  /\ Charge(j)
  /\ LET m == [run[j] EXCEPT !.pc = "generate"]
     IN  IF IsPage(j)
         THEN Remember(j, m) /\ UNCHANGED <<dbVars, cleared>>
         ELSE /\ Remember(j, WithStatus(m, j, "GENERATING"))
              /\ SaveTarget(j, WithStatus(m, j, "GENERATING"))
  /\ UNCHANGED <<quotaVars, noticeVars, jobs, req>>

(* Mutant: over the limit, the job goes back to the queue to wait for the  *)
(* next day.                                                               *)
BudgetRefusesRequeues(j) ==
  /\ Handling(j, "reserve")
  /\ ~ BudgetAllows
  /\ jobs' = [jobs EXCEPT ![j].state = "waiting"]
  /\ Remember(j, NoRun)
  /\ UNCHANGED <<dbVars, cleared, quotaVars, budgetVars, noticeVars, req>>

(* The job completes: the limit is not an error to BullMQ.                 *)
BudgetRefuses(j) ==
  /\ Handling(j, "reserve")
  /\ ~ BudgetAllows
  /\ LET m == WithStatus([run[j] EXCEPT !.pc = "limit"], j, "FAILED")
     IN  Remember(j, m) /\ SaveTarget(j, m)
  /\ UNCHANGED <<quotaVars, budgetVars, noticeVars, jobs, req>>

(* The prompt is validated after its neurons were reserved.                *)
RejectPrompt(j) ==
  /\ Handling(j, "reserve")
  /\ "prompt" \in Faults
  /\ BudgetAllows
  /\ Charge(j)
  /\ LET m == WithStatus([run[j] EXCEPT !.pc = IF IsPage(j) THEN "refresh"
                                                            ELSE "end"],
                         j, "FAILED")
     IN  Remember(j, m) /\ SaveTarget(j, m)
  /\ UNCHANGED <<quotaVars, noticeVars, jobs, req>>

(* Cloudflare answers, and the image is about to be uploaded.              *)
GenerateImage(j) ==
  /\ Handling(j, "generate")
  /\ called' = called \union {Delivery(j)}
  /\ LET m == WithStatus([run[j] EXCEPT !.pc = "upload"], j, "UPLOADING")
     IN  Remember(j, m) /\ SaveTarget(j, m)
  /\ UNCHANGED <<quotaVars, neurons, charged, noticeVars, jobs, req>>

(* Cloudflare or Cloudinary throws; isRetryableError classifies it.        *)
ProviderFails(j) ==
  /\ Handling(j, "generate") \/ Handling(j, "upload")
  /\ "provider" \in Faults
  /\ called' = called \union {Delivery(j)}
  /\ \E retryable \in BOOLEAN :
       Remember(j, [run[j] EXCEPT !.pc = "catch", !.retryable = retryable])
  /\ UNCHANGED <<dbVars, cleared, quotaVars, neurons, charged, noticeVars,
                 jobs, req>>

(* The upload succeeded: status, url and public id in one save.            *)
UploadImage(j) ==
  /\ Handling(j, "upload")
  /\ LET m == WithImage([run[j] EXCEPT !.pc = IF IsPage(j) THEN "refresh"
                                                           ELSE "end"], j)
     IN  Remember(j, m) /\ SaveTarget(j, m)
  /\ UNCHANGED <<quotaVars, budgetVars, noticeVars, jobs, req>>

(* notifyPageCompleted throws, inside the same try block: a page that is   *)
(* already COMPLETED goes through the failure path.                        *)
NotifyPageFails(j) ==
  /\ Handling(j, "refresh")
  /\ "notify" \in Faults
  /\ IsPage(j) /\ run[j].page.status = "COMPLETED"
  /\ Move(j, "catch")
  /\ UNCHANGED <<dbVars, cleared, quotaVars, budgetVars, noticeVars, jobs, req>>

(* Mutant: attemptsMade read as if it included this attempt.               *)
LastAttemptTooLate(j) == jobs[j].made >= MaxAttempts

LastAttempt(j) == jobs[j].made + 1 >= MaxAttempts

GivesUp(j) == ~ IsPage(j) \/ LastAttempt(j) \/ ~ run[j].retryable

(* The catch blocks.  A page waits as QUEUED for its next attempt; on the  *)
(* last one, or when the error is not retryable, it is FAILED.  A cover is *)
(* FAILED at once.  Both rethrow.                                          *)
HandleFailure(j) ==
  /\ Handling(j, "catch")
  /\ LET m == [run[j] EXCEPT !.pc = IF GivesUp(j) THEN "refresh" ELSE "end",
                             !.ok = FALSE, !.retryable = TRUE]
         n == WithStatus(m, j, IF GivesUp(j) THEN "FAILED" ELSE "QUEUED")
     IN  Remember(j, n) /\ SaveTarget(j, n)
  /\ UNCHANGED <<quotaVars, budgetVars, noticeVars, jobs, req>>

-----------------------------------------------------------------------------
(* refreshStoryStatus of the processor: read all pages, then update one    *)
(* column of the story.                                                    *)
ReadStatus(j) ==
  /\ Handling(j, "refresh")
  /\ Remember(j, [run[j] EXCEPT !.pc = "update",
                                !.result = ComputeStatus(pages)])
  /\ UNCHANGED <<dbVars, cleared, quotaVars, budgetVars, noticeVars, jobs, req>>

WriteStatus(j) ==
  /\ Handling(j, "update")
  /\ UpdateStory([story EXCEPT !.status = run[j].result])
  /\ Remember(j, [run[j] EXCEPT
                   !.pc = IF run[j].result \in TerminalStatuses THEN "change"
                                                                ELSE "end",
                   !.result = NoRun.result])
  /\ UNCHANGED <<pages, quotaVars, budgetVars, noticeVars, jobs, req>>

(* Mutant: the worker looks at the story it loaded, not at the row.        *)
AlreadyNotifiedInCopy(j) == run[j].story.notified

AlreadyNotified(j) == story.notified

(* notifyStoryTerminal: UPDATE ... WHERE notifiedAt IS NULL decides who    *)
(* announces, and drops the attempt.                                       *)
ClaimAnnouncement(j) ==
  /\ Handling(j, "change")
  /\ IF AlreadyNotified(j)
     THEN Move(j, "end") /\ UNCHANGED <<story, cleared>>
     ELSE /\ Move(j, "announce")
          /\ UpdateStory([story EXCEPT !.notified = TRUE, !.attempt = None])
  /\ UNCHANGED <<pages, quotaVars, budgetVars, noticeVars, jobs, req>>

(* The notification is stored; then the worker's copy of the story, with   *)
(* the claim reflected in it, is saved over the row.                       *)
Announce(j) ==
  /\ Handling(j, "announce")
  /\ announced' = announced + 1
  /\ LET m == [run[j] EXCEPT !.pc = "end", !.story.notified = TRUE,
                             !.story.attempt = None]
     IN  Remember(j, m) /\ SaveStory(m.story)
  /\ UNCHANGED <<pages, quotaVars, budgetVars, limitNotes, jobs, req>>

(* notifyDailyLimitReached: look for today's notification, then create it. *)
AfterLimit(j) == IF IsPage(j) THEN "refresh" ELSE "end"

CheckLimitNote(j) ==
  /\ Handling(j, "limit")
  /\ Move(j, IF limitNotes > 0 THEN AfterLimit(j) ELSE "limitNote")
  /\ UNCHANGED <<dbVars, cleared, quotaVars, budgetVars, noticeVars, jobs, req>>

CreateLimitNote(j) ==
  /\ Handling(j, "limitNote")
  /\ limitNotes' = limitNotes + 1
  /\ Move(j, AfterLimit(j))
  /\ UNCHANGED <<dbVars, cleared, quotaVars, budgetVars, announced, jobs, req>>

-----------------------------------------------------------------------------
(* Mutant: one attempt too many.                                           *)
AfterThrowOneMore(j) ==
  LET made == jobs[j].made + 1
  IN  [jobs[j] EXCEPT !.made = made,
                      !.state = IF made <= MaxAttempts THEN "waiting"
                                                       ELSE "failed"]

(* The handler throws: BullMQ counts the attempt.                          *)
AfterThrow(j) ==
  LET made == jobs[j].made + 1
  IN  [jobs[j] EXCEPT !.made = made,
                      !.state = IF made < MaxAttempts THEN "waiting"
                                                      ELSE "failed"]

(* The handler returned or threw, and BullMQ files the job.                *)
EndJob(j) ==
  /\ Handling(j, "end")
  /\ jobs' = [jobs EXCEPT ![j] = IF run[j].ok
                                 THEN [jobs[j] EXCEPT !.state = "completed"]
                                 ELSE AfterThrow(j)]
  /\ Remember(j, NoRun)
  /\ UNCHANGED <<dbVars, cleared, quotaVars, budgetVars, noticeVars, req>>

(* The worker dies: the lock of the job expires, and it is delivered once  *)
(* more from the start, or given up without its handler being called.      *)
WorkerDies(j) ==
  /\ "crash" \in Faults
  /\ jobs[j].state = "active"
  /\ jobs' = [jobs EXCEPT ![j] =
                IF jobs[j].stalls < MaxStalls
                THEN [jobs[j] EXCEPT !.state = "waiting",
                                     !.stalls = jobs[j].stalls + 1]
                ELSE [jobs[j] EXCEPT !.state = "stalled"]]
  /\ Remember(j, NoRun)
  /\ UNCHANGED <<dbVars, cleared, quotaVars, budgetVars, noticeVars, req>>

HandlerStep(j) ==
  \/ StartJob(j)
  \/ ReserveNeurons(j)
  \/ BudgetRefuses(j)
  \/ RejectPrompt(j)
  \/ GenerateImage(j)
  \/ ProviderFails(j)
  \/ UploadImage(j)
  \/ NotifyPageFails(j)
  \/ HandleFailure(j)
  \/ ReadStatus(j)
  \/ WriteStatus(j)
  \/ ClaimAnnouncement(j)
  \/ Announce(j)
  \/ CheckLimitNote(j)
  \/ CreateLimitNote(j)
  \/ EndJob(j)

=============================================================================
