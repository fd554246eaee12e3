---------------------------- MODULE Illustration -----------------------------
(***************************************************************************)
(* The illustration pipeline: requests of the API (IllustrationService)    *)
(* and queue workers (IllustrationWorker) over the same rows, counters and *)
(* queue (IllustrationStore).                                              *)
(***************************************************************************)
EXTENDS IllustrationService, IllustrationWorker

CONSTANT InitialRows   \* the page rows a story may start with

ASSUME InitialAssumption ==
  /\ InitialRows \subseteq PageRow
  /\ \A row \in InitialRows :
       row \in {FreshPage, [status |-> "COMPLETED", image |-> TRUE],
                [status |-> "FAILED", image |-> FALSE]}

(* No request and no job: a new story, or one whose earlier run has been   *)
(* announced.                                                              *)
Init ==
  /\ pages \in [Pages -> InitialRows]
  /\ story = [FreshStory EXCEPT
                !.status = ComputeStatus(pages),
                !.notified = (pages # [p \in Pages |-> FreshPage])]
  /\ quota = 0       /\ reserved = {}
  /\ neurons = 0     /\ charged = {}   /\ called = {}
  /\ announced = 0   /\ cleared = 0    /\ limitNotes = 0
  /\ jobs = [j \in JobIds |-> NoJob]
  /\ run  = [j \in JobIds |-> NoRun]
  /\ req  = [r \in Requests |-> NoReq]

Next ==
  \/ \E r \in Requests : RequestStep(r)
  \/ \E j \in JobIds : HandlerStep(j) \/ WorkerDies(j)

Spec == Init /\ [][Next]_vars

(* BullMQ and the workers keep running, and a request that was accepted    *)
(* runs to its end; nobody has to send a request.                          *)
FairSpec ==
  /\ Spec
  /\ \A j \in JobIds : WF_vars(HandlerStep(j))
  /\ \A r \in Requests : WF_vars(Proceed(r))

-----------------------------------------------------------------------------
TypeOK == StoreTypeOK

(* The neurons counted in Redis are exactly those of the job attempts that *)
(* reserved them, never more than the safety limit, and no worker calls    *)
(* the image model without a reservation of its own for that delivery.     *)
NeuronBudget ==
  /\ neurons = Cost * Cardinality(charged)
  /\ neurons <= SafetyLimit
  /\ called \subseteq charged

(* The pipeline implements PrepaidCalls: however its jobs are retried,      *)
(* redelivered and interleaved, every step pays for a new delivery, calls  *)
(* for a delivery that paid, or leaves the budget alone.                   *)
Prepaid == INSTANCE PrepaidCalls
             WITH Deliveries <- JobIds \X (0..MaxAttempts) \X (0..MaxStalls),
                  Limit <- SafetyLimit, used <- neurons, paid <- charged

CallsArePrepaid == Prepaid!Spec

(* Every job of the paths that ask for the owner's allowance has a         *)
(* reservation behind it, so those paths together queue at most            *)
(* USER_DAILY_IMAGE_LIMIT images a day.                                    *)
GatedJobsReserved ==
  QuotaApplies =>
    /\ {j \in JobIds : Added(j) /\ req[j[2]].op # "remaining"} \subseteq reserved
    /\ quota = Cardinality(reserved)
    /\ quota <= DailyLimit

(* Whatever stale copies are saved over it, a row that says COMPLETED has  *)
(* an image: no reader of a completed page or cover finds no url.          *)
CompletedHasImage ==
  /\ \A p \in Pages : pages[p].status = "COMPLETED" => pages[p].image
  /\ story.cover = "COMPLETED" => story.coverImage

Announcing == {j \in JobIds : run[j].pc = "announce"}

(* Workers that see the end of the run at the same time announce it once:  *)
(* more terminal notifications than runs take a save that clears the flag. *)
AnnouncedOncePerClear ==
  announced + Cardinality(Announcing) + (IF story.notified THEN 0 ELSE 1)
    <= cleared + 1

(* A handler that ends for good has last saved COMPLETED or FAILED: no     *)
(* error path ends the last attempt with the target left as in progress.   *)
EndsSettled ==
  [][\A j \in JobIds :
       (jobs[j].state = "active" /\ jobs'[j].state \in {"completed", "failed"})
         => StatusIn(run[j], j) \in {"COMPLETED", "FAILED"}]_vars

-----------------------------------------------------------------------------
(* Every queued job is eventually completed or given up.                   *)
JobsFinish ==
  \A j \in JobIds : Live(j) ~> ~ Live(j)

(* A page put in progress does not stay so.                                *)
PagesSettle ==
  \A p \in Pages : pages[p].status \in ActiveStatuses
                     ~> pages[p].status \notin ActiveStatuses

-----------------------------------------------------------------------------
(* Claims of the source that do not hold, each checked by a run that finds *)
(* the counterexample.                                                     *)

(* The comment of queueRemainingIllustrations: "Atomically claim a         *)
(* generation attempt so concurrent requests cannot enqueue duplicate      *)
(* BullMQ jobs for the same StoryPage."                                    *)
NoDuplicateJobs ==
  \A p \in Pages, r, s \in Requests :
    r # s => ~ (Live(<<p, r>>) /\ Live(<<p, s>>))

RunsQueued == {r \in Requests : \E t \in Targets : Added(<<t, r>>)}

(* The comment of onChangeStatus: "send one terminal notification per      *)
(* generation run".                                                        *)
OneTerminalPerRun == announced <= Cardinality(RunsQueued)

Quiet == /\ \A r \in Requests : req[r].pc \in {"idle", "done"}
         /\ \A j \in JobIds : ~ Live(j)

(* notifyStoryTerminal saves the story to "Reflect the claim locally so    *)
(* callers observe a consistent state": when nothing runs any more, the    *)
(* status of the story is the one computed from its pages.                 *)
StatusConsistent == Quiet => story.status = ComputeStatus(pages)

(* A page requires illustration when its "generation was interrupted       *)
(* (stuck in a pre-COMPLETED state)", and after a queue error the user     *)
(* hears "Please try again": but no operation takes up a page in progress. *)
RetryPossible ==
  Quiet => \A p \in Pages : pages[p].status \notin ActiveStatuses

=============================================================================
