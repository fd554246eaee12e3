-------------------------- MODULE IllustrationStore --------------------------
(***************************************************************************)
(* What the API requests and the queue workers of the illustration         *)
(* pipeline share: the story row and its page rows in PostgreSQL, the two  *)
(* daily counters in Redis, the BullMQ queue, and the memory each request  *)
(* and each running job holds between two awaits.                          *)
(*                                                                         *)
(* One story of one owner is modelled, within one UTC day.  An entity that *)
(* was loaded is a copy of the row; repository.save(entity) re-reads the   *)
(* row, and updates every column that differs from the copy, so the copy   *)
(* overwrites whatever other actors wrote since it was loaded.             *)
(***************************************************************************)
EXTENDS Naturals, FiniteSets, IllustrationStatus

CONSTANTS
  NumPages,        \* pages of the story, numbered 1..NumPages
  Requests,        \* API requests; a request's identity is its attempt id
  None,            \* the null attempt id
  Ops,             \* the operations requests may perform
  Faults,          \* what may go wrong, see FaultKinds
  QuotaApplies,    \* the owner has role USER
  DailyLimit,      \* USER_DAILY_IMAGE_LIMIT
  SafetyLimit,     \* AI_NEURON_SAFETY_LIMIT
  Cost,            \* neuronsPerRequest of the image model
  MaxAttempts,     \* BullMQ job option "attempts"
  MaxStalls,       \* times BullMQ redelivers a job whose worker died
  Concurrency      \* ILLUSTRATION_WORKER_CONCURRENCY

(* generate, generate-remaining, append's affected pages, page and cover.  *)
OpKinds == {"all", "remaining", "affected", "page", "cover"}

(* translate: no translation.  queue: Queue.add throws.  provider:         *)
(* Cloudflare or Cloudinary throws.  prompt: the prompt is rejected.       *)
(* notify: storing a page notification throws.  crash: a worker or the     *)
(* process of a request dies.                                              *)
FaultKinds == {"translate", "queue", "provider", "prompt", "notify", "crash"}

Pages   == 1..NumPages
Cover   == 0
Targets == Pages \union {Cover}
JobIds  == Targets \X Requests

ASSUME StoreAssumption ==
  /\ NumPages \in Nat \ {0}
  /\ IsFiniteSet(Requests)
  /\ None \notin Requests
  /\ Ops \subseteq OpKinds
  /\ Faults \subseteq FaultKinds
  /\ QuotaApplies \in BOOLEAN
  /\ DailyLimit \in Nat
  /\ SafetyLimit \in Nat
  /\ Cost \in Nat \ {0}
  /\ MaxAttempts \in Nat \ {0}
  /\ MaxStalls \in Nat
  /\ Concurrency \in Nat \ {0}

VARIABLES
  story,      \* the stories row
  pages,      \* the story_pages rows
  quota,      \* Redis: images the owner reserved today
  reserved,   \* history: the <<target, request>> pairs behind quota
  neurons,    \* Redis: neurons reserved today
  charged,    \* history: the job attempts behind neurons
  called,     \* history: the job attempts that called the image model
  announced,  \* history: terminal notifications created
  cleared,    \* history: times notifiedAt went from a date back to null
  limitNotes, \* AI_DAILY_LIMIT_REACHED notifications created
  jobs,       \* the BullMQ queue
  run,        \* memory of the worker that runs a job
  req         \* memory of a request

dbVars      == <<story, pages>>
quotaVars   == <<quota, reserved>>
budgetVars  == <<neurons, charged, called>>
noticeVars  == <<announced, limitNotes>>
vars == <<story, pages, quota, reserved, neurons, charged, called, announced,
          cleared, limitNotes, jobs, run, req>>

-----------------------------------------------------------------------------
(* The columns of the stories row the pipeline reads or writes.            *)
StoryRow ==
  [attempt    : Requests \union {None},  \* illustrationGenerationAttemptId
   notified   : BOOLEAN,                 \* illustrationGenerationNotifiedAt
   status     : StoryStatus,             \* illustrationStatus
   cover      : PageStatus,              \* coverImageStatus
   coverImage : BOOLEAN]                 \* coverImageUrl

JobState == [state  : {"absent", "waiting", "active", "completed", "failed",
                       "stalled"},
             made   : 0..MaxAttempts,
             stalls : 0..MaxStalls]

RunPcs == {"none", "reserve", "generate", "upload", "refresh", "update",
           "change", "announce", "limit", "limitNote", "catch", "end"}

RunState == [pc : RunPcs, story : StoryRow, page : PageRow,
             result : StoryStatus, ok : BOOLEAN, retryable : BOOLEAN]

ReqPcs == {"idle", "clear", "claim", "reserve", "lookup", "translate",
           "afford", "save", "add", "restore", "release", "refresh", "reset",
           "done"}

ReqState == [pc : ReqPcs, op : OpKinds, story : StoryRow,
             pages : [Pages -> PageRow], todo : SUBSET Targets,
             prev : PageStatus]

FreshStory == [attempt |-> None, notified |-> FALSE, status |-> "NOT_STARTED",
               cover |-> "PENDING", coverImage |-> FALSE]
FreshPage  == [status |-> "PENDING", image |-> FALSE]

NoRun == [pc |-> "none", story |-> FreshStory, page |-> FreshPage,
          result |-> "NOT_STARTED", ok |-> TRUE, retryable |-> TRUE]

NoReq == [pc |-> "idle", op |-> "all", story |-> FreshStory,
          pages |-> [p \in Pages |-> FreshPage], todo |-> {},
          prev |-> "PENDING"]

NoJob == [state |-> "absent", made |-> 0, stalls |-> 0]

-----------------------------------------------------------------------------
(***************************************************************************)
(* storyRepository.save(entity) and its effect on the page rows: Story     *)
(* .pages cascades, so an entity loaded with its pages writes them too.    *)
(***************************************************************************)
SaveStory(row) ==
  /\ story' = row
  /\ cleared' = IF story.notified /\ ~ row.notified THEN cleared + 1
                                                     ELSE cleared

SavePage(p, row) == pages' = [pages EXCEPT ![p] = row]

(* An UPDATE of single columns, which touches no other.                    *)
UpdateStory(row) == story' = row /\ UNCHANGED cleared

Live(j)  == jobs[j].state \in {"waiting", "active"}
Added(j) == jobs[j].state # "absent"

(* Job <<t, r>> in its current delivery.                                   *)
Delivery(j) == <<j, jobs[j].made, jobs[j].stalls>>

StoreTypeOK ==
  /\ story \in StoryRow
  /\ pages \in [Pages -> PageRow]
  /\ quota \in Nat
  /\ reserved \subseteq JobIds
  /\ neurons \in Nat
  /\ charged \subseteq JobIds \X (0..MaxAttempts) \X (0..MaxStalls)
  /\ called \subseteq JobIds \X (0..MaxAttempts) \X (0..MaxStalls)
  /\ announced \in Nat
  /\ cleared \in Nat
  /\ limitNotes \in Nat
  /\ jobs \in [JobIds -> JobState]
  /\ run \in [JobIds -> RunState]
  /\ req \in [Requests -> ReqState]

=============================================================================
