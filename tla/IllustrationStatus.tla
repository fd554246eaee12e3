------------------------- MODULE IllustrationStatus -------------------------
(***************************************************************************)
(* The pure rules of the illustration pipeline: how the status of a story  *)
(* is derived from its pages (illustration-status.service.ts) and which    *)
(* pages may be queued (story-illustration-eligibility.service.ts and the  *)
(* guards of illustration.service.ts).                                     *)
(*                                                                         *)
(* A page row is [status, image]: its imageStatus and whether imageUrl is  *)
(* a non-blank string.  A null imageStatus counts as PENDING everywhere.   *)
(***************************************************************************)

PageStatus ==
  {"PENDING", "QUEUED", "GENERATING", "UPLOADING", "COMPLETED", "FAILED"}

StoryStatus ==
  {"NOT_STARTED", "QUEUED", "GENERATING", "COMPLETED", "PARTIALLY_FAILED",
   "FAILED"}

PageRow == [status : PageStatus, image : BOOLEAN]

(* NON_REQUEUEABLE_STATUSES: a page in one of these is being worked on.    *)
ActiveStatuses == {"QUEUED", "GENERATING", "UPLOADING"}

(* The statuses for which onChangeStatus announces the end of a run.       *)
TerminalStatuses == {"COMPLETED", "PARTIALLY_FAILED", "FAILED"}

(***************************************************************************)
(* computeStatus.  One failed page makes the story PARTIALLY_FAILED even   *)
(* while others are queued, and pages that are all GENERATING or UPLOADING *)
(* make it NOT_STARTED: only QUEUED pages count as work in progress.       *)
(***************************************************************************)
ComputeStatus(pages) ==
  LET All(st)  == \A p \in DOMAIN pages : pages[p].status = st
      Some(st) == \E p \in DOMAIN pages : pages[p].status = st
  IN  IF DOMAIN pages = {} THEN "NOT_STARTED"
      ELSE IF All("COMPLETED") THEN "COMPLETED"
      ELSE IF All("FAILED") THEN "FAILED"
      ELSE IF Some("FAILED") THEN "PARTIALLY_FAILED"
      ELSE IF Some("QUEUED") THEN "GENERATING"
      ELSE "NOT_STARTED"

IsComplete(row) == row.status = "COMPLETED" /\ row.image

RequiresIllustration(row) ==
  ~ IsComplete(row) /\ row.status \notin ActiveStatuses

(* selectPagesForQueueing: completed pages only when regenerating.         *)
SelectedForQueueing(pages, regenerate) ==
  {p \in DOMAIN pages :
     /\ pages[p].status \notin ActiveStatuses
     /\ pages[p].status = "COMPLETED" => regenerate}

SelectedAsRemaining(pages) ==
  {p \in DOMAIN pages : RequiresIllustration(pages[p])}

=============================================================================
