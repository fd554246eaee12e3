---------------------- MODULE IllustrationBudgetProofs -----------------------
(***************************************************************************)
(* Typing and the neuron budget, for any number of pages and requests and  *)
(* any limits, attempts and redeliveries, from the assumptions of          *)
(* IllustrationStore and Illustration alone: see TypeOK, NeuronBudget and  *)
(* CallsArePrepaid of Illustration.                                        *)
(*                                                                         *)
(* A delivery of a job is charged at most once because its count of        *)
(* attempts and stalls is new when it starts, and that is so because a job *)
(* id is added only once: the attempt id in it belongs to one request,     *)
(* which adds each of its targets once.                                    *)
(***************************************************************************)
EXTENDS Illustration, FiniteSetTheorems, TLAPS

USE DEF Pages, Cover, Targets, JobIds

(***************************************************************************)
(* Typing.  That a job never counts more than MaxAttempts attempts needs   *)
(* the fact that a job BullMQ may still deliver has attempts left.         *)
(***************************************************************************)
AttemptsLeft == \A j \in JobIds : Live(j) => jobs[j].made < MaxAttempts

Typing == TypeOK /\ AttemptsLeft

(* ComputeStatus returns one of the statuses of a story.                   *)
LEMMA StatusTyping == \A ps : ComputeStatus(ps) \in StoryStatus
BY DEF ComputeStatus, StoryStatus

(* The memory of a request, after the kinds of assignments it makes.       *)
LEMMA RequestMemory ==
  ASSUME NEW m \in ReqState, NEW pc \in ReqPcs
  PROVE  /\ [m EXCEPT !.pc = pc] \in ReqState
         /\ \A todo \in SUBSET Targets : [m EXCEPT !.todo = todo, !.pc = pc] \in ReqState
         /\ \A s \in StoryRow : [m EXCEPT !.pc = pc, !.story = s] \in ReqState
         /\ [NoReq EXCEPT !.pc = pc, !.op = m.op] \in ReqState
BY StoreAssumption
   DEF ReqState, NoReq, FreshStory, FreshPage, StoryRow, PageRow, PageStatus, StoryStatus

(* A request that ends leaves a well-typed memory behind.                  *)
LEMMA FinishTyping ==
  ASSUME NEW r \in Requests, req \in [Requests -> ReqState]
  PROVE  /\ Finish(r) => req' \in [Requests -> ReqState]
         /\ \A m \in ReqState : Resume(r, m) => req' \in [Requests -> ReqState]
         /\ \A m \in ReqState : Continue(r, m) => req' \in [Requests -> ReqState]
         /\ \A pc \in ReqPcs : Goto(r, pc) => req' \in [Requests -> ReqState]
<1>1. "done" \in ReqPcs
  BY DEF ReqPcs
<1>2. Finish(r) => req' \in [Requests -> ReqState]
  <2>1. [NoReq EXCEPT !.pc = "done", !.op = req[r].op] \in ReqState
    BY <1>1, RequestMemory, Zenon
  <2> QED BY <2>1, Zenon DEF Finish, Resume
<1>3. \A m \in ReqState : Resume(r, m) => req' \in [Requests -> ReqState]
  BY DEF Resume
<1>4. \A pc \in ReqPcs : Goto(r, pc) => req' \in [Requests -> ReqState]
  <2> SUFFICES ASSUME NEW pc \in ReqPcs, Goto(r, pc) PROVE req' \in [Requests -> ReqState]
    OBVIOUS
  <2>1. [req[r] EXCEPT !.pc = pc] \in ReqState
    BY RequestMemory, Zenon
  <2> QED BY <2>1, Zenon DEF Goto, Resume
<1> QED BY <1>2, <1>3, <1>4 DEF Continue

(* Saving a typed copy of the story keeps the row and its counter typed.   *)
LEMMA SaveTyping ==
  ASSUME Typing, NEW m \in ReqState, SaveLoadedStory(m)
  PROVE  story' \in StoryRow /\ pages' \in [Pages -> PageRow] /\ cleared' \in Nat
BY DEF SaveLoadedStory, SaveStory, ReqState, Typing, TypeOK, StoreTypeOK

(* The steps that only load, check or skip.                                *)
LEMMA LoadTyping ==
  ASSUME Typing, NEW r \in Requests, Begin(r)
  PROVE  Typing'
<1>1. ASSUME NEW op \in OpKinds, NEW todo \in SUBSET Targets, NEW pc \in ReqPcs,
             Load(r, op, todo, pc)
      PROVE  Typing'
  <2>1. [pc |-> pc, op |-> op, story |-> story, pages |-> pages,
         todo |-> todo, prev |-> "PENDING"] \in ReqState
    BY DEF ReqState, PageStatus, Typing, TypeOK, StoreTypeOK
  <2> QED
    BY <1>1, <2>1, FinishTyping
    DEF Load, Typing, TypeOK, StoreTypeOK, AttemptsLeft, Live, dbVars, quotaVars,
        budgetVars, noticeVars
<1>2. /\ ToClaim \in ReqPcs /\ "reserve" \in ReqPcs
      /\ \A b \in BOOLEAN : SelectedForQueueing(pages, b) \subseteq Pages
      /\ SelectedAsRemaining(pages) \subseteq Pages
  BY DEF ToClaim, ReqPcs, SelectedForQueueing, SelectedAsRemaining, Typing, TypeOK, StoreTypeOK
<1>3. CASE GenerateAll(r)
  <2>1. PICK b \in BOOLEAN : Load(r, "all", {Cover} \union SelectedForQueueing(pages, b), ToClaim)
    BY <1>3 DEF GenerateAll
  <2> QED BY <1>1, <1>2, <2>1 DEF OpKinds
<1>4. CASE GenerateRemaining(r)
  BY <1>1, <1>2, <1>4 DEF GenerateRemaining, OpKinds
<1>5. CASE GenerateAffected(r)
  BY <1>1, <1>2, <1>5 DEF GenerateAffected, OpKinds
<1>6. CASE RegeneratePage(r)
  BY <1>1, <1>2, <1>6 DEF RegeneratePage, OpKinds
<1>7. CASE RegenerateCover(r)
  BY <1>1, <1>2, <1>7 DEF RegenerateCover, OpKinds
<1> QED BY <1>3, <1>4, <1>5, <1>6, <1>7 DEF Begin

(* What a request may write, and what it may not touch.                    *)
LEMMA RequestFrame ==
  ASSUME Typing,
         story' \in StoryRow, pages' \in [Pages -> PageRow], cleared' \in Nat,
         quota' \in Nat, reserved' \subseteq JobIds,
         req' \in [Requests -> ReqState],
         jobs' \in [JobIds -> JobState],
         \A j \in JobIds : jobs'[j] = jobs[j] \/ jobs'[j].made < MaxAttempts,
         UNCHANGED <<budgetVars, noticeVars, run>>
  PROVE  Typing'
<1>1. TypeOK'
  BY DEF Typing, TypeOK, StoreTypeOK, budgetVars, noticeVars
<1>2. AttemptsLeft'
  BY DEF Typing, AttemptsLeft, Live
<1> QED BY <1>1, <1>2 DEF Typing

(* Sets of targets are finite, so they have a natural cardinality.         *)
LEMMA SubsetCardinality == \A S \in SUBSET Targets : Cardinality(S) \in Nat
<1>1. IsFiniteSet(Targets)
  <2>1. IsFiniteSet(1..NumPages)
    BY StoreAssumption, FS_Interval
  <2> QED BY <2>1, FS_AddElement
<1> QED BY <1>1, FS_Subset, FS_CardinalityType

(* Every step of an accepted request keeps the types.                      *)
LEMMA ProceedTyping ==
  ASSUME Typing, NEW r \in Requests, Proceed(r) \/ RequestDies(r)
  PROVE  Typing'
<1>0. /\ story \in StoryRow /\ pages \in [Pages -> PageRow] /\ cleared \in Nat
      /\ quota \in Nat /\ reserved \subseteq JobIds /\ neurons \in Nat
      /\ jobs \in [JobIds -> JobState]
      /\ req \in [Requests -> ReqState]
      /\ req[r] \in ReqState
  BY DEF Typing, TypeOK, StoreTypeOK
<1>a. \A pc \in {"idle", "clear", "claim", "reserve", "lookup", "translate",
           "afford", "save", "add", "restore", "release", "refresh", "reset",
           "done"} : pc \in ReqPcs
  BY DEF ReqPcs
<1> USE DEF dbVars, quotaVars
<1>1. CASE ClearStaleClaim(r)
  <2>1. [req[r] EXCEPT !.pc = "claim", !.story.attempt = None] \in ReqState
    BY <1>0, <1>a, ZenonT(30) DEF ReqState, StoryRow
  <2>2. [story EXCEPT !.attempt = None] \in StoryRow
    BY <1>0 DEF StoryRow
  <2>3. req' \in [Requests -> ReqState]
    BY <1>0, <1>1, <2>1, FinishTyping, Zenon DEF ClearStaleClaim
  <2> QED BY <1>0, <1>1, <2>2, <2>3, RequestFrame DEF ClearStaleClaim, UpdateStory
<1>2. CASE ClaimAttempt(r)
  <2>1. [req[r] EXCEPT !.pc = AfterClaim(req[r].op), !.story.attempt = r] \in ReqState
    <3>1. AfterClaim(req[r].op) \in ReqPcs
      BY <1>a DEF AfterClaim
    <3> QED BY <1>0, <3>1, ZenonT(30) DEF ReqState, StoryRow
  <2>2. [story EXCEPT !.attempt = r] \in StoryRow
    BY <1>0 DEF StoryRow
  <2>3. req' \in [Requests -> ReqState]
    BY <1>0, <1>2, <2>1, FinishTyping, Zenon DEF ClaimAttempt
  <2> QED BY <1>0, <1>2, <2>2, <2>3, RequestFrame DEF ClaimAttempt, UpdateStory
<1>3. CASE ClaimRefused(r)
  <2>1. req' \in [Requests -> ReqState]
    BY <1>0, <1>3, FinishTyping, Zenon DEF ClaimRefused
  <2> QED BY <1>0, <1>3, <2>1, RequestFrame DEF ClaimRefused
<1>4. CASE ReserveQuota(r)
  <2>1. AfterReserve(req[r].op) \in ReqPcs
    BY <1>a DEF AfterReserve
  <2>2. req' \in [Requests -> ReqState]
    BY <1>0, <1>4, <2>1, FinishTyping, Zenon DEF ReserveQuota
  <2>3. Images(r) \in SUBSET Targets
    BY <1>0 DEF Images, ReqState
  <2>4. quota' \in Nat /\ reserved' \subseteq JobIds
    BY <1>0, <1>4, <2>3, SubsetCardinality DEF ReserveQuota
  <2> QED BY <1>0, <1>4, <2>2, <2>4, RequestFrame DEF ReserveQuota
<1>5. CASE QuotaRefused(r)
  <2>1. req' \in [Requests -> ReqState]
    BY <1>0, <1>5, FinishTyping, Zenon DEF QuotaRefused
  <2> QED BY <1>0, <1>5, <2>1, RequestFrame DEF QuotaRefused
<1>6. CASE LookupTarget(r)
  <2>1. PICK t \in req[r].todo :
          LET m == IF t = Cover THEN req[r] ELSE [req[r] EXCEPT !.pages[t] = pages[t]]
              status == IF t = Cover THEN m.story.cover ELSE m.pages[t].status
          IN  IF status \in ActiveStatuses
              THEN Finish(r)
              ELSE Resume(r, [m EXCEPT !.pc = "translate", !.prev = status])
    BY <1>6 DEF LookupTarget
  <2> DEFINE m == IF t = Cover THEN req[r] ELSE [req[r] EXCEPT !.pages[t] = pages[t]]
             status == IF t = Cover THEN m.story.cover ELSE m.pages[t].status
  <2>2. m \in ReqState
    BY <1>0 DEF ReqState
  <2>3. status \in PageStatus
    BY <1>0, <2>2 DEF ReqState, StoryRow, PageRow
  <2>4. [m EXCEPT !.pc = "translate", !.prev = status] \in ReqState
    <3> HIDE DEF m, status
    <3> QED BY <1>a, <2>2, <2>3 DEF ReqState
  <2>5. req' \in [Requests -> ReqState]
    BY <1>0, <2>1, <2>4, FinishTyping, Zenon
  <2> QED BY <1>0, <1>6, <2>5, RequestFrame DEF LookupTarget
<1>7. CASE Translate(r)
  <2> DEFINE todo == {t \in req[r].todo : req[r].op = "affected" =>
                        req[r].pages[t].status \notin ActiveStatuses}
             pc == IF todo = {} THEN "release" ELSE AfterTranslate(req[r].op)
  <2>1. todo \in SUBSET Targets /\ pc \in ReqPcs
    BY <1>0, <1>a DEF ReqState, AfterTranslate
  <2>2. [req[r] EXCEPT !.todo = todo, !.pc = pc] \in ReqState
    <3> HIDE DEF todo, pc
    <3> QED BY <1>0, <2>1, RequestMemory
  <2>3. req' \in [Requests -> ReqState]
    BY <1>0, <1>7, <2>2, FinishTyping, Zenon DEF Translate
  <2> QED BY <1>0, <1>7, <2>3, RequestFrame DEF Translate
<1>8. CASE TranslateFails(r)
  <2>1. req' \in [Requests -> ReqState]
    BY <1>0, <1>8, <1>a, FinishTyping DEF TranslateFails
  <2> QED BY <1>0, <1>8, <2>1, RequestFrame DEF TranslateFails
<1>9. CASE KeepAffordable(r)
  <2> DEFINE todo == {t \in req[r].todo :
                        Cardinality({u \in req[r].todo : u < t}) < Affordable}
             pc == IF todo = {} THEN "release" ELSE "save"
  <2>1. todo \in SUBSET Targets /\ pc \in ReqPcs
    BY <1>0, <1>a DEF ReqState
  <2>2. [req[r] EXCEPT !.todo = todo, !.pc = pc] \in ReqState
    <3> HIDE DEF todo, pc
    <3> QED BY <1>0, <2>1, RequestMemory
  <2>3. req' \in [Requests -> ReqState]
    BY <1>0, <1>9, <2>2, FinishTyping, Zenon DEF KeepAffordable
  <2> QED BY <1>0, <1>9, <2>3, RequestFrame DEF KeepAffordable
<1>10. CASE MarkQueued(r)
  <2>1. PICK t \in req[r].todo :
          IF t = Cover
          THEN LET m == [req[r] EXCEPT !.pc = "add", !.story.cover = "QUEUED",
                           !.prev = IF req[r].op = "cover" THEN req[r].prev
                                    ELSE req[r].story.cover]
               IN  SaveLoadedStory(m) /\ Resume(r, m)
          ELSE LET m == [req[r] EXCEPT !.pc = "add",
                           !.pages[t] = QueuedPage(req[r].pages[t]),
                           !.prev = req[r].pages[t].status]
               IN  /\ SavePage(t, m.pages[t])
                   /\ Resume(r, m)
                   /\ UNCHANGED <<story, cleared>>
    BY <1>10 DEF MarkQueued
  <2>2. CASE t = Cover
    <3> DEFINE prev == IF req[r].op = "cover" THEN req[r].prev ELSE req[r].story.cover
               cover == [req[r].story EXCEPT !.cover = "QUEUED"]
               m == [req[r] EXCEPT !.pc = "add", !.story.cover = "QUEUED", !.prev = prev]
    <3>1. prev \in PageStatus /\ cover \in StoryRow
      BY <1>0 DEF ReqState, StoryRow, PageStatus
    <3>2. m \in ReqState
      <4>1. m = [req[r] EXCEPT !.pc = "add", !.story = cover, !.prev = prev]
        BY <1>0 DEF ReqState
      <4> HIDE DEF m, prev, cover
      <4> QED BY <1>0, <1>a, <3>1, <4>1 DEF ReqState
    <3>3. SaveLoadedStory(m) /\ Resume(r, m)
      BY <2>1, <2>2
    <3> HIDE DEF m
    <3>4. req' \in [Requests -> ReqState]
      BY <1>0, <3>2, <3>3, FinishTyping, Zenon
    <3>5. story' \in StoryRow /\ pages' \in [Pages -> PageRow] /\ cleared' \in Nat
      BY <3>2, <3>3, SaveTyping
    <3> QED BY <1>0, <1>10, <3>4, <3>5, RequestFrame DEF MarkQueued
  <2>3. CASE t # Cover
    <3> DEFINE ps == [req[r].pages EXCEPT ![t] = QueuedPage(req[r].pages[t])]
               m == [req[r] EXCEPT !.pc = "add",
                       !.pages[t] = QueuedPage(req[r].pages[t]),
                       !.prev = req[r].pages[t].status]
    <3>1. t \in Pages /\ QueuedPage(req[r].pages[t]) \in PageRow
      <4>1. req[r].pages \in [Pages -> PageRow] /\ req[r].todo \subseteq Targets
        BY <1>0 DEF ReqState
      <4>2. t \in Pages
        BY <2>3, <4>1, StoreAssumption
      <4>3. req[r].pages[t] \in PageRow
        BY <4>1, <4>2
      <4> HIDE DEF ps, m
      <4> QED BY <4>2, <4>3 DEF QueuedPage, PageRow, PageStatus
    <3>2. ps \in [Pages -> PageRow] /\ req[r].pages[t].status \in PageStatus
      <4> HIDE DEF ps
      <4>1. req[r].pages \in [Pages -> PageRow]
        BY <1>0 DEF ReqState
      <4> QED BY <3>1, <4>1 DEF ps, PageRow
    <3>3. m \in ReqState
      <4>1. m = [req[r] EXCEPT !.pc = "add", !.pages = ps, !.prev = req[r].pages[t].status]
        BY <1>0 DEF ReqState
      <4> HIDE DEF m, ps
      <4> QED BY <1>0, <1>a, <3>2, <4>1 DEF ReqState
    <3>4. SavePage(t, m.pages[t]) /\ Resume(r, m) /\ UNCHANGED <<story, cleared>>
      BY <2>1, <2>3
    <3>5. m.pages[t] \in PageRow
      <4> HIDE DEF m
      <4> QED BY <3>1, <3>3 DEF ReqState
    <3> HIDE DEF m
    <3>6. pages' \in [Pages -> PageRow]
      BY <1>0, <3>1, <3>4, <3>5 DEF SavePage
    <3>7. req' \in [Requests -> ReqState]
      BY <1>0, <3>3, <3>4, FinishTyping, Zenon
    <3> QED BY <1>0, <1>10, <3>4, <3>6, <3>7, RequestFrame DEF MarkQueued
  <2> QED BY <2>2, <2>3
<1>11. CASE AddJob(r)
  <2>1. PICK t \in req[r].todo :
          /\ jobs' = [jobs EXCEPT ![<<t, r>>] = [NoJob EXCEPT !.state = "waiting"]]
          /\ Resume(r, [req[r] EXCEPT
                           !.todo = req[r].todo \ {t},
                           !.pc = IF req[r].todo \ {t} = {} THEN AfterQueued(req[r].op)
                                                            ELSE "save"])
    BY <1>11 DEF AddJob
  <2> DEFINE left == req[r].todo \ {t}
             pc == IF left = {} THEN AfterQueued(req[r].op) ELSE "save"
  <2>2. left \in SUBSET Targets /\ pc \in ReqPcs
    BY <1>0, <1>a DEF ReqState, AfterQueued
  <2>3. [req[r] EXCEPT !.todo = left, !.pc = pc] \in ReqState
    <3> HIDE DEF left, pc
    <3> QED BY <1>0, <2>2, RequestMemory
  <2>4. req' \in [Requests -> ReqState]
    BY <1>0, <2>1, <2>3, FinishTyping, Zenon
  <2>5. [NoJob EXCEPT !.state = "waiting"] \in JobState
        /\ [NoJob EXCEPT !.state = "waiting"].made < MaxAttempts
    BY StoreAssumption DEF NoJob, JobState
  <2>6. /\ jobs' \in [JobIds -> JobState]
        /\ \A j \in JobIds : jobs'[j] = jobs[j] \/ jobs'[j].made < MaxAttempts
    BY <1>0, <2>1, <2>5 DEF ReqState
  <2> QED BY <1>0, <1>11, <2>4, <2>6, RequestFrame DEF AddJob
<1>12. CASE AddJobFails(r)
  <2>1. \A t : AfterQueueError(req[r].op, t) \in ReqPcs
    BY <1>a DEF AfterQueueError
  <2>2. req' \in [Requests -> ReqState]
    BY <1>0, <1>12, <2>1, FinishTyping, Zenon DEF AddJobFails
  <2> QED BY <1>0, <1>12, <2>2, RequestFrame DEF AddJobFails
<1>13. CASE RestoreStatus(r)
  <2> DEFINE next == IF req[r].op = "all" THEN "release" ELSE "done"
  <2>1. PICK t \in req[r].todo :
          IF t = Cover
          THEN LET m == [req[r] EXCEPT !.pc = next, !.story.cover = req[r].prev]
               IN  SaveLoadedStory(m) /\ Continue(r, m)
          ELSE LET m == [req[r] EXCEPT !.pc = next, !.pages[t].status = req[r].prev]
               IN  /\ SavePage(t, m.pages[t])
                   /\ Continue(r, m)
                   /\ UNCHANGED <<story, cleared>>
    BY <1>13, Zenon DEF RestoreStatus
  <2>a. next \in ReqPcs /\ req[r].prev \in PageStatus
    BY <1>0, <1>a DEF ReqState
  <2>2. CASE t = Cover
    <3> DEFINE cover == [req[r].story EXCEPT !.cover = req[r].prev]
               m == [req[r] EXCEPT !.pc = next, !.story.cover = req[r].prev]
    <3>1. cover \in StoryRow
      BY <1>0, <2>a DEF ReqState, StoryRow
    <3>2. m \in ReqState
      <4>1. m = [req[r] EXCEPT !.pc = next, !.story = cover]
        BY <1>0 DEF ReqState
      <4> HIDE DEF m, cover, next
      <4> QED BY <1>0, <2>a, <3>1, <4>1 DEF ReqState
    <3>3. SaveLoadedStory(m) /\ Continue(r, m)
      BY <2>1, <2>2
    <3> HIDE DEF m
    <3>4. req' \in [Requests -> ReqState]
      BY <1>0, <3>2, <3>3, FinishTyping, Zenon
    <3>5. story' \in StoryRow /\ pages' \in [Pages -> PageRow] /\ cleared' \in Nat
      BY <3>2, <3>3, SaveTyping
    <3> QED BY <1>0, <1>13, <3>4, <3>5, RequestFrame DEF RestoreStatus
  <2>3. CASE t # Cover
    <3> DEFINE row == [req[r].pages[t] EXCEPT !.status = req[r].prev]
               ps == [req[r].pages EXCEPT ![t] = row]
               m == [req[r] EXCEPT !.pc = next, !.pages[t].status = req[r].prev]
    <3>1. t \in Pages /\ row \in PageRow
      <4>1. t \in Pages
        BY <1>0, <2>3, StoreAssumption DEF ReqState
      <4>2. req[r].pages[t] \in PageRow
        BY <1>0, <4>1 DEF ReqState
      <4> QED BY <2>a, <4>1, <4>2 DEF PageRow
    <3>2. ps \in [Pages -> PageRow]
      <4> HIDE DEF ps, row
      <4>1. req[r].pages \in [Pages -> PageRow]
        BY <1>0 DEF ReqState
      <4> QED BY <3>1, <4>1 DEF ps
    <3>3. m \in ReqState
      <4>1. m = [req[r] EXCEPT !.pc = next, !.pages = ps]
        BY <1>0 DEF ReqState
      <4> HIDE DEF m, ps, next
      <4> QED BY <1>0, <2>a, <3>2, <4>1 DEF ReqState
    <3>4. SavePage(t, m.pages[t]) /\ Continue(r, m) /\ UNCHANGED <<story, cleared>>
      BY <2>1, <2>3
    <3>5. m.pages[t] \in PageRow
      <4> HIDE DEF m
      <4> QED BY <3>1, <3>3 DEF ReqState
    <3> HIDE DEF m
    <3>6. pages' \in [Pages -> PageRow]
      BY <1>0, <3>1, <3>4, <3>5 DEF SavePage
    <3>7. req' \in [Requests -> ReqState]
      BY <1>0, <3>3, <3>4, FinishTyping, Zenon
    <3> QED BY <1>0, <1>13, <3>4, <3>6, <3>7, RequestFrame DEF RestoreStatus
  <2> QED BY <2>2, <2>3
<1>14. CASE ReleaseAttempt(r)
  <2>1. story' \in StoryRow
    BY <1>0, <1>14 DEF ReleaseAttempt, UpdateStory, StoryRow
  <2>2. req' \in [Requests -> ReqState]
    BY <1>0, <1>14, FinishTyping, Zenon DEF ReleaseAttempt
  <2> QED BY <1>0, <1>14, <2>1, <2>2, RequestFrame DEF ReleaseAttempt, UpdateStory
<1>15. CASE RefreshLoadedStatus(r)
  <2> DEFINE row == [req[r].story EXCEPT !.status = ComputeStatus(req[r].pages)]
             m == [req[r] EXCEPT !.pc = AfterRefresh(req[r].op),
                     !.story.status = ComputeStatus(req[r].pages)]
  <2>1. row \in StoryRow /\ AfterRefresh(req[r].op) \in ReqPcs
    BY <1>0, <1>a, StatusTyping DEF ReqState, StoryRow, AfterRefresh
  <2>2. m \in ReqState
    <3>1. m = [req[r] EXCEPT !.pc = AfterRefresh(req[r].op), !.story = row]
      BY <1>0 DEF ReqState
    <3> HIDE DEF m, row
    <3> QED BY <1>0, <2>1, <3>1 DEF ReqState
  <2>3. SaveLoadedStory(m) /\ Continue(r, m)
    BY <1>15, Zenon DEF RefreshLoadedStatus
  <2> HIDE DEF m
  <2>4. req' \in [Requests -> ReqState]
    BY <1>0, <2>2, <2>3, FinishTyping, Zenon
  <2>5. story' \in StoryRow /\ pages' \in [Pages -> PageRow] /\ cleared' \in Nat
    BY <2>2, <2>3, SaveTyping
  <2> QED BY <1>0, <1>15, <2>4, <2>5, RequestFrame DEF RefreshLoadedStatus
<1>16. CASE ResetNotified(r)
  <2> DEFINE row == [req[r].story EXCEPT !.notified = FALSE]
             m == [req[r] EXCEPT !.pc = AfterReset(req[r].op), !.story.notified = FALSE]
  <2>1. row \in StoryRow /\ AfterReset(req[r].op) \in ReqPcs
    BY <1>0, <1>a DEF ReqState, StoryRow, AfterReset
  <2>2. m \in ReqState
    <3>1. m = [req[r] EXCEPT !.pc = AfterReset(req[r].op), !.story = row]
      BY <1>0 DEF ReqState
    <3> HIDE DEF m, row
    <3> QED BY <1>0, <2>1, <3>1 DEF ReqState
  <2>3. /\ SaveLoadedStory(m) \/ UNCHANGED <<dbVars, cleared>>
        /\ Continue(r, m)
    BY <1>16, Zenon DEF ResetNotified
  <2> HIDE DEF m
  <2>4. req' \in [Requests -> ReqState]
    BY <1>0, <2>2, <2>3, FinishTyping, Zenon
  <2>5. story' \in StoryRow /\ pages' \in [Pages -> PageRow] /\ cleared' \in Nat
    BY <1>0, <2>2, <2>3, SaveTyping
  <2> QED BY <1>0, <1>16, <2>4, <2>5, RequestFrame DEF ResetNotified
<1>17. CASE RequestDies(r)
  <2>1. req' \in [Requests -> ReqState]
    BY <1>0, <1>17, FinishTyping, Zenon DEF RequestDies
  <2> QED BY <1>0, <1>17, <2>1, RequestFrame DEF RequestDies
<1> QED
  BY <1>1, <1>2, <1>3, <1>4, <1>5, <1>6, <1>7, <1>8, <1>9, <1>10, <1>11, <1>12,
     <1>13, <1>14, <1>15, <1>16, <1>17
  DEF Proceed

-----------------------------------------------------------------------------
(* The memory of a worker, after the kinds of assignments it makes.        *)
LEMMA WorkerMemory ==
  ASSUME NEW m \in RunState, NEW j \in JobIds
  PROVE  /\ \A pc \in RunPcs : [m EXCEPT !.pc = pc] \in RunState
         /\ \A st \in PageStatus : WithStatus(m, j, st) \in RunState
         /\ WithImage(m, j) \in RunState
         /\ NoRun \in RunState
<1>1. \A pc \in RunPcs : [m EXCEPT !.pc = pc] \in RunState
  BY DEF RunState
<1>2. ASSUME NEW st \in PageStatus PROVE WithStatus(m, j, st) \in RunState
  <2>1. [m EXCEPT !.page.status = st] \in RunState
    BY DEF RunState, PageRow
  <2>2. [m EXCEPT !.story.cover = st] \in RunState
    BY DEF RunState, StoryRow
  <2> QED BY <2>1, <2>2 DEF WithStatus
<1>3. WithImage(m, j) \in RunState
  <2>1. [m EXCEPT !.page = [status |-> "COMPLETED", image |-> TRUE]] \in RunState
    BY DEF RunState, PageRow, PageStatus
  <2>2. [m EXCEPT !.story.cover = "COMPLETED", !.story.coverImage = TRUE] \in RunState
    <3>1. [m.story EXCEPT !.cover = "COMPLETED", !.coverImage = TRUE] \in StoryRow
      BY DEF RunState, StoryRow, PageStatus
    <3>2. [m EXCEPT !.story.cover = "COMPLETED", !.story.coverImage = TRUE]
            = [m EXCEPT !.story = [m.story EXCEPT !.cover = "COMPLETED", !.coverImage = TRUE]]
      BY DEF RunState, StoryRow
    <3> QED BY <3>1, <3>2 DEF RunState
  <2> QED BY <2>1, <2>2 DEF WithImage
<1>4. NoRun \in RunState
  BY StoreAssumption
  DEF NoRun, RunState, RunPcs, FreshStory, FreshPage, StoryRow, PageRow, PageStatus, StoryStatus
<1> QED BY <1>1, <1>2, <1>3, <1>4

(* A worker that saves its typed memory keeps the rows typed.              *)
LEMMA SaveTargetTyping ==
  ASSUME Typing, NEW m \in RunState, NEW j \in JobIds, SaveTarget(j, m)
  PROVE  story' \in StoryRow /\ pages' \in [Pages -> PageRow] /\ cleared' \in Nat
<1>1. CASE IsPage(j)
  <2>1. Target(j) \in Pages /\ m.page \in PageRow
    BY <1>1, StoreAssumption DEF IsPage, Target, RunState
  <2> QED
    BY <1>1, <2>1 DEF SaveTarget, SavePage, Typing, TypeOK, StoreTypeOK
<1>2. CASE ~ IsPage(j)
  BY <1>2 DEF SaveTarget, SaveStory, RunState, Typing, TypeOK, StoreTypeOK
<1> QED BY <1>1, <1>2

(* What a worker may write, and what it may not touch.                     *)
LEMMA WorkerFrame ==
  ASSUME Typing,
         story' \in StoryRow, pages' \in [Pages -> PageRow], cleared' \in Nat,
         neurons' \in Nat, announced' \in Nat, limitNotes' \in Nat,
         charged' \subseteq JobIds \X (0..MaxAttempts) \X (0..MaxStalls),
         called' \subseteq JobIds \X (0..MaxAttempts) \X (0..MaxStalls),
         run' \in [JobIds -> RunState],
         jobs' \in [JobIds -> JobState],
         AttemptsLeft',
         UNCHANGED <<quotaVars, req>>
  PROVE  Typing'
BY DEF Typing, TypeOK, StoreTypeOK, quotaVars

(* What BullMQ does to one job keeps the queue typed.                      *)
LEMMA JobTyping ==
  ASSUME Typing, NEW j \in JobIds, NEW x \in JobState, jobs' = [jobs EXCEPT ![j] = x],
         x.state \in {"waiting", "active"} => x.made < MaxAttempts
  PROVE  jobs' \in [JobIds -> JobState] /\ AttemptsLeft'
<1>1. jobs \in [JobIds -> JobState] /\ AttemptsLeft
  BY DEF Typing, TypeOK, StoreTypeOK
<1>2. jobs' \in [JobIds -> JobState]
  BY <1>1
<1>3. ASSUME NEW k \in JobIds, jobs'[k].state \in {"waiting", "active"}
      PROVE  jobs'[k].made < MaxAttempts
  <2>1. CASE k = j
    BY <1>1, <1>3, <2>1
  <2>2. CASE k # j
    <3>1. jobs'[k] = jobs[k]
      BY <1>1, <2>2
    <3> QED BY <1>1, <1>3, <3>1 DEF AttemptsLeft, Live
  <2> QED BY <2>1, <2>2
<1> QED BY <1>2, <1>3 DEF AttemptsLeft, Live

(* Every step of a worker, its death included, keeps the types.            *)
LEMMA WorkerTyping ==
  ASSUME Typing, NEW j \in JobIds, HandlerStep(j) \/ WorkerDies(j)
  PROVE  Typing'
<1>0. /\ story \in StoryRow /\ pages \in [Pages -> PageRow] /\ cleared \in Nat
      /\ neurons \in Nat /\ announced \in Nat /\ limitNotes \in Nat
      /\ charged \subseteq JobIds \X (0..MaxAttempts) \X (0..MaxStalls)
      /\ called \subseteq JobIds \X (0..MaxAttempts) \X (0..MaxStalls)
      /\ jobs \in [JobIds -> JobState] /\ jobs[j] \in JobState
      /\ run \in [JobIds -> RunState] /\ run[j] \in RunState
      /\ AttemptsLeft
  BY DEF Typing, TypeOK, StoreTypeOK
<1>a. \A pc \in {"none", "reserve", "generate", "upload", "refresh", "update",
           "change", "announce", "limit", "limitNote", "catch", "end"} :
        pc \in RunPcs
  BY DEF RunPcs
<1>b. Delivery(j) \in JobIds \X (0..MaxAttempts) \X (0..MaxStalls)
  BY <1>0 DEF Delivery, JobState
<1>c. UNCHANGED jobs => AttemptsLeft'
  BY <1>0 DEF AttemptsLeft, Live
<1>d. ASSUME NEW m \in RunState, Remember(j, m) PROVE run' \in [JobIds -> RunState]
  BY <1>0, <1>d DEF Remember
<1>e. ASSUME NEW pc \in RunPcs, Move(j, pc) PROVE run' \in [JobIds -> RunState]
  <2>1. [run[j] EXCEPT !.pc = pc] \in RunState
    BY <1>0, WorkerMemory
  <2> QED BY <1>d, <1>e, <2>1, Zenon DEF Move
<1>f. \A st \in {"PENDING", "QUEUED", "GENERATING", "UPLOADING", "COMPLETED", "FAILED"} :
        st \in PageStatus
  BY DEF PageStatus
<1>g. Charge(j) => /\ neurons' \in Nat
                   /\ charged' \subseteq JobIds \X (0..MaxAttempts) \X (0..MaxStalls)
                   /\ called' = called
  BY <1>0, <1>b, StoreAssumption DEF Charge
<1>h. \A pc \in RunPcs : [run[j] EXCEPT !.pc = pc] \in RunState
  BY <1>0, WorkerMemory
<1> USE DEF dbVars, budgetVars, noticeVars
<1>1. CASE StartJob(j)
  <2>1. jobs' = [jobs EXCEPT ![j].state = "active"]
    BY <1>1 DEF StartJob
  <2>2. jobs' \in [JobIds -> JobState] /\ AttemptsLeft'
    <3> DEFINE x == [jobs[j] EXCEPT !.state = "active"]
    <3>1. x \in JobState
      BY <1>0 DEF JobState
    <3>2. x.made < MaxAttempts
      BY <1>0, <1>1 DEF StartJob, AttemptsLeft, Live, JobState
    <3>3. jobs' = [jobs EXCEPT ![j] = x]
      BY <1>0, <2>1
    <3> HIDE DEF x
    <3> QED BY <3>1, <3>2, <3>3, JobTyping
  <2> DEFINE m == [NoRun EXCEPT !.pc = "reserve", !.story = story]
             n == [m EXCEPT !.page = [pages[Target(j)] EXCEPT !.status = "GENERATING"]]
  <2>3. m \in RunState
    <3>1. NoRun \in RunState
      BY <1>0, WorkerMemory
    <3> QED BY <1>0, <1>a, <3>1 DEF RunState
  <2>4. CASE IsPage(j)
    <3>1. Target(j) \in Pages
      BY <2>4, StoreAssumption DEF IsPage, Target
    <3>2. [pages[Target(j)] EXCEPT !.status = "GENERATING"] \in PageRow
      BY <1>0, <3>1 DEF PageRow, PageStatus
    <3>3. n \in RunState /\ n.page \in PageRow
      <4> HIDE DEF m
      <4> QED BY <2>3, <3>2 DEF RunState
    <3>4. Remember(j, n) /\ SavePage(Target(j), n.page) /\ UNCHANGED <<story, cleared>>
      BY <1>1, <2>4 DEF StartJob
    <3> HIDE DEF n
    <3>5. pages' \in [Pages -> PageRow]
      BY <1>0, <3>1, <3>3, <3>4 DEF SavePage
    <3>6. run' \in [JobIds -> RunState]
      BY <1>d, <3>3, <3>4
    <3> QED BY <1>0, <1>1, <2>2, <3>4, <3>5, <3>6, WorkerFrame DEF StartJob
  <2>5. CASE ~ IsPage(j)
    <3>1. Remember(j, m) /\ UNCHANGED <<pages, story, cleared>>
      BY <1>1, <2>5 DEF StartJob
    <3> HIDE DEF m
    <3>2. run' \in [JobIds -> RunState]
      BY <1>d, <2>3, <3>1
    <3> QED BY <1>0, <1>1, <2>2, <3>1, <3>2, WorkerFrame DEF StartJob
  <2> QED BY <2>4, <2>5
<1>2. CASE ReserveNeurons(j)
  <2> DEFINE m == [run[j] EXCEPT !.pc = "generate"]
             n == WithStatus(m, j, "GENERATING")
  <2>1. m \in RunState /\ n \in RunState
    <3>1. m \in RunState
      BY <1>a, <1>h
    <3> HIDE DEF m
    <3> QED BY <1>f, <3>1, WorkerMemory
  <2>2. \/ Remember(j, m) /\ UNCHANGED <<story, pages, cleared>>
        \/ Remember(j, n) /\ SaveTarget(j, n)
    BY <1>2 DEF ReserveNeurons
  <2> HIDE DEF m, n
  <2>3. /\ run' \in [JobIds -> RunState]
        /\ story' \in StoryRow /\ pages' \in [Pages -> PageRow] /\ cleared' \in Nat
    BY <1>0, <1>d, <2>1, <2>2, SaveTargetTyping
  <2> QED BY <1>0, <1>2, <1>c, <1>g, <2>3, WorkerFrame DEF ReserveNeurons
<1>3. CASE BudgetRefuses(j)
  <2> DEFINE m == WithStatus([run[j] EXCEPT !.pc = "limit"], j, "FAILED")
  <2>1. m \in RunState
    BY <1>a, <1>f, <1>h, WorkerMemory, Zenon
  <2>2. Remember(j, m) /\ SaveTarget(j, m)
    BY <1>3, Zenon DEF BudgetRefuses
  <2> HIDE DEF m
  <2>3. /\ run' \in [JobIds -> RunState]
        /\ story' \in StoryRow /\ pages' \in [Pages -> PageRow] /\ cleared' \in Nat
    BY <1>d, <2>1, <2>2, SaveTargetTyping
  <2> QED BY <1>0, <1>3, <1>c, <2>3, WorkerFrame DEF BudgetRefuses
<1>4. CASE RejectPrompt(j)
  <2> DEFINE m == WithStatus([run[j] EXCEPT !.pc = IF IsPage(j) THEN "refresh" ELSE "end"],
                             j, "FAILED")
  <2>1. m \in RunState
    <3>1. (IF IsPage(j) THEN "refresh" ELSE "end") \in RunPcs
      BY <1>a
    <3> QED BY <1>f, <1>h, <3>1, WorkerMemory, Zenon
  <2>2. Remember(j, m) /\ SaveTarget(j, m)
    BY <1>4, Zenon DEF RejectPrompt
  <2> HIDE DEF m
  <2>3. /\ run' \in [JobIds -> RunState]
        /\ story' \in StoryRow /\ pages' \in [Pages -> PageRow] /\ cleared' \in Nat
    BY <1>d, <2>1, <2>2, SaveTargetTyping
  <2> QED BY <1>0, <1>4, <1>c, <1>g, <2>3, WorkerFrame DEF RejectPrompt
<1>5. CASE GenerateImage(j)
  <2> DEFINE m == WithStatus([run[j] EXCEPT !.pc = "upload"], j, "UPLOADING")
  <2>1. m \in RunState
    BY <1>a, <1>f, <1>h, WorkerMemory, Zenon
  <2>2. Remember(j, m) /\ SaveTarget(j, m)
    BY <1>5, Zenon DEF GenerateImage
  <2> HIDE DEF m
  <2>3. /\ run' \in [JobIds -> RunState]
        /\ story' \in StoryRow /\ pages' \in [Pages -> PageRow] /\ cleared' \in Nat
    BY <1>d, <2>1, <2>2, SaveTargetTyping
  <2> QED BY <1>0, <1>5, <1>b, <1>c, <2>3, WorkerFrame DEF GenerateImage
<1>6. CASE ProviderFails(j)
  <2>1. PICK b \in BOOLEAN : Remember(j, [run[j] EXCEPT !.pc = "catch", !.retryable = b])
    BY <1>6 DEF ProviderFails
  <2>2. [run[j] EXCEPT !.pc = "catch", !.retryable = b] \in RunState
    BY <1>0, <1>a DEF RunState
  <2>3. run' \in [JobIds -> RunState]
    BY <1>d, <2>1, <2>2
  <2> QED BY <1>0, <1>6, <1>b, <1>c, <2>3, WorkerFrame DEF ProviderFails
<1>7. CASE UploadImage(j)
  <2> DEFINE m == WithImage([run[j] EXCEPT !.pc = IF IsPage(j) THEN "refresh" ELSE "end"], j)
  <2>1. m \in RunState
    <3>1. (IF IsPage(j) THEN "refresh" ELSE "end") \in RunPcs
      BY <1>a
    <3> QED BY <1>h, <3>1, WorkerMemory, Zenon
  <2>2. Remember(j, m) /\ SaveTarget(j, m)
    BY <1>7, Zenon DEF UploadImage
  <2> HIDE DEF m
  <2>3. /\ run' \in [JobIds -> RunState]
        /\ story' \in StoryRow /\ pages' \in [Pages -> PageRow] /\ cleared' \in Nat
    BY <1>d, <2>1, <2>2, SaveTargetTyping
  <2> QED BY <1>0, <1>7, <1>c, <2>3, WorkerFrame DEF UploadImage
<1>8. CASE NotifyPageFails(j)
  <2>1. run' \in [JobIds -> RunState]
    BY <1>8, <1>a, <1>e DEF NotifyPageFails
  <2> QED BY <1>0, <1>8, <1>c, <2>1, WorkerFrame DEF NotifyPageFails
<1>9. CASE HandleFailure(j)
  <2> DEFINE m == [run[j] EXCEPT !.pc = IF GivesUp(j) THEN "refresh" ELSE "end",
                                 !.ok = FALSE, !.retryable = TRUE]
             n == WithStatus(m, j, IF GivesUp(j) THEN "FAILED" ELSE "QUEUED")
  <2>1. n \in RunState
    <3>1. (IF GivesUp(j) THEN "refresh" ELSE "end") \in RunPcs
      BY <1>a
    <3>2. m \in RunState
      BY <1>0, <3>1 DEF RunState
    <3>3. (IF GivesUp(j) THEN "FAILED" ELSE "QUEUED") \in PageStatus
      BY <1>f
    <3> HIDE DEF m
    <3> QED BY <3>2, <3>3, WorkerMemory, Zenon
  <2>2. Remember(j, n) /\ SaveTarget(j, n)
    BY <1>9, Zenon DEF HandleFailure
  <2> HIDE DEF n
  <2>3. /\ run' \in [JobIds -> RunState]
        /\ story' \in StoryRow /\ pages' \in [Pages -> PageRow] /\ cleared' \in Nat
    BY <1>d, <2>1, <2>2, SaveTargetTyping
  <2> QED BY <1>0, <1>9, <1>c, <2>3, WorkerFrame DEF HandleFailure
<1>10. CASE ReadStatus(j)
  <2>1. [run[j] EXCEPT !.pc = "update", !.result = ComputeStatus(pages)] \in RunState
    BY <1>0, <1>a, StatusTyping DEF RunState
  <2>2. run' \in [JobIds -> RunState]
    BY <1>10, <1>d, <2>1 DEF ReadStatus
  <2> QED BY <1>0, <1>10, <1>c, <2>2, WorkerFrame DEF ReadStatus
<1>11. CASE WriteStatus(j)
  <2> DEFINE pc == IF run[j].result \in TerminalStatuses THEN "change" ELSE "end"
  <2>1. [run[j] EXCEPT !.pc = pc, !.result = NoRun.result] \in RunState
    <3>1. pc \in RunPcs /\ NoRun.result \in StoryStatus
      BY <1>a DEF NoRun, StoryStatus
    <3> HIDE DEF pc
    <3> QED BY <1>0, <3>1 DEF RunState
  <2>2. run' \in [JobIds -> RunState]
    BY <1>11, <1>d, <2>1 DEF WriteStatus
  <2>3. story' \in StoryRow
    BY <1>0, <1>11 DEF WriteStatus, UpdateStory, StoryRow, RunState
  <2> QED BY <1>0, <1>11, <1>c, <2>2, <2>3, WorkerFrame DEF WriteStatus, UpdateStory
<1>12. CASE ClaimAnnouncement(j)
  <2>1. run' \in [JobIds -> RunState]
    BY <1>12, <1>a, <1>e DEF ClaimAnnouncement
  <2>2. [story EXCEPT !.notified = TRUE, !.attempt = None] \in StoryRow
    BY <1>0 DEF StoryRow
  <2>3. story' \in StoryRow /\ cleared' \in Nat
    BY <1>0, <1>12, <2>2 DEF ClaimAnnouncement, UpdateStory
  <2> QED BY <1>0, <1>12, <1>c, <2>1, <2>3, WorkerFrame DEF ClaimAnnouncement
<1>13. CASE Announce(j)
  <2> DEFINE row == [run[j].story EXCEPT !.notified = TRUE, !.attempt = None]
             m == [run[j] EXCEPT !.pc = "end", !.story.notified = TRUE, !.story.attempt = None]
  <2>1. row \in StoryRow
    BY <1>0 DEF RunState, StoryRow
  <2>2. m \in RunState
    <3>1. m = [run[j] EXCEPT !.pc = "end", !.story = row]
      BY <1>0 DEF RunState, StoryRow
    <3> HIDE DEF m, row
    <3> QED BY <1>0, <1>a, <2>1, <3>1 DEF RunState
  <2>3. Remember(j, m) /\ SaveStory(m.story)
    BY <1>13, Zenon DEF Announce
  <2> HIDE DEF m
  <2>4. run' \in [JobIds -> RunState]
    BY <1>d, <2>2, <2>3
  <2>5. story' \in StoryRow /\ cleared' \in Nat
    BY <1>0, <2>2, <2>3 DEF SaveStory, RunState
  <2> QED BY <1>0, <1>13, <1>c, <2>4, <2>5, WorkerFrame DEF Announce
<1>14. CASE CheckLimitNote(j)
  <2>1. run' \in [JobIds -> RunState]
    BY <1>14, <1>a, <1>e DEF CheckLimitNote, AfterLimit
  <2> QED BY <1>0, <1>14, <1>c, <2>1, WorkerFrame DEF CheckLimitNote
<1>15. CASE CreateLimitNote(j)
  <2>1. run' \in [JobIds -> RunState]
    BY <1>15, <1>a, <1>e DEF CreateLimitNote, AfterLimit
  <2> QED BY <1>0, <1>15, <1>c, <2>1, WorkerFrame DEF CreateLimitNote
<1>16. CASE EndJob(j)
  <2> DEFINE x == IF run[j].ok THEN [jobs[j] EXCEPT !.state = "completed"] ELSE AfterThrow(j)
  <2>1. jobs[j].made < MaxAttempts
    BY <1>0, <1>16 DEF EndJob, Handling, AttemptsLeft, Live
  <2>2. x \in JobState /\ (x.state \in {"waiting", "active"} => x.made < MaxAttempts)
    <3>1. CASE run[j].ok
      BY <1>0, <2>1, <3>1 DEF JobState
    <3>2. CASE ~ run[j].ok
      <4>1. jobs[j].made + 1 \in 0..MaxAttempts
        BY <1>0, <2>1, StoreAssumption DEF JobState
      <4>2. CASE jobs[j].made + 1 < MaxAttempts
        BY <1>0, <3>2, <4>1, <4>2 DEF JobState, AfterThrow
      <4>3. CASE ~ (jobs[j].made + 1 < MaxAttempts)
        BY <1>0, <3>2, <4>1, <4>3 DEF JobState, AfterThrow
      <4> QED BY <4>2, <4>3
    <3> QED BY <3>1, <3>2
  <2>3. jobs' = [jobs EXCEPT ![j] = x]
    BY <1>16, Zenon DEF EndJob
  <2>4. jobs' \in [JobIds -> JobState] /\ AttemptsLeft'
    <3> HIDE DEF x
    <3> QED BY <2>2, <2>3, JobTyping
  <2>5. run' \in [JobIds -> RunState]
    BY <1>0, <1>16, <1>d, WorkerMemory DEF EndJob
  <2> QED BY <1>0, <1>16, <2>4, <2>5, WorkerFrame DEF EndJob
<1>17. CASE WorkerDies(j)
  <2> DEFINE x == IF jobs[j].stalls < MaxStalls
                  THEN [jobs[j] EXCEPT !.state = "waiting", !.stalls = jobs[j].stalls + 1]
                  ELSE [jobs[j] EXCEPT !.state = "stalled"]
  <2>1. jobs[j].made < MaxAttempts
    BY <1>0, <1>17 DEF WorkerDies, AttemptsLeft, Live
  <2>2. x \in JobState /\ x.made < MaxAttempts
    <3>1. CASE jobs[j].stalls < MaxStalls
      <4>1. jobs[j].stalls + 1 \in 0..MaxStalls
        BY <1>0, <3>1, StoreAssumption DEF JobState
      <4> QED BY <1>0, <2>1, <3>1, <4>1 DEF JobState
    <3>2. CASE ~ (jobs[j].stalls < MaxStalls)
      BY <1>0, <2>1, <3>2 DEF JobState
    <3> QED BY <3>1, <3>2
  <2>3. jobs' = [jobs EXCEPT ![j] = x]
    BY <1>17, Zenon DEF WorkerDies
  <2>4. jobs' \in [JobIds -> JobState] /\ AttemptsLeft'
    <3> HIDE DEF x
    <3> QED BY <2>2, <2>3, JobTyping
  <2>5. run' \in [JobIds -> RunState]
    BY <1>0, <1>17, <1>d, WorkerMemory DEF WorkerDies
  <2> QED BY <1>0, <1>17, <2>4, <2>5, WorkerFrame DEF WorkerDies
<1> QED
  BY <1>1, <1>2, <1>3, <1>4, <1>5, <1>6, <1>7, <1>8, <1>9, <1>10, <1>11, <1>12,
     <1>13, <1>14, <1>15, <1>16, <1>17
  DEF HandlerStep

-----------------------------------------------------------------------------
(* The initial states are typed.                                           *)
LEMMA InitTyping == Init => Typing
<1> SUFFICES ASSUME Init PROVE Typing
  OBVIOUS
<1>1. pages \in [Pages -> PageRow]
  BY InitialAssumption DEF Init
<1>2. story \in StoryRow
  <2>1. [FreshStory EXCEPT !.status = ComputeStatus(pages),
                           !.notified = (pages # [p \in Pages |-> FreshPage])] \in StoryRow
    BY StatusTyping DEF FreshStory, StoryRow, PageStatus
  <2> QED BY <2>1 DEF Init
<1>3. jobs \in [JobIds -> JobState] /\ AttemptsLeft
  BY StoreAssumption DEF Init, NoJob, JobState, AttemptsLeft, Live
<1>4. NoRun \in RunState
  BY StoreAssumption
  DEF NoRun, RunState, RunPcs, FreshStory, FreshPage, StoryRow, PageRow, PageStatus, StoryStatus
<1>5. NoReq \in ReqState
  BY StoreAssumption
  DEF NoReq, ReqState, ReqPcs, FreshStory, FreshPage, StoryRow, PageRow, PageStatus,
      StoryStatus, OpKinds
<1>6. run \in [JobIds -> RunState] /\ req \in [Requests -> ReqState]
  BY <1>4, <1>5 DEF Init
<1>7. /\ quota \in Nat /\ neurons \in Nat /\ announced \in Nat /\ cleared \in Nat
      /\ limitNotes \in Nat /\ reserved = {} /\ charged = {} /\ called = {}
  BY DEF Init
<1> QED BY <1>1, <1>2, <1>3, <1>6, <1>7 DEF Typing, TypeOK, StoreTypeOK

(* Every step of the pipeline keeps the types.                             *)
LEMMA NextTyping == Typing /\ [Next]_vars => Typing'
<1> SUFFICES ASSUME Typing, [Next]_vars PROVE Typing'
  OBVIOUS
<1>1. ASSUME NEW r \in Requests, RequestStep(r) PROVE Typing'
  BY <1>1, LoadTyping, ProceedTyping DEF RequestStep
<1>2. ASSUME NEW j \in JobIds, HandlerStep(j) \/ WorkerDies(j) PROVE Typing'
  BY <1>2, WorkerTyping
<1>3. CASE UNCHANGED vars
  BY <1>3 DEF vars, Typing, TypeOK, StoreTypeOK, AttemptsLeft, Live
<1> QED BY <1>1, <1>2, <1>3 DEF Next

(* Every variable keeps its type; in particular no job is delivered more   *)
(* often than its attempts and stalls allow.                               *)
THEOREM TypeCorrect == Spec => []TypeOK
<1>1. Typing => TypeOK
  BY DEF Typing
<1> QED BY <1>1, InitTyping, NextTyping, PTL DEF Spec

-----------------------------------------------------------------------------
(* The budget.                                                             *)

(* The jobs a request has not added yet, or may still add, do not exist.   *)
AddedOnce ==
  \A r \in Requests, t \in Targets :
    (req[r].pc = "idle" \/ t \in req[r].todo) => jobs[<<t, r>>].state = "absent"

(* Charges belong to the past: to earlier deliveries, or to the current    *)
(* one once it is past its reservation.                                    *)
ChargedBefore ==
  \A j \in JobIds, a \in 0..MaxAttempts, s \in 0..MaxStalls :
    <<j, a, s>> \in charged =>
      /\ jobs[j].state # "absent"
      /\ a <= jobs[j].made /\ s <= jobs[j].stalls
      /\ (a = jobs[j].made /\ s = jobs[j].stalls) =>
           jobs[j].state # "waiting" /\ ~ Handling(j, "reserve")

(* Who calls the image model has paid for this delivery.                   *)
PaidBeforeCall ==
  \A j \in JobIds : Handling(j, "generate") \/ Handling(j, "upload")
                      => Delivery(j) \in charged

Ledger == /\ Typing
          /\ IsFiniteSet(charged)
          /\ AddedOnce
          /\ ChargedBefore
          /\ PaidBeforeCall
          /\ NeuronBudget

-----------------------------------------------------------------------------
(* What each step of a request does to the queue and to its own memory.    *)

(* A request that stores its memory touches no other request.              *)
LEMMA Resumed ==
  ASSUME Typing, NEW r \in Requests, NEW m, Resume(r, m)
  PROVE  req'[r] = m /\ \A s \in Requests \ {r} : req'[s] = req[s]
BY DEF Resume, Typing, TypeOK, StoreTypeOK

(* A request that ends has no target left to queue.                        *)
LEMMA Finished ==
  ASSUME Typing, NEW r \in Requests, Finish(r)
  PROVE  /\ req'[r].pc = "done" /\ req'[r].todo = {} /\ req'[r].op = req[r].op
         /\ \A s \in Requests \ {r} : req'[s] = req[s]
<1>1. req'[r] = [NoReq EXCEPT !.pc = "done", !.op = req[r].op]
      /\ \A s \in Requests \ {r} : req'[s] = req[s]
  BY Resumed, Zenon DEF Finish
<1> QED BY <1>1 DEF NoReq

(* After a step that queues nothing, the request has no more targets than  *)
(* it had.                                                                 *)
Shrinks(r) == /\ \A s \in Requests \ {r} : req'[s] = req[s]
              /\ req'[r].pc # "idle"
              /\ req'[r].op = req[r].op
              /\ req'[r].todo \subseteq req[r].todo

(* Ending a request takes targets away and adds none.                      *)
LEMMA FinishShrinks ==
  ASSUME Typing, NEW r \in Requests, Finish(r)
  PROVE  Shrinks(r)
BY Finished DEF Shrinks

(* So does going on with a memory that has no new targets.                 *)
LEMMA ResumeShrinks ==
  ASSUME Typing, NEW r \in Requests, NEW m, Resume(r, m) \/ Continue(r, m),
         m.pc # "idle", m.op = req[r].op, m.todo \subseteq req[r].todo
  PROVE  Shrinks(r)
<1>1. CASE Resume(r, m)
  <2>1. req'[r] = m /\ \A s \in Requests \ {r} : req'[s] = req[s]
    BY <1>1, Resumed, Zenon
  <2> QED BY <2>1, Zenon DEF Shrinks
<1>2. CASE Finish(r)
  BY <1>2, FinishShrinks
<1> QED BY <1>1, <1>2, Zenon DEF Continue

(* So does only moving on to another step.                                 *)
LEMMA GotoShrinks ==
  ASSUME Typing, NEW r \in Requests, NEW pc, pc # "idle", Goto(r, pc)
  PROVE  Shrinks(r)
<1> DEFINE m == [req[r] EXCEPT !.pc = pc]
<1>1. m.pc # "idle" /\ m.op = req[r].op /\ m.todo = req[r].todo
  BY DEF Typing, TypeOK, StoreTypeOK, ReqState
<1>2. Resume(r, m)
  BY Zenon DEF Goto
<1> HIDE DEF m
<1> QED BY <1>1, <1>2, ResumeShrinks

(* Every step of a request but AddJob leaves the queue alone.              *)
Enqueues(r, t) ==
  /\ jobs' = [jobs EXCEPT ![<<t, r>>] = [NoJob EXCEPT !.state = "waiting"]]
  /\ req'[r].todo = req[r].todo \ {t}

(* A step of a request loads it, queues one target, or shrinks it.         *)
LEMMA RequestMoves ==
  ASSUME Typing, NEW r \in Requests, RequestStep(r)
  PROVE  /\ UNCHANGED <<neurons, charged, called, run>>
         /\ \A s \in Requests \ {r} : req'[s] = req[s]
         /\ req'[r].pc # "idle"
         /\ \/ jobs' = jobs /\ (req[r].pc = "idle" \/ req'[r].todo \subseteq req[r].todo)
            \/ \E t \in req[r].todo : Enqueues(r, t)
<1>0. req[r] \in ReqState
  BY DEF Typing, TypeOK, StoreTypeOK
<1>a. ASSUME Shrinks(r), jobs' = jobs, UNCHANGED <<budgetVars, run>>
      PROVE  /\ UNCHANGED <<neurons, charged, called, run>>
             /\ \A s \in Requests \ {r} : req'[s] = req[s]
             /\ req'[r].pc # "idle"
             /\ jobs' = jobs /\ (req[r].pc = "idle" \/ req'[r].todo \subseteq req[r].todo)
  BY <1>a DEF Shrinks, budgetVars
<1>1. CASE Begin(r)
  <2>1. ASSUME NEW op, NEW todo, NEW pc \in {"clear", "claim", "reserve"}, Load(r, op, todo, pc)
        PROVE  /\ UNCHANGED <<neurons, charged, called, run, jobs>>
               /\ \A s \in Requests \ {r} : req'[s] = req[s]
               /\ req[r].pc = "idle" /\ req'[r].pc # "idle"
    <3>1. /\ req'[r] = [pc |-> pc, op |-> op, story |-> story, pages |-> pages,
                        todo |-> todo, prev |-> "PENDING"]
          /\ \A s \in Requests \ {r} : req'[s] = req[s]
      BY <2>1, Resumed, Zenon DEF Load
    <3> QED BY <2>1, <3>1 DEF Load, budgetVars
  <2>2. ToClaim \in {"clear", "claim", "reserve"}
    BY DEF ToClaim
  <2>3. \E op, todo : \E pc \in {"clear", "claim", "reserve"} : Load(r, op, todo, pc)
    BY <1>1, <2>2, Zenon
    DEF Begin, GenerateAll, GenerateRemaining, GenerateAffected, RegeneratePage, RegenerateCover
  <2> QED BY <2>1, <2>3
<1>2. CASE ClearStaleClaim(r)
  <2> DEFINE m == [req[r] EXCEPT !.pc = "claim", !.story.attempt = None]
  <2>1. m.pc = "claim" /\ m.op = req[r].op /\ m.todo = req[r].todo
    BY <1>0 DEF ReqState
  <2>2. Resume(r, m)
    BY <1>2, Zenon DEF ClearStaleClaim
  <2> HIDE DEF m
  <2> QED BY <1>2, <1>a, <2>1, <2>2, ResumeShrinks DEF ClearStaleClaim
<1>3. CASE ClaimAttempt(r)
  <2> DEFINE m == [req[r] EXCEPT !.pc = AfterClaim(req[r].op), !.story.attempt = r]
  <2>1. m.pc # "idle" /\ m.op = req[r].op /\ m.todo = req[r].todo
    BY <1>0 DEF ReqState, AfterClaim
  <2>2. Resume(r, m)
    BY <1>3, Zenon DEF ClaimAttempt
  <2> HIDE DEF m
  <2> QED BY <1>3, <1>a, <2>1, <2>2, ResumeShrinks DEF ClaimAttempt
<1>4. CASE ClaimRefused(r)
  BY <1>4, <1>a, FinishShrinks DEF ClaimRefused
<1>5. CASE ReserveQuota(r)
  <2>1. AfterReserve(req[r].op) # "idle"
    BY DEF AfterReserve
  <2> QED BY <1>5, <1>a, <2>1, GotoShrinks DEF ReserveQuota
<1>6. CASE QuotaRefused(r)
  BY <1>6, <1>a, FinishShrinks DEF QuotaRefused
<1>7. CASE LookupTarget(r)
  <2>1. ASSUME NEW t \in req[r].todo, NEW st,
               Resume(r, [(IF t = Cover THEN req[r]
                           ELSE [req[r] EXCEPT !.pages[t] = pages[t]])
                          EXCEPT !.pc = "translate", !.prev = st])
        PROVE  Shrinks(r)
    <3> DEFINE m == [(IF t = Cover THEN req[r]
                      ELSE [req[r] EXCEPT !.pages[t] = pages[t]])
                     EXCEPT !.pc = "translate", !.prev = st]
    <3>1. m.pc = "translate" /\ m.op = req[r].op /\ m.todo = req[r].todo
      BY <1>0 DEF ReqState
    <3>2. Resume(r, m)
      BY <2>1, Zenon
    <3> HIDE DEF m
    <3> QED BY <3>1, <3>2, ResumeShrinks
  <2>2. Shrinks(r)
    BY <1>7, <2>1, FinishShrinks, Zenon DEF LookupTarget
  <2> QED BY <1>7, <1>a, <2>2 DEF LookupTarget
<1>8. CASE Translate(r)
  <2> DEFINE todo == {t \in req[r].todo : req[r].op = "affected" =>
                        req[r].pages[t].status \notin ActiveStatuses}
             pc == IF todo = {} THEN "release" ELSE AfterTranslate(req[r].op)
             m == [req[r] EXCEPT !.todo = todo, !.pc = pc]
  <2>1. pc # "idle" /\ todo \subseteq req[r].todo
    BY DEF AfterTranslate
  <2>2. m.pc = pc /\ m.op = req[r].op /\ m.todo = todo
    <3> HIDE DEF todo, pc
    <3> QED BY <1>0 DEF ReqState
  <2>3. Resume(r, m)
    BY <1>8, Zenon DEF Translate
  <2> HIDE DEF m, todo, pc
  <2> QED BY <1>8, <1>a, <2>1, <2>2, <2>3, ResumeShrinks DEF Translate
<1>9. CASE TranslateFails(r)
  <2>1. PICK pc \in {"release", "restore"} : Goto(r, pc)
    BY <1>9 DEF TranslateFails
  <2> QED BY <1>9, <1>a, <2>1, GotoShrinks DEF TranslateFails
<1>10. CASE KeepAffordable(r)
  <2> DEFINE todo == {t \in req[r].todo :
                        Cardinality({u \in req[r].todo : u < t}) < Affordable}
             pc == IF todo = {} THEN "release" ELSE "save"
             m == [req[r] EXCEPT !.todo = todo, !.pc = pc]
  <2>1. pc # "idle" /\ todo \subseteq req[r].todo
    OBVIOUS
  <2>2. m.pc = pc /\ m.op = req[r].op /\ m.todo = todo
    <3> HIDE DEF todo, pc
    <3> QED BY <1>0 DEF ReqState
  <2>3. Resume(r, m)
    BY <1>10, Zenon DEF KeepAffordable
  <2> HIDE DEF m, todo, pc
  <2> QED BY <1>10, <1>a, <2>1, <2>2, <2>3, ResumeShrinks DEF KeepAffordable
<1>11. CASE MarkQueued(r)
  <2>1. ASSUME NEW c, NEW prev,
               Resume(r, [req[r] EXCEPT !.pc = "add", !.story.cover = c, !.prev = prev])
        PROVE  Shrinks(r)
    <3> DEFINE m == [req[r] EXCEPT !.pc = "add", !.story.cover = c, !.prev = prev]
    <3>1. m.pc = "add" /\ m.op = req[r].op /\ m.todo = req[r].todo
      BY <1>0 DEF ReqState
    <3>2. Resume(r, m)
      BY <2>1, Zenon
    <3> HIDE DEF m
    <3> QED BY <3>1, <3>2, ResumeShrinks
  <2>2. ASSUME NEW t, NEW row, NEW prev,
               Resume(r, [req[r] EXCEPT !.pc = "add", !.pages[t] = row, !.prev = prev])
        PROVE  Shrinks(r)
    <3> DEFINE m == [req[r] EXCEPT !.pc = "add", !.pages[t] = row, !.prev = prev]
    <3>1. m.pc = "add" /\ m.op = req[r].op /\ m.todo = req[r].todo
      BY <1>0 DEF ReqState
    <3>2. Resume(r, m)
      BY <2>2, Zenon
    <3> HIDE DEF m
    <3> QED BY <3>1, <3>2, ResumeShrinks
  <2>3. Shrinks(r)
    BY <1>11, <2>1, <2>2, Zenon DEF MarkQueued
  <2> QED BY <1>11, <1>a, <2>3 DEF MarkQueued
<1>12. CASE AddJob(r)
  <2>1. PICK t \in req[r].todo :
          /\ jobs' = [jobs EXCEPT ![<<t, r>>] = [NoJob EXCEPT !.state = "waiting"]]
          /\ Resume(r, [req[r] EXCEPT
                           !.todo = req[r].todo \ {t},
                           !.pc = IF req[r].todo \ {t} = {} THEN AfterQueued(req[r].op)
                                                            ELSE "save"])
    BY <1>12 DEF AddJob
  <2> DEFINE left == req[r].todo \ {t}
             pc == IF left = {} THEN AfterQueued(req[r].op) ELSE "save"
             m == [req[r] EXCEPT !.todo = left, !.pc = pc]
  <2>2. pc # "idle"
    BY DEF AfterQueued
  <2>3. m.pc = pc /\ m.todo = left
    <3> HIDE DEF left, pc
    <3> QED BY <1>0 DEF ReqState
  <2>4. req'[r] = m /\ \A s \in Requests \ {r} : req'[s] = req[s]
    BY <2>1, Resumed, Zenon
  <2>5. Enqueues(r, t)
    <3>1. req'[r].todo = req[r].todo \ {t}
      BY <2>3, <2>4, Zenon
    <3> QED BY <2>1, <3>1, Zenon DEF Enqueues
  <2>6. req'[r].pc # "idle"
    <3> HIDE DEF m, pc
    <3> QED BY <2>2, <2>3, <2>4
  <2>7. UNCHANGED <<neurons, charged, called, run>>
    BY <1>12 DEF AddJob, budgetVars
  <2> HIDE DEF m, pc, left
  <2> QED BY <2>4, <2>5, <2>6, <2>7, Zenon
<1>13. CASE AddJobFails(r)
  <2>1. \A t : AfterQueueError(req[r].op, t) # "idle"
    BY DEF AfterQueueError
  <2>2. Shrinks(r)
    BY <1>13, <2>1, GotoShrinks, Zenon DEF AddJobFails
  <2> QED BY <1>13, <1>a, <2>2 DEF AddJobFails
<1>14. CASE RestoreStatus(r)
  <2>1. ASSUME NEW pc \in {"release", "done"}, NEW c,
               Continue(r, [req[r] EXCEPT !.pc = pc, !.story.cover = c])
        PROVE  Shrinks(r)
    <3> DEFINE m == [req[r] EXCEPT !.pc = pc, !.story.cover = c]
    <3>1. m.pc = pc /\ m.op = req[r].op /\ m.todo = req[r].todo
      BY <1>0 DEF ReqState
    <3>2. Continue(r, m)
      BY <2>1, Zenon
    <3> HIDE DEF m
    <3> QED BY <3>1, <3>2, ResumeShrinks
  <2>2. ASSUME NEW pc \in {"release", "done"}, NEW t, NEW st,
               Continue(r, [req[r] EXCEPT !.pc = pc, !.pages[t].status = st])
        PROVE  Shrinks(r)
    <3> DEFINE m == [req[r] EXCEPT !.pc = pc, !.pages[t].status = st]
    <3>1. m.pc = pc /\ m.op = req[r].op /\ m.todo = req[r].todo
      BY <1>0 DEF ReqState
    <3>2. Continue(r, m)
      BY <2>2, Zenon
    <3> HIDE DEF m
    <3> QED BY <3>1, <3>2, ResumeShrinks
  <2>3. (IF req[r].op = "all" THEN "release" ELSE "done") \in {"release", "done"}
    OBVIOUS
  <2>4. Shrinks(r)
    BY <1>14, <2>1, <2>2, <2>3, Zenon DEF RestoreStatus
  <2> QED BY <1>14, <1>a, <2>4 DEF RestoreStatus
<1>15. CASE ReleaseAttempt(r)
  BY <1>15, <1>a, FinishShrinks DEF ReleaseAttempt
<1>16. CASE RefreshLoadedStatus(r)
  <2> DEFINE m == [req[r] EXCEPT !.pc = AfterRefresh(req[r].op),
                     !.story.status = ComputeStatus(req[r].pages)]
  <2>1. m.pc # "idle" /\ m.op = req[r].op /\ m.todo = req[r].todo
    BY <1>0 DEF ReqState, AfterRefresh
  <2>2. Continue(r, m)
    BY <1>16, Zenon DEF RefreshLoadedStatus
  <2> HIDE DEF m
  <2> QED BY <1>16, <1>a, <2>1, <2>2, ResumeShrinks DEF RefreshLoadedStatus
<1>17. CASE ResetNotified(r)
  <2> DEFINE m == [req[r] EXCEPT !.pc = AfterReset(req[r].op), !.story.notified = FALSE]
  <2>1. m.pc # "idle" /\ m.op = req[r].op /\ m.todo = req[r].todo
    BY <1>0 DEF ReqState, AfterReset
  <2>2. Continue(r, m)
    BY <1>17, Zenon DEF ResetNotified
  <2> HIDE DEF m
  <2> QED BY <1>17, <1>a, <2>1, <2>2, ResumeShrinks DEF ResetNotified
<1>18. CASE RequestDies(r)
  BY <1>18, <1>a, FinishShrinks DEF RequestDies
<1> QED
  BY <1>1, <1>2, <1>3, <1>4, <1>5, <1>6, <1>7, <1>8, <1>9, <1>10, <1>11, <1>12,
     <1>13, <1>14, <1>15, <1>16, <1>17, <1>18
  DEF RequestStep, Proceed

(* A step of a request keeps the ledger.                                   *)
LEMMA RequestKeepsLedger ==
  ASSUME Ledger, NEW r \in Requests, RequestStep(r)
  PROVE  Ledger'
<1> USE DEF Ledger
<1>0. Typing'
  BY LoadTyping, ProceedTyping DEF RequestStep
<1>1. /\ UNCHANGED <<neurons, charged, called, run>>
      /\ \A s \in Requests \ {r} : req'[s] = req[s]
      /\ req'[r].pc # "idle"
      /\ \/ jobs' = jobs /\ (req[r].pc = "idle" \/ req'[r].todo \subseteq req[r].todo)
         \/ \E t \in req[r].todo : Enqueues(r, t)
  BY RequestMoves
<1>2. NeuronBudget' /\ IsFiniteSet(charged')
  BY <1>1 DEF NeuronBudget
<1>3. jobs \in [JobIds -> JobState] /\ req[r].todo \subseteq Targets
  BY DEF Typing, TypeOK, StoreTypeOK, ReqState
<1>4. CASE jobs' = jobs /\ (req[r].pc = "idle" \/ req'[r].todo \subseteq req[r].todo)
  <2>1. AddedOnce'
    <3> SUFFICES ASSUME NEW s \in Requests, NEW t \in Targets,
                        req'[s].pc = "idle" \/ t \in req'[s].todo
                 PROVE  jobs'[<<t, s>>].state = "absent"
      BY Zenon DEF AddedOnce
    <3>1. CASE s = r
      <4>1. req[r].pc = "idle" \/ t \in req[r].todo
        BY <1>1, <1>4, <3>1
      <4> QED BY <1>4, <3>1, <4>1, Zenon DEF AddedOnce
    <3>2. CASE s # r
      <4>1. req'[s] = req[s]
        BY <1>1, <3>2
      <4> QED BY <1>4, <4>1, Zenon DEF AddedOnce
    <3> QED BY <3>1, <3>2
  <2>2. ChargedBefore' /\ PaidBeforeCall'
    BY <1>1, <1>4 DEF ChargedBefore, PaidBeforeCall, Handling, Delivery
  <2> QED BY <1>0, <1>2, <2>1, <2>2
<1>5. CASE \E t \in req[r].todo : Enqueues(r, t)
  <2>1. PICK t \in req[r].todo : Enqueues(r, t)
    BY <1>5
  <2> DEFINE j == <<t, r>>
  <2>2. j \in JobIds /\ jobs[j].state = "absent"
    <3>1. t \in Targets
      BY <1>3
    <3> QED BY <3>1, Zenon DEF AddedOnce
  <2>3. /\ jobs'[j].state = "waiting"
        /\ \A k \in JobIds \ {j} : jobs'[k] = jobs[k]
    BY <1>3, <2>1, <2>2 DEF Enqueues, NoJob
  <2>4. AddedOnce'
    <3> SUFFICES ASSUME NEW s \in Requests, NEW u \in Targets,
                        req'[s].pc = "idle" \/ u \in req'[s].todo
                 PROVE  jobs'[<<u, s>>].state = "absent"
      BY Zenon DEF AddedOnce
    <3>1. CASE s = r
      <4>1. u \in req[r].todo /\ u # t
        BY <1>1, <2>1, <3>1 DEF Enqueues
      <4>2. <<u, s>> \in JobIds \ {j}
        <5>1. <<u, s>> \in JobIds
          OBVIOUS
        <5>2. <<u, s>> # <<t, r>>
          BY <4>1
        <5> QED BY <5>1, <5>2, Zenon
      <4> QED BY <2>3, <3>1, <4>1, <4>2 DEF AddedOnce
    <3>2. CASE s # r
      <4>1. req'[s] = req[s]
        BY <1>1, <3>2
      <4>2. <<u, s>> \in JobIds \ {j}
        <5>1. <<u, s>> \in JobIds
          OBVIOUS
        <5>2. <<u, s>> # <<t, r>>
          BY <3>2
        <5> QED BY <5>1, <5>2, Zenon
      <4> QED BY <2>3, <4>1, <4>2 DEF AddedOnce
    <3> QED BY <3>1, <3>2
  <2>5. ChargedBefore'
    <3> SUFFICES ASSUME NEW k \in JobIds, NEW a \in 0..MaxAttempts, NEW s \in 0..MaxStalls,
                        <<k, a, s>> \in charged'
                 PROVE  /\ jobs'[k].state # "absent"
                        /\ a <= jobs'[k].made /\ s <= jobs'[k].stalls
                        /\ (a = jobs'[k].made /\ s = jobs'[k].stalls) =>
                             jobs'[k].state # "waiting" /\ ~ Handling(k, "reserve")'
      BY Zenon DEF ChargedBefore
    <3>1. <<k, a, s>> \in charged
      BY <1>1
    <3>2. jobs[k].state # "absent"
      BY <3>1 DEF ChargedBefore
    <3>3. k # j /\ jobs'[k] = jobs[k] /\ run'[k] = run[k]
      BY <1>1, <2>2, <2>3, <3>2
    <3> HIDE DEF j
    <3> QED BY <3>1, <3>3 DEF ChargedBefore, Handling
  <2>6. PaidBeforeCall'
    <3> SUFFICES ASSUME NEW k \in JobIds, (Handling(k, "generate") \/ Handling(k, "upload"))'
                 PROVE  Delivery(k)' \in charged'
      BY Zenon DEF PaidBeforeCall
    <3>1. k # j /\ jobs'[k] = jobs[k] /\ run'[k] = run[k]
      BY <1>1, <2>3 DEF Handling
    <3> QED BY <1>1, <3>1 DEF PaidBeforeCall, Handling, Delivery
  <2> QED BY <1>0, <1>2, <2>4, <2>5, <2>6
<1> QED BY <1>1, <1>4, <1>5

-----------------------------------------------------------------------------
(* What each step of a worker does to its job, its place in the handler    *)
(* and the budget.                                                         *)

Starts(j) ==
  /\ jobs[j].state = "waiting"
  /\ jobs'[j] = [jobs[j] EXCEPT !.state = "active"]
  /\ run'[j].pc = "reserve"
  /\ UNCHANGED budgetVars

Pays(j) ==
  /\ Handling(j, "reserve") /\ BudgetAllows /\ Charge(j)
  /\ jobs' = jobs
  /\ run'[j].pc # "reserve"

Works(j) ==
  /\ jobs[j].state = "active" /\ jobs' = jobs
  /\ run'[j].pc # "reserve"
  /\ UNCHANGED <<neurons, charged>>
  /\ \/ called' = called /\ run'[j].pc \notin {"generate", "upload"}
     \/ /\ Handling(j, "generate") \/ Handling(j, "upload")
        /\ called' = called \union {Delivery(j)}

Leaves(j) ==
  /\ jobs[j].state = "active"
  /\ jobs'[j].state \notin {"absent", "active"}
  /\ jobs'[j].made >= jobs[j].made /\ jobs'[j].stalls >= jobs[j].stalls
  /\ jobs'[j].state = "waiting" =>
       jobs'[j].made > jobs[j].made \/ jobs'[j].stalls > jobs[j].stalls
  /\ UNCHANGED budgetVars

(* A worker that stores its memory touches no other worker.                *)
LEMMA Remembered ==
  ASSUME Typing, NEW j \in JobIds, NEW m, Remember(j, m)
  PROVE  run'[j] = m /\ \A k \in JobIds \ {j} : run'[k] = run[k]
BY DEF Remember, Typing, TypeOK, StoreTypeOK

(* Changing the status a worker holds does not move it.                    *)
LEMMA WithStatusPc ==
  ASSUME NEW m \in RunState, NEW j \in JobIds, NEW st
  PROVE  WithStatus(m, j, st).pc = m.pc /\ WithImage(m, j).pc = m.pc
BY DEF WithStatus, WithImage, RunState

(* Where a step of a worker may take it, and what it charges.              *)
LEMMA WorkerMoves ==
  ASSUME Typing, NEW j \in JobIds, HandlerStep(j) \/ WorkerDies(j)
  PROVE  /\ UNCHANGED req
         /\ \A k \in JobIds \ {j} : jobs'[k] = jobs[k] /\ run'[k] = run[k]
         /\ Starts(j) \/ Pays(j) \/ Works(j) \/ Leaves(j)
<1>0. /\ jobs \in [JobIds -> JobState] /\ jobs[j] \in JobState
      /\ run \in [JobIds -> RunState] /\ run[j] \in RunState
  BY DEF Typing, TypeOK, StoreTypeOK
<1>a. \A pc : pc \in RunPcs => [run[j] EXCEPT !.pc = pc] \in RunState
                               /\ [run[j] EXCEPT !.pc = pc].pc = pc
  BY <1>0 DEF RunState
<1>b. \A pc \in {"none", "reserve", "generate", "upload", "refresh", "update",
           "change", "announce", "limit", "limitNote", "catch", "end"} :
        pc \in RunPcs
  BY DEF RunPcs
<1>c. ASSUME NEW m, Remember(j, m)
      PROVE  run'[j] = m /\ \A k \in JobIds \ {j} : run'[k] = run[k]
  BY <1>c, Remembered, Zenon
<1>d. ASSUME NEW pc, Move(j, pc)
      PROVE  run'[j].pc = pc /\ \A k \in JobIds \ {j} : run'[k] = run[k]
  <2>1. run'[j] = [run[j] EXCEPT !.pc = pc] /\ \A k \in JobIds \ {j} : run'[k] = run[k]
    BY <1>c, <1>d, Zenon DEF Move
  <2> QED BY <1>0, <2>1 DEF RunState
<1> USE DEF budgetVars, noticeVars
<1>1. CASE StartJob(j)
  <2> DEFINE m == [NoRun EXCEPT !.pc = "reserve", !.story = story]
             n == [m EXCEPT !.page = [pages[Target(j)] EXCEPT !.status = "GENERATING"]]
  <2>1. m.pc = "reserve" /\ n.pc = "reserve"
    BY DEF NoRun
  <2>2. Remember(j, m) \/ Remember(j, n)
    BY <1>1, Zenon DEF StartJob
  <2>3. run'[j].pc = "reserve" /\ \A k \in JobIds \ {j} : run'[k] = run[k]
    <3> HIDE DEF m, n
    <3> QED BY <1>c, <2>1, <2>2
  <2> QED BY <1>0, <1>1, <2>3 DEF StartJob, Starts
<1>2. CASE ReserveNeurons(j)
  <2> DEFINE m == [run[j] EXCEPT !.pc = "generate"]
             n == WithStatus(m, j, "GENERATING")
  <2>1. m.pc = "generate" /\ n.pc = "generate"
    <3>1. m \in RunState /\ m.pc = "generate"
      BY <1>a, <1>b, Zenon
    <3> HIDE DEF m
    <3> QED BY <3>1, WithStatusPc
  <2>2. Remember(j, m) \/ Remember(j, n)
    BY <1>2, Zenon DEF ReserveNeurons
  <2>3. run'[j].pc = "generate" /\ \A k \in JobIds \ {j} : run'[k] = run[k]
    <3> HIDE DEF m, n
    <3> QED BY <1>c, <2>1, <2>2
  <2> QED BY <1>0, <1>2, <2>3 DEF ReserveNeurons, Pays
<1>3. CASE BudgetRefuses(j)
  <2> DEFINE m == [run[j] EXCEPT !.pc = "limit"]
  <2>1. m \in RunState /\ m.pc = "limit"
    BY <1>a, <1>b, Zenon
  <2>2. Remember(j, WithStatus(m, j, "FAILED"))
    BY <1>3, Zenon DEF BudgetRefuses
  <2> HIDE DEF m
  <2>3. run'[j].pc = "limit" /\ \A k \in JobIds \ {j} : run'[k] = run[k]
    BY <1>c, <2>1, <2>2, WithStatusPc
  <2> QED BY <1>0, <1>3, <2>3 DEF BudgetRefuses, Handling, Works
<1>4. CASE RejectPrompt(j)
  <2> DEFINE pc == IF IsPage(j) THEN "refresh" ELSE "end"
             m == [run[j] EXCEPT !.pc = pc]
  <2>1. pc \in {"refresh", "end"}
    OBVIOUS
  <2>2. m \in RunState /\ m.pc = pc
    <3> HIDE DEF pc
    <3> QED BY <1>a, <1>b, <2>1
  <2>3. Remember(j, WithStatus(m, j, "FAILED"))
    BY <1>4, Zenon DEF RejectPrompt
  <2> HIDE DEF m, pc
  <2>4. run'[j].pc = pc /\ \A k \in JobIds \ {j} : run'[k] = run[k]
    BY <1>c, <2>2, <2>3, WithStatusPc
  <2> QED BY <1>0, <1>4, <2>1, <2>4 DEF RejectPrompt, Pays
<1>5. CASE GenerateImage(j)
  <2> DEFINE m == [run[j] EXCEPT !.pc = "upload"]
  <2>1. m \in RunState /\ m.pc = "upload"
    BY <1>a, <1>b, Zenon
  <2>2. Remember(j, WithStatus(m, j, "UPLOADING"))
    BY <1>5, Zenon DEF GenerateImage
  <2> HIDE DEF m
  <2>3. run'[j].pc = "upload" /\ \A k \in JobIds \ {j} : run'[k] = run[k]
    BY <1>c, <2>1, <2>2, WithStatusPc
  <2> QED BY <1>0, <1>5, <2>3 DEF GenerateImage, Handling, Works
<1>6. CASE ProviderFails(j)
  <2>1. PICK b \in BOOLEAN : Remember(j, [run[j] EXCEPT !.pc = "catch", !.retryable = b])
    BY <1>6 DEF ProviderFails
  <2>2. run'[j] = [run[j] EXCEPT !.pc = "catch", !.retryable = b]
        /\ \A k \in JobIds \ {j} : run'[k] = run[k]
    BY <1>c, <2>1, Zenon
  <2>3. run'[j].pc = "catch"
    BY <1>0, <2>2 DEF RunState
  <2> QED BY <1>0, <1>6, <2>2, <2>3 DEF ProviderFails, Handling, Works
<1>7. CASE UploadImage(j)
  <2> DEFINE pc == IF IsPage(j) THEN "refresh" ELSE "end"
             m == [run[j] EXCEPT !.pc = pc]
  <2>1. pc \in {"refresh", "end"}
    OBVIOUS
  <2>2. m \in RunState /\ m.pc = pc
    <3> HIDE DEF pc
    <3> QED BY <1>a, <1>b, <2>1
  <2>3. Remember(j, WithImage(m, j))
    BY <1>7, Zenon DEF UploadImage
  <2> HIDE DEF m, pc
  <2>4. run'[j].pc = pc /\ \A k \in JobIds \ {j} : run'[k] = run[k]
    BY <1>c, <2>2, <2>3, WithStatusPc
  <2> QED BY <1>0, <1>7, <2>1, <2>4 DEF UploadImage, Handling, Works
<1>8. CASE NotifyPageFails(j)
  BY <1>0, <1>8, <1>d DEF NotifyPageFails, Handling, Works
<1>9. CASE HandleFailure(j)
  <2> DEFINE pc == IF GivesUp(j) THEN "refresh" ELSE "end"
             m == [run[j] EXCEPT !.pc = pc, !.ok = FALSE, !.retryable = TRUE]
             st == IF GivesUp(j) THEN "FAILED" ELSE "QUEUED"
  <2>1. pc \in {"refresh", "end"}
    OBVIOUS
  <2>2. m \in RunState /\ m.pc = pc
    <3> HIDE DEF pc
    <3> QED BY <1>0, <1>b, <2>1 DEF RunState
  <2>3. Remember(j, WithStatus(m, j, st))
    BY <1>9, Zenon DEF HandleFailure
  <2> HIDE DEF m, pc, st
  <2>4. run'[j].pc = pc /\ \A k \in JobIds \ {j} : run'[k] = run[k]
    BY <1>c, <2>2, <2>3, WithStatusPc
  <2> QED BY <1>0, <1>9, <2>1, <2>4 DEF HandleFailure, Handling, Works
<1>10. CASE ReadStatus(j)
  <2>1. run'[j] = [run[j] EXCEPT !.pc = "update", !.result = ComputeStatus(pages)]
        /\ \A k \in JobIds \ {j} : run'[k] = run[k]
    BY <1>10, <1>c, Zenon DEF ReadStatus
  <2>2. run'[j].pc = "update"
    BY <1>0, <2>1 DEF RunState
  <2> QED BY <1>0, <1>10, <2>1, <2>2 DEF ReadStatus, Handling, Works
<1>11. CASE WriteStatus(j)
  <2> DEFINE pc == IF run[j].result \in TerminalStatuses THEN "change" ELSE "end"
  <2>1. run'[j] = [run[j] EXCEPT !.pc = pc, !.result = NoRun.result]
        /\ \A k \in JobIds \ {j} : run'[k] = run[k]
    BY <1>11, <1>c, Zenon DEF WriteStatus
  <2>2. run'[j].pc \in {"change", "end"}
    BY <1>0, <2>1 DEF RunState
  <2> QED BY <1>0, <1>11, <2>1, <2>2 DEF WriteStatus, Handling, Works
<1>12. CASE ClaimAnnouncement(j)
  <2>1. PICK pc \in {"end", "announce"} : Move(j, pc)
    BY <1>12 DEF ClaimAnnouncement
  <2> QED BY <1>0, <1>12, <1>d, <2>1 DEF ClaimAnnouncement, Handling, Works
<1>13. CASE Announce(j)
  <2>1. run'[j] = [run[j] EXCEPT !.pc = "end", !.story.notified = TRUE, !.story.attempt = None]
        /\ \A k \in JobIds \ {j} : run'[k] = run[k]
    BY <1>13, <1>c, Zenon DEF Announce
  <2>2. run'[j].pc = "end"
    BY <1>0, <2>1 DEF RunState
  <2> QED BY <1>0, <1>13, <2>1, <2>2 DEF Announce, Handling, Works
<1>14. CASE CheckLimitNote(j)
  <2>1. PICK pc \in {"refresh", "end", "limitNote"} : Move(j, pc)
    BY <1>14 DEF CheckLimitNote, AfterLimit
  <2> QED BY <1>0, <1>14, <1>d, <2>1 DEF CheckLimitNote, Handling, Works
<1>15. CASE CreateLimitNote(j)
  <2>1. PICK pc \in {"refresh", "end"} : Move(j, pc)
    BY <1>15 DEF CreateLimitNote, AfterLimit
  <2> QED BY <1>0, <1>15, <1>d, <2>1 DEF CreateLimitNote, Handling, Works
<1>16. CASE EndJob(j)
  <2>1. \A k \in JobIds \ {j} : jobs'[k] = jobs[k] /\ run'[k] = run[k]
    BY <1>0, <1>16, <1>c DEF EndJob
  <2>2. jobs[j].made \in Nat /\ jobs[j].stalls \in Nat
    BY <1>0, StoreAssumption DEF JobState
  <2>3. jobs'[j] = IF run[j].ok THEN [jobs[j] EXCEPT !.state = "completed"] ELSE AfterThrow(j)
    BY <1>0, <1>16 DEF EndJob
  <2>4. CASE run[j].ok
    BY <1>0, <1>16, <2>1, <2>2, <2>3, <2>4 DEF EndJob, Handling, Leaves, JobState
  <2>5. CASE ~ run[j].ok
    BY <1>0, <1>16, <2>1, <2>2, <2>3, <2>5 DEF EndJob, Handling, Leaves, JobState, AfterThrow
  <2> QED BY <2>4, <2>5
<1>17. CASE WorkerDies(j)
  <2>1. \A k \in JobIds \ {j} : jobs'[k] = jobs[k] /\ run'[k] = run[k]
    BY <1>0, <1>17, <1>c DEF WorkerDies
  <2>2. jobs[j].made \in Nat /\ jobs[j].stalls \in Nat
    BY <1>0, StoreAssumption DEF JobState
  <2>3. jobs'[j] = IF jobs[j].stalls < MaxStalls
                   THEN [jobs[j] EXCEPT !.state = "waiting", !.stalls = jobs[j].stalls + 1]
                   ELSE [jobs[j] EXCEPT !.state = "stalled"]
    BY <1>0, <1>17 DEF WorkerDies
  <2>4. CASE jobs[j].stalls < MaxStalls
    BY <1>0, <1>17, <2>1, <2>2, <2>3, <2>4 DEF WorkerDies, Leaves, JobState
  <2>5. CASE ~ (jobs[j].stalls < MaxStalls)
    BY <1>0, <1>17, <2>1, <2>2, <2>3, <2>5 DEF WorkerDies, Leaves, JobState
  <2> QED BY <2>4, <2>5
<1> QED
  BY <1>1, <1>2, <1>3, <1>4, <1>5, <1>6, <1>7, <1>8, <1>9, <1>10, <1>11, <1>12,
     <1>13, <1>14, <1>15, <1>16, <1>17
  DEF HandlerStep

(* A reservation of neurons is a new charge.                               *)
LEMMA PayingKeepsBudget ==
  ASSUME Ledger, NEW j \in JobIds, Pays(j)
  PROVE  NeuronBudget' /\ IsFiniteSet(charged') /\ Delivery(j) \notin charged
<1> USE DEF Ledger
<1>1. jobs[j] \in JobState
  BY DEF Typing, TypeOK, StoreTypeOK
<1>2. Delivery(j) \notin charged
  <2>1. jobs[j].made \in 0..MaxAttempts /\ jobs[j].stalls \in 0..MaxStalls
    BY <1>1 DEF JobState
  <2> QED BY <2>1 DEF Pays, ChargedBefore, Delivery
<1>3. Cardinality(charged) \in Nat /\ Cardinality(charged') = Cardinality(charged) + 1
      /\ IsFiniteSet(charged')
  BY <1>2, FS_AddElement, FS_CardinalityType DEF Pays, Charge
<1>4. \A n \in Nat : Cost * (n + 1) = Cost * n + Cost
  BY StoreAssumption
<1>5. neurons' = Cost * Cardinality(charged')
  BY <1>3, <1>4 DEF Pays, Charge, NeuronBudget
<1>6. neurons' <= SafetyLimit /\ called' \subseteq charged'
  BY DEF Pays, Charge, BudgetAllows, NeuronBudget
<1> QED BY <1>2, <1>3, <1>5, <1>6 DEF NeuronBudget

(* A step of a worker keeps the ledger.                                    *)
LEMMA WorkerKeepsLedger ==
  ASSUME Ledger, NEW j \in JobIds, HandlerStep(j) \/ WorkerDies(j)
  PROVE  Ledger'
<1> USE DEF Ledger
<1>0. /\ Typing'
      /\ UNCHANGED req
      /\ \A k \in JobIds \ {j} : jobs'[k] = jobs[k] /\ run'[k] = run[k]
      /\ Starts(j) \/ Pays(j) \/ Works(j) \/ Leaves(j)
  BY WorkerTyping, WorkerMoves
<1>1. /\ jobs[j] \in JobState /\ jobs'[j] \in JobState
      /\ jobs[j].made \in Nat /\ jobs[j].stalls \in Nat
      /\ jobs'[j].made \in Nat /\ jobs'[j].stalls \in Nat
  BY <1>0, StoreAssumption DEF Typing, TypeOK, StoreTypeOK, JobState
<1>2. jobs[j].state # "absent" /\ jobs'[j].state # "absent"
  BY <1>0, <1>1 DEF Starts, Pays, Works, Leaves, Handling, JobState
<1>3. AddedOnce'
  <2> SUFFICES ASSUME NEW r \in Requests, NEW t \in Targets,
                      req[r].pc = "idle" \/ t \in req[r].todo
               PROVE  jobs'[<<t, r>>].state = "absent"
    BY <1>0, Zenon DEF AddedOnce
  <2>1. jobs[<<t, r>>].state = "absent"
    BY Zenon DEF AddedOnce
  <2>2. <<t, r>> \in JobIds
    OBVIOUS
  <2>3. <<t, r>> \in JobIds \ {j}
    BY <1>2, <2>1, <2>2, Zenon
  <2> QED BY <1>0, <2>1, <2>3, Zenon
<1>4. NeuronBudget' /\ IsFiniteSet(charged') /\ charged' \subseteq charged \union {Delivery(j)}
      /\ charged \subseteq charged'
  <2>1. CASE Pays(j)
    BY <2>1, PayingKeepsBudget DEF Pays, Charge
  <2>2. CASE Works(j)
    <3>1. called' \subseteq called \union charged
      BY <2>2 DEF Works, PaidBeforeCall
    <3> QED BY <2>2, <3>1 DEF Works, NeuronBudget
  <2>3. CASE Starts(j) \/ Leaves(j)
    BY <2>3 DEF Starts, Leaves, budgetVars, NeuronBudget
  <2> QED BY <1>0, <2>1, <2>2, <2>3
<1>5. ChargedBefore'
  <2> SUFFICES ASSUME NEW k \in JobIds, NEW a \in 0..MaxAttempts, NEW s \in 0..MaxStalls,
                      <<k, a, s>> \in charged'
               PROVE  /\ jobs'[k].state # "absent"
                      /\ a <= jobs'[k].made /\ s <= jobs'[k].stalls
                      /\ (a = jobs'[k].made /\ s = jobs'[k].stalls) =>
                           jobs'[k].state # "waiting" /\ ~ Handling(k, "reserve")'
    BY Zenon DEF ChargedBefore
  <2>1. CASE k # j
    <3>1. <<k, a, s>> \in charged
      BY <1>4, <2>1 DEF Delivery
    <3> QED BY <1>0, <2>1, <3>1 DEF ChargedBefore, Handling
  <2>2. CASE k = j /\ <<k, a, s>> \in charged
    <3>1. /\ a <= jobs[j].made /\ s <= jobs[j].stalls
          /\ (a = jobs[j].made /\ s = jobs[j].stalls) =>
               jobs[j].state # "waiting" /\ ~ Handling(j, "reserve")
      BY <2>2 DEF ChargedBefore
    <3>2. CASE Starts(j)
      <4>1. jobs'[j].made = jobs[j].made /\ jobs'[j].stalls = jobs[j].stalls
        BY <1>1, <3>2 DEF Starts, JobState
      <4>2. ~ (a = jobs[j].made /\ s = jobs[j].stalls)
        BY <3>1, <3>2 DEF Starts
      <4> QED BY <1>2, <2>2, <3>1, <4>1, <4>2
    <3>3. CASE Pays(j) \/ Works(j)
      <4>1. jobs' = jobs /\ jobs[j].state = "active" /\ run'[j].pc # "reserve"
        BY <3>3 DEF Pays, Works, Handling
      <4> QED BY <1>2, <2>2, <3>1, <4>1 DEF Handling
    <3>4. CASE Leaves(j)
      <4>1. ~ Handling(j, "reserve")'
        BY <3>4 DEF Leaves, Handling
      <4>2. a <= jobs'[j].made /\ s <= jobs'[j].stalls
        BY <1>1, <3>1, <3>4 DEF Leaves
      <4>3. jobs'[j].state = "waiting" => ~ (a = jobs'[j].made /\ s = jobs'[j].stalls)
        BY <1>1, <3>1, <3>4 DEF Leaves
      <4> QED BY <1>2, <2>2, <4>1, <4>2, <4>3
    <3> QED BY <1>0, <3>2, <3>3, <3>4
  <2>3. CASE k = j /\ <<k, a, s>> \notin charged
    <3>1. charged' # charged /\ a = jobs[j].made /\ s = jobs[j].stalls
      BY <1>4, <2>3 DEF Delivery
    <3>2. Pays(j)
      BY <1>0, <3>1 DEF Starts, Works, Leaves, budgetVars
    <3>3. jobs' = jobs /\ jobs[j].state = "active" /\ run'[j].pc # "reserve"
      BY <3>2 DEF Pays, Handling
    <3> QED BY <1>1, <1>2, <2>3, <3>1, <3>3 DEF Handling
  <2> QED BY <2>1, <2>2, <2>3
<1>6. PaidBeforeCall'
  <2> SUFFICES ASSUME NEW k \in JobIds, (Handling(k, "generate") \/ Handling(k, "upload"))'
               PROVE  Delivery(k)' \in charged'
    BY Zenon DEF PaidBeforeCall
  <2>1. CASE k # j
    <3>1. Delivery(k) \in charged /\ Delivery(k)' = Delivery(k)
      BY <1>0, <2>1 DEF PaidBeforeCall, Handling, Delivery
    <3> QED BY <1>4, <3>1
  <2>2. CASE k = j
    <3>1. ~ Starts(j) /\ ~ Leaves(j)
      BY <2>2 DEF Starts, Leaves, Handling
    <3>2. CASE Pays(j)
      BY <2>2, <3>2 DEF Pays, Charge, Delivery
    <3>3. CASE Works(j)
      BY <2>2, <3>3 DEF Works, PaidBeforeCall, Handling, Delivery
    <3> QED BY <1>0, <3>1, <3>2, <3>3
  <2> QED BY <2>1, <2>2
<1> QED BY <1>0, <1>3, <1>4, <1>5, <1>6

-----------------------------------------------------------------------------
(* The ledger is balanced at the start.                                    *)
LEMMA InitLedger == Init => Ledger
<1> SUFFICES ASSUME Init PROVE Ledger
  OBVIOUS
<1>1. Typing
  BY InitTyping
<1>2. charged = {} /\ called = {} /\ neurons = 0
  BY DEF Init
<1>3. IsFiniteSet(charged) /\ NeuronBudget
  BY <1>2, FS_EmptySet, StoreAssumption DEF NeuronBudget
<1>4. AddedOnce /\ PaidBeforeCall
  BY DEF Init, NoJob, AddedOnce, PaidBeforeCall, Handling
<1>5. ChargedBefore
  BY <1>2 DEF ChargedBefore
<1> QED BY <1>1, <1>3, <1>4, <1>5 DEF Ledger

(* Every step of the pipeline keeps the ledger balanced.                   *)
LEMMA NextLedger == Ledger /\ [Next]_vars => Ledger'
<1> SUFFICES ASSUME Ledger, [Next]_vars PROVE Ledger'
  OBVIOUS
<1>1. ASSUME NEW r \in Requests, RequestStep(r) PROVE Ledger'
  BY <1>1, RequestKeepsLedger
<1>2. ASSUME NEW j \in JobIds, HandlerStep(j) \/ WorkerDies(j) PROVE Ledger'
  BY <1>2, WorkerKeepsLedger
<1>3. CASE UNCHANGED vars
  <2>1. Typing'
    BY <1>3, NextTyping DEF Ledger
  <2> QED
    BY <1>3, <2>1
    DEF vars, Ledger, NeuronBudget, AddedOnce, ChargedBefore, PaidBeforeCall, Handling, Delivery
<1> QED BY <1>1, <1>2, <1>3 DEF Next

(* Redis counts Cost neurons for every delivery that reserved them and for *)
(* nothing else, never above the safety limit, and no delivery reaches the *)
(* image model without a reservation of its own, however jobs are retried, *)
(* redelivered after a crash, or interleaved.                              *)
THEOREM BudgetKept == Spec => []NeuronBudget
<1>1. Ledger => NeuronBudget
  BY DEF Ledger
<1> QED BY <1>1, InitLedger, NextLedger, PTL DEF Spec

-----------------------------------------------------------------------------
(* In terms of PrepaidCalls: a step of a worker pays for its delivery,     *)
(* calls for it, or leaves the budget alone.                               *)
LEMMA WorkerPrepaid ==
  ASSUME Ledger, NEW j \in JobIds, HandlerStep(j) \/ WorkerDies(j)
  PROVE  Prepaid!Next \/ UNCHANGED budgetVars
<1>1. Starts(j) \/ Pays(j) \/ Works(j) \/ Leaves(j)
  BY WorkerMoves DEF Ledger
<1>2. Delivery(j) \in JobIds \X (0..MaxAttempts) \X (0..MaxStalls)
  BY DEF Ledger, Typing, TypeOK, StoreTypeOK, Delivery, JobState
<1>3. CASE Pays(j)
  <2>1. Prepaid!Pay(Delivery(j))
    BY <1>3, PayingKeepsBudget DEF Pays, Charge, BudgetAllows, Prepaid!Pay
  <2> QED BY <1>2, <2>1 DEF Prepaid!Next
<1>4. CASE Works(j)
  <2>1. CASE called' = called
    BY <1>4, <2>1 DEF Works, budgetVars
  <2>2. CASE called' = called \union {Delivery(j)}
                /\ (Handling(j, "generate") \/ Handling(j, "upload"))
    <3>1. Prepaid!Call(Delivery(j))
      BY <1>4, <2>2 DEF Works, Ledger, PaidBeforeCall, Prepaid!Call
    <3> QED BY <1>2, <3>1 DEF Prepaid!Next
  <2> QED BY <1>4, <2>1, <2>2 DEF Works
<1> QED BY <1>1, <1>3, <1>4 DEF Starts, Leaves

(* The pipeline implements PrepaidCalls: whatever its requests, workers,   *)
(* retries and crashes do, what it does to the budget is to pay once for a *)
(* delivery, within the limit, and to call for a delivery that paid.       *)
THEOREM CallsPrepaid == Spec => CallsArePrepaid
<1>1. Init => Prepaid!Init
  BY DEF Init, Prepaid!Init
<1>2. Ledger /\ [Next]_vars => [Prepaid!Next]_<<neurons, charged, called>>
  <2> SUFFICES ASSUME Ledger, [Next]_vars
               PROVE  Prepaid!Next \/ UNCHANGED budgetVars
    BY DEF budgetVars
  <2>1. ASSUME NEW r \in Requests, RequestStep(r) PROVE UNCHANGED budgetVars
    BY <2>1, RequestMoves DEF budgetVars, Ledger
  <2>2. ASSUME NEW j \in JobIds, HandlerStep(j) \/ WorkerDies(j)
        PROVE  Prepaid!Next \/ UNCHANGED budgetVars
    BY <2>2, WorkerPrepaid
  <2> QED BY <2>1, <2>2 DEF Next, vars, budgetVars
<1> QED BY <1>1, <1>2, InitLedger, NextLedger, PTL DEF Spec, CallsArePrepaid, Prepaid!Spec

=============================================================================
