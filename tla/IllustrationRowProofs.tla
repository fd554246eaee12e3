------------------------ MODULE IllustrationRowProofs ------------------------
(***************************************************************************)
(* The rows of the illustration pipeline, for any number of pages,         *)
(* requests and workers: what stale copies saved over each other can and   *)
(* cannot do to them, what a handler leaves behind, how often the end of a *)
(* run is announced, and what stands behind the jobs of the paths that ask *)
(* for the owner's allowance.                                              *)
(***************************************************************************)
EXTENDS IllustrationBudgetProofs

USE DEF Pages, Cover, Targets, JobIds

GoodPage(row) == row.status = "COMPLETED" => row.image
GoodCover(s)  == s.cover = "COMPLETED" => s.coverImage

GoodRows == GoodCover(story) /\ \A p \in Pages : GoodPage(pages[p])

(* What a request holds.  The status that its catch block may restore is   *)
(* that of the target it is at, whose image its copy still has.            *)
ImageIn(m, t)    == IF t = Cover THEN m.story.coverImage ELSE m.pages[t].image
First(m, t)      == t \in m.todo /\ \A u \in m.todo : t <= u
MayRestore(m)    == \/ m.pc \in {"add", "restore"}
                    \/ m.op \in {"page", "cover"} /\ m.pc \in {"translate", "afford", "save"}
GoodMemory(m) ==
  /\ GoodCover(m.story) /\ \A p \in Pages : GoodPage(m.pages[p])
  /\ m.op \in {"page", "cover"} => \E t \in Targets : m.todo \subseteq {t}
  /\ m.pc \in {"clear", "claim"} => m.op \in Claiming
  /\ MayRestore(m) /\ m.prev = "COMPLETED" =>
       \A t \in m.todo : First(m, t) => ImageIn(m, t)

GoodRequests == \A r \in Requests : GoodMemory(req[r])

-----------------------------------------------------------------------------
(* Saving a good copy of the story, with its pages or without, leaves the  *)
(* rows good.                                                              *)
LEMMA SavedRows ==
  ASSUME Typing, GoodRows, NEW m \in ReqState, GoodMemory(m), SaveLoadedStory(m)
  PROVE  GoodRows'
BY DEF SaveLoadedStory, SaveStory, GoodRows, GoodMemory

(* So does saving a good page.                                             *)
LEMMA SavedPage ==
  ASSUME Typing, GoodRows, NEW p \in Pages, NEW row, GoodPage(row), SavePage(p, row),
         UNCHANGED story
  PROVE  GoodRows'
BY DEF SavePage, GoodRows, Typing, TypeOK, StoreTypeOK

(* A request that stores a good memory leaves every request with one.      *)
LEMMA GoodAfterResume ==
  ASSUME Typing, GoodRequests, NEW r \in Requests, NEW m, GoodMemory(m), Resume(r, m)
  PROVE  GoodRequests'
<1>1. req'[r] = m /\ \A s \in Requests \ {r} : req'[s] = req[s]
  BY Resumed, Zenon
<1> QED
  BY <1>1, Zenon DEF GoodRequests

(* The memory of a request that ended holds nothing to restore.            *)
LEMMA GoodAfterFinish ==
  ASSUME Typing, GoodRequests, NEW r \in Requests, Finish(r)
  PROVE  GoodRequests'
<1> DEFINE m == [NoReq EXCEPT !.pc = "done", !.op = req[r].op]
<1>1. GoodMemory(m)
  <2>1. /\ m.pc = "done" /\ m.todo = {} /\ m.story = FreshStory
        /\ m.pages = [p \in Pages |-> FreshPage]
    BY DEF NoReq
  <2> HIDE DEF m
  <2>2. ~ MayRestore(m)
    BY <2>1 DEF MayRestore
  <2>3. Cover \in Targets
    OBVIOUS
  <2> QED BY <2>1, <2>2, <2>3 DEF GoodMemory, FreshStory, FreshPage, GoodCover, GoodPage
<1>2. Resume(r, m)
  BY Zenon DEF Finish
<1> HIDE DEF m
<1> QED BY <1>1, <1>2, GoodAfterResume

(* A request that goes on, or ends instead, does too.                      *)
LEMMA GoodAfterContinue ==
  ASSUME Typing, GoodRequests, NEW r \in Requests, NEW m, GoodMemory(m), Continue(r, m)
  PROVE  GoodRequests'
BY GoodAfterResume, GoodAfterFinish DEF Continue

(* A memory that only moved on to a step that restores nothing, or loses   *)
(* targets before such a step.                                             *)
LEMMA GoodElsewhere ==
  ASSUME NEW m, NEW n, GoodMemory(m), n.story.cover = m.story.cover,
         n.story.coverImage = m.story.coverImage, n.pages = m.pages,
         n.op = m.op, n.todo \subseteq m.todo, n.prev = m.prev,
         n.pc \in {"clear", "claim"} => n.op \in Claiming,
         \/ ~ MayRestore(n)
         \/ MayRestore(m) /\ n.todo = m.todo
         \/ MayRestore(m) /\ m.op \in {"page", "cover"}
  PROVE  GoodMemory(n)
<1>1. /\ GoodCover(n.story) /\ \A p \in Pages : GoodPage(n.pages[p])
      /\ n.op \in {"page", "cover"} => \E t \in Targets : n.todo \subseteq {t}
  BY DEF GoodMemory, GoodCover
<1>2. ASSUME MayRestore(n), n.prev = "COMPLETED", NEW t \in n.todo, First(n, t)
      PROVE  ImageIn(n, t)
  <2>1. ImageIn(n, t) = ImageIn(m, t)
    BY DEF ImageIn
  <2>2. MayRestore(m)
    BY <1>2
  <2>3. CASE n.todo = m.todo
    BY <1>2, <2>1, <2>2, <2>3 DEF GoodMemory, First
  <2>4. CASE m.op \in {"page", "cover"}
    <3>1. First(m, t)
      BY <1>2, <2>4 DEF GoodMemory, First
    <3> QED BY <1>2, <2>1, <2>2, <3>1 DEF GoodMemory
  <2> QED BY <1>2, <2>3, <2>4
<1> QED BY <1>1, <1>2 DEF GoodMemory

(* A request that starts copies rows that are good.                        *)
LEMMA LoadKeepsGood ==
  ASSUME Typing, GoodRows, GoodRequests, NEW r \in Requests, Begin(r)
  PROVE  GoodRows' /\ GoodRequests'
<1>1. ASSUME NEW op, NEW todo, NEW pc \in {"clear", "claim", "reserve"}, Load(r, op, todo, pc),
             op \in {"page", "cover"} => \E t \in Targets : todo \subseteq {t},
             pc \in {"clear", "claim"} => op \in Claiming
      PROVE  GoodRows' /\ GoodRequests'
  <2> DEFINE m == [pc |-> pc, op |-> op, story |-> story, pages |-> pages,
                   todo |-> todo, prev |-> "PENDING"]
  <2>1. GoodMemory(m)
    BY <1>1 DEF GoodMemory, GoodRows, MayRestore
  <2>2. Resume(r, m) /\ UNCHANGED dbVars
    BY <1>1, Zenon DEF Load
  <2> HIDE DEF m
  <2> QED BY <2>1, <2>2, GoodAfterResume DEF GoodRows, dbVars
<1>2. ToClaim \in {"clear", "claim", "reserve"}
  BY DEF ToClaim
<1>3. CASE GenerateAll(r)
  BY <1>1, <1>2, <1>3 DEF GenerateAll, Claiming
<1>4. CASE GenerateRemaining(r)
  BY <1>1, <1>2, <1>4 DEF GenerateRemaining, Claiming
<1>5. CASE GenerateAffected(r)
  BY <1>1, <1>5 DEF GenerateAffected
<1>6. CASE RegeneratePage(r)
  BY <1>1, <1>6 DEF RegeneratePage
<1>7. CASE RegenerateCover(r)
  BY <1>1, <1>7 DEF RegenerateCover
<1> QED BY <1>3, <1>4, <1>5, <1>6, <1>7 DEF Begin

(* And so does every later step of it, its catch blocks included.          *)
LEMMA ProceedKeepsGood ==
  ASSUME Typing, GoodRows, GoodRequests, NEW r \in Requests, Proceed(r) \/ RequestDies(r)
  PROVE  GoodRows' /\ GoodRequests'
<1>0. /\ req[r] \in ReqState /\ GoodMemory(req[r])
      /\ story \in StoryRow /\ pages \in [Pages -> PageRow]
  BY DEF Typing, TypeOK, StoreTypeOK, GoodRequests
<1>a. ASSUME Finish(r), UNCHANGED <<story, pages>> PROVE GoodRows' /\ GoodRequests'
  BY <1>a, GoodAfterFinish DEF GoodRows
<1>b. ASSUME NEW m, GoodMemory(m), Resume(r, m), UNCHANGED <<story, pages>>
      PROVE  GoodRows' /\ GoodRequests'
  BY <1>b, GoodAfterResume DEF GoodRows
<1>c. ASSUME NEW pc \in ReqPcs, Goto(r, pc), UNCHANGED <<story, pages>>,
             pc \in {"clear", "claim"} => req[r].op \in Claiming,
             \/ pc \notin {"add", "restore", "translate", "afford", "save"}
             \/ MayRestore(req[r])
             \/ req[r].op \notin {"page", "cover"} /\ pc \notin {"add", "restore"}
      PROVE  GoodRows' /\ GoodRequests'
  <2> DEFINE m == [req[r] EXCEPT !.pc = pc]
  <2>1. /\ m.pc = pc /\ m.op = req[r].op /\ m.todo = req[r].todo
        /\ m.story = req[r].story /\ m.pages = req[r].pages /\ m.prev = req[r].prev
    BY <1>0 DEF ReqState
  <2>2. Resume(r, m)
    BY <1>c, Zenon DEF Goto
  <2> HIDE DEF m
  <2>3. ~ MayRestore(m) \/ MayRestore(req[r])
    BY <1>c, <2>1 DEF MayRestore
  <2>4. GoodMemory(m)
    BY <1>0, <1>c, <2>1, <2>3, GoodElsewhere
  <2> QED BY <1>b, <1>c, <2>2, <2>4
<1> USE DEF dbVars
<1>1. CASE ClearStaleClaim(r)
  <2> DEFINE m == [req[r] EXCEPT !.pc = "claim", !.story.attempt = None]
  <2>1. /\ m.pc = "claim" /\ m.op = req[r].op /\ m.todo = req[r].todo
        /\ m.story.cover = req[r].story.cover /\ m.story.coverImage = req[r].story.coverImage
        /\ m.pages = req[r].pages /\ m.prev = req[r].prev
    BY <1>0 DEF ReqState, StoryRow
  <2>2. Resume(r, m)
    BY <1>1, Zenon DEF ClearStaleClaim
  <2> HIDE DEF m
  <2>3. GoodMemory(m)
    BY <1>0, <1>1, <2>1, GoodElsewhere DEF MayRestore, ClearStaleClaim, GoodMemory
  <2>4. GoodRows'
    BY <1>0, <1>1 DEF ClearStaleClaim, UpdateStory, GoodRows, GoodCover, StoryRow
  <2> QED BY <2>2, <2>3, <2>4, GoodAfterResume
<1>2. CASE ClaimAttempt(r)
  <2> DEFINE m == [req[r] EXCEPT !.pc = AfterClaim(req[r].op), !.story.attempt = r]
  <2>1. /\ m.pc = AfterClaim(req[r].op) /\ m.op = req[r].op /\ m.todo = req[r].todo
        /\ m.story.cover = req[r].story.cover /\ m.story.coverImage = req[r].story.coverImage
        /\ m.pages = req[r].pages /\ m.prev = req[r].prev
    BY <1>0 DEF ReqState, StoryRow
  <2>2. Resume(r, m)
    BY <1>2, Zenon DEF ClaimAttempt
  <2> HIDE DEF m
  <2>3. GoodMemory(m)
    <3>1. req[r].op \in Claiming
      BY <1>0, <1>2 DEF ClaimAttempt, GoodMemory
    <3>2. ~ MayRestore(m) /\ m.pc \notin {"clear", "claim"}
      BY <2>1, <3>1 DEF MayRestore, AfterClaim, Claiming
    <3> QED BY <1>0, <2>1, <3>2, GoodElsewhere
  <2>4. GoodRows'
    BY <1>0, <1>2 DEF ClaimAttempt, UpdateStory, GoodRows, GoodCover, StoryRow
  <2> QED BY <2>2, <2>3, <2>4, GoodAfterResume
<1>3. CASE ClaimRefused(r)
  BY <1>3, <1>a DEF ClaimRefused
<1>4. CASE ReserveQuota(r)
  BY <1>4, <1>c DEF ReserveQuota, AfterReserve, ReqPcs, Claiming
<1>5. CASE QuotaRefused(r)
  BY <1>5, <1>a DEF QuotaRefused
<1>6. CASE LookupTarget(r)
  <2>1. PICK t \in req[r].todo :
          LET m == IF t = Cover THEN req[r] ELSE [req[r] EXCEPT !.pages[t] = pages[t]]
              status == IF t = Cover THEN m.story.cover ELSE m.pages[t].status
          IN  IF status \in ActiveStatuses
              THEN Finish(r)
              ELSE Resume(r, [m EXCEPT !.pc = "translate", !.prev = status])
    BY <1>6 DEF LookupTarget
  <2>2. UNCHANGED <<story, pages>>
    BY <1>6 DEF LookupTarget
  <2> DEFINE k == IF t = Cover THEN req[r] ELSE [req[r] EXCEPT !.pages[t] = pages[t]]
             status == IF t = Cover THEN k.story.cover ELSE k.pages[t].status
             m == [k EXCEPT !.pc = "translate", !.prev = status]
  <2>3. /\ k \in ReqState /\ k.op = req[r].op /\ k.todo = req[r].todo /\ k.story = req[r].story
        /\ \A p \in Pages : k.pages[p] = req[r].pages[p] \/ k.pages[p] = pages[p]
        /\ t \in Targets
    BY <1>0 DEF ReqState
  <2>4. Finish(r) \/ Resume(r, m)
    BY <2>1, Zenon
  <2> HIDE DEF k
  <2>5. /\ m.pc = "translate" /\ m.op = req[r].op /\ m.todo = req[r].todo
        /\ m.story = req[r].story /\ m.pages = k.pages /\ m.prev = status
    BY <2>3 DEF ReqState
  <2> HIDE DEF m
  <2>6. GoodMemory(m)
    <3>1. GoodCover(m.story) /\ \A p \in Pages : GoodPage(m.pages[p])
      BY <1>0, <2>3, <2>5 DEF GoodMemory, GoodRows
    <3>2. m.op \in {"page", "cover"} => \E u \in Targets : m.todo \subseteq {u}
      BY <1>0, <2>5 DEF GoodMemory
    <3>3. ASSUME MayRestore(m), m.prev = "COMPLETED", NEW u \in m.todo
          PROVE  ImageIn(m, u)
      <4>1. u = t
        BY <2>5, <3>2, <3>3 DEF MayRestore
      <4>2. t # Cover => t \in Pages
        BY <2>3
      <4>3. CASE t = Cover
        BY <2>3, <2>5, <3>1, <3>3, <4>1, <4>3 DEF ImageIn, GoodCover
      <4>4. CASE t # Cover
        BY <2>5, <3>1, <3>3, <4>1, <4>2, <4>4 DEF ImageIn, GoodPage
      <4> QED BY <4>3, <4>4
    <3>4. m.pc \notin {"clear", "claim"}
      BY <2>5
    <3> QED BY <3>1, <3>2, <3>3, <3>4, Zenon DEF GoodMemory
  <2> QED BY <1>a, <1>b, <2>2, <2>4, <2>6
<1>7. CASE Translate(r)
  <2> DEFINE todo == {t \in req[r].todo : req[r].op = "affected" =>
                        req[r].pages[t].status \notin ActiveStatuses}
             pc == IF todo = {} THEN "release" ELSE AfterTranslate(req[r].op)
             m == [req[r] EXCEPT !.todo = todo, !.pc = pc]
  <2>1. Resume(r, m) /\ UNCHANGED <<story, pages>> /\ req[r].pc = "translate"
    BY <1>7, Zenon DEF Translate
  <2>2. /\ m.pc = pc /\ m.op = req[r].op /\ m.todo = todo
        /\ m.story = req[r].story /\ m.pages = req[r].pages /\ m.prev = req[r].prev
    BY <1>0 DEF ReqState
  <2>3. todo \subseteq req[r].todo /\ pc \in {"release", "afford", "save"}
    BY DEF AfterTranslate
  <2> HIDE DEF m, todo, pc
  <2>4. GoodMemory(m)
    <3>1. MayRestore(m) => MayRestore(req[r]) /\ req[r].op \in {"page", "cover"}
      BY <2>1, <2>2, <2>3 DEF MayRestore
    <3> QED BY <1>0, <2>2, <2>3, <3>1, GoodElsewhere
  <2> QED BY <1>b, <2>1, <2>4
<1>8. CASE TranslateFails(r)
  <2>1. req[r].pc = "translate" /\ req[r].op \in OpKinds
    BY <1>0, <1>8 DEF TranslateFails, ReqState
  <2>2. CASE req[r].op \in Claiming
    BY <1>8, <1>c, <2>2 DEF TranslateFails, ReqPcs
  <2>3. CASE req[r].op \notin Claiming
    <3>1. MayRestore(req[r])
      BY <2>1, <2>3 DEF MayRestore, OpKinds, Claiming
    <3> QED BY <1>8, <1>c, <2>3, <3>1 DEF TranslateFails, ReqPcs
  <2> QED BY <2>2, <2>3
<1>9. CASE KeepAffordable(r)
  <2> DEFINE todo == {t \in req[r].todo :
                        Cardinality({u \in req[r].todo : u < t}) < Affordable}
             pc == IF todo = {} THEN "release" ELSE "save"
             m == [req[r] EXCEPT !.todo = todo, !.pc = pc]
  <2>1. Resume(r, m) /\ UNCHANGED <<story, pages>> /\ req[r].pc = "afford"
    BY <1>9, Zenon DEF KeepAffordable
  <2>2. /\ m.pc = pc /\ m.op = req[r].op /\ m.todo = todo
        /\ m.story = req[r].story /\ m.pages = req[r].pages /\ m.prev = req[r].prev
    BY <1>0 DEF ReqState
  <2>3. todo \subseteq req[r].todo /\ pc \in {"release", "save"}
    OBVIOUS
  <2> HIDE DEF m, todo, pc
  <2>4. GoodMemory(m)
    <3>1. MayRestore(m) => MayRestore(req[r]) /\ req[r].op \in {"page", "cover"}
      BY <2>1, <2>2, <2>3 DEF MayRestore
    <3> QED BY <1>0, <2>2, <2>3, <3>1, GoodElsewhere
  <2> QED BY <1>b, <2>1, <2>4
<1>10. CASE MarkQueued(r)
  <2>1. PICK t \in req[r].todo :
          /\ IsNext(r, t)
          /\ IF t = Cover
             THEN LET m == [req[r] EXCEPT !.pc = "add", !.story.cover = "QUEUED",
                              !.prev = IF req[r].op = "cover" THEN req[r].prev
                                       ELSE req[r].story.cover]
                  IN  SaveLoadedStory(m) /\ Resume(r, m)
             ELSE LET m == [req[r] EXCEPT !.pc = "add",
                              !.pages[t] = QueuedPage(req[r].pages[t]),
                              !.prev = req[r].pages[t].status]
                  IN  /\ SavePage(t, m.pages[t])
                      /\ Resume(r, m)
                      /\ UNCHANGED <<story, cleared>>
    BY <1>10 DEF MarkQueued
  <2>a. t \in Targets /\ req[r].pc = "save" /\ First(req[r], t)
    BY <1>0, <1>10, <2>1 DEF ReqState, MarkQueued, IsNext, First
  <2>b. \A u : First(req[r], u) => u = t
    BY <1>0, <2>a, StoreAssumption DEF First, ReqState
  <2>2. CASE t = Cover
    <3> DEFINE prev == IF req[r].op = "cover" THEN req[r].prev ELSE req[r].story.cover
               cover == [req[r].story EXCEPT !.cover = "QUEUED"]
               m == [req[r] EXCEPT !.pc = "add", !.story.cover = "QUEUED", !.prev = prev]
    <3>1. SaveLoadedStory(m) /\ Resume(r, m)
      BY <2>1, <2>2
    <3>2. m = [req[r] EXCEPT !.pc = "add", !.story = cover, !.prev = prev]
      BY <1>0 DEF ReqState
    <3>3. /\ cover \in StoryRow /\ cover.cover = "QUEUED" /\ prev \in PageStatus
          /\ cover.coverImage = req[r].story.coverImage
      BY <1>0 DEF ReqState, StoryRow, PageStatus
    <3> HIDE DEF m, cover, prev
    <3>4. /\ m \in ReqState /\ m.pc = "add" /\ m.op = req[r].op /\ m.todo = req[r].todo
          /\ m.story = cover /\ m.pages = req[r].pages /\ m.prev = prev
      BY <1>0, <3>2, <3>3 DEF ReqState, ReqPcs
    <3>5. prev = "COMPLETED" => req[r].story.coverImage
      <4>1. CASE req[r].op = "cover"
        BY <1>0, <2>2, <2>a, <4>1 DEF prev, GoodMemory, MayRestore, ImageIn, First
      <4>2. CASE req[r].op # "cover"
        BY <1>0, <4>2 DEF prev, GoodMemory, GoodCover
      <4> QED BY <4>1, <4>2
    <3>6. GoodMemory(m)
      <4>1. \A u \in m.todo : First(m, u) => u = t
        BY <2>b, <3>4 DEF First
      <4> QED
        BY <1>0, <2>2, <3>3, <3>4, <3>5, <4>1 DEF GoodMemory, GoodCover, ImageIn
    <3> QED BY <3>1, <3>4, <3>6, SavedRows, GoodAfterResume
  <2>3. CASE t # Cover
    <3> DEFINE ps == [req[r].pages EXCEPT ![t] = QueuedPage(req[r].pages[t])]
               m == [req[r] EXCEPT !.pc = "add",
                       !.pages[t] = QueuedPage(req[r].pages[t]),
                       !.prev = req[r].pages[t].status]
    <3>1. SavePage(t, m.pages[t]) /\ Resume(r, m) /\ UNCHANGED <<story, cleared>>
      BY <2>1, <2>3
    <3>2. t \in Pages /\ req[r].pages \in [Pages -> PageRow] /\ req[r].pages[t] \in PageRow
      BY <1>0, <2>3, <2>a DEF ReqState
    <3>3. m = [req[r] EXCEPT !.pc = "add", !.pages = ps, !.prev = req[r].pages[t].status]
      BY <1>0 DEF ReqState
    <3>4. /\ ps[t] = QueuedPage(req[r].pages[t])
          /\ \A p \in Pages : p # t => ps[p] = req[r].pages[p]
      BY <3>2
    <3>5. /\ QueuedPage(req[r].pages[t]).status = "QUEUED"
          /\ QueuedPage(req[r].pages[t]).image = req[r].pages[t].image
      BY <3>2 DEF QueuedPage, PageRow
    <3> HIDE DEF m, ps
    <3>6. /\ m.pc = "add" /\ m.op = req[r].op /\ m.todo = req[r].todo
          /\ m.story = req[r].story /\ m.pages = ps /\ m.prev = req[r].pages[t].status
      BY <1>0, <3>3 DEF ReqState
    <3>7. GoodPage(m.pages[t])
      BY <3>4, <3>5, <3>6 DEF GoodPage
    <3>8. GoodMemory(m)
      <4>1. \A u \in m.todo : First(m, u) => u = t
        BY <2>b, <3>6 DEF First
      <4>2. GoodCover(m.story) /\ \A p \in Pages : GoodPage(m.pages[p])
        BY <1>0, <3>4, <3>6, <3>7 DEF GoodMemory
      <4>3. m.op \in {"page", "cover"} => \E u \in Targets : m.todo \subseteq {u}
        BY <1>0, <3>6 DEF GoodMemory
      <4>4. m.prev = "COMPLETED" => ImageIn(m, t)
        BY <1>0, <2>3, <3>2, <3>4, <3>5, <3>6 DEF GoodMemory, GoodPage, ImageIn
      <4>5. m.pc \notin {"clear", "claim"}
        BY <3>6
      <4> QED BY <4>1, <4>2, <4>3, <4>4, <4>5, Zenon DEF GoodMemory
    <3> QED BY <3>1, <3>2, <3>7, <3>8, SavedPage, GoodAfterResume
  <2> QED BY <2>2, <2>3
<1>11. CASE AddJob(r)
  <2>1. PICK t \in req[r].todo :
          Resume(r, [req[r] EXCEPT
                       !.todo = req[r].todo \ {t},
                       !.pc = IF req[r].todo \ {t} = {} THEN AfterQueued(req[r].op)
                                                        ELSE "save"])
    BY <1>11, Zenon DEF AddJob
  <2> DEFINE left == req[r].todo \ {t}
             pc == IF left = {} THEN AfterQueued(req[r].op) ELSE "save"
             m == [req[r] EXCEPT !.todo = left, !.pc = pc]
  <2>2. /\ m.pc = pc /\ m.op = req[r].op /\ m.todo = left
        /\ m.story = req[r].story /\ m.pages = req[r].pages /\ m.prev = req[r].prev
    BY <1>0 DEF ReqState
  <2>3. left \subseteq req[r].todo /\ pc \in {"refresh", "reset", "save"}
    BY DEF AfterQueued
  <2>4. Resume(r, m) /\ UNCHANGED <<story, pages>> /\ req[r].pc = "add"
    BY <1>11, <2>1, Zenon DEF AddJob
  <2> HIDE DEF m, left, pc
  <2>5. GoodMemory(m)
    <3>1. MayRestore(m) => MayRestore(req[r]) /\ req[r].op \in {"page", "cover"}
      BY <2>2, <2>3, <2>4 DEF MayRestore
    <3> QED BY <1>0, <2>2, <2>3, <3>1, GoodElsewhere
  <2> QED BY <1>b, <2>4, <2>5
<1>12. CASE AddJobFails(r)
  <2>1. PICK t \in req[r].todo : Goto(r, AfterQueueError(req[r].op, t))
    BY <1>12 DEF AddJobFails
  <2>2. /\ AfterQueueError(req[r].op, t) \in ReqPcs \ {"clear", "claim"}
        /\ MayRestore(req[r])
    BY <1>12 DEF AddJobFails, AfterQueueError, ReqPcs, MayRestore
  <2> QED BY <1>c, <1>12, <2>1, <2>2 DEF AddJobFails
<1>13. CASE RestoreStatus(r)
  <2> DEFINE next == IF req[r].op = "all" THEN "release" ELSE "done"
  <2>1. PICK t \in req[r].todo :
          /\ IsNext(r, t)
          /\ IF t = Cover
             THEN LET m == [req[r] EXCEPT !.pc = next, !.story.cover = req[r].prev]
                  IN  SaveLoadedStory(m) /\ Continue(r, m)
             ELSE LET m == [req[r] EXCEPT !.pc = next, !.pages[t].status = req[r].prev]
                  IN  /\ SavePage(t, m.pages[t])
                      /\ Continue(r, m)
                      /\ UNCHANGED <<story, cleared>>
    BY <1>13, Zenon DEF RestoreStatus
  <2>a. /\ t \in Targets /\ req[r].prev \in PageStatus /\ next \in {"release", "done"}
        /\ req[r].prev = "COMPLETED" => ImageIn(req[r], t)
    BY <1>0, <1>13, <2>1 DEF ReqState, RestoreStatus, IsNext, First, GoodMemory, MayRestore
  <2>2. CASE t = Cover
    <3> DEFINE cover == [req[r].story EXCEPT !.cover = req[r].prev]
               m == [req[r] EXCEPT !.pc = next, !.story.cover = req[r].prev]
    <3>1. SaveLoadedStory(m) /\ Continue(r, m)
      BY <2>1, <2>2
    <3>2. m = [req[r] EXCEPT !.pc = next, !.story = cover]
      BY <1>0 DEF ReqState
    <3>3. /\ cover \in StoryRow /\ cover.cover = req[r].prev
          /\ cover.coverImage = req[r].story.coverImage
      BY <1>0, <2>a DEF ReqState, StoryRow
    <3> HIDE DEF m, cover, next
    <3>4. /\ m \in ReqState /\ m.pc = next /\ m.op = req[r].op /\ m.todo = req[r].todo
          /\ m.story = cover /\ m.pages = req[r].pages
      BY <1>0, <2>a, <3>2, <3>3 DEF ReqState, ReqPcs
    <3>5. GoodMemory(m)
      <4>1. ~ MayRestore(m)
        BY <2>a, <3>4 DEF MayRestore
      <4> QED BY <1>0, <2>2, <2>a, <3>3, <3>4, <4>1 DEF GoodMemory, GoodCover, ImageIn
    <3> QED BY <3>1, <3>4, <3>5, SavedRows, GoodAfterContinue
  <2>3. CASE t # Cover
    <3> DEFINE row == [req[r].pages[t] EXCEPT !.status = req[r].prev]
               ps == [req[r].pages EXCEPT ![t] = row]
               m == [req[r] EXCEPT !.pc = next, !.pages[t].status = req[r].prev]
    <3>1. SavePage(t, m.pages[t]) /\ Continue(r, m) /\ UNCHANGED <<story, cleared>>
      BY <2>1, <2>3
    <3>2. t \in Pages /\ req[r].pages \in [Pages -> PageRow] /\ req[r].pages[t] \in PageRow
      BY <1>0, <2>3, <2>a DEF ReqState
    <3>3. m = [req[r] EXCEPT !.pc = next, !.pages = ps]
      BY <1>0 DEF ReqState
    <3>4. ps[t] = row /\ \A p \in Pages : p # t => ps[p] = req[r].pages[p]
      BY <3>2
    <3>5. row.status = req[r].prev /\ row.image = req[r].pages[t].image
      BY <3>2 DEF PageRow
    <3> HIDE DEF m, ps, row, next
    <3>6. /\ m.pc = next /\ m.op = req[r].op /\ m.todo = req[r].todo
          /\ m.story = req[r].story /\ m.pages = ps
      BY <1>0, <3>3 DEF ReqState
    <3>7. GoodPage(m.pages[t])
      BY <2>3, <2>a, <3>4, <3>5, <3>6 DEF GoodPage, ImageIn
    <3>8. GoodMemory(m)
      <4>1. ~ MayRestore(m)
        BY <2>a, <3>6 DEF MayRestore
      <4>2. GoodCover(m.story) /\ \A p \in Pages : GoodPage(m.pages[p])
        BY <1>0, <3>4, <3>6, <3>7 DEF GoodMemory
      <4>3. m.op \in {"page", "cover"} => \E u \in Targets : m.todo \subseteq {u}
        BY <1>0, <3>6 DEF GoodMemory
      <4>4. m.pc \notin {"clear", "claim"}
        BY <2>a, <3>6
      <4> QED BY <4>1, <4>2, <4>3, <4>4, Zenon DEF GoodMemory
    <3> QED BY <3>1, <3>2, <3>7, <3>8, SavedPage, GoodAfterContinue
  <2> QED BY <2>2, <2>3
<1>14. CASE ReleaseAttempt(r)
  <2>1. story'.cover = story.cover /\ story'.coverImage = story.coverImage
        /\ UNCHANGED pages
    BY <1>0, <1>14 DEF ReleaseAttempt, UpdateStory, StoryRow
  <2>2. GoodRows'
    BY <2>1 DEF GoodRows, GoodCover
  <2> QED BY <1>14, <2>2, GoodAfterFinish DEF ReleaseAttempt
<1>15. CASE RefreshLoadedStatus(r)
  <2> DEFINE m == [req[r] EXCEPT !.pc = AfterRefresh(req[r].op),
                     !.story.status = ComputeStatus(req[r].pages)]
  <2>1. SaveLoadedStory(m) /\ Continue(r, m)
    BY <1>15, Zenon DEF RefreshLoadedStatus
  <2>2. /\ m.pc \in {"reset", "done"} /\ m.op = req[r].op /\ m.todo = req[r].todo
        /\ m.story.cover = req[r].story.cover /\ m.story.coverImage = req[r].story.coverImage
        /\ m.pages = req[r].pages /\ m.prev = req[r].prev
    BY <1>0 DEF ReqState, StoryRow, AfterRefresh
  <2>3. m \in ReqState
    <3>1. [req[r].story EXCEPT !.status = ComputeStatus(req[r].pages)] \in StoryRow
      BY <1>0, StatusTyping DEF ReqState, StoryRow
    <3>2. m = [req[r] EXCEPT !.pc = AfterRefresh(req[r].op),
                 !.story = [req[r].story EXCEPT !.status = ComputeStatus(req[r].pages)]]
      BY <1>0 DEF ReqState
    <3>3. AfterRefresh(req[r].op) \in ReqPcs
      BY DEF AfterRefresh, ReqPcs
    <3> HIDE DEF m
    <3> QED BY <1>0, <3>1, <3>2, <3>3, RequestMemory DEF ReqState
  <2> HIDE DEF m
  <2>4. GoodMemory(m)
    BY <1>0, <2>2, GoodElsewhere DEF MayRestore
  <2> QED BY <2>1, <2>3, <2>4, SavedRows, GoodAfterContinue
<1>16. CASE ResetNotified(r)
  <2> DEFINE m == [req[r] EXCEPT !.pc = AfterReset(req[r].op), !.story.notified = FALSE]
  <2>1. /\ SaveLoadedStory(m) \/ UNCHANGED <<story, pages>>
        /\ Continue(r, m)
    BY <1>16, Zenon DEF ResetNotified
  <2>2. /\ m.pc \in {"refresh", "done"} /\ m.op = req[r].op /\ m.todo = req[r].todo
        /\ m.story.cover = req[r].story.cover /\ m.story.coverImage = req[r].story.coverImage
        /\ m.pages = req[r].pages /\ m.prev = req[r].prev
    BY <1>0 DEF ReqState, StoryRow, AfterReset
  <2>3. m \in ReqState
    <3>1. [req[r].story EXCEPT !.notified = FALSE] \in StoryRow
      BY <1>0 DEF ReqState, StoryRow
    <3>2. m = [req[r] EXCEPT !.pc = AfterReset(req[r].op),
                 !.story = [req[r].story EXCEPT !.notified = FALSE]]
      BY <1>0 DEF ReqState
    <3>3. AfterReset(req[r].op) \in ReqPcs
      BY DEF AfterReset, ReqPcs
    <3> HIDE DEF m
    <3> QED BY <1>0, <3>1, <3>2, <3>3 DEF ReqState
  <2> HIDE DEF m
  <2>4. GoodMemory(m)
    BY <1>0, <2>2, GoodElsewhere DEF MayRestore
  <2>5. UNCHANGED <<story, pages>> => GoodRows'
    BY DEF GoodRows
  <2> QED BY <2>1, <2>3, <2>4, <2>5, SavedRows, GoodAfterContinue
<1>17. CASE RequestDies(r)
  BY <1>17, <1>a DEF RequestDies
<1> QED
  BY <1>1, <1>2, <1>3, <1>4, <1>5, <1>6, <1>7, <1>8, <1>9, <1>10, <1>11, <1>12, <1>13,
     <1>14, <1>15, <1>16, <1>17
  DEF Proceed

-----------------------------------------------------------------------------
(* What a worker holds, and what it has saved last: past the call of the   *)
(* image model its target is COMPLETED or FAILED, unless the handler threw *)
(* and the page waits for another attempt.                                 *)
GoodRun(m) == GoodCover(m.story) /\ GoodPage(m.page)

Settled(m, j) ==
  /\ m.pc \in {"refresh", "update", "change", "announce", "limit", "limitNote"}
       => StatusIn(m, j) \in {"COMPLETED", "FAILED"}
  /\ m.pc = "end" => \/ StatusIn(m, j) \in {"COMPLETED", "FAILED"}
                     \/ ~ m.ok /\ IsPage(j) /\ ~ LastAttempt(j)

GoodRuns   == \A j \in JobIds : GoodRun(run[j])
AllSettled == \A j \in JobIds : jobs[j].state = "active" => Settled(run[j], j)

(* A new status that claims no image, and an image with its status.        *)
LEMMA GoodStatus ==
  ASSUME NEW m \in RunState, NEW j \in JobIds, GoodRun(m)
  PROVE  /\ \A st \in PageStatus \ {"COMPLETED"} :
              /\ GoodRun(WithStatus(m, j, st))
              /\ StatusIn(WithStatus(m, j, st), j) = st
              /\ WithStatus(m, j, st).ok = m.ok
         /\ GoodRun(WithImage(m, j))
         /\ StatusIn(WithImage(m, j), j) = "COMPLETED"
<1>1. ASSUME NEW st \in PageStatus \ {"COMPLETED"}
      PROVE  /\ GoodRun(WithStatus(m, j, st))
             /\ StatusIn(WithStatus(m, j, st), j) = st
             /\ WithStatus(m, j, st).ok = m.ok
  BY DEF WithStatus, StatusIn, GoodRun, GoodCover, GoodPage, RunState, StoryRow, PageRow
<1>2. GoodRun(WithImage(m, j)) /\ StatusIn(WithImage(m, j), j) = "COMPLETED"
  BY DEF WithImage, StatusIn, GoodRun, GoodCover, GoodPage, RunState, StoryRow, PageRow
<1> QED BY <1>1, <1>2

(* What a worker saves of a good memory leaves the rows good.              *)
LEMMA SavedTarget ==
  ASSUME Typing, GoodRows, NEW m \in RunState, NEW j \in JobIds, GoodRun(m), SaveTarget(j, m)
  PROVE  GoodRows'
<1>1. CASE IsPage(j)
  <2>1. Target(j) \in Pages
    BY <1>1, StoreAssumption DEF IsPage, Target
  <2> QED BY <1>1, <2>1, SavedPage DEF SaveTarget, GoodRun
<1>2. CASE ~ IsPage(j)
  BY <1>2 DEF SaveTarget, SaveStory, GoodRun, GoodRows
<1> QED BY <1>1, <1>2

(* The worker of one job changes the memory of no other.                   *)
LEMMA RunsAfter ==
  ASSUME Typing, GoodRuns, AllSettled, NEW j \in JobIds, NEW m, Remember(j, m), GoodRun(m),
         \A k \in JobIds \ {j} : jobs'[k] = jobs[k],
         jobs'[j].state = "active" => jobs'[j] = jobs[j] /\ Settled(m, j)
  PROVE  GoodRuns' /\ AllSettled'
<1>1. run'[j] = m /\ \A k \in JobIds \ {j} : run'[k] = run[k]
  BY Remembered
<1>2. GoodRuns'
  BY <1>1, Zenon DEF GoodRuns
<1>3. ASSUME NEW k \in JobIds, jobs'[k].state = "active"
      PROVE  Settled(run[k], k)'
  <2>1. jobs'[k] = jobs[k] /\ Settled(run'[k], k)
    BY <1>1, <1>3 DEF AllSettled
  <2> QED BY <2>1 DEF Settled, StatusIn, IsPage, Target, LastAttempt
<1> QED BY <1>2, <1>3 DEF AllSettled

(* Every step of a worker keeps the rows good, its memory good and its     *)
(* target settled.                                                         *)
LEMMA WorkerKeepsGood ==
  ASSUME Typing, GoodRows, GoodRuns, AllSettled, NEW j \in JobIds,
         HandlerStep(j) \/ WorkerDies(j)
  PROVE  GoodRows' /\ GoodRuns' /\ AllSettled'
<1>0. /\ story \in StoryRow /\ pages \in [Pages -> PageRow]
      /\ jobs \in [JobIds -> JobState] /\ jobs[j] \in JobState
      /\ run \in [JobIds -> RunState] /\ run[j] \in RunState /\ GoodRun(run[j])
      /\ jobs[j].state = "active" => Settled(run[j], j)
  BY DEF Typing, TypeOK, StoreTypeOK, GoodRuns, AllSettled
<1>a. \A k \in JobIds \ {j} : jobs'[k] = jobs[k]
  BY WorkerMoves
<1>b. ASSUME NEW m, Remember(j, m), GoodRun(m), Settled(m, j), jobs' = jobs
      PROVE  GoodRuns' /\ AllSettled'
  BY <1>b, RunsAfter
<1>c. ASSUME NEW m, Remember(j, m), GoodRun(m), jobs'[j].state # "active"
      PROVE  GoodRuns' /\ AllSettled'
  BY <1>a, <1>c, RunsAfter
<1>d. UNCHANGED <<story, pages>> => GoodRows'
  BY DEF GoodRows
<1>e. GoodRun(NoRun)
  BY DEF NoRun, FreshStory, FreshPage, GoodRun, GoodCover, GoodPage
<1>f. \A pc \in RunPcs : /\ [run[j] EXCEPT !.pc = pc] \in RunState
                         /\ [run[j] EXCEPT !.pc = pc].pc = pc
                         /\ [run[j] EXCEPT !.pc = pc].ok = run[j].ok
                         /\ GoodRun([run[j] EXCEPT !.pc = pc])
                         /\ StatusIn([run[j] EXCEPT !.pc = pc], j) = StatusIn(run[j], j)
  BY <1>0 DEF RunState, GoodRun, StatusIn
<1>g. ASSUME NEW m \in RunState, NEW st \in PageStatus \ {"COMPLETED"}, GoodRun(m),
             jobs' = jobs, Remember(j, WithStatus(m, j, st)),
             SaveTarget(j, WithStatus(m, j, st)),
             \/ st = "FAILED"
             \/ m.pc \in {"generate", "upload"}
             \/ m.pc = "end" /\ ~ m.ok /\ IsPage(j) /\ ~ LastAttempt(j)
      PROVE  GoodRows' /\ GoodRuns' /\ AllSettled'
  <2> DEFINE n == WithStatus(m, j, st)
  <2>1. n \in RunState /\ n.pc = m.pc /\ n.ok = m.ok /\ GoodRun(n) /\ StatusIn(n, j) = st
    BY <1>g, GoodStatus, WorkerMemory, WithStatusPc
  <2>2. Remember(j, n) /\ SaveTarget(j, n)
    BY <1>g
  <2> HIDE DEF n
  <2>3. Settled(n, j)
    BY <1>g, <2>1 DEF Settled
  <2> QED BY <1>b, <1>g, <2>1, <2>2, <2>3, SavedTarget
<1> USE DEF dbVars
<1>1. CASE StartJob(j)
  <2> DEFINE m == [NoRun EXCEPT !.pc = "reserve", !.story = story]
             n == [m EXCEPT !.page = [pages[Target(j)] EXCEPT !.status = "GENERATING"]]
  <2>1. /\ jobs' = [jobs EXCEPT ![j].state = "active"] /\ UNCHANGED story
        /\ \/ Remember(j, m) /\ UNCHANGED pages
           \/ IsPage(j) /\ Remember(j, n) /\ SavePage(Target(j), n.page)
    BY <1>1, Zenon DEF StartJob
  <2>2. m.pc = "reserve" /\ m.story = story /\ m.page = FreshPage
    BY DEF NoRun
  <2>3. IsPage(j) => Target(j) \in Pages
    BY StoreAssumption DEF IsPage, Target
  <2>4. IsPage(j) => n.pc = "reserve" /\ n.story = story /\ GoodPage(n.page)
    BY <1>0, <2>3 DEF NoRun, GoodPage, PageRow
  <2> HIDE DEF m, n
  <2>5. GoodRun(m) /\ (IsPage(j) => GoodRun(n))
    BY <2>2, <2>4 DEF GoodRows, GoodRun, GoodPage, FreshPage
  <2>6. GoodRows'
    BY <1>d, <2>1, <2>3, <2>4, SavedPage
  <2>7. PICK k \in {m, n} : Remember(j, k) /\ GoodRun(k) /\ k.pc = "reserve"
    BY <2>1, <2>2, <2>4, <2>5
  <2>8. run'[j] = k /\ \A i \in JobIds \ {j} : run'[i] = run[i]
    BY <2>7, Remembered
  <2>9. GoodRuns' /\ AllSettled'
    <3>1. GoodRuns'
      BY <2>7, <2>8, Zenon DEF GoodRuns
    <3>2. ASSUME NEW i \in JobIds, jobs'[i].state = "active" PROVE Settled(run[i], i)'
      <4>1. CASE i = j
        BY <2>7, <2>8, <4>1 DEF Settled
      <4>2. CASE i # j
        <5>1. jobs'[i] = jobs[i] /\ run'[i] = run[i]
          BY <1>a, <2>8, <4>2
        <5> QED BY <3>2, <5>1 DEF AllSettled, Settled, StatusIn, IsPage, Target, LastAttempt
      <4> QED BY <4>1, <4>2
    <3> QED BY <3>1, <3>2 DEF AllSettled
  <2> QED BY <2>6, <2>9
<1>2. CASE ReserveNeurons(j)
  <2> DEFINE m == [run[j] EXCEPT !.pc = "generate"]
  <2>1. /\ jobs' = jobs
        /\ \/ Remember(j, m) /\ UNCHANGED <<story, pages>>
           \/ Remember(j, WithStatus(m, j, "GENERATING"))
              /\ SaveTarget(j, WithStatus(m, j, "GENERATING"))
    BY <1>2 DEF ReserveNeurons
  <2>2. m \in RunState /\ m.pc = "generate" /\ GoodRun(m)
    BY <1>f DEF RunPcs
  <2> HIDE DEF m
  <2>3. Settled(m, j)
    BY <2>2 DEF Settled
  <2>4. "GENERATING" \in PageStatus \ {"COMPLETED"}
    BY DEF PageStatus
  <2> QED BY <1>b, <1>d, <1>g, <2>1, <2>2, <2>3, <2>4
<1>3. CASE BudgetRefuses(j)
  <2> DEFINE m == [run[j] EXCEPT !.pc = "limit"]
  <2>1. /\ jobs' = jobs
        /\ Remember(j, WithStatus(m, j, "FAILED")) /\ SaveTarget(j, WithStatus(m, j, "FAILED"))
    BY <1>3, Zenon DEF BudgetRefuses
  <2>2. m \in RunState /\ GoodRun(m) /\ "FAILED" \in PageStatus \ {"COMPLETED"}
    BY <1>f DEF RunPcs, PageStatus
  <2> HIDE DEF m
  <2> QED BY <1>g, <2>1, <2>2
<1>4. CASE RejectPrompt(j)
  <2> DEFINE m == [run[j] EXCEPT !.pc = IF IsPage(j) THEN "refresh" ELSE "end"]
  <2>1. /\ jobs' = jobs
        /\ Remember(j, WithStatus(m, j, "FAILED")) /\ SaveTarget(j, WithStatus(m, j, "FAILED"))
    BY <1>4, Zenon DEF RejectPrompt
  <2>2. m \in RunState /\ GoodRun(m) /\ "FAILED" \in PageStatus \ {"COMPLETED"}
    BY <1>f DEF RunPcs, PageStatus
  <2> HIDE DEF m
  <2> QED BY <1>g, <2>1, <2>2
<1>5. CASE GenerateImage(j)
  <2> DEFINE m == [run[j] EXCEPT !.pc = "upload"]
  <2>1. /\ jobs' = jobs
        /\ Remember(j, WithStatus(m, j, "UPLOADING"))
        /\ SaveTarget(j, WithStatus(m, j, "UPLOADING"))
    BY <1>5, Zenon DEF GenerateImage
  <2>2. /\ m \in RunState /\ m.pc = "upload" /\ GoodRun(m)
        /\ "UPLOADING" \in PageStatus \ {"COMPLETED"}
    BY <1>f DEF RunPcs, PageStatus
  <2> HIDE DEF m
  <2> QED BY <1>g, <2>1, <2>2
<1>6. CASE ProviderFails(j)
  <2>1. PICK b \in BOOLEAN : Remember(j, [run[j] EXCEPT !.pc = "catch", !.retryable = b])
    BY <1>6 DEF ProviderFails
  <2> DEFINE m == [run[j] EXCEPT !.pc = "catch", !.retryable = b]
  <2>2. m.pc = "catch" /\ m.story = run[j].story /\ m.page = run[j].page
    BY <1>0 DEF RunState
  <2>3. Remember(j, m) /\ jobs' = jobs /\ UNCHANGED <<story, pages>>
    BY <1>6, <2>1 DEF ProviderFails
  <2> HIDE DEF m
  <2>4. GoodRun(m) /\ Settled(m, j)
    BY <1>0, <2>2 DEF GoodRun, Settled
  <2> QED BY <1>b, <1>d, <2>3, <2>4
<1>7. CASE UploadImage(j)
  <2> DEFINE m == [run[j] EXCEPT !.pc = IF IsPage(j) THEN "refresh" ELSE "end"]
             n == WithImage(m, j)
  <2>1. jobs' = jobs /\ Remember(j, n) /\ SaveTarget(j, n)
    BY <1>7, Zenon DEF UploadImage
  <2>2. m \in RunState /\ GoodRun(m)
    BY <1>f DEF RunPcs
  <2>3. n \in RunState /\ GoodRun(n) /\ StatusIn(n, j) = "COMPLETED"
    <3> HIDE DEF m
    <3> QED BY <2>2, GoodStatus, WorkerMemory
  <2> HIDE DEF n
  <2>4. Settled(n, j)
    BY <2>3 DEF Settled
  <2> QED BY <1>b, <2>1, <2>3, <2>4, SavedTarget
<1>h. ASSUME NEW pc \in RunPcs, Move(j, pc), jobs' = jobs,
             \/ pc = "catch"
             \/ StatusIn(run[j], j) \in {"COMPLETED", "FAILED"}
      PROVE  GoodRuns' /\ AllSettled'
  <2> DEFINE m == [run[j] EXCEPT !.pc = pc]
  <2>1. Remember(j, m) /\ m.pc = pc /\ GoodRun(m) /\ StatusIn(m, j) = StatusIn(run[j], j)
    BY <1>f, <1>h, Zenon DEF Move
  <2> HIDE DEF m
  <2>2. Settled(m, j)
    BY <1>h, <2>1 DEF Settled
  <2> QED BY <1>b, <1>h, <2>1, <2>2
<1>8. CASE NotifyPageFails(j)
  BY <1>8, <1>d, <1>h DEF NotifyPageFails, RunPcs
<1>9. CASE HandleFailure(j)
  <2> DEFINE m == [run[j] EXCEPT !.pc = IF GivesUp(j) THEN "refresh" ELSE "end",
                                 !.ok = FALSE, !.retryable = TRUE]
             st == IF GivesUp(j) THEN "FAILED" ELSE "QUEUED"
  <2>1. jobs' = jobs /\ Remember(j, WithStatus(m, j, st)) /\ SaveTarget(j, WithStatus(m, j, st))
    BY <1>9, Zenon DEF HandleFailure
  <2>2. /\ m \in RunState /\ GoodRun(m) /\ ~ m.ok
        /\ m.pc = IF GivesUp(j) THEN "refresh" ELSE "end"
    BY <1>0 DEF RunState, RunPcs, GoodRun
  <2>3. st \in PageStatus \ {"COMPLETED"}
    BY DEF PageStatus
  <2>4. \/ st = "FAILED"
        \/ m.pc = "end" /\ ~ m.ok /\ IsPage(j) /\ ~ LastAttempt(j)
    <3> HIDE DEF m
    <3> QED BY <2>2 DEF GivesUp
  <2> HIDE DEF m, st
  <2> QED BY <1>g, <2>1, <2>2, <2>3, <2>4
<1>i. ASSUME Handling(j, "refresh") \/ Handling(j, "update") \/ Handling(j, "change")
             \/ Handling(j, "announce") \/ Handling(j, "limit") \/ Handling(j, "limitNote")
      PROVE  StatusIn(run[j], j) \in {"COMPLETED", "FAILED"}
  BY <1>0, <1>i DEF Handling, Settled
<1>10. CASE ReadStatus(j)
  <2> DEFINE m == [run[j] EXCEPT !.pc = "update", !.result = ComputeStatus(pages)]
  <2>1. Remember(j, m) /\ jobs' = jobs /\ UNCHANGED <<story, pages>>
    BY <1>10, Zenon DEF ReadStatus
  <2>2. m.pc = "update" /\ m.story = run[j].story /\ m.page = run[j].page
    BY <1>0 DEF RunState
  <2> HIDE DEF m
  <2>3. GoodRun(m) /\ Settled(m, j)
    BY <1>0, <1>i, <1>10, <2>2 DEF GoodRun, Settled, StatusIn, ReadStatus
  <2> QED BY <1>b, <1>d, <2>1, <2>3
<1>11. CASE WriteStatus(j)
  <2> DEFINE m == [run[j] EXCEPT
                    !.pc = IF run[j].result \in TerminalStatuses THEN "change" ELSE "end",
                    !.result = NoRun.result]
  <2>1. Remember(j, m) /\ jobs' = jobs
    BY <1>11, Zenon DEF WriteStatus
  <2>2. m.story = run[j].story /\ m.page = run[j].page
    BY <1>0 DEF RunState
  <2> HIDE DEF m
  <2>3. GoodRun(m) /\ Settled(m, j)
    BY <1>0, <1>i, <1>11, <2>2 DEF GoodRun, Settled, StatusIn, WriteStatus
  <2>4. GoodRows'
    BY <1>0, <1>11 DEF WriteStatus, UpdateStory, GoodRows, GoodCover, StoryRow
  <2> QED BY <1>b, <2>1, <2>3, <2>4
<1>12. CASE ClaimAnnouncement(j)
  <2>1. GoodRows'
    BY <1>0, <1>12 DEF ClaimAnnouncement, UpdateStory, GoodRows, GoodCover, StoryRow
  <2> QED BY <1>12, <1>h, <1>i, <2>1 DEF ClaimAnnouncement, RunPcs
<1>13. CASE Announce(j)
  <2> DEFINE m == [run[j] EXCEPT !.pc = "end", !.story.notified = TRUE, !.story.attempt = None]
  <2>1. Remember(j, m) /\ SaveStory(m.story) /\ jobs' = jobs /\ UNCHANGED pages
    BY <1>13, Zenon DEF Announce
  <2>2. /\ m.story.cover = run[j].story.cover /\ m.story.coverImage = run[j].story.coverImage
        /\ m.page = run[j].page
    BY <1>0 DEF RunState, StoryRow
  <2> HIDE DEF m
  <2>3. GoodRun(m) /\ Settled(m, j)
    BY <1>0, <1>i, <1>13, <2>2 DEF GoodRun, GoodCover, Settled, StatusIn, Announce
  <2>4. GoodRows'
    BY <2>1, <2>3 DEF SaveStory, GoodRows, GoodRun
  <2> QED BY <1>b, <2>1, <2>3, <2>4
<1>14. CASE CheckLimitNote(j)
  BY <1>14, <1>d, <1>h, <1>i DEF CheckLimitNote, AfterLimit, RunPcs
<1>15. CASE CreateLimitNote(j)
  BY <1>15, <1>d, <1>h, <1>i DEF CreateLimitNote, AfterLimit, RunPcs
<1>16. CASE EndJob(j)
  <2>1. jobs'[j].state # "active"
    BY <1>0, <1>16 DEF EndJob, AfterThrow, JobState
  <2> QED BY <1>16, <1>c, <1>d, <1>e, <2>1 DEF EndJob
<1>17. CASE WorkerDies(j)
  <2>1. jobs'[j].state # "active"
    BY <1>0, <1>17 DEF WorkerDies, JobState
  <2> QED BY <1>17, <1>c, <1>d, <1>e, <2>1 DEF WorkerDies
<1> QED
  BY <1>1, <1>2, <1>3, <1>4, <1>5, <1>6, <1>7, <1>8, <1>9, <1>10, <1>11, <1>12, <1>13,
     <1>14, <1>15, <1>16, <1>17
  DEF HandlerStep

-----------------------------------------------------------------------------
RowsInv == Typing /\ GoodRows /\ GoodRequests /\ GoodRuns /\ AllSettled

(* A story starts with rows whose images are there, and with nothing held. *)
LEMMA InitRows == Init => RowsInv
<1> SUFFICES ASSUME Init PROVE RowsInv
  OBVIOUS
<1>1. Typing
  BY InitTyping
<1>2. GoodRows
  BY InitialAssumption DEF Init, GoodRows, GoodCover, GoodPage, FreshStory, FreshPage
<1>3. GoodMemory(NoReq)
  BY DEF NoReq, FreshStory, FreshPage, GoodMemory, GoodCover, GoodPage, MayRestore
<1>4. GoodRequests
  BY <1>3 DEF Init, GoodRequests
<1>5. GoodRuns /\ AllSettled
  BY DEF Init, GoodRuns, AllSettled, NoJob, NoRun, FreshStory, FreshPage, GoodRun, GoodCover,
         GoodPage
<1> QED BY <1>1, <1>2, <1>4, <1>5 DEF RowsInv

(* A request touches no worker, and the job it adds is not yet running.    *)
LEMMA RequestKeepsRows ==
  ASSUME RowsInv, NEW r \in Requests, RequestStep(r)
  PROVE  RowsInv'
<1> USE DEF RowsInv
<1>1. Typing'
  BY LoadTyping, ProceedTyping DEF RequestStep
<1>2. GoodRows' /\ GoodRequests'
  BY LoadKeepsGood, ProceedKeepsGood DEF RequestStep
<1>3. /\ run' = run
      /\ jobs' = jobs \/ \E t \in req[r].todo : Enqueues(r, t)
  BY RequestMoves
<1>4. jobs \in [JobIds -> JobState]
  BY DEF Typing, TypeOK, StoreTypeOK
<1>5. \A j \in JobIds : jobs'[j].state = "active" => jobs'[j] = jobs[j]
  <2>1. CASE jobs' = jobs
    BY <2>1
  <2>2. ASSUME NEW t \in req[r].todo, Enqueues(r, t)
        PROVE  \A j \in JobIds : jobs'[j].state = "active" => jobs'[j] = jobs[j]
    BY <1>4, <2>2 DEF Enqueues, NoJob
  <2> QED BY <1>3, <2>1, <2>2
<1>6. GoodRuns'
  BY <1>3 DEF GoodRuns
<1>7. AllSettled'
  <2> SUFFICES ASSUME NEW j \in JobIds, jobs'[j].state = "active" PROVE Settled(run[j], j)'
    BY DEF AllSettled
  <2>1. jobs'[j] = jobs[j] /\ Settled(run[j], j)
    BY <1>5 DEF AllSettled
  <2> QED BY <1>3, <2>1 DEF Settled, StatusIn, IsPage, Target, LastAttempt
<1> QED BY <1>1, <1>2, <1>6, <1>7

(* The rows stay good whoever takes the next step.                         *)
LEMMA NextRows == RowsInv /\ [Next]_vars => RowsInv'
<1> SUFFICES ASSUME RowsInv, [Next]_vars PROVE RowsInv'
  OBVIOUS
<1>1. ASSUME NEW r \in Requests, RequestStep(r) PROVE RowsInv'
  BY <1>1, RequestKeepsRows
<1>2. ASSUME NEW j \in JobIds, HandlerStep(j) \/ WorkerDies(j) PROVE RowsInv'
  <2>1. Typing' /\ UNCHANGED req
    BY <1>2, WorkerTyping, WorkerMoves DEF RowsInv
  <2>2. GoodRows' /\ GoodRuns' /\ AllSettled'
    BY <1>2, WorkerKeepsGood DEF RowsInv
  <2>3. GoodRequests'
    BY <2>1 DEF RowsInv, GoodRequests
  <2> QED BY <2>1, <2>2, <2>3 DEF RowsInv
<1>3. CASE UNCHANGED vars
  <2>1. Typing'
    BY <1>3, NextTyping DEF RowsInv
  <2> QED
    BY <1>3, <2>1
    DEF vars, RowsInv, GoodRows, GoodRequests, GoodRuns, AllSettled, Settled, LastAttempt
<1> QED BY <1>1, <1>2, <1>3 DEF Next

(* However stale the copies that requests and workers save over the rows,  *)
(* and whatever status a catch block restores, a row that says COMPLETED   *)
(* has an image.                                                           *)
THEOREM CompletedKeepsImage == Spec => []CompletedHasImage
<1>1. RowsInv => CompletedHasImage
  BY DEF RowsInv, GoodRows, GoodCover, GoodPage, CompletedHasImage
<1> QED BY <1>1, InitRows, NextRows, PTL DEF Spec

(* A job that BullMQ files as completed or failed has left its target      *)
(* COMPLETED or FAILED in what its worker saved last.                      *)
THEOREM EndsAreSettled == Spec => EndsSettled
<1> DEFINE Filed == \A j \in JobIds :
              (jobs[j].state = "active" /\ jobs'[j].state \in {"completed", "failed"})
                => StatusIn(run[j], j) \in {"COMPLETED", "FAILED"}
<1>1. RowsInv /\ [Next]_vars => [Filed]_vars
  <2> SUFFICES ASSUME RowsInv, Next, NEW j \in JobIds, jobs[j].state = "active",
                      jobs'[j].state \in {"completed", "failed"}
               PROVE  StatusIn(run[j], j) \in {"COMPLETED", "FAILED"}
    OBVIOUS
  <2>1. jobs \in [JobIds -> JobState]
    BY DEF RowsInv, Typing, TypeOK, StoreTypeOK
  <2>2. CASE \E r \in Requests : RequestStep(r)
    <3>1. PICK r \in Requests : RequestStep(r)
      BY <2>2
    <3>2. jobs' = jobs \/ \E t \in req[r].todo : Enqueues(r, t)
      BY <3>1, RequestMoves DEF RowsInv
    <3> QED BY <2>1, <3>2 DEF Enqueues, NoJob
  <2>3. CASE \E k \in JobIds : HandlerStep(k) \/ WorkerDies(k)
    <3>1. PICK k \in JobIds : HandlerStep(k) \/ WorkerDies(k)
      BY <2>3
    <3>2. k = j
      BY <3>1, WorkerMoves DEF RowsInv
    <3>3. ~ WorkerDies(j)
      BY <2>1, ZenonT(30) DEF WorkerDies, JobState
    <3>4. EndJob(j)
      <4> USE DEF budgetVars, noticeVars, quotaVars
      <4>1. ~ StartJob(j)
        BY DEF StartJob
      <4>2. jobs' # jobs
        OBVIOUS
      <4> QED
        BY <3>1, <3>2, <3>3, <4>1, <4>2
        DEF HandlerStep, ReserveNeurons, BudgetRefuses, RejectPrompt, GenerateImage,
            ProviderFails, UploadImage, NotifyPageFails, HandleFailure, ReadStatus,
            WriteStatus, ClaimAnnouncement, Announce, CheckLimitNote, CreateLimitNote
    <3>5. run[j].ok \/ LastAttempt(j)
      BY <2>1, <3>4, StoreAssumption DEF EndJob, AfterThrow, LastAttempt, JobState
    <3> QED BY <3>4, <3>5 DEF EndJob, Handling, RowsInv, AllSettled, Settled
  <2> QED BY <2>2, <2>3 DEF Next
<1>2. Spec => [][Filed]_vars
  BY <1>1, InitRows, NextRows, PTL DEF Spec
<1> QED BY <1>2, Zenon DEF EndsSettled

-----------------------------------------------------------------------------
(* A request that has not asked for the allowance yet: what it will ask    *)
(* for is decided, nothing of it is reserved or queued.  The paths differ: *)
(* all claims first and asks then, affected asks first, page and cover do  *)
(* not claim, and remaining never asks.                                    *)
Before(m) == \/ m.pc \in {"idle", "reserve"}
             \/ m.pc \in {"clear", "claim"} /\ m.op # "affected"

Later == {"lookup", "translate", "afford", "save", "add", "restore", "release",
          "refresh", "reset", "done"}

(* A step that asks for nothing: it may queue a target, if the time to ask *)
(* is over, and it passes that time only with nothing left to queue or     *)
(* when its operation does not ask.                                        *)
AsksNothing(r) ==
  /\ UNCHANGED quotaVars
  /\ req'[r].op = req[r].op
  /\ \/ jobs' = jobs /\ req'[r].todo \subseteq req[r].todo
     \/ ~ Before(req[r]) /\ \E t \in req[r].todo : Enqueues(r, t)
  /\ Before(req'[r]) => Before(req[r])
  /\ Before(req[r]) => Before(req'[r]) \/ req'[r].todo = {} \/ req[r].op = "remaining"

BeginsToAsk(r) ==
  /\ UNCHANGED <<quotaVars, jobs>>
  /\ req[r].pc = "idle"
  /\ Before(req'[r])

(* Where a step of a request stands with respect to its allowance.         *)
LEMMA RequestAsks ==
  ASSUME Typing, GoodRequests, NEW r \in Requests, RequestStep(r)
  PROVE  BeginsToAsk(r) \/ ReserveQuota(r) \/ AsksNothing(r)
<1>0. req[r] \in ReqState /\ GoodMemory(req[r])
  BY DEF Typing, TypeOK, StoreTypeOK, GoodRequests
<1>a. ASSUME NEW m, Resume(r, m) \/ Continue(r, m), jobs' = jobs, UNCHANGED quotaVars,
             m.op = req[r].op, m.todo \subseteq req[r].todo, m.pc \in Later,
             ~ Before(req[r]) \/ req[r].op = "remaining"
      PROVE  AsksNothing(r)
  <2>1. CASE Resume(r, m)
    <3>1. req'[r] = m
      BY <2>1, Resumed, Zenon
    <3>2. ~ Before(m)
      BY <1>a DEF Before, Later
    <3> QED BY <1>a, <3>1, <3>2 DEF AsksNothing
  <2>2. CASE Finish(r)
    <3>1. req'[r].op = req[r].op /\ req'[r].todo = {} /\ ~ Before(req'[r])
      BY <2>2, Finished DEF Before
    <3> QED BY <1>a, <3>1 DEF AsksNothing
  <2> QED BY <1>a, <2>1, <2>2 DEF Continue
<1>b. ASSUME Finish(r), jobs' = jobs, UNCHANGED quotaVars PROVE AsksNothing(r)
  <2>1. req'[r].op = req[r].op /\ req'[r].todo = {} /\ ~ Before(req'[r])
    BY <1>b, Finished DEF Before
  <2> QED BY <1>b, <2>1 DEF AsksNothing
<1>c. ASSUME NEW pc \in Later, Goto(r, pc), jobs' = jobs, UNCHANGED quotaVars, ~ Before(req[r])
      PROVE  AsksNothing(r)
  <2> DEFINE m == [req[r] EXCEPT !.pc = pc]
  <2>1. m.pc = pc /\ m.op = req[r].op /\ m.todo = req[r].todo
    BY <1>0 DEF ReqState
  <2>2. Resume(r, m)
    BY <1>c, Zenon DEF Goto
  <2> HIDE DEF m
  <2> QED BY <1>a, <1>c, <2>1, <2>2
<1> USE DEF quotaVars
<1>1. CASE Begin(r)
  <2>1. ASSUME NEW op, NEW todo, NEW pc \in {"clear", "claim", "reserve"}, Load(r, op, todo, pc),
               pc = "reserve" \/ op # "affected"
        PROVE  BeginsToAsk(r)
    <3>1. req'[r] = [pc |-> pc, op |-> op, story |-> story, pages |-> pages,
                     todo |-> todo, prev |-> "PENDING"]
      BY <2>1, Resumed, Zenon DEF Load
    <3> QED BY <2>1, <3>1 DEF Load, BeginsToAsk, Before
  <2>2. ToClaim \in {"clear", "claim", "reserve"}
    BY DEF ToClaim
  <2>3. CASE GenerateAll(r)
    BY <2>1, <2>2, <2>3 DEF GenerateAll
  <2>4. CASE GenerateRemaining(r)
    BY <2>1, <2>2, <2>4 DEF GenerateRemaining
  <2>5. CASE GenerateAffected(r)
    BY <2>1, <2>5 DEF GenerateAffected
  <2>6. CASE RegeneratePage(r)
    BY <2>1, <2>6 DEF RegeneratePage
  <2>7. CASE RegenerateCover(r)
    BY <2>1, <2>7 DEF RegenerateCover
  <2> QED BY <1>1, <2>3, <2>4, <2>5, <2>6, <2>7 DEF Begin
<1>2. CASE ClearStaleClaim(r)
  <2> DEFINE m == [req[r] EXCEPT !.pc = "claim", !.story.attempt = None]
  <2>1. m.pc = "claim" /\ m.op = req[r].op /\ m.todo = req[r].todo
    BY <1>0 DEF ReqState
  <2>2. Resume(r, m)
    BY <1>2, Zenon DEF ClearStaleClaim
  <2> HIDE DEF m
  <2>3. req'[r] = m
    BY <2>2, Resumed, Zenon
  <2>4. Before(m) <=> Before(req[r])
    BY <1>2, <2>1 DEF ClearStaleClaim, Before
  <2> QED BY <1>2, <2>1, <2>3, <2>4 DEF ClearStaleClaim, AsksNothing
<1>3. CASE ClaimAttempt(r)
  <2> DEFINE m == [req[r] EXCEPT !.pc = AfterClaim(req[r].op), !.story.attempt = r]
  <2>1. m.pc = AfterClaim(req[r].op) /\ m.op = req[r].op /\ m.todo = req[r].todo
    BY <1>0 DEF ReqState
  <2>2. Resume(r, m)
    BY <1>3, Zenon DEF ClaimAttempt
  <2> HIDE DEF m
  <2>3. req'[r] = m
    BY <2>2, Resumed, Zenon
  <2>4. req[r].op \in Claiming /\ req[r].pc = "claim"
    BY <1>0, <1>3 DEF ClaimAttempt, GoodMemory
  <2>5. /\ Before(m) => Before(req[r])
        /\ Before(req[r]) => Before(m) \/ req[r].op = "remaining"
    BY <2>1, <2>4 DEF Before, AfterClaim, Claiming
  <2> QED BY <1>3, <2>1, <2>3, <2>5 DEF ClaimAttempt, AsksNothing
<1>4. CASE ClaimRefused(r)
  BY <1>4, <1>b DEF ClaimRefused
<1>5. CASE QuotaRefused(r)
  BY <1>5, <1>b DEF QuotaRefused
<1>6. CASE LookupTarget(r)
  <2>1. ASSUME NEW t \in req[r].todo, NEW st,
               Resume(r, [(IF t = Cover THEN req[r]
                           ELSE [req[r] EXCEPT !.pages[t] = pages[t]])
                          EXCEPT !.pc = "translate", !.prev = st])
        PROVE  AsksNothing(r)
    <3> DEFINE m == [(IF t = Cover THEN req[r]
                      ELSE [req[r] EXCEPT !.pages[t] = pages[t]])
                     EXCEPT !.pc = "translate", !.prev = st]
    <3>1. m.pc = "translate" /\ m.op = req[r].op /\ m.todo = req[r].todo
      BY <1>0 DEF ReqState
    <3>2. Resume(r, m)
      BY <2>1, Zenon
    <3> HIDE DEF m
    <3> QED BY <1>6, <1>a, <3>1, <3>2 DEF LookupTarget, Before, Later
  <2>2. UNCHANGED quotaVars /\ jobs' = jobs
    BY <1>6 DEF LookupTarget
  <2>3. Finish(r) => AsksNothing(r)
    BY <1>b, <2>2
  <2> QED BY <1>6, <2>1, <2>3, Zenon DEF LookupTarget
<1>7. CASE Translate(r)
  <2> DEFINE todo == {t \in req[r].todo : req[r].op = "affected" =>
                        req[r].pages[t].status \notin ActiveStatuses}
             pc == IF todo = {} THEN "release" ELSE AfterTranslate(req[r].op)
             m == [req[r] EXCEPT !.todo = todo, !.pc = pc]
  <2>1. pc \in Later /\ todo \subseteq req[r].todo
    BY DEF AfterTranslate, Later
  <2>2. m.pc = pc /\ m.op = req[r].op /\ m.todo = todo
    <3> HIDE DEF todo, pc
    <3> QED BY <1>0 DEF ReqState
  <2>3. Resume(r, m)
    BY <1>7, Zenon DEF Translate
  <2> HIDE DEF m, todo, pc
  <2> QED BY <1>7, <1>a, <2>1, <2>2, <2>3 DEF Translate, Before
<1>8. CASE TranslateFails(r)
  <2>1. PICK pc \in {"release", "restore"} : Goto(r, pc)
    BY <1>8 DEF TranslateFails
  <2> QED BY <1>8, <1>c, <2>1 DEF TranslateFails, Before, Later
<1>9. CASE KeepAffordable(r)
  <2> DEFINE todo == {t \in req[r].todo :
                        Cardinality({u \in req[r].todo : u < t}) < Affordable}
             pc == IF todo = {} THEN "release" ELSE "save"
             m == [req[r] EXCEPT !.todo = todo, !.pc = pc]
  <2>1. pc \in Later /\ todo \subseteq req[r].todo
    BY DEF Later
  <2>2. m.pc = pc /\ m.op = req[r].op /\ m.todo = todo
    <3> HIDE DEF todo, pc
    <3> QED BY <1>0 DEF ReqState
  <2>3. Resume(r, m)
    BY <1>9, Zenon DEF KeepAffordable
  <2> HIDE DEF m, todo, pc
  <2> QED BY <1>9, <1>a, <2>1, <2>2, <2>3 DEF KeepAffordable, Before
<1>10. CASE MarkQueued(r)
  <2>a. ~ Before(req[r]) /\ "add" \in Later /\ jobs' = jobs /\ UNCHANGED quotaVars
    BY <1>10 DEF MarkQueued, Before, Later
  <2>1. ASSUME NEW c, NEW prev,
               Resume(r, [req[r] EXCEPT !.pc = "add", !.story.cover = c, !.prev = prev])
        PROVE  AsksNothing(r)
    <3> DEFINE m == [req[r] EXCEPT !.pc = "add", !.story.cover = c, !.prev = prev]
    <3>1. m.pc = "add" /\ m.op = req[r].op /\ m.todo = req[r].todo
      BY <1>0 DEF ReqState
    <3>2. Resume(r, m)
      BY <2>1, Zenon
    <3> HIDE DEF m
    <3> QED BY <1>a, <2>a, <3>1, <3>2
  <2>2. ASSUME NEW t, NEW row, NEW prev,
               Resume(r, [req[r] EXCEPT !.pc = "add", !.pages[t] = row, !.prev = prev])
        PROVE  AsksNothing(r)
    <3> DEFINE m == [req[r] EXCEPT !.pc = "add", !.pages[t] = row, !.prev = prev]
    <3>1. m.pc = "add" /\ m.op = req[r].op /\ m.todo = req[r].todo
      BY <1>0 DEF ReqState
    <3>2. Resume(r, m)
      BY <2>2, Zenon
    <3> HIDE DEF m
    <3> QED BY <1>a, <2>a, <3>1, <3>2
  <2> QED BY <1>10, <2>1, <2>2, Zenon DEF MarkQueued
<1>11. CASE AddJob(r)
  <2>1. PICK t \in req[r].todo :
          /\ jobs' = [jobs EXCEPT ![<<t, r>>] = [NoJob EXCEPT !.state = "waiting"]]
          /\ Resume(r, [req[r] EXCEPT
                           !.todo = req[r].todo \ {t},
                           !.pc = IF req[r].todo \ {t} = {} THEN AfterQueued(req[r].op)
                                                            ELSE "save"])
    BY <1>11 DEF AddJob
  <2> DEFINE left == req[r].todo \ {t}
             pc == IF left = {} THEN AfterQueued(req[r].op) ELSE "save"
             m == [req[r] EXCEPT !.todo = left, !.pc = pc]
  <2>2. pc \in Later
    BY DEF AfterQueued, Later
  <2>3. m.pc = pc /\ m.op = req[r].op /\ m.todo = left
    <3> HIDE DEF left, pc
    <3> QED BY <1>0 DEF ReqState
  <2>4. req'[r] = m
    BY <2>1, Resumed, Zenon
  <2>5. Enqueues(r, t)
    BY <2>1, <2>3, <2>4, Zenon DEF Enqueues
  <2> HIDE DEF m, pc, left
  <2>6. ~ Before(m) /\ ~ Before(req[r])
    BY <1>11, <2>2, <2>3 DEF AddJob, Before, Later
  <2>7. UNCHANGED quotaVars
    BY <1>11 DEF AddJob
  <2> QED BY <2>3, <2>4, <2>5, <2>6, <2>7, Zenon DEF AsksNothing
<1>12. CASE AddJobFails(r)
  <2>1. PICK pc \in {"release", "restore"} : Goto(r, pc)
    BY <1>12, Zenon DEF AddJobFails, AfterQueueError
  <2> QED BY <1>12, <1>c, <2>1 DEF AddJobFails, Before, Later
<1>13. CASE RestoreStatus(r)
  <2>a. ~ Before(req[r]) /\ jobs' = jobs /\ UNCHANGED quotaVars
    BY <1>13 DEF RestoreStatus, Before
  <2>1. ASSUME NEW pc \in {"release", "done"}, NEW c,
               Continue(r, [req[r] EXCEPT !.pc = pc, !.story.cover = c])
        PROVE  AsksNothing(r)
    <3> DEFINE m == [req[r] EXCEPT !.pc = pc, !.story.cover = c]
    <3>1. m.pc \in Later /\ m.op = req[r].op /\ m.todo = req[r].todo
      BY <1>0 DEF ReqState, Later
    <3>2. Continue(r, m)
      BY <2>1, Zenon
    <3> HIDE DEF m
    <3> QED BY <1>a, <2>a, <3>1, <3>2
  <2>2. ASSUME NEW pc \in {"release", "done"}, NEW t, NEW st,
               Continue(r, [req[r] EXCEPT !.pc = pc, !.pages[t].status = st])
        PROVE  AsksNothing(r)
    <3> DEFINE m == [req[r] EXCEPT !.pc = pc, !.pages[t].status = st]
    <3>1. m.pc \in Later /\ m.op = req[r].op /\ m.todo = req[r].todo
      BY <1>0 DEF ReqState, Later
    <3>2. Continue(r, m)
      BY <2>2, Zenon
    <3> HIDE DEF m
    <3> QED BY <1>a, <2>a, <3>1, <3>2
  <2>3. (IF req[r].op = "all" THEN "release" ELSE "done") \in {"release", "done"}
    OBVIOUS
  <2> QED BY <1>13, <2>1, <2>2, <2>3, Zenon DEF RestoreStatus
<1>14. CASE ReleaseAttempt(r)
  BY <1>14, <1>b DEF ReleaseAttempt
<1>15. CASE RefreshLoadedStatus(r)
  <2> DEFINE m == [req[r] EXCEPT !.pc = AfterRefresh(req[r].op),
                     !.story.status = ComputeStatus(req[r].pages)]
  <2>1. m.pc \in Later /\ m.op = req[r].op /\ m.todo = req[r].todo
    BY <1>0 DEF ReqState, AfterRefresh, Later
  <2>2. Continue(r, m)
    BY <1>15, Zenon DEF RefreshLoadedStatus
  <2> HIDE DEF m
  <2> QED BY <1>15, <1>a, <2>1, <2>2 DEF RefreshLoadedStatus, Before
<1>16. CASE ResetNotified(r)
  <2> DEFINE m == [req[r] EXCEPT !.pc = AfterReset(req[r].op), !.story.notified = FALSE]
  <2>1. m.pc \in Later /\ m.op = req[r].op /\ m.todo = req[r].todo
    BY <1>0 DEF ReqState, AfterReset, Later
  <2>2. Continue(r, m)
    BY <1>16, Zenon DEF ResetNotified
  <2> HIDE DEF m
  <2> QED BY <1>16, <1>a, <2>1, <2>2 DEF ResetNotified, Before
<1>17. CASE RequestDies(r)
  BY <1>17, <1>b DEF RequestDies
<1> QED
  BY <1>1, <1>2, <1>3, <1>4, <1>5, <1>6, <1>7, <1>8, <1>9, <1>10, <1>11, <1>12,
     <1>13, <1>14, <1>15, <1>16, <1>17
  DEF RequestStep, Proceed

(* Before a request asks nothing of it is reserved, and then everything it *)
(* still has to queue is: what it queued was reserved too.  The counter is *)
(* the number of reservations, since no request asks twice.                *)
ReservedAhead ==
  \A r \in Requests, t \in Targets :
    /\ Before(req[r]) => <<t, r>> \notin reserved
    /\ ~ Before(req[r]) /\ req[r].op # "remaining" /\ t \in req[r].todo
         => <<t, r>> \in reserved
    /\ req[r].op # "remaining" /\ Added(<<t, r>>) => <<t, r>> \in reserved

Allowance == /\ IsFiniteSet(reserved)
             /\ quota = Cardinality(reserved)
             /\ quota <= DailyLimit

AllowanceInv == QuotaApplies => ReservedAhead /\ Allowance

(* A reservation is new, so the counter grows with the set behind it.      *)
LEMMA ReservingKeepsAllowance ==
  ASSUME Typing, AllowanceInv, QuotaApplies, NEW r \in Requests, ReserveQuota(r)
  PROVE  /\ reserved' = reserved \union (req[r].todo \X {r})
         /\ Allowance'
<1>1. req[r].todo \in SUBSET Targets
  BY DEF Typing, TypeOK, StoreTypeOK, ReqState
<1>2. IsFiniteSet(req[r].todo)
  <2>1. IsFiniteSet(1..NumPages)
    BY StoreAssumption, FS_Interval
  <2>2. IsFiniteSet(Targets)
    BY <2>1, FS_AddElement
  <2> QED BY <1>1, <2>2, FS_Subset
<1>3. IsFiniteSet({r}) /\ Cardinality({r}) = 1
  BY FS_Singleton
<1> DEFINE new == req[r].todo \X {r}
<1>4. IsFiniteSet(new) /\ Cardinality(new) = Cardinality(req[r].todo) * 1
  BY <1>2, <1>3, FS_Product
<1>5. Cardinality(req[r].todo) \in Nat
  BY <1>2, FS_CardinalityType
<1>6. reserved \cap new = {}
  BY <1>1 DEF AllowanceInv, ReservedAhead, ReserveQuota, Before
<1>7. IsFiniteSet(reserved) /\ quota = Cardinality(reserved) /\ Cardinality(reserved) \in Nat
  BY FS_CardinalityType DEF AllowanceInv, Allowance
<1> HIDE DEF new
<1>8. /\ IsFiniteSet(reserved \union new)
      /\ Cardinality(reserved \union new) = Cardinality(reserved) + Cardinality(new)
  <2>1. /\ IsFiniteSet(reserved \union new)
        /\ Cardinality(reserved \union new)
             = Cardinality(reserved) + Cardinality(new) - Cardinality(reserved \cap new)
    BY <1>4, <1>7, FS_Union
  <2>2. Cardinality(reserved \cap new) = 0
    BY <1>6, FS_EmptySet
  <2> QED BY <1>4, <1>5, <1>7, <2>1, <2>2
<1>9. /\ quota' = quota + Cardinality(req[r].todo)
      /\ reserved' = reserved \union new
      /\ quota' <= DailyLimit
  BY DEF ReserveQuota, QuotaAllows, Images, new
<1>10. quota' = Cardinality(reserved')
  BY <1>4, <1>5, <1>7, <1>8, <1>9
<1> QED BY <1>8, <1>9, <1>10 DEF Allowance, new

(* No step of a request queues what it did not reserve.                    *)
LEMMA RequestKeepsAllowance ==
  ASSUME Ledger, RowsInv, AllowanceInv, QuotaApplies, NEW r \in Requests, RequestStep(r)
  PROVE  ReservedAhead' /\ Allowance'
<1>0. /\ Typing /\ GoodRequests /\ AddedOnce /\ ReservedAhead /\ Allowance
      /\ req[r] \in ReqState /\ req[r].todo \subseteq Targets
      /\ req \in [Requests -> ReqState] /\ jobs \in [JobIds -> JobState]
  BY DEF Ledger, RowsInv, AllowanceInv, Typing, TypeOK, StoreTypeOK, ReqState
<1>1. \A s \in Requests \ {r} : req'[s] = req[s]
  BY <1>0, RequestMoves
<1>2. CASE BeginsToAsk(r)
  <2>1. \A t \in Targets : <<t, r>> \notin reserved /\ ~ Added(<<t, r>>)
    BY <1>0, <1>2 DEF BeginsToAsk, ReservedAhead, AddedOnce, Before, Added
  <2>2. reserved' = reserved /\ quota' = quota /\ jobs' = jobs /\ Before(req'[r])
    BY <1>2 DEF BeginsToAsk, quotaVars
  <2>3. ASSUME NEW s \in Requests, NEW t \in Targets
        PROVE  /\ Before(req'[s]) => <<t, s>> \notin reserved'
               /\ ~ Before(req'[s]) /\ req'[s].op # "remaining" /\ t \in req'[s].todo
                    => <<t, s>> \in reserved'
               /\ req'[s].op # "remaining" /\ Added(<<t, s>>)' => <<t, s>> \in reserved'
    <3>1. CASE s = r
      BY <2>1, <2>2, <3>1 DEF Added
    <3>2. CASE s # r
      BY <1>0, <1>1, <2>2, <3>2 DEF ReservedAhead, Added
    <3> QED BY <3>1, <3>2
  <2>4. ReservedAhead'
    BY <2>3, Zenon DEF ReservedAhead, Before
  <2> QED BY <1>0, <2>2, <2>4 DEF Allowance
<1>3. CASE ReserveQuota(r)
  <2>1. reserved' = reserved \union (req[r].todo \X {r}) /\ Allowance'
    BY <1>0, <1>3, ReservingKeepsAllowance
  <2>2. jobs' = jobs
    BY <1>3 DEF ReserveQuota
  <2>3. ~ Before(req'[r]) /\ req'[r].todo = req[r].todo /\ req'[r].op = req[r].op
    <3> DEFINE m == [req[r] EXCEPT !.pc = AfterReserve(req[r].op)]
    <3>1. /\ m.pc = AfterReserve(req[r].op) /\ m.op = req[r].op /\ m.todo = req[r].todo
      BY <1>0 DEF ReqState
    <3>2. req'[r] = m
      BY <1>0, <1>3, Resumed, Zenon DEF ReserveQuota, Goto
    <3> HIDE DEF m
    <3> QED BY <3>1, <3>2 DEF AfterReserve, Before
  <2>4. ASSUME NEW s \in Requests, NEW t \in Targets
        PROVE  /\ Before(req'[s]) => <<t, s>> \notin reserved'
               /\ ~ Before(req'[s]) /\ req'[s].op # "remaining" /\ t \in req'[s].todo
                    => <<t, s>> \in reserved'
               /\ req'[s].op # "remaining" /\ Added(<<t, s>>)' => <<t, s>> \in reserved'
    <3>1. CASE s = r
      BY <1>0, <2>1, <2>2, <2>3, <3>1 DEF ReservedAhead, Added
    <3>2. CASE s # r
      BY <1>0, <1>1, <2>1, <2>2, <3>2 DEF ReservedAhead, Added
    <3> QED BY <3>1, <3>2
  <2>5. ReservedAhead'
    BY <2>4, Zenon DEF ReservedAhead, Before
  <2> QED BY <2>1, <2>5
<1>4. CASE AsksNothing(r)
  <2>1. reserved' = reserved /\ quota' = quota /\ req'[r].op = req[r].op
    BY <1>4 DEF AsksNothing, quotaVars
  <2>2. req'[r].todo \subseteq req[r].todo
    BY <1>4 DEF AsksNothing, Enqueues
  <2>3. \A j \in JobIds :
          Added(j)' => Added(j) \/ (~ Before(req[r]) /\ j[2] = r /\ j[1] \in req[r].todo)
    <3> SUFFICES ASSUME NEW j \in JobIds, jobs'[j].state # "absent", ~ Added(j)
                 PROVE  ~ Before(req[r]) /\ j[2] = r /\ j[1] \in req[r].todo
      BY DEF Added
    <3>1. jobs'[j] # jobs[j]
      BY DEF Added
    <3>2. PICK t \in req[r].todo : ~ Before(req[r]) /\ Enqueues(r, t)
      BY <1>4, <3>1 DEF AsksNothing
    <3>3. j = <<t, r>>
      BY <1>0, <3>1, <3>2 DEF Enqueues
    <3> QED BY <3>2, <3>3
  <2>4. ASSUME NEW s \in Requests, NEW t \in Targets
        PROVE  /\ Before(req'[s]) => <<t, s>> \notin reserved'
               /\ ~ Before(req'[s]) /\ req'[s].op # "remaining" /\ t \in req'[s].todo
                    => <<t, s>> \in reserved'
               /\ req'[s].op # "remaining" /\ Added(<<t, s>>)' => <<t, s>> \in reserved'
    <3>1. CASE s = r
      <4>1. Before(req'[r]) => <<t, r>> \notin reserved'
        BY <1>0, <1>4, <2>1 DEF AsksNothing, ReservedAhead
      <4>2. ~ Before(req'[r]) /\ req'[r].op # "remaining" /\ t \in req'[r].todo
              => <<t, r>> \in reserved'
        BY <1>0, <1>4, <2>1, <2>2 DEF AsksNothing, ReservedAhead
      <4>3. req'[r].op # "remaining" /\ Added(<<t, r>>)' => <<t, r>> \in reserved'
        BY <1>0, <2>1, <2>3 DEF ReservedAhead
      <4> QED BY <3>1, <4>1, <4>2, <4>3
    <3>2. CASE s # r
      <4>1. Added(<<t, s>>)' => Added(<<t, s>>)
        BY <2>3, <3>2
      <4> QED BY <1>0, <1>1, <2>1, <3>2, <4>1 DEF ReservedAhead
    <3> QED BY <3>1, <3>2
  <2>5. ReservedAhead'
    BY <2>4, Zenon DEF ReservedAhead, Before
  <2> QED BY <1>0, <2>1, <2>5 DEF Allowance
<1> QED BY <1>0, <1>2, <1>3, <1>4, RequestAsks

(* Workers add no job and touch no request and no allowance.               *)
LEMMA WorkerKeepsAllowance ==
  ASSUME Ledger, AllowanceInv, QuotaApplies, NEW j \in JobIds, HandlerStep(j) \/ WorkerDies(j)
  PROVE  ReservedAhead' /\ Allowance'
<1>1. /\ UNCHANGED req
      /\ \A k \in JobIds \ {j} : jobs'[k] = jobs[k]
      /\ Starts(j) \/ Pays(j) \/ Works(j) \/ Leaves(j)
  BY WorkerMoves DEF Ledger
<1>2. UNCHANGED quotaVars
  BY DEF HandlerStep, StartJob, ReserveNeurons, BudgetRefuses, RejectPrompt, GenerateImage,
         ProviderFails, UploadImage, NotifyPageFails, HandleFailure, ReadStatus, WriteStatus,
         ClaimAnnouncement, Announce, CheckLimitNote, CreateLimitNote, EndJob, WorkerDies
<1>3. \A k \in JobIds : Added(k)' => Added(k)
  <2>1. Added(j)
    BY <1>1 DEF Starts, Pays, Works, Leaves, Handling, Added
  <2> QED BY <1>1, <2>1 DEF Added
<1>4. reserved' = reserved /\ quota' = quota
  BY <1>2 DEF quotaVars
<1>5. ReservedAhead'
  BY <1>1, <1>3, <1>4 DEF AllowanceInv, ReservedAhead, Before
<1> QED BY <1>4, <1>5 DEF AllowanceInv, Allowance

(* Whoever takes the next step, what is queued was reserved.               *)
LEMMA NextAllowance ==
  Ledger /\ RowsInv /\ AllowanceInv /\ [Next]_vars => AllowanceInv'
<1> SUFFICES ASSUME Ledger, RowsInv, AllowanceInv, [Next]_vars, QuotaApplies
             PROVE  ReservedAhead' /\ Allowance'
  BY DEF AllowanceInv
<1>1. CASE UNCHANGED vars
  <2>1. ReservedAhead /\ Allowance
    BY DEF AllowanceInv
  <2> QED BY <1>1, <2>1 DEF vars, ReservedAhead, Allowance, Before, Added
<1> QED
  BY <1>1, RequestKeepsAllowance, WorkerKeepsAllowance DEF Next

(* Every job of the paths that ask for the owner's allowance was reserved  *)
(* before it was queued, and what is reserved keeps to the allowance.      *)
THEOREM JobsAreReserved == Spec => []GatedJobsReserved
<1>1. Init => AllowanceInv
  BY FS_EmptySet, StoreAssumption
  DEF Init, NoReq, NoJob, AllowanceInv, ReservedAhead, Allowance, Before, Added
<1>2. RowsInv /\ AllowanceInv => GatedJobsReserved
  <2> SUFFICES ASSUME RowsInv, AllowanceInv, QuotaApplies,
                      NEW j \in JobIds, Added(j), req[j[2]].op # "remaining"
               PROVE  j \in reserved
    BY DEF GatedJobsReserved, AllowanceInv, Allowance
  <2>1. PICK t \in Targets, r \in Requests : j = <<t, r>>
    OBVIOUS
  <2> QED BY <2>1 DEF AllowanceInv, ReservedAhead
<1>3. Spec => [](Ledger /\ RowsInv /\ AllowanceInv)
  BY <1>1, InitLedger, NextLedger, InitRows, NextRows, NextAllowance, PTL DEF Spec
<1> QED BY <1>2, <1>3, PTL

-----------------------------------------------------------------------------
(* Announcements.  Who sees the story not yet announced takes the flag,    *)
(* and only a save that is counted in cleared gives it back.               *)
Flag == IF story.notified THEN 0 ELSE 1

FlagCounted == cleared + Flag' <= cleared' + Flag

(* Saving any copy of the story counts a flag it gives back.               *)
LEMMA FlagSaved ==
  ASSUME Typing, NEW row \in StoryRow, SaveStory(row)
  PROVE  FlagCounted
BY DEF Typing, TypeOK, StoreTypeOK, StoryRow, SaveStory, FlagCounted, Flag

(* An update of other columns leaves the flag.                             *)
LEMMA FlagLeft ==
  ASSUME Typing, story'.notified = story.notified, UNCHANGED cleared
  PROVE  FlagCounted
BY DEF Typing, TypeOK, StoreTypeOK, FlagCounted, Flag

(* No step of a request announces or takes the flag.                       *)
LEMMA RequestFlag ==
  ASSUME Typing, NEW r \in Requests, RequestStep(r)
  PROVE  FlagCounted /\ UNCHANGED <<announced, run>>
<1>0. req[r] \in ReqState /\ story \in StoryRow
  BY DEF Typing, TypeOK, StoreTypeOK
<1>a. ASSUME NEW m, m.story \in StoryRow, SaveLoadedStory(m) PROVE FlagCounted
  BY <1>a, FlagSaved DEF SaveLoadedStory
<1> USE DEF dbVars, noticeVars
<1>1. CASE Begin(r)
  <2>1. UNCHANGED <<story, cleared, announced, run>>
    BY <1>1 DEF Begin, GenerateAll, GenerateRemaining, GenerateAffected, RegeneratePage,
                RegenerateCover, Load
  <2> QED BY <2>1, FlagLeft
<1>2. CASE ClearStaleClaim(r)
  BY <1>0, <1>2, FlagLeft DEF ClearStaleClaim, UpdateStory, StoryRow
<1>3. CASE ClaimAttempt(r)
  BY <1>0, <1>3, FlagLeft DEF ClaimAttempt, UpdateStory, StoryRow
<1>4. CASE ReleaseAttempt(r)
  BY <1>0, <1>4, FlagLeft DEF ReleaseAttempt, UpdateStory, StoryRow
<1>5. CASE ClaimRefused(r) \/ ReserveQuota(r) \/ QuotaRefused(r) \/ LookupTarget(r)
  BY <1>5, FlagLeft DEF ClaimRefused, ReserveQuota, QuotaRefused, LookupTarget
<1>6. CASE Translate(r) \/ TranslateFails(r) \/ KeepAffordable(r) \/ AddJob(r)
  BY <1>6, FlagLeft DEF Translate, TranslateFails, KeepAffordable, AddJob
<1>7. CASE AddJobFails(r) \/ RequestDies(r)
  BY <1>7, FlagLeft DEF AddJobFails, RequestDies
<1>8. CASE MarkQueued(r)
  <2> DEFINE m == [req[r] EXCEPT !.pc = "add", !.story.cover = "QUEUED",
                           !.prev = IF req[r].op = "cover" THEN req[r].prev
                                    ELSE req[r].story.cover]
  <2>1. SaveLoadedStory(m) \/ UNCHANGED <<story, cleared>>
    BY <1>8, Zenon DEF MarkQueued
  <2>2. m.story \in StoryRow
    BY <1>0 DEF ReqState, StoryRow, PageStatus
  <2>3. UNCHANGED <<announced, run>>
    BY <1>8 DEF MarkQueued
  <2> HIDE DEF m
  <2> QED BY <1>a, <2>1, <2>2, <2>3, FlagLeft
<1>9. CASE RestoreStatus(r)
  <2> DEFINE m(pc) == [req[r] EXCEPT !.pc = pc, !.story.cover = req[r].prev]
             next == IF req[r].op = "all" THEN "release" ELSE "done"
  <2>1. SaveLoadedStory(m(next)) \/ UNCHANGED <<story, cleared>>
    BY <1>9, Zenon DEF RestoreStatus
  <2>2. m(next).story \in StoryRow
    BY <1>0 DEF ReqState, StoryRow
  <2>3. UNCHANGED <<announced, run>>
    BY <1>9 DEF RestoreStatus
  <2> HIDE DEF m
  <2> QED BY <1>a, <2>1, <2>2, <2>3, FlagLeft
<1>10. CASE RefreshLoadedStatus(r)
  <2> DEFINE m == [req[r] EXCEPT !.pc = AfterRefresh(req[r].op),
                     !.story.status = ComputeStatus(req[r].pages)]
  <2>1. SaveLoadedStory(m) /\ UNCHANGED <<announced, run>>
    BY <1>10, Zenon DEF RefreshLoadedStatus
  <2>2. m.story \in StoryRow
    BY <1>0, StatusTyping DEF ReqState, StoryRow
  <2> HIDE DEF m
  <2> QED BY <1>a, <2>1, <2>2
<1>11. CASE ResetNotified(r)
  <2> DEFINE m == [req[r] EXCEPT !.pc = AfterReset(req[r].op), !.story.notified = FALSE]
  <2>1. /\ SaveLoadedStory(m) \/ UNCHANGED <<story, cleared>>
        /\ UNCHANGED <<announced, run>>
    BY <1>11, Zenon DEF ResetNotified
  <2>2. m.story \in StoryRow
    BY <1>0 DEF ReqState, StoryRow
  <2> HIDE DEF m
  <2> QED BY <1>a, <2>1, <2>2, FlagLeft
<1> QED
  BY <1>1, <1>2, <1>3, <1>4, <1>5, <1>6, <1>7, <1>8, <1>9, <1>10, <1>11
  DEF RequestStep, Proceed

(* A worker takes the flag when it begins to announce, and announces once. *)
Takes(j)    == /\ ~ story.notified /\ story'.notified /\ UNCHANGED <<cleared, announced>>
               /\ run'[j].pc = "announce"
Announces(j) == /\ run[j].pc = "announce" /\ run'[j].pc # "announce"
                /\ announced' = announced + 1 /\ FlagCounted

(* A step of a worker leaves the announcement alone, takes the flag, or    *)
(* announces.                                                              *)
LEMMA WorkerFlag ==
  ASSUME Typing, NEW j \in JobIds, HandlerStep(j) \/ WorkerDies(j)
  PROVE  \/ UNCHANGED announced /\ FlagCounted /\ run'[j].pc # "announce"
         \/ Takes(j)
         \/ Announces(j)
<1>0. /\ story \in StoryRow /\ jobs[j] \in JobState /\ run[j] \in RunState
  BY DEF Typing, TypeOK, StoreTypeOK
<1>a. \A pc \in RunPcs : /\ [run[j] EXCEPT !.pc = pc] \in RunState
                         /\ [run[j] EXCEPT !.pc = pc].pc = pc
  BY <1>0 DEF RunState
<1>b. ASSUME NEW m, Remember(j, m) PROVE run'[j] = m
  BY <1>b, Remembered, Zenon
<1>c. ASSUME NEW pc \in RunPcs, Move(j, pc) PROVE run'[j].pc = pc
  <2>1. run'[j] = [run[j] EXCEPT !.pc = pc]
    BY <1>b, <1>c, Zenon DEF Move
  <2> QED BY <1>a, <2>1
<1>d. ASSUME NEW m \in RunState, SaveTarget(j, m) PROVE FlagCounted
  <2>1. CASE IsPage(j)
    BY <1>d, <2>1, FlagLeft DEF SaveTarget
  <2>2. CASE ~ IsPage(j)
    BY <1>d, <2>2, FlagSaved DEF SaveTarget, RunState
  <2> QED BY <2>1, <2>2
<1>e. ASSUME NEW m \in RunState, NEW st \in PageStatus, m.pc # "announce",
             Remember(j, WithStatus(m, j, st)), SaveTarget(j, WithStatus(m, j, st))
      PROVE  FlagCounted /\ run'[j].pc # "announce"
  BY <1>b, <1>d, <1>e, WorkerMemory, WithStatusPc
<1> USE DEF dbVars, noticeVars
<1>1. CASE StartJob(j)
  <2> DEFINE m == [NoRun EXCEPT !.pc = "reserve", !.story = story]
             n == [m EXCEPT !.page = [pages[Target(j)] EXCEPT !.status = "GENERATING"]]
  <2>1. Remember(j, m) \/ Remember(j, n)
    BY <1>1, Zenon DEF StartJob
  <2>2. m.pc = "reserve" /\ n.pc = "reserve"
    BY DEF NoRun
  <2> HIDE DEF m, n
  <2> QED BY <1>1, <1>b, <2>1, <2>2, FlagLeft DEF StartJob
<1>2. CASE ReserveNeurons(j)
  <2> DEFINE m == [run[j] EXCEPT !.pc = "generate"]
  <2>1. /\ announced' = announced
        /\ \/ Remember(j, m) /\ UNCHANGED <<story, cleared>>
           \/ Remember(j, WithStatus(m, j, "GENERATING"))
              /\ SaveTarget(j, WithStatus(m, j, "GENERATING"))
    BY <1>2 DEF ReserveNeurons
  <2>2. m \in RunState /\ m.pc = "generate" /\ "GENERATING" \in PageStatus
    BY <1>a DEF RunPcs, PageStatus
  <2> HIDE DEF m
  <2> QED BY <1>b, <1>e, <2>1, <2>2, FlagLeft
<1>3. CASE BudgetRefuses(j)
  <2> DEFINE m == [run[j] EXCEPT !.pc = "limit"]
  <2>1. /\ announced' = announced
        /\ Remember(j, WithStatus(m, j, "FAILED")) /\ SaveTarget(j, WithStatus(m, j, "FAILED"))
    BY <1>3, Zenon DEF BudgetRefuses
  <2>2. m \in RunState /\ m.pc = "limit" /\ "FAILED" \in PageStatus
    BY <1>a DEF RunPcs, PageStatus
  <2> HIDE DEF m
  <2> QED BY <1>e, <2>1, <2>2
<1>4. CASE RejectPrompt(j)
  <2> DEFINE m == [run[j] EXCEPT !.pc = IF IsPage(j) THEN "refresh" ELSE "end"]
  <2>1. /\ announced' = announced
        /\ Remember(j, WithStatus(m, j, "FAILED")) /\ SaveTarget(j, WithStatus(m, j, "FAILED"))
    BY <1>4, Zenon DEF RejectPrompt
  <2>2. m \in RunState /\ m.pc # "announce" /\ "FAILED" \in PageStatus
    BY <1>a DEF RunPcs, PageStatus
  <2> HIDE DEF m
  <2> QED BY <1>e, <2>1, <2>2
<1>5. CASE GenerateImage(j)
  <2> DEFINE m == [run[j] EXCEPT !.pc = "upload"]
  <2>1. /\ announced' = announced
        /\ Remember(j, WithStatus(m, j, "UPLOADING"))
        /\ SaveTarget(j, WithStatus(m, j, "UPLOADING"))
    BY <1>5, Zenon DEF GenerateImage
  <2>2. m \in RunState /\ m.pc = "upload" /\ "UPLOADING" \in PageStatus
    BY <1>a DEF RunPcs, PageStatus
  <2> HIDE DEF m
  <2> QED BY <1>e, <2>1, <2>2
<1>6. CASE ProviderFails(j)
  <2>1. PICK b \in BOOLEAN : Remember(j, [run[j] EXCEPT !.pc = "catch", !.retryable = b])
    BY <1>6 DEF ProviderFails
  <2>2. run'[j] = [run[j] EXCEPT !.pc = "catch", !.retryable = b]
    BY <1>b, <2>1, Zenon
  <2>3. run'[j].pc = "catch"
    BY <1>0, <2>2 DEF RunState
  <2> QED BY <1>6, <2>3, FlagLeft DEF ProviderFails
<1>7. CASE UploadImage(j)
  <2> DEFINE m == [run[j] EXCEPT !.pc = IF IsPage(j) THEN "refresh" ELSE "end"]
  <2>1. announced' = announced /\ Remember(j, WithImage(m, j)) /\ SaveTarget(j, WithImage(m, j))
    BY <1>7, Zenon DEF UploadImage
  <2>2. m \in RunState /\ m.pc # "announce"
    BY <1>a DEF RunPcs
  <2> HIDE DEF m
  <2> QED BY <1>b, <1>d, <2>1, <2>2, WorkerMemory, WithStatusPc
<1>8. CASE NotifyPageFails(j)
  BY <1>8, <1>c, FlagLeft DEF NotifyPageFails, RunPcs
<1>9. CASE HandleFailure(j)
  <2> DEFINE m == [run[j] EXCEPT !.pc = IF GivesUp(j) THEN "refresh" ELSE "end",
                                 !.ok = FALSE, !.retryable = TRUE]
             st == IF GivesUp(j) THEN "FAILED" ELSE "QUEUED"
  <2>1. /\ announced' = announced
        /\ Remember(j, WithStatus(m, j, st)) /\ SaveTarget(j, WithStatus(m, j, st))
    BY <1>9, Zenon DEF HandleFailure
  <2>2. m \in RunState /\ m.pc # "announce" /\ st \in PageStatus
    BY <1>0 DEF RunState, RunPcs, PageStatus
  <2> HIDE DEF m, st
  <2> QED BY <1>e, <2>1, <2>2
<1>10. CASE ReadStatus(j)
  <2>1. run'[j] = [run[j] EXCEPT !.pc = "update", !.result = ComputeStatus(pages)]
    BY <1>10, <1>b, Zenon DEF ReadStatus
  <2>2. run'[j].pc = "update"
    BY <1>0, <2>1 DEF RunState
  <2> QED BY <1>10, <2>2, FlagLeft DEF ReadStatus
<1>11. CASE WriteStatus(j)
  <2> DEFINE pc == IF run[j].result \in TerminalStatuses THEN "change" ELSE "end"
  <2>1. run'[j] = [run[j] EXCEPT !.pc = pc, !.result = NoRun.result]
    BY <1>11, <1>b, Zenon DEF WriteStatus
  <2>2. run'[j].pc # "announce"
    BY <1>0, <2>1 DEF RunState
  <2>3. story'.notified = story.notified /\ UNCHANGED <<cleared, announced>>
    BY <1>0, <1>11 DEF WriteStatus, UpdateStory, StoryRow
  <2> QED BY <2>2, <2>3, FlagLeft
<1>12. CASE ClaimAnnouncement(j)
  <2>1. CASE AlreadyNotified(j)
    BY <1>12, <1>c, <2>1, FlagLeft DEF ClaimAnnouncement, RunPcs
  <2>2. CASE ~ AlreadyNotified(j)
    <3>1. run'[j].pc = "announce"
      BY <1>12, <1>c, <2>2 DEF ClaimAnnouncement, RunPcs
    <3> QED BY <1>0, <1>12, <2>2, <3>1
            DEF ClaimAnnouncement, AlreadyNotified, UpdateStory, StoryRow, Takes
  <2> QED BY <2>1, <2>2
<1>13. CASE Announce(j)
  <2> DEFINE m == [run[j] EXCEPT !.pc = "end", !.story.notified = TRUE, !.story.attempt = None]
  <2>1. Remember(j, m) /\ SaveStory(m.story) /\ announced' = announced + 1
    BY <1>13, Zenon DEF Announce
  <2>2. m.pc = "end" /\ m.story \in StoryRow
    BY <1>0 DEF RunState, StoryRow
  <2> HIDE DEF m
  <2>3. run'[j].pc = "end" /\ FlagCounted
    BY <1>b, <2>1, <2>2, FlagSaved
  <2> QED BY <1>13, <2>1, <2>3 DEF Announce, Handling, Announces
<1>14. CASE CheckLimitNote(j)
  BY <1>14, <1>c, FlagLeft DEF CheckLimitNote, AfterLimit, RunPcs
<1>15. CASE CreateLimitNote(j)
  BY <1>15, <1>c, FlagLeft DEF CreateLimitNote, AfterLimit, RunPcs
<1>16. CASE EndJob(j) \/ WorkerDies(j)
  <2>1. run'[j] = NoRun
    BY <1>16, <1>b DEF EndJob, WorkerDies
  <2> QED BY <1>16, <2>1, FlagLeft DEF EndJob, WorkerDies, NoRun
<1> QED
  BY <1>1, <1>2, <1>3, <1>4, <1>5, <1>6, <1>7, <1>8, <1>9, <1>10, <1>11, <1>12, <1>13,
     <1>14, <1>15, <1>16
  DEF HandlerStep

(* The workers that may be announcing are finitely many.                   *)
LEMMA AnnouncersFinite == IsFiniteSet(Announcing) /\ Cardinality(Announcing) \in Nat
<1>1. IsFiniteSet(1..NumPages)
  BY StoreAssumption, FS_Interval
<1>2. IsFiniteSet(Targets)
  BY <1>1, FS_AddElement
<1>3. IsFiniteSet(JobIds)
  BY <1>2, StoreAssumption, FS_Product
<1>4. Announcing \subseteq JobIds
  BY DEF Announcing
<1> QED BY <1>3, <1>4, FS_Subset, FS_CardinalityType

NoticeInv == Typing /\ AnnouncedOncePerClear

(* The arithmetic of a step, on the numbers alone.                         *)
LEMMA FlagArithmetic ==
  ASSUME NEW a \in Nat, NEW n \in Nat, NEW f \in Nat, NEW c \in Nat,
         NEW b \in Nat, NEW o \in Nat, NEW g \in Nat, NEW d \in Nat,
         a + n + f <= c + 1, c + g <= d + f, b + o <= a + n
  PROVE  b + o + g <= d + 1
OBVIOUS

(* Taking the flag adds an announcer, and announcing takes it away.        *)
LEMMA NextNotice == NoticeInv /\ [Next]_vars => NoticeInv'
<1> SUFFICES ASSUME NoticeInv, [Next]_vars PROVE NoticeInv'
  OBVIOUS
<1>0. /\ Typing /\ Typing'
      /\ announced \in Nat /\ cleared \in Nat /\ announced' \in Nat /\ cleared' \in Nat
      /\ announced + Cardinality(Announcing) + Flag <= cleared + 1
      /\ Flag \in Nat /\ Flag' \in Nat
  BY NextTyping DEF NoticeInv, AnnouncedOncePerClear, Typing, TypeOK, StoreTypeOK, Flag
<1>1. /\ IsFiniteSet(Announcing) /\ Cardinality(Announcing) \in Nat
      /\ IsFiniteSet(Announcing') /\ Cardinality(Announcing') \in Nat
  <2>1. IsFiniteSet(Announcing) /\ Cardinality(Announcing) \in Nat
    BY AnnouncersFinite
  <2>2. (IsFiniteSet(Announcing) /\ Cardinality(Announcing) \in Nat)'
    BY AnnouncersFinite, PTL
  <2> QED BY <2>1, <2>2
<1> SUFFICES announced' + Cardinality(Announcing') + Flag' <= cleared' + 1
  BY <1>0 DEF NoticeInv, AnnouncedOncePerClear, Flag
<1>a. ASSUME Announcing' \subseteq Announcing, UNCHANGED announced, FlagCounted
      PROVE  announced' + Cardinality(Announcing') + Flag' <= cleared' + 1
  <2>1. Cardinality(Announcing') <= Cardinality(Announcing)
    BY <1>1, <1>a, FS_Subset
  <2>2. announced' + Cardinality(Announcing') <= announced + Cardinality(Announcing)
    BY <1>0, <1>1, <1>a, <2>1
  <2> QED BY <1>0, <1>1, <1>a, <2>2, FlagArithmetic DEF FlagCounted
<1>2. ASSUME NEW r \in Requests, RequestStep(r)
      PROVE  announced' + Cardinality(Announcing') + Flag' <= cleared' + 1
  BY <1>0, <1>2, <1>a, RequestFlag DEF Announcing
<1>3. ASSUME NEW j \in JobIds, HandlerStep(j) \/ WorkerDies(j)
      PROVE  announced' + Cardinality(Announcing') + Flag' <= cleared' + 1
  <2>1. \A k \in JobIds \ {j} : run'[k] = run[k]
    BY <1>0, <1>3, WorkerMoves
  <2>2. CASE UNCHANGED announced /\ FlagCounted /\ run'[j].pc # "announce"
    BY <1>a, <2>1, <2>2 DEF Announcing
  <2>3. CASE Takes(j)
    <3>1. Announcing' \subseteq Announcing \union {j}
      BY <2>1 DEF Announcing
    <3>2. /\ IsFiniteSet(Announcing \union {j})
          /\ Cardinality(Announcing \union {j}) <= Cardinality(Announcing) + 1
      <4>1. /\ IsFiniteSet(Announcing \union {j})
            /\ \/ Cardinality(Announcing \union {j}) = Cardinality(Announcing)
               \/ Cardinality(Announcing \union {j}) = Cardinality(Announcing) + 1
        BY <1>1, FS_AddElement
      <4> QED BY <1>1, <4>1
    <3>3. Cardinality(Announcing') <= Cardinality(Announcing \union {j})
      BY <3>1, <3>2, FS_Subset
    <3>4. Cardinality(Announcing \union {j}) \in Nat
      BY <3>2, FS_CardinalityType
    <3> QED BY <1>0, <1>1, <2>3, <3>2, <3>3, <3>4 DEF Takes, Flag
  <2>4. CASE Announces(j)
    <3>1. j \in Announcing /\ Announcing' = Announcing \ {j}
      BY <2>1, <2>4 DEF Announcing, Announces
    <3>2. Cardinality(Announcing') = Cardinality(Announcing) - 1
      BY <1>1, <3>1, FS_RemoveElement
    <3>3. announced' + Cardinality(Announcing') <= announced + Cardinality(Announcing)
      BY <1>0, <1>1, <2>4, <3>2 DEF Announces
    <3>4. cleared + Flag' <= cleared' + Flag
      BY <2>4 DEF Announces, FlagCounted
    <3> QED BY <1>0, <1>1, <3>3, <3>4, FlagArithmetic
  <2> QED BY <1>0, <1>3, <2>2, <2>3, <2>4, WorkerFlag
<1>4. CASE UNCHANGED vars
  BY <1>4, <1>0 DEF vars, Announcing, Flag
<1> QED BY <1>2, <1>3, <1>4 DEF Next

(* However many workers see the end of the run, and whatever copies of the *)
(* story are saved, the end is announced once for each time the flag was   *)
(* cleared, and once more.                                                 *)
THEOREM AnnouncedOncePerFlag == Spec => []AnnouncedOncePerClear
<1>1. Init => NoticeInv
  <2>1. Init => Announcing = {}
    BY DEF Init, Announcing, NoRun
  <2>2. Init => announced = 0 /\ cleared = 0
    BY DEF Init
  <2>3. Cardinality({}) = 0
    BY FS_EmptySet
  <2> QED BY <2>1, <2>2, <2>3, InitTyping DEF NoticeInv, AnnouncedOncePerClear
<1>2. NoticeInv => AnnouncedOncePerClear
  BY DEF NoticeInv
<1> QED BY <1>1, <1>2, NextNotice, PTL DEF Spec

=============================================================================
