------------------------------ MODULE StoryPages ------------------------------
(***************************************************************************)
(* A story, its pages and its share, as story.service.ts, the deletion in  *)
(* admin-stories.service.ts and the workers' page saves change them: one   *)
(* action per step between two awaits, the statements of a transaction     *)
(* being visible to others when it commits.                                *)
(*                                                                         *)
(* Entities are loaded, changed and saved: a save writes every column of   *)
(* the copy, and inserts the row again if it is gone.  The only lock is    *)
(* the row lock of append on the story; statements that write the story's  *)
(* row wait for it.                                                        *)
(***************************************************************************)
EXTENDS StorySections

CONSTANTS
  Procs,       \* requests that run beside each other, and the worker's jobs
  Ops,         \* the operations in use
  FirstTexts,  \* texts that stories are created with
  EditLens,    \* lengths of the words that edits and continuations bring
  None

ASSUME PagesAssumption ==
  /\ FirstTexts \subseteq Text /\ EditLens \subseteq Nat \ {0}
  /\ \A t \in FirstTexts : \A i, j \in DOMAIN Words(t) :
       Words(t)[i].id = Words(t)[j].id => i = j
  /\ IsFiniteSet(Procs) /\ None \notin Procs

VARIABLES
  story,     \* the row of the story
  pages,     \* the rows of its pages
  share,     \* it is shared with the other user
  locked,    \* who holds the row lock on the story, or None
  req,       \* what each request holds between two awaits
  words,     \* number of words used
  \* history, read by the properties only
  disturbed, \* a request has saved what others had changed since it read it
  asked,     \* the visibility that was last set
  granted,   \* how often the other user was given the share
  told,      \* "story shared" notifications that he has
  rowIds     \* number of page rows inserted

vars == <<story, pages, share, locked, req, words, disturbed, asked, granted, told,
          rowIds>>

(* image is the text that a page's illustration was generated from.        *)
PageRow  == [id: Nat, number: Nat, text: Text, image: Text]
StoryRow == [exists: BOOLEAN, status: {"PROCESSING", "READY", "FAILED"},
             visibility: {"PRIVATE", "SHARED"}, text: Text]
NoStory  == [exists |-> FALSE, status |-> "PROCESSING", visibility |-> "PRIVATE",
             text |-> <<>>]

Idle == [pc |-> "idle", op |-> "none", story |-> NoStory, pages |-> <<>>,
         source |-> <<>>, parts |-> <<>>, target |-> 0, stale |-> FALSE]

Done == [Idle EXCEPT !.pc = "done"]

At(p, pc)    == req[p].pc = pc
Ready(p, op) == At(p, "idle") /\ op \in Ops
Resume(p, m) == req' = [req EXCEPT ![p] = m]
Finish(p)    == Resume(p, Done)
Started(p, op, pc) == [Idle EXCEPT !.op = op, !.pc = pc]

(* find(StoryPage, order: pageNumber ASC): ties oldest or newest first.    *)
Sorted(s, Before(_, _)) ==
  [i \in 1..Cardinality(s) |->
     CHOOSE r \in s : Cardinality({q \in s : Before(q, r)}) = i - 1]
Listed(s) ==
  {Sorted(s, LAMBDA q, r : q.number < r.number \/ (q.number = r.number /\ q.id < r.id)),
   Sorted(s, LAMBDA q, r : q.number < r.number \/ (q.number = r.number /\ q.id > r.id))}

Source(l)   == FlattenSeq([i \in DOMAIN l |-> l[i].text])
(* New pages, numbered from n + 1 on.                                      *)
NewPages(n, parts) ==
  [i \in DOMAIN parts |-> [id |-> 0, number |-> n + i, text |-> parts[i], image |-> <<>>]]

(* A text that a request brings, of one new word.                          *)
NewText(len) == <<<<[id |-> words + 1, len |-> len, stop |-> TRUE]>>>>

(* save(StoryPage, l): rows that have an id are written over, or inserted  *)
(* again; the others are inserted under new ids.                           *)
Numbered(l) ==
  [i \in DOMAIN l |->
     IF l[i].id # 0 THEN l[i]
     ELSE [l[i] EXCEPT !.id = rowIds + Cardinality({j \in 1..i : l[j].id = 0})]]
Fresh(l)    == Cardinality({i \in DOMAIN l : l[i].id = 0})
Saved(s, l) == {r \in s : \A i \in DOMAIN l : l[i].id # r.id} \cup Range(Numbered(l))

(* Mutant: append reads the story without a lock.                          *)
TakeNoLock(p) == UNCHANGED locked
(* findOne(Story, lock: pessimistic_write).                                *)
TakeLock(p) == locked = None /\ locked' = p
ReleaseLock(p) == locked' = IF locked = p THEN None ELSE locked
StoryUnlocked(p) == locked \in {None, p}

(* A commit of request p that changes texts or numbers makes the copies    *)
(* that others hold stale, but for the overlaps that must be harmless: an  *)
(* append has other appends wait for it, and numbers its pages above those *)
(* that a reordering writes; a reordering changes no text, and appends and *)
(* edits write every number that it wrote; a change of visibility is       *)
(* undone only by a save of the story as it was created.                   *)
Unaffected(op) ==
  CASE op = "append"  -> {"append", "reorder"}
    [] op = "reorder" -> {"append", "update", "updatePage", "deletePage"}
    [] op = "update"  -> Ops \ {"create"}
    [] OTHER          -> {}
Commit(p, m) ==
  /\ req' = [q \in Procs |->
               IF q = p THEN m
               ELSE [req[q] EXCEPT !.stale = @ \/ (/\ req[q].pc \notin {"idle", "done"}
                                                   /\ req[q].op \notin Unaffected(req[p].op))]]
  /\ disturbed' = (disturbed \/ req[p].stale)
(* A save of columns that no other request builds on.                      *)
Save(p, m) == Resume(p, m) /\ disturbed' = (disturbed \/ req[p].stale)

(* The requests that have inserted a share and not told the other user yet. *)
Telling == {p \in Procs : At(p, "tell")}

shareSame == UNCHANGED <<share, asked, granted, told>>
-----------------------------------------------------------------------------
(* create and createFromPdf: the story, its pages, then READY or FAILED.   *)

Create(p) ==
  \E t \in FirstTexts :
    /\ Ready(p, "create") /\ ~story.exists /\ pages = {}
    /\ \A q \in Procs : At(q, "idle")
    /\ story' = [NoStory EXCEPT !.exists = TRUE, !.text = t]
    /\ Resume(p, [Started(p, "create", "pages") EXCEPT !.story = story', !.parts = Sections(t)])
    /\ words' = Max({words} \cup {w.id : w \in Range(Words(t))})
    /\ UNCHANGED <<pages, locked, disturbed, rowIds>> /\ shareSame

CreatePages(p) ==
  LET l == NewPages(0, req[p].parts) IN
  /\ At(p, "pages")
  /\ \/ /\ story.exists
        /\ pages' = Saved(pages, l)
        /\ rowIds' = rowIds + Len(l)
        /\ Commit(p, [req[p] EXCEPT !.pc = "save", !.story.status = "READY"])
     \/ /\ Resume(p, [req[p] EXCEPT !.pc = "save", !.story.status = "FAILED"])
        /\ UNCHANGED <<pages, rowIds, disturbed>>
  /\ UNCHANGED <<story, locked, words>> /\ shareSame

-----------------------------------------------------------------------------
(* update and updateVisibility: the story is loaded, changed and saved.    *)
LoadStory(p) ==
  /\ \E v \in {"PRIVATE", "SHARED"} :
       /\ Ready(p, "update") /\ story.exists
       /\ Resume(p, [Started(p, "update", "save") EXCEPT
                       !.story = [story EXCEPT !.visibility = v]])
  /\ UNCHANGED <<story, pages, locked, words, disturbed, rowIds>> /\ shareSame

SaveStory(p) ==
  /\ At(p, "save") /\ StoryUnlocked(p)
  /\ story' = req[p].story
  /\ asked' = IF req[p].op = "update" THEN story'.visibility ELSE asked
  /\ Commit(p, Done)
  /\ UNCHANGED <<pages, share, locked, words, granted, told, rowIds>>

(* remove, and the admin's delete: one transaction.  It fails on a foreign *)
(* key if an append that it waited for has inserted pages.                 *)
LoadForRemove(p) ==
  /\ Ready(p, "remove") /\ story.exists
  /\ Resume(p, Started(p, "remove", "delete"))
  /\ UNCHANGED <<story, pages, locked, words, disturbed, rowIds>> /\ shareSame

DeleteStory(p) ==
  /\ At(p, "delete")
  /\ \/ /\ StoryUnlocked(p)
        /\ story' = NoStory /\ pages' = {} /\ share' = FALSE
        /\ asked' = NoStory.visibility /\ told' = 0 /\ granted' = Cardinality(Telling)
        /\ Commit(p, Done)
     \/ /\ ~StoryUnlocked(p)
        /\ Finish(p)
        /\ UNCHANGED <<story, pages, disturbed>> /\ shareSame
  /\ UNCHANGED <<locked, words, rowIds>>

-----------------------------------------------------------------------------
(* append: in one transaction, under the row lock.                         *)

(* Mutant: the new pages are numbered from the last page on.               *)
LastNumberOneLess(l) == Len(l) - 1
LastNumber(l) == Len(l)

(* The continuation is split into pages of its own, or with the whole text *)
(* if there is no page yet.                                                *)
AppendRead(p) ==
  \E len \in EditLens, l \in Listed(pages) :
    LET more  == NewText(len)
        whole == story.text \o more IN
    /\ Ready(p, "append") /\ story.exists
    /\ TakeLock(p)
    /\ words' = words + 1
    /\ Resume(p, [Started(p, "append", "append") EXCEPT
         !.story = [story EXCEPT !.text = whole],
         !.pages = l \o NewPages(LastNumber(l), Sections(IF l = <<>> THEN whole ELSE more))])
    /\ UNCHANGED <<story, pages, disturbed, rowIds>> /\ shareSame

AppendWrite(p) ==
  LET l == req[p].pages IN
  /\ At(p, "append") /\ StoryUnlocked(p)
  /\ pages' = Saved(pages, l)
  /\ rowIds' = rowIds + Fresh(l)
  /\ story' = req[p].story
  /\ ReleaseLock(p)
  /\ Commit(p, Done)
  /\ UNCHANGED words /\ shareSame

-----------------------------------------------------------------------------
(* updatePage and deletePage: the new text of the whole story is built     *)
(* from pages read first; replaceStoryPages splits it again.               *)

(* A request that has the new text and its pages.                          *)
Rewriting(p, op, source) ==
  [Started(p, op, "current") EXCEPT !.source = source, !.parts = Sections(source)]

FindPage(p) ==
  /\ Ready(p, "updatePage")
  /\ \E r \in pages, len \in EditLens :
       Resume(p, [Started(p, "updatePage", "list") EXCEPT
                    !.target = r.id, !.source = NewText(len)])
  /\ words' = words + 1
  /\ UNCHANGED <<story, pages, locked, disturbed, rowIds>> /\ shareSame

ListForUpdate(p) ==
  \E l \in Listed(pages) :
    LET edited == [i \in DOMAIN l |->
          IF l[i].id # req[p].target THEN l[i] ELSE [l[i] EXCEPT !.text = req[p].source]] IN
    /\ At(p, "list")
    /\ Resume(p, Rewriting(p, "updatePage", Source(edited)))
    /\ UNCHANGED <<story, pages, locked, words, disturbed, rowIds>> /\ shareSame

ListForDelete(p) ==
  /\ Ready(p, "deletePage") /\ Cardinality(pages) > 1
  /\ \E r \in pages, l \in Listed(pages) :
       LET others == [i \in DOMAIN l |->
             IF l[i].id # r.id THEN l[i] ELSE [l[i] EXCEPT !.text = <<>>]] IN
       Resume(p, Rewriting(p, "deletePage", Source(others)))
  /\ UNCHANGED <<story, pages, locked, words, disturbed, rowIds>> /\ shareSame

(* replaceStoryPages reads the pages again, inside its transaction.        *)
ReplaceRead(p) ==
  /\ At(p, "current")
  /\ \E l \in Listed(pages) : Resume(p, [req[p] EXCEPT !.pc = "replace", !.pages = l])
  /\ UNCHANGED <<story, pages, locked, words, disturbed, rowIds>> /\ shareSame

(* Mutant: a page keeps its image when its text changes.                   *)
ImageKept(old, text) == old.image
ImageFor(old, text) == IF old.text = text THEN old.image ELSE <<>>

(* Mutant: surplus pages stay.                                             *)
SurplusKept(l, n) == {}
(* The pages that the new text no longer needs.                            *)
Surplus(l, n) == {l[i].id : i \in (n + 1)..Len(l)}

(* The pages read are written over with the new parts, in order.           *)
Replaced(m) ==
  LET kept == SubSeq(m.pages, 1, Min({Len(m.pages), Len(m.parts)}))
  IN [i \in DOMAIN kept |->
        [kept[i] EXCEPT !.number = i, !.text = m.parts[i],
                        !.image = ImageFor(kept[i], m.parts[i])]]
     \o NewPages(Len(kept), SubSeq(m.parts, Len(kept) + 1, Len(m.parts)))

(* The transaction fails, and is rolled back, if the story is gone, or if  *)
(* a statement is refused: typeorm refuses to delete an empty list of      *)
(* pages, which append guards against and this operation does not.         *)
ReplaceWrite(p) ==
  \E l \in {Replaced(req[p])} :
    /\ At(p, "replace") /\ StoryUnlocked(p)
    /\ \/ /\ story.exists
          /\ pages' = Saved({r \in pages : r.id \notin Surplus(req[p].pages, Len(l))}, l)
          /\ rowIds' = rowIds + Fresh(l)
          /\ story' = [story EXCEPT !.text = req[p].source]
          /\ Commit(p, Done)
       \/ Finish(p) /\ UNCHANGED <<pages, rowIds, story, disturbed>>
    /\ UNCHANGED <<locked, words>> /\ shareSame

-----------------------------------------------------------------------------
(* reorderPages: the list (which swaps two pages) is checked against the   *)
(* pages first; then only the numbers are written.                         *)
CheckOrder(p) ==
  /\ Ready(p, "reorder") /\ Cardinality(pages) > 1
  /\ \E l \in Listed(pages), i, j \in 1..Cardinality(pages) :
       /\ i < j
       /\ Resume(p, [Started(p, "reorder", "reorder") EXCEPT
                       !.pages = [l EXCEPT ![i] = l[j], ![j] = l[i]]])
  /\ UNCHANGED <<story, pages, locked, words, disturbed, rowIds>> /\ shareSame

WriteOrder(p) ==
  LET l == req[p].pages
      Position(r) == CHOOSE i \in DOMAIN l : l[i].id = r.id IN
  /\ At(p, "reorder")
  /\ pages' = {IF \E i \in DOMAIN l : l[i].id = r.id
               THEN [r EXCEPT !.number = Position(r)] ELSE r : r \in pages}
  /\ Commit(p, Done)
  /\ UNCHANGED <<story, locked, words, rowIds>> /\ shareSame

-----------------------------------------------------------------------------
(* A worker illustrates a page and saves the copy it loaded.               *)
LoadPage(p) ==
  /\ Ready(p, "illustrate")
  /\ \E r \in pages :
       /\ r.image = <<>>
       /\ Resume(p, [Started(p, "illustrate", "image") EXCEPT !.pages = <<r>>])
  /\ UNCHANGED <<story, pages, locked, words, disturbed, rowIds>> /\ shareSame

SaveImage(p) ==
  LET r == req[p].pages[1] IN
  /\ At(p, "image")
  /\ IF story.exists
     THEN /\ pages' = Saved(pages, <<[r EXCEPT !.image = r.text]>>)
          /\ Save(p, Done)
     ELSE Finish(p) /\ UNCHANGED <<pages, disturbed>>
  /\ UNCHANGED <<story, locked, words, rowIds>> /\ shareSame

-----------------------------------------------------------------------------
(* shareStory and removeShare: a check, the row, the notification.         *)

CheckShare(p) ==
  /\ Ready(p, "share") /\ story.exists /\ ~share
  /\ Resume(p, Started(p, "share", "share"))
  /\ UNCHANGED <<story, pages, locked, words, disturbed, rowIds>> /\ shareSame

(* Mutant: the insert is an upsert.                                        *)
InsertedAlways == story.exists
(* One row per story and user (unique key), of a story that exists.        *)
Inserted == story.exists /\ ~share

InsertShare(p) ==
  /\ At(p, "share")
  /\ IF Inserted THEN Resume(p, [req[p] EXCEPT !.pc = "tell"]) ELSE Finish(p)
  /\ share' = (share \/ Inserted)
  /\ granted' = IF ~share /\ share' THEN granted + 1 ELSE granted
  /\ UNCHANGED <<story, pages, locked, words, disturbed, asked, told, rowIds>>

TellOther(p) ==
  /\ At(p, "tell")
  /\ told' = told + 1
  /\ Finish(p)
  /\ UNCHANGED <<story, pages, share, locked, words, disturbed, asked, granted, rowIds>>

FindShare(p) ==
  /\ Ready(p, "unshare") /\ story.exists /\ share
  /\ Resume(p, Started(p, "unshare", "unshare"))
  /\ UNCHANGED <<story, pages, locked, words, disturbed, rowIds>> /\ shareSame

RemoveShare(p) ==
  /\ At(p, "unshare")
  /\ share' = FALSE
  /\ Finish(p)
  /\ UNCHANGED <<story, pages, locked, words, disturbed, asked, granted, told, rowIds>>

-----------------------------------------------------------------------------
Init ==
  /\ story = NoStory /\ pages = {} /\ share = FALSE /\ locked = None
  /\ req = [p \in Procs |-> Idle]
  /\ words = 0 /\ rowIds = 0
  /\ disturbed = FALSE /\ asked = NoStory.visibility /\ granted = 0 /\ told = 0

Next ==
  \E p \in Procs :
    \/ Create(p) \/ CreatePages(p) \/ LoadStory(p) \/ SaveStory(p)
    \/ LoadForRemove(p) \/ DeleteStory(p) \/ AppendRead(p) \/ AppendWrite(p)
    \/ FindPage(p) \/ ListForUpdate(p) \/ ListForDelete(p) \/ ReplaceRead(p)
    \/ ReplaceWrite(p) \/ CheckOrder(p) \/ WriteOrder(p) \/ LoadPage(p)
    \/ SaveImage(p) \/ CheckShare(p) \/ InsertShare(p) \/ TellOther(p)
    \/ FindShare(p) \/ RemoveShare(p)

Spec == Init /\ [][Next]_vars
-----------------------------------------------------------------------------
TypeOK ==
  /\ story \in StoryRow /\ share \in BOOLEAN
  /\ locked \in Procs \cup {None}
  /\ \A r \in pages : /\ DOMAIN r = {"id", "number", "text", "image"}
                      /\ r.id \in 1..rowIds /\ r.number \in Nat \ {0}
                      /\ r.text \in Text /\ r.image \in Text
  /\ \A r, s \in pages : r.id = s.id => r = s
  /\ words \in Nat /\ rowIds \in Nat /\ granted \in Nat /\ told \in Nat
  /\ asked \in {"PRIVATE", "SHARED"}

(* As long as no request has saved over what another changed since it read *)
(* it, the pages are numbered 1..n: appends that run beside each other and *)
(* beside a reordering never leave a gap or use a number twice             *)
(* (story.service.ts:687-770, 885-922).                                    *)
NumberedInOrder ==
  (story.exists /\ ~disturbed) => {r.number : r \in pages} = 1..Cardinality(pages)

(* Words that fit on a page; a longer one is cut, and is on two of them.   *)
WordsFit ==
  /\ \A t \in FirstTexts : \A w \in Range(Words(t)) : w.len <= MaxChars
  /\ \A len \in EditLens : len <= MaxChars

(* And the pages carry the words of the story's text, each of them once:   *)
(* no continuation is lost, on the pages or in the text                    *)
(* (story.service.ts:696, 771, 917-919).                                   *)
TextOnPages ==
  (story.status = "READY" /\ ~disturbed) =>
     LET ids == UNION {{w.id : w \in Range(Words(r.text))} : r \in pages}
     IN /\ ids = {w.id : w \in Range(Words(story.text))}
        /\ WordsFit => \A i \in ids :
             Cardinality({r \in pages : \E w \in Range(Words(r.text)) : w.id = i}) = 1

(* Whoever saves over whom, an illustration stays on the text it was made  *)
(* from: a page whose text changes loses it (story.service.ts:905-915).    *)
ImageDepictsText == \A r \in pages : r.image \in {<<>>, r.text}

(* The status and the visibility of a story are those that were last       *)
(* saved: no append brings back the visibility that it read, and no        *)
(* creation that is over leaves a story in PROCESSING                      *)
(* (story.service.ts:116-127, 546, 771, 1148).                             *)
StoryAsSaved ==
  ~disturbed => /\ story.visibility = asked
                /\ story.status = "PROCESSING" /\ story.exists =>
                     \E p \in Procs : req[p].op = "create"

(* The other user is told of a share once for each time it was granted:    *)
(* of several requests that found no share, one inserts it and tells him   *)
(* (story.service.ts:1189-1226, story-share.entity.ts:15).                 *)
AnnouncedOnce == told + Cardinality(Telling) = granted
=============================================================================
