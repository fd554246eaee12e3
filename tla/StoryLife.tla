------------------------------ MODULE StoryLife ------------------------------
(***************************************************************************)
(* One story: its context and visibility through updates that load it and  *)
(* save it later, its audience - the members that keep it as a favorite or *)
(* follow its progress, who pass the access check, in two reads, and are   *)
(* entered after it (story-favorite.service.ts, story-progress.gateway.ts) *)
(* - and, each in one step, its text cut into pages and the prompts built  *)
(* from it: StoryPages and Illustration have their interleavings, here is  *)
(* what they compute.                                                      *)
(***************************************************************************)
EXTENDS StoryAccess, StoryContext, StorySections, ScenePrompt, StoryOptions

CONSTANTS Workloads,   \* sets of operations that are used together
          NewStories,  \* contexts and visibilities given by create, by workload
          Updaters,    \* requests that may update the story at the same time
          Updates,     \* what they may give, by workload and updater
          Overrides,   \* contexts given by a regeneration
          StoryTexts,  \* texts given by create: lengths and sentences of their words
          Scenes       \* pages to illustrate

ASSUME LifeAssumption ==
  /\ \A w \in Workloads : \A new \in NewStories[w] :
       IsRequest(new.context, Fields) /\ new.visibility \in Visibility
  /\ \A w \in Workloads, p \in Updaters : \A dto \in Updates[w][p] :
       IsRequest(dto.context, Fields) /\ dto.visibility \in Visibility \cup {None}
  /\ \A o \in Overrides : IsRequest(o, Overridable)
  /\ StoryTexts \subseteq Seq(Seq([len: Nat \ {0}, stop: BOOLEAN]))
  /\ Scenes \subseteq Scene

VARIABLES
  row,         \* context columns of the story; None before it is created
  visibility,
  shares,      \* accounts the story is shared with
  asked,       \* members whose share is being looked up, for "favorite" and "room"
  granted,     \* members whose access was checked, likewise
  favorites,   \* members that keep the story
  room,        \* members whose socket is in the story's room
  text,        \* the text last segmented, and its pages
  pages,
  scene,       \* the page last illustrated, and its prompt
  prompt,
  request,     \* the update each of Updaters is handling, or None
  workload,
  \* history
  overtaken,   \* columns that others have changed since the updater loaded the story
  orderly,     \* every update named both fields of a pair, or neither, and
               \* none was saved while another was under way
  everReaders, \* members that could read the story at some time
  wasShared,   \* the story has been SHARED
  invited      \* members it was shared with then or later

lifeVars == <<row, visibility, shares, asked, granted, favorites, room, text, pages, scene,
              prompt, request, workload, overtaken, orderly, everReaders, wasShared, invited>>
vars == <<lifeVars, optionVars>>
contextSame  == UNCHANGED <<row, request, overtaken, orderly, workload>>
accessSame   == UNCHANGED <<visibility, shares, everReaders, wasShared, invited>>
audienceSame == UNCHANGED <<asked, granted, favorites, room>>
textSame     == UNCHANGED <<text, pages, scene, prompt>>

Uses == {"favorite", "room"}

NoPrompt == [lines |-> <<>>, length |-> 0]

Init ==
  /\ workload \in Workloads
  /\ row = None
  /\ visibility = "PRIVATE"
  /\ shares = {}
  /\ asked = [use \in Uses |-> {}] /\ granted = asked
  /\ favorites = {} /\ room = {}
  /\ text = <<>> /\ pages = <<>>
  /\ scene = None /\ prompt = NoPrompt
  /\ request = [p \in Updaters |-> None]
  /\ overtaken = [p \in Updaters |-> {}]
  /\ orderly = TRUE
  /\ everReaders = {} /\ wasShared = FALSE /\ invited = {}
  /\ OptionsInit

May(op) == op \in workload

Readers(v, accounts) == {u \in Members : CanAccess(u, v, accounts)}

(* The history of who could read the story.                                *)
Remember ==
  /\ everReaders' = everReaders \cup Readers(visibility', shares')
  /\ wasShared' = (wasShared \/ visibility' = "SHARED")
  /\ invited' = invited \cup (IF wasShared' THEN shares' ELSE {})

-----------------------------------------------------------------------------
(* create, createFromPdf: refused contexts create nothing.                 *)
Create ==
  /\ May("create") /\ row = None
  /\ \E new \in NewStories[workload] :
       /\ ~Refused(new.context)
       /\ row' = CreatedRow(new.context)
       /\ visibility' = new.visibility
  /\ UNCHANGED <<shares, request, workload, overtaken, orderly>> /\ Remember
  /\ audienceSame /\ textSame

(* The fields whose rules Refused checks together.                         *)
Pairs == {{"era", "year"}, {"civilization", "customCivilization"}, {"theme", "customTheme"}}

(* update and updateVisibility, by the owner, and every other service that *)
(* saves the story it has loaded: they name a context, a visibility, or    *)
(* nothing of what is modelled here.                                       *)
Load(p) ==
  /\ row # None /\ request[p] = None
  /\ \E dto \in Updates[workload][p] :
       request' = [request EXCEPT ![p] =
                    [dto |-> dto, story |-> [row |-> row, visibility |-> visibility]]]
  /\ UNCHANGED <<row, workload, overtaken, orderly>>
  /\ accessSame /\ audienceSame /\ textSame

Rejected(dto) == HasStoryContext(dto.context) /\ Refused(dto.context)

Reject(p) ==
  /\ request[p] # None /\ Rejected(request[p].dto)
  /\ request' = [request EXCEPT ![p] = None]
  /\ overtaken' = [overtaken EXCEPT ![p] = {}]
  /\ UNCHANGED <<row, workload, orderly>>
  /\ accessSame /\ audienceSame /\ textSame

NamedIn(dto) ==
  DOMAIN dto.context \cup (IF dto.visibility = None THEN {} ELSE {"visibility"})

Changed ==
  {f \in Fields : row'[f] # row[f]}
  \cup (IF visibility' = visibility THEN {} ELSE {"visibility"})

(* What is assigned to the loaded story is saved with the rest of it.      *)
Save(p) ==
  /\ request[p] # None /\ ~Rejected(request[p].dto)
  /\ LET dto   == request[p].dto
         story == request[p].story
     IN /\ row' = UpdatedRow(story.row, dto.context)
        /\ visibility' = IF dto.visibility = None THEN story.visibility ELSE dto.visibility
        /\ overtaken' = [q \in Updaters |-> IF q = p \/ request[q] = None THEN {}
                                            ELSE overtaken[q] \cup Changed]
        /\ orderly' = (/\ orderly
                       /\ \A g \in Pairs : g \cap DOMAIN dto.context \in {{}, g}
                       /\ \A q \in Updaters \ {p} : request[q] = None)
  /\ request' = [request EXCEPT ![p] = None]
  /\ UNCHANGED <<shares, workload>> /\ Remember /\ audienceSame /\ textSame

ShareStory(u) ==
  /\ May("share") /\ row # None
  /\ Shareable(u, shares)
  /\ shares' = shares \cup {u}
  /\ UNCHANGED visibility /\ Remember /\ contextSame /\ audienceSame /\ textSame

RemoveShare(u) ==
  /\ May("share") /\ row # None
  /\ u \in shares
  /\ shares' = shares \ {u}
  /\ UNCHANGED visibility /\ Remember /\ contextSame /\ audienceSame /\ textSame

-----------------------------------------------------------------------------
(* The audience.                                                           *)

(* handleConnection: a connection without a valid token is closed.         *)
Sockets == Members

(* requireAccess and canAccessStory, awaited by the two services below:    *)
(* the story is read, and if it is SHARED, the share after it.             *)
Ask(u, use) ==
  /\ May(use) /\ row # None
  /\ \/ /\ ByStory(u, visibility)
        /\ granted' = [granted EXCEPT ![use] = @ \cup {u}]
        /\ UNCHANGED asked
     \/ /\ ~ByStory(u, visibility) /\ visibility = "SHARED"
        /\ asked' = [asked EXCEPT ![use] = @ \cup {u}]
        /\ UNCHANGED granted
  /\ UNCHANGED <<favorites, room>> /\ contextSame /\ accessSame /\ textSame

LookUpShare(u, use) ==
  /\ u \in asked[use]
  /\ asked' = [asked EXCEPT ![use] = @ \ {u}]
  /\ granted' = [granted EXCEPT ![use] = @ \cup ({u} \cap shares)]
  /\ UNCHANGED <<favorites, room>> /\ contextSame /\ accessSame /\ textSame

(* Mutant: a socket joins the room of any story.                           *)
AskJoinUnchecked(u) ==
  /\ May("room") /\ row # None
  /\ granted' = [granted EXCEPT !["room"] = @ \cup {u}]
  /\ UNCHANGED <<asked, favorites, room>> /\ contextSame /\ accessSame /\ textSame
AskJoin(u)     == Ask(u, "room")
AskFavorite(u) == Ask(u, "favorite")

(* add: the unique key lets a second row of the same member fail.          *)
AddFavorite(u) ==
  /\ u \in granted["favorite"]
  /\ favorites' = favorites \cup {u}
  /\ granted' = [granted EXCEPT !["favorite"] = @ \ {u}]
  /\ UNCHANGED <<asked, room>> /\ contextSame /\ accessSame /\ textSame

(* remove: asks nothing.                                                   *)
RemoveFavorite(u) ==
  /\ u \in favorites
  /\ favorites' = favorites \ {u}
  /\ UNCHANGED <<asked, granted, room>> /\ contextSame /\ accessSame /\ textSame

(* handleJoinStory after its check.                                        *)
JoinStory(u) ==
  /\ u \in granted["room"]
  /\ room' = room \cup {u}
  /\ granted' = [granted EXCEPT !["room"] = @ \ {u}]
  /\ UNCHANGED <<asked, favorites>> /\ contextSame /\ accessSame /\ textSame

(* handleLeaveStory, also when a join is under way; a disconnection.       *)
LeaveStory(u) ==
  /\ u \in room
  /\ room' = room \ {u}
  /\ UNCHANGED <<asked, granted, favorites>> /\ contextSame /\ accessSame /\ textSame

-----------------------------------------------------------------------------
(* The words of a text are told apart by their place in it.                *)
NumberedText(shape) ==
  [i \in DOMAIN shape |->
    [j \in DOMAIN shape[i] |->
      [id |-> i * Len(Words(shape)) + j, len |-> shape[i][j].len, stop |-> shape[i][j].stop]]]

(* parse: the title and the language it also finds are left out.           *)
Parse ==
  /\ May("parse") /\ text = <<>>
  /\ \E shape \in StoryTexts : text' = NumberedText(shape)
  /\ pages' = Sections(text')
  /\ UNCHANGED <<scene, prompt>> /\ contextSame /\ accessSame /\ audienceSame

(* buildImagePrompt, buildCoverPrompt.                                     *)
Illustrate ==
  /\ May("illustrate") /\ scene = None
  /\ scene' \in [page: Scenes, cover: BOOLEAN]
  /\ prompt' = BuildPrompt(scene'.page, scene'.cover)
  /\ UNCHANGED <<text, pages>> /\ contextSame /\ accessSame /\ audienceSame

StoryNext ==
  \/ Create \/ Parse \/ Illustrate
  \/ \E p \in Updaters : Load(p) \/ Reject(p) \/ Save(p)
  \/ \E u \in Members :
       \/ ShareStory(u) \/ RemoveShare(u)
       \/ AskFavorite(u) \/ AddFavorite(u) \/ RemoveFavorite(u)
       \/ \E use \in Uses : LookUpShare(u, use)
  \/ \E u \in Sockets : AskJoin(u) \/ JoinStory(u) \/ LeaveStory(u)

Next ==
  \/ StoryNext /\ UNCHANGED optionVars
  \/ May("options") /\ OptionsNext /\ UNCHANGED lifeVars

Spec == Init /\ [][Next]_vars

-----------------------------------------------------------------------------
(* No column holds a value that create could not have stored: in           *)
(* particular no text is blank.                                            *)
TypeOK ==
  /\ row \in ContextRow \cup {None}
  /\ visibility \in Visibility
  /\ shares \subseteq Members \ {Owner}
  /\ asked \in [Uses -> SUBSET Members] /\ granted \in [Uses -> SUBSET Members]
  /\ \A p \in Updaters : request[p] # None =>
       /\ request[p].dto \in Updates[workload][p]
       /\ request[p].story \in [row: ContextRow, visibility: Visibility]

(* The rule of canAccessStory and the lists that restate it agree for      *)
(* every visibility and every set of shares, also those left over from an  *)
(* earlier visibility: a member's list of everything shows the story just  *)
(* when it can be read, and every other list, and the shares, only then.   *)
(* (findFavorites is not among them, see AudienceHadAccess.)               *)
ListedIffReadable ==
  \A u \in Viewers :
    LET readable == CanAccess(u, visibility, shares) IN
    /\ u # Guest => (FindAll(u, visibility, shares) <=> readable)
    /\ \/ FindMyStories(u) \/ FindOwned(u) \/ FindRecent(u) \/ FindPublic(u, visibility)
       \/ FindSharedStories(u, visibility, shares) \/ FindShared(u, visibility, shares)
       \/ SharesShown(u, shares) # {}
       => readable

(* Favorites are listed, and progress is sent, without another check: to   *)
(* members that can no longer read the story.  A check itself sees two     *)
(* moments, the story's and the share's, and between them the owner may    *)
(* close the story and share it: so it may let in a member that never      *)
(* could read the story, but then one it was shared with, after it had     *)
(* been SHARED.  Nobody else, however the owner's changes and the saves of *)
(* stale copies fall between the two reads and the use of what they found. *)
AudienceHadAccess ==
  /\ \A u \in Members : FindFavorites(u, favorites) \/ Notified(u, room) =>
       u \in everReaders \cup invited
  /\ UNION Range(granted) \subseteq everReaders \cup invited

(* The rules that normalize checks between two fields of a request.        *)
RowRules ==
  /\ row.era = "UNSPECIFIED" => row.year = None
  /\ (row.civilization = "custom") <=> (row.customCivilization # None)
  /\ (row.theme = "CUSTOM") <=> (row.customTheme # None)

(* They hold of the row too, as long as updates name both fields of a pair *)
(* or neither and do not overlap.  (An update that names one of them       *)
(* breaks them; of two that overlap, each writes the columns in which its  *)
(* copy differs from the row that save reads again: one may write one      *)
(* field of a pair, the other the other.)                                  *)
RulesKept == row # None /\ orderly => RowRules

(* A save of a story changes what its request names - normalized or not,   *)
(* the columns a request is silent about are preserved - and beside that   *)
(* only columns that other saves have changed since this one loaded its    *)
(* copy: these it sets back.                                               *)
UntouchedKept ==
  [][\A p \in Updaters : Save(p) =>
       Changed \subseteq NamedIn(request[p].dto) \cup overtaken[p]]_vars

(* Whatever a row has come to hold, and whatever a regeneration overrides, *)
(* the prompt does not contradict itself: a year comes with an era that    *)
(* counts years, a custom text only with the choice that calls for it, and *)
(* the line that names a civilization and its guidance name the same one.  *)
PromptConsistent ==
  row # None /\ (\A p \in Updaters : request[p] = None) =>
    \A o \in Overrides :
      LET s == Resolved(row, o)
          c == ContextOf(s)
          periods == {c.era} \cup (IF c.guidance = None THEN {} ELSE {c.guidance.period})
      IN /\ \A era \in {"UNSPECIFIED", "MODERN"}, y \in Years \cup {None} :
              <<era, y>> \notin periods
         /\ (c.guidance = None) <=> (c.civilization = None)
         /\ c.guidance # None => c.guidance.about = c.civilization
         /\ c.themeGuidance # None => c.themeGuidance = c.theme
         /\ c.civilization = <<"custom", "text">> => s.civilization = "custom"

-----------------------------------------------------------------------------
(* Every word of the text is on a page, in order: none is lost, doubled or *)
(* moved, and only one that is longer than a page is split between pages.  *)
AllWordsKept == WordsKept(text, pages)

(* No page is longer than a page; the last may have taken in a rest, and   *)
(* no page but the only one is as short as a rest.  A page within a        *)
(* paragraph ends with a sentence, where there is one.                     *)
AllPagesWellCut ==
  PagesSized(pages) /\ LastPageFull(pages) /\ BrokenAtSentence(text, pages)

(* A prompt is never refused for its length, nor is a line of it ever cut: *)
(* compaction alone brings it under the limit, so the truncation after it  *)
(* never does anything.                                                    *)
PromptWhole ==
  scene # None =>
    LET full == LinesOf(IF scene.cover THEN CoverPromptSections(scene.page)
                        ELSE ImagePromptSections(scene.page))
    IN ValidPrompt(prompt) /\ \A i \in DOMAIN prompt.lines : prompt.lines[i] \in Range(full)

(* A line of the scene, its subject or its place is left out only when it  *)
(* does not fit beside the other such lines: nothing less is kept instead. *)
Main(l) == l.kind \in {"scene", "subject", "place"}
EssentialKept ==
  scene # None =>
    LET full == LinesOf(IF scene.cover THEN CoverPromptSections(scene.page)
                        ELSE ImagePromptSections(scene.page))
        kept == prompt.lines
        used == Total[[i \in DOMAIN kept |-> IF Main(kept[i]) THEN kept[i].len + 1 ELSE 0]]
    IN \A l \in Range(full) \ Range(kept) : Main(l) => used + l.len > MaxPrompt
=============================================================================
