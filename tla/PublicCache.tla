----------------------------- MODULE PublicCache -----------------------------
(***************************************************************************)
(* The public lists and author profiles, and the versioned cache in Redis  *)
(* in front of them: public-cache.service.ts, findPublic in                *)
(* story-library.service.ts, getPublicProfile in users.service.ts and the  *)
(* writers that bust the cache after they have saved, or do not.           *)
(*                                                                         *)
(* An answer is put together from several SQL statements, each of which    *)
(* sees the rows of its own moment: no transaction holds them together.    *)
(* Entries are written under the version of the moment of writing and live *)
(* TTL ticks; bust makes all of them unreachable by moving the version.    *)
(* Every Redis command may fail: reads then miss, writes and busts are     *)
(* lost.  One action per await.                                            *)
(***************************************************************************)
EXTENDS Integers, FiniteSets

CONSTANTS
  Stories, Readers, Writers,
  Workloads, \* who asks for what and who writes, for one behaviour each
  TTL,      \* DEFAULT_TTL_MS, in ticks
  MaxFill   \* most ticks from a first statement to the writing of the result

VARIABLES
  workload, \* the workload of this behaviour
  db,      \* the story rows and their author's, as far as they are shown
  version, \* public:cache:version
  cache,   \* the entries
  reader,  \* what each reader holds
  writer,  \* where each writer is
  \* history, read by the properties only
  lapsed,  \* since the version last moved, a bust was lost or not made
  recent,  \* the data of the last TTL + MaxFill ticks, with their age
  answer   \* the answer given in the last step, or <<>>

vars == <<workload, db, version, cache, reader, writer, lapsed, recent, answer>>

(* A removed story is one that no list shows.  Of the pages, their         *)
(* statistics are shown, and of the author the name.                       *)
Visibility == {"PUBLIC", "MEMBERS", "PRIVATE"}
StoryRow == [visibility: Visibility, illustrated: BOOLEAN]
Data == [story: [Stories -> StoryRow], renamed: BOOLEAN]

(* The scopes of findPublic, and the profile, which counts.                *)
Scopes == {"public", "members"}
Keys   == Scopes \cup {"profile"}

ASSUME CacheAssumption ==
  /\ TTL \in Nat \ {0} /\ MaxFill \in Nat
  /\ \A w \in Workloads : /\ w.asks \in [Readers -> SUBSET Keys]
                          /\ w.writes \in [Writers -> SUBSET {"story", "profile", "pages"}]

Visible(scope) == IF scope = "members" THEN {"PUBLIC", "MEMBERS"} ELSE {"PUBLIC"}
Listed(k, d) == {s \in Stories : d.story[s].visibility \in Visible(k)}

(* What each statement finds; the statistics are those of the stories that *)
(* the first one found.                                                    *)
StoriesOf(value) == IF "stories" \in DOMAIN value THEN value["stories"] ELSE {}
Shown(k, value, d) ==
  [stories |-> Listed(k, d),
   total   |-> Cardinality(Listed(k, d)),
   author  |-> d.renamed,
   pages   |-> {<<s, d.story[s].illustrated>> : s \in StoriesOf(value)}]

(* The statements behind an answer: a list without stories asks for neither *)
(* authors nor statistics.                                                 *)
Parts(k, value) ==
  IF k = "profile" THEN {"author", "total"}
  ELSE {"stories", "total"} \cup (IF StoriesOf(value) = {} THEN {} ELSE {"author", "pages"})

(* Mutant: the scope is not part of the key.                               *)
CacheKeyUnscoped(k) == IF k \in Scopes THEN "public" ELSE k
CacheKey(k) == k

(* What a reader holds: value maps the statements that have run to what    *)
(* they found; age is the ticks since the first and read the version at    *)
(* that time, which the properties use.                                    *)
Idle == [pc |-> "idle", key |-> "public", version |-> 0, value |-> <<>>, read |-> 0, age |-> 0]
Filling(m) == DOMAIN m.value # {}
FirstStatement(k) == IF k = "profile" THEN "author" ELSE "stories"

At(p, pc)       == reader[p].pc = pc
Resume(p, m)    == reader' = [reader EXCEPT ![p] = m]
Silent          == answer' = <<>>
Same            == UNCHANGED <<workload, db, version, writer, lapsed, recent>>

(* The entry a reader finds, under the version that it has read.           *)
Found(m) == {e \in cache : e.version = m.version /\ e.key = CacheKey(m.key)}
-----------------------------------------------------------------------------
(* get: the version, then the entry.  If Redis fails, it is a miss.        *)
ReadVersion(p) ==
  /\ At(p, "idle")
  /\ \E k \in workload.asks[p] :
       \/ Resume(p, [Idle EXCEPT !.pc = "get", !.key = k, !.version = version])
       \/ Resume(p, [Idle EXCEPT !.pc = FirstStatement(k), !.key = k])
  /\ UNCHANGED cache /\ Silent /\ Same

Hit(p) ==
  /\ At(p, "get")
  /\ \E e \in Found(reader[p]) : answer' = <<reader[p].key, e.value>>
  /\ Resume(p, Idle)
  /\ UNCHANGED cache /\ Same

Miss(p) ==
  /\ At(p, "get")
  /\ Resume(p, [Idle EXCEPT !.pc = FirstStatement(reader[p].key), !.key = reader[p].key])
  /\ UNCHANGED cache /\ Silent /\ Same

(* One statement.                                                          *)
With(value, part, found) ==
  [q \in DOMAIN value \cup {part} |-> IF q = part THEN found ELSE value[q]]
Run(p, part, next) ==
  LET m == reader[p] IN
  /\ At(p, part)
  /\ Resume(p, [m EXCEPT !.pc = next,
                         !.value = With(m.value, part, Shown(m.key, m.value, db)[part]),
                         !.read = IF Filling(m) THEN @ ELSE version])
  /\ UNCHANGED cache /\ Silent /\ Same

(* getManyAndCount is two statements, count is one; then the authors and   *)
(* the statistics of attachSummaries, which returns at once if it is given *)
(* no stories.  The profile has its user first.                            *)
FindStories(p) == Run(p, "stories", "total")
CountStories(p) ==
  Run(p, "total", IF "author" \in Parts(reader[p].key, reader[p].value) \ DOMAIN reader[p].value
                  THEN "author" ELSE "version")
FindAuthor(p) == Run(p, "author", IF reader[p].key = "profile" THEN "total" ELSE "pages")
CountPages(p) == Run(p, "pages", "version")

(* set: the version is read again, then the entry is written.  A reader is *)
(* answered even if Redis fails.                                           *)
ReadVersionAgain(p) ==
  /\ At(p, "version")
  /\ Resume(p, [reader[p] EXCEPT !.pc = "set", !.version = version])
  /\ UNCHANGED cache /\ Silent /\ Same

Entry(m) == [version |-> m.version, key |-> CacheKey(m.key), value |-> m.value,
             read |-> m.read, ttl |-> TTL]

SetEntry(p) ==
  LET m == reader[p] IN
  /\ At(p, "set")
  /\ cache' = (cache \ Found(m)) \cup {Entry(m)}
  /\ answer' = <<m.key, m.value>>
  /\ Resume(p, Idle) /\ Same

SetFails(p) ==
  /\ reader[p].pc \in {"version", "set"}
  /\ answer' = <<reader[p].key, reader[p].value>>
  /\ Resume(p, Idle)
  /\ UNCHANGED cache /\ Same
-----------------------------------------------------------------------------
(* Mutant: the writer does not bust.                                       *)
AfterSaveNothing == "done"
(* create, update, updateVisibility, append and remove bust the cache once *)
(* they have saved, and so do the worker and updateProfile.                *)
AfterSave == "bust"

Changed(d) == db' = d /\ recent' = recent \cup {<<d, 0>>}

May(p, save) == writer[p] = "idle" /\ save \in workload.writes[p]

SaveStory(p) ==
  /\ May(p, "story")
  /\ \E s \in Stories :
       \/ \E v \in Visibility \ {db.story[s].visibility} :
            Changed([db EXCEPT !.story[s].visibility = v])
       \/ Changed([db EXCEPT !.story[s].illustrated = ~@])
  /\ writer' = [writer EXCEPT ![p] = AfterSave]
  /\ Silent /\ UNCHANGED <<workload, version, cache, reader, lapsed>>

SaveProfile(p) ==
  /\ May(p, "profile")
  /\ Changed([db EXCEPT !.renamed = ~@])
  /\ writer' = [writer EXCEPT ![p] = AfterSave]
  /\ Silent /\ UNCHANGED <<workload, version, cache, reader, lapsed>>

(* incrby; a failure is only logged.                                       *)
Bust(p) ==
  /\ writer[p] = "bust"
  /\ \/ version' = version + 1 /\ lapsed' = FALSE
     \/ version' = version /\ lapsed' = TRUE
  /\ writer' = [writer EXCEPT ![p] = "done"]
  /\ Silent /\ UNCHANGED <<workload, db, cache, reader, recent>>

(* updatePage and deletePage change the statistics and do not bust.        *)
EditPages(p) ==
  /\ May(p, "pages")
  /\ \E s \in Stories : Changed([db EXCEPT !.story[s].illustrated = ~@])
  /\ lapsed' = TRUE
  /\ writer' = [writer EXCEPT ![p] = "done"]
  /\ Silent /\ UNCHANGED <<workload, version, cache, reader>>
-----------------------------------------------------------------------------
(* Mutant: expired entries are kept.                                       *)
LiveAlways(e) == TRUE
Live(e) == e.ttl > 0

(* Mutant: entries are written without a time to live.                     *)
OlderNever(e) == e
Older(e) == [e EXCEPT !.ttl = @ - 1]

(* One tick: entries expire; no fill takes longer than MaxFill.            *)
Tick ==
  /\ \A p \in Readers : Filling(reader[p]) => reader[p].age < MaxFill
  /\ cache' = {Older(e) : e \in {x \in cache : Live(x)}}
  /\ reader' = [p \in Readers |->
                  IF Filling(reader[p]) THEN [reader[p] EXCEPT !.age = @ + 1] ELSE reader[p]]
  /\ recent' = {<<db, 0>>} \cup {<<r[1], r[2] + 1>> : r \in {s \in recent : s[2] < TTL + MaxFill}}
  /\ Silent /\ UNCHANGED <<workload, db, version, writer, lapsed>>
-----------------------------------------------------------------------------
Init ==
  /\ workload \in Workloads
  /\ db = [story |-> [s \in Stories |-> [visibility |-> "PRIVATE", illustrated |-> FALSE]],
           renamed |-> FALSE]
  /\ version = 0 /\ cache = {} /\ lapsed = FALSE /\ answer = <<>>
  /\ reader = [p \in Readers |-> Idle]
  /\ writer = [p \in Writers |-> "idle"]
  /\ recent = {<<db, 0>>}

Reader(p) ==
  \/ Hit(p) \/ Miss(p)
  \/ FindStories(p) \/ CountStories(p) \/ FindAuthor(p) \/ CountPages(p)
  \/ ReadVersionAgain(p) \/ SetEntry(p) \/ SetFails(p)

Next ==
  \/ \E p \in Readers : ReadVersion(p) \/ Reader(p)
  \/ \E p \in Writers : SaveStory(p) \/ SaveProfile(p) \/ Bust(p) \/ EditPages(p)
  \/ Tick

(* Requests that have begun go on, writers bust what they have saved, and  *)
(* time passes.                                                            *)
Fairness ==
  /\ \A p \in Readers : WF_vars(Reader(p))
  /\ \A p \in Writers : WF_vars(Bust(p))
  /\ WF_vars(Tick)

Spec == Init /\ [][Next]_vars /\ Fairness
-----------------------------------------------------------------------------
TypeOK ==
  /\ workload \in Workloads /\ db \in Data /\ version \in Nat /\ lapsed \in BOOLEAN
  /\ writer \in [Writers -> {"idle", "bust", "done"}]
  /\ \A p \in Readers :
       /\ reader[p].pc \in {"idle", "get", "stories", "total", "author", "pages", "version", "set"}
       /\ reader[p].key \in Keys
       /\ reader[p].version \in 0..version /\ reader[p].read \in 0..version
       /\ reader[p].age \in 0..MaxFill
  /\ \A e \in cache :
       /\ e.version \in 0..version /\ e.read \in 0..e.version
       /\ e.key \in Keys /\ e.ttl \in 0..TTL

(* Every part of an entry shows the data as they are.                      *)
Fresh(k, value) == \A q \in DOMAIN value : value[q] = Shown(k, value, db)[q]

(* Once every writer has busted what it saved, whatever was queried since  *)
(* the version last moved shows the data as they are, although its         *)
(* statements ran at different moments: an older answer can be served only *)
(* if its first statement ran before the bust and its write after it       *)
(* (public-cache.service.ts:13-48), or if a bust was lost or not made.     *)
FreshAfterBust ==
  (~lapsed /\ \A p \in Writers : writer[p] # "bust") =>
    \A e \in cache : (e.version = version /\ e.read = version) => Fresh(e.key, e.value)

(* Every part of an answer shows data of the last TTL + MaxFill ticks, as  *)
(* the scope of its reader sees them - not all parts those of one moment,  *)
(* since the statements behind them are not in a transaction - and the     *)
(* statistics are those of the stories it lists: a guest is never served a *)
(* list, a total or statistics that were made for members                  *)
(* (story-library.service.ts:95-140, 267-340, users.service.ts:273-311).   *)
Promise == INSTANCE StaleView
             WITH data <- db, Window <- TTL + MaxFill
AnswersRecent == Promise!Spec

(* Lost and missing busts heal: each writer writes once, and there is a    *)
(* time from which every entry that can be served shows the data as they   *)
(* are (public-cache.service.ts:5, 39-43).                                 *)
Heals ==
  <>[](\A e \in cache : e.version = version => Fresh(e.key, e.value))
=============================================================================
