-------------------------- MODULE PublicCacheProofs --------------------------
(***************************************************************************)
(* For any number of stories, readers and writers, any TTL and any bound   *)
(* on the length of a fill: what the cache serves once the writers have    *)
(* busted it, and that every answer is recent and of its reader's scope.   *)
(***************************************************************************)
EXTENDS PublicCache, TLAPS

(* The statements that have run say where a reader is, and the other way   *)
(* round.                                                                  *)
Progress(m) ==
  LET ran == DOMAIN m.value IN
  /\ m.pc \in {"idle", "get", "stories"} => ran = {}
  /\ m.pc = "total" => ran = IF m.key = "profile" THEN {"author"} ELSE {"stories"}
  /\ m.pc = "author" =>
       IF m.key = "profile" THEN ran = {} ELSE ran = {"stories", "total"} /\ StoriesOf(m.value) # {}
  /\ m.pc = "pages" => ran = {"stories", "total", "author"} /\ StoriesOf(m.value) # {}
  /\ m.pc \in {"stories", "pages"} => m.key # "profile"
  /\ m.pc \in {"version", "set"} => ran = Parts(m.key, m.value)

IsReader(m) == m = [pc |-> m.pc, key |-> m.key, version |-> m.version, value |-> m.value,
                    read |-> m.read, age |-> m.age]
IsEntry(e) == e = [version |-> e.version, key |-> e.key, value |-> e.value, read |-> e.read,
                   ttl |-> e.ttl]

Steps == {"idle", "get", "stories", "total", "author", "pages", "version", "set"}

(* What a reader may hold at any time.                                     *)
Holding(m) ==
  /\ IsReader(m) /\ Progress(m)
  /\ m.pc \in Steps /\ m.key \in Keys
  /\ m.version \in 0..version /\ m.read \in 0..version /\ m.age \in 0..MaxFill
  /\ m.pc = "set" => m.read <= m.version

Stored(e) ==
  /\ IsEntry(e) /\ DOMAIN e.value = Parts(e.key, e.value)
  /\ e.version \in 0..version /\ e.read \in 0..e.version /\ e.key \in Keys /\ e.ttl \in 0..TTL

Typed ==
  /\ workload \in Workloads /\ db \in Data /\ version \in Nat /\ lapsed \in BOOLEAN
  /\ writer \in [Writers -> {"idle", "bust", "done"}]
  /\ reader = [p \in Readers |-> reader[p]]
  /\ \A p \in Readers : Holding(reader[p])
  /\ \A e \in cache : Stored(e)

(* The strengthening of FreshAfterBust: also what a reader holds, if its   *)
(* first statement ran under the current version, shows the data as they   *)
(* are.                                                                    *)
Exact == ~lapsed /\ \A p \in Writers : writer[p] # "bust"
HeldFresh ==
  Exact => \A p \in Readers : reader[p].read = version => Fresh(reader[p].key, reader[p].value)

(* What is held or stored shows recent data, each part those of a moment   *)
(* of its own; an entry has at most as long to live as its data may still  *)
(* be shown.                                                               *)
PartRecent(k, value, q, age) ==
  \E d \in Data, a \in Nat : <<d, a>> \in recent /\ a <= age /\ value[q] = Shown(k, value, d)[q]
Recent(k, value, age) == \A q \in DOMAIN value : PartRecent(k, value, q, age)
AllRecent ==
  /\ recent \subseteq Data \X (0..(TTL + MaxFill)) /\ <<db, 0>> \in recent
  /\ \A p \in Readers : Recent(reader[p].key, reader[p].value, reader[p].age)
  /\ \A e \in cache : Recent(e.key, e.value, TTL + MaxFill - e.ttl)

Inv == Typed /\ FreshAfterBust /\ HeldFresh /\ AllRecent

-----------------------------------------------------------------------------
(* The first state has no entries and nobody holds anything.               *)
LEMMA IdleHolds ==
  ASSUME version \in Nat
  PROVE  Holding(Idle) /\ DOMAIN Idle.value = {} /\ Idle.read = 0 /\ Idle.age = 0
BY CacheAssumption DEF Holding, Idle, IsReader, Progress, Steps, Keys, Scopes

LEMMA InitInv == Init => Inv
<1> SUFFICES ASSUME Init PROVE Inv
  OBVIOUS
<1> USE CacheAssumption
<1>1. version \in Nat /\ Holding(Idle) /\ DOMAIN Idle.value = {}
  BY IdleHolds DEF Init
<1>2. db \in Data
  BY DEF Init, Data, StoryRow, Visibility
<1>3. \A p \in Readers : reader[p] = Idle
  BY DEF Init
<1>4. Typed
  <2>1. reader = [p \in Readers |-> reader[p]] /\ writer \in [Writers -> {"idle", "bust", "done"}]
    BY DEF Init
  <2> QED BY <1>1, <1>2, <1>3, <2>1 DEF Init, Typed
<1>5. FreshAfterBust /\ HeldFresh
  BY <1>1, <1>3 DEF Init, FreshAfterBust, HeldFresh, Fresh
<1>6. AllRecent
  <2>1. 0 \in 0..(TTL + MaxFill)
    OBVIOUS
  <2>2. recent = {<<db, 0>>} /\ cache = {}
    BY DEF Init
  <2>3. \A p \in Readers : Recent(reader[p].key, reader[p].value, reader[p].age)
    BY <1>1, <1>3 DEF Recent
  <2> QED BY <1>2, <2>1, <2>2, <2>3 DEF AllRecent
<1> QED BY <1>4, <1>5, <1>6 DEF Inv

-----------------------------------------------------------------------------
(* A statement moves its reader on.  The part that the reader then knows   *)
(* more shows the data of that moment, and what the earlier statements     *)
(* found is kept and means what it did.                                    *)
Learns(p, m, part) ==
  /\ part = "stories" => ~Filling(reader[p])
  /\ m.value = With(reader[p].value, part, Shown(reader[p].key, reader[p].value, db)[part])
  /\ m.key = reader[p].key /\ m.age = reader[p].age /\ m.version = reader[p].version
  /\ m.read = IF Filling(reader[p]) THEN reader[p].read ELSE version

LEMMA LearnsShows ==
  ASSUME NEW p \in Readers, NEW m, NEW part \in {"stories", "total", "author", "pages"},
         Learns(p, m, part)
  PROVE  /\ DOMAIN m.value = DOMAIN reader[p].value \cup {part}
         /\ part # "stories" => StoriesOf(m.value) = StoriesOf(reader[p].value)
         /\ m.value[part] = Shown(m.key, m.value, db)[part]
         /\ \A q \in DOMAIN reader[p].value \ {part} :
              /\ m.value[q] = reader[p].value[q]
              /\ \A d : Shown(m.key, m.value, d)[q] = Shown(m.key, reader[p].value, d)[q]
<1> DEFINE v == reader[p].value
<1>1. /\ m.value = With(v, part, Shown(m.key, v, db)[part])
      /\ part = "stories" => DOMAIN v = {}
  BY DEF Learns, Filling
<1>2. DOMAIN m.value = DOMAIN v \cup {part}
  BY <1>1 DEF With
<1>3. m.value[part] = Shown(m.key, v, db)[part] /\ \A q \in DOMAIN v \ {part} : m.value[q] = v[q]
  BY <1>1 DEF With
<1>4. CASE part = "stories"
  <2>1. Shown(m.key, m.value, db)["stories"] = Shown(m.key, v, db)["stories"]
    BY DEF Shown
  <2> QED BY <1>1, <1>2, <1>3, <1>4, <2>1
<1>5. CASE part # "stories"
  <2>1. StoriesOf(m.value) = StoriesOf(v)
    BY <1>2, <1>3, <1>5 DEF StoriesOf
  <2>2. \A d : Shown(m.key, m.value, d) = Shown(m.key, v, d)
    BY <2>1 DEF Shown
  <2> QED BY <1>2, <1>3, <2>1, <2>2
<1> QED BY <1>4, <1>5

LEMMA RunLearns ==
  ASSUME Inv, NEW p \in Readers, NEW part \in {"stories", "total", "author", "pages"},
         NEW next \in Steps, Run(p, part, next)
  PROVE  /\ IsReader(reader'[p]) /\ Learns(p, reader'[p], part)
         /\ reader[p].pc = part /\ reader'[p].pc = next
<1>1. Holding(reader[p]) /\ reader = [q \in Readers |-> reader[q]]
  BY DEF Inv, Typed
<1>2. reader'[p] = [reader[p] EXCEPT !.pc = next,
                      !.value = With(reader[p].value, part, Shown(reader[p].key, reader[p].value, db)[part]),
                      !.read = IF Filling(reader[p]) THEN reader[p].read ELSE version]
  BY <1>1 DEF Run, Resume
<1>3. reader'[p] = [pc |-> next, key |-> reader[p].key, version |-> reader[p].version,
                    value |-> With(reader[p].value, part, Shown(reader[p].key, reader[p].value, db)[part]),
                    read |-> IF Filling(reader[p]) THEN reader[p].read ELSE version,
                    age |-> reader[p].age]
  BY <1>1, <1>2 DEF Holding, IsReader
<1>4. part = "stories" => ~Filling(reader[p])
  BY <1>1 DEF Run, At, Holding, Progress, Filling
<1> QED BY <1>3, <1>4 DEF IsReader, Learns, Run, At

(* The four statements: each reader goes through them in the order of its  *)
(* key.                                                                    *)
LEMMA StatementHolds ==
  ASSUME Inv, NEW p \in Readers, FindStories(p) \/ CountStories(p) \/ FindAuthor(p) \/ CountPages(p)
  PROVE  Holding(reader'[p]) /\ \E part \in {"stories", "total", "author", "pages"} : Learns(p, reader'[p], part)
<1> USE CacheAssumption
<1> DEFINE m == reader[p]  n == reader'[p]
<1>1. Holding(m) /\ version \in Nat
  BY DEF Inv, Typed
<1>2. ASSUME NEW part \in {"stories", "total", "author", "pages"}, Learns(p, n, part)
      PROVE  /\ DOMAIN n.value = DOMAIN m.value \cup {part}
             /\ part # "stories" => StoriesOf(n.value) = StoriesOf(m.value)
             /\ n.key \in Keys /\ n.version \in 0..version /\ n.read \in 0..version /\ n.age \in 0..MaxFill
  <2>3. DOMAIN n.value = DOMAIN m.value \cup {part}
        /\ (part # "stories" => StoriesOf(n.value) = StoriesOf(m.value))
    BY <1>2, LearnsShows
  <2> QED BY <1>1, <1>2, <2>3 DEF Learns, Holding
<1>3. CASE FindStories(p)
  <2>1. IsReader(n) /\ Learns(p, n, "stories") /\ m.pc = "stories" /\ n.pc = "total"
    BY <1>3, RunLearns DEF FindStories, Steps
  <2>2. m.key # "profile" /\ DOMAIN m.value = {}
    BY <1>1, <2>1 DEF Holding, Progress
  <2>3. n.key # "profile" /\ DOMAIN n.value = {"stories"}
    BY <1>2, <2>1, <2>2 DEF Learns
  <2>4. Progress(n)
    BY <2>1, <2>3 DEF Progress
  <2> QED BY <1>2, <2>1, <2>4 DEF Holding, Steps
<1>4. CASE CountStories(p)
  <2> DEFINE next == IF "author" \in Parts(m.key, m.value) \ DOMAIN m.value THEN "author" ELSE "version"
  <2>1. IsReader(n) /\ Learns(p, n, "total") /\ m.pc = "total" /\ n.pc = next
    BY <1>4, RunLearns DEF CountStories, Steps
  <2>2. n.key = m.key /\ DOMAIN n.value = DOMAIN m.value \cup {"total"}
        /\ StoriesOf(n.value) = StoriesOf(m.value)
    BY <1>2, <2>1 DEF Learns
  <2>3. Parts(n.key, n.value) = Parts(m.key, m.value)
    BY <2>2 DEF Parts
  <2>4. Progress(n)
    <3>1. CASE m.key = "profile"
      <4>1. DOMAIN m.value = {"author"} /\ Parts(m.key, m.value) = {"author", "total"}
        BY <1>1, <2>1, <3>1 DEF Holding, Progress, Parts
      <4>2. n.pc = "version" /\ DOMAIN n.value = {"author", "total"}
        BY <2>1, <2>2, <4>1
      <4> QED BY <2>3, <4>1, <4>2 DEF Progress
    <3>2. CASE m.key # "profile" /\ StoriesOf(m.value) = {}
      <4>1. DOMAIN m.value = {"stories"} /\ Parts(m.key, m.value) = {"stories", "total"}
        BY <1>1, <2>1, <3>2 DEF Holding, Progress, Parts
      <4>2. n.pc = "version" /\ DOMAIN n.value = {"stories", "total"}
        BY <2>1, <2>2, <4>1
      <4> QED BY <2>3, <4>1, <4>2 DEF Progress
    <3>3. CASE m.key # "profile" /\ StoriesOf(m.value) # {}
      <4>1. DOMAIN m.value = {"stories"} /\ "author" \in Parts(m.key, m.value)
        BY <1>1, <2>1, <3>3 DEF Holding, Progress, Parts
      <4>2. n.pc = "author" /\ DOMAIN n.value = {"stories", "total"}
        BY <2>1, <2>2, <4>1
      <4> QED BY <2>2, <3>3, <4>2 DEF Progress
    <3> QED BY <3>1, <3>2, <3>3
  <2> QED BY <1>2, <2>1, <2>4 DEF Holding, Steps
<1>5. CASE FindAuthor(p)
  <2>1. IsReader(n) /\ Learns(p, n, "author") /\ m.pc = "author"
        /\ n.pc = IF m.key = "profile" THEN "total" ELSE "pages"
    BY <1>5, RunLearns DEF FindAuthor, Steps
  <2>2. n.key = m.key /\ DOMAIN n.value = DOMAIN m.value \cup {"author"}
        /\ StoriesOf(n.value) = StoriesOf(m.value)
    BY <1>2, <2>1 DEF Learns
  <2>3. Progress(n)
    BY <1>1, <2>1, <2>2 DEF Holding, Progress
  <2> QED BY <1>2, <2>1, <2>3 DEF Holding, Steps
<1>6. CASE CountPages(p)
  <2>1. IsReader(n) /\ Learns(p, n, "pages") /\ m.pc = "pages" /\ n.pc = "version"
    BY <1>6, RunLearns DEF CountPages, Steps
  <2>2. n.key = m.key /\ DOMAIN n.value = DOMAIN m.value \cup {"pages"}
        /\ StoriesOf(n.value) = StoriesOf(m.value)
    BY <1>2, <2>1 DEF Learns
  <2>3. n.key # "profile" /\ DOMAIN n.value = {"stories", "total", "author", "pages"}
        /\ StoriesOf(n.value) # {}
    BY <1>1, <2>1, <2>2 DEF Holding, Progress
  <2>4. Parts(n.key, n.value) = {"stories", "total", "author", "pages"}
    BY <2>3 DEF Parts
  <2>5. Progress(n)
    BY <2>1, <2>3, <2>4 DEF Progress
  <2> QED BY <1>2, <2>1, <2>5 DEF Holding, Steps
<1> QED BY <1>3, <1>4, <1>5, <1>6

-----------------------------------------------------------------------------
(* Readers: none changes the data, the version or what is recent; what     *)
(* they hold comes from their statements and what they write is what they  *)
(* hold.                                                                   *)
Kept(p, m) ==
  /\ m.value = reader[p].value /\ m.key = reader[p].key
  /\ m.read = reader[p].read /\ m.age = reader[p].age

LEMMA ReaderMoves ==
  ASSUME Inv, NEW p \in Readers, ReadVersion(p) \/ Reader(p)
  PROVE  /\ UNCHANGED <<workload, db, version, writer, lapsed, recent>>
         /\ \E m : reader' = [reader EXCEPT ![p] = m]
         /\ Holding(reader'[p])
         /\ \/ DOMAIN reader'[p].value = {}
            \/ Kept(p, reader'[p])
            \/ \E part \in {"stories", "total", "author", "pages"} : Learns(p, reader'[p], part)
<1> USE CacheAssumption
<1>1. /\ UNCHANGED <<workload, db, version, writer, lapsed, recent>>
      /\ \E m : reader' = [reader EXCEPT ![p] = m]
  BY DEF ReadVersion, Reader, Hit, Miss, FindStories, CountStories, FindAuthor, CountPages, Run,
         ReadVersionAgain, SetEntry, SetFails, Same, Resume
<1>2. /\ version \in Nat /\ Holding(reader[p]) /\ Holding(Idle)
      /\ DOMAIN Idle.value = {} /\ reader = [q \in Readers |-> reader[q]]
  BY IdleHolds DEF Inv, Typed
<1>3. CASE ReadVersion(p)
  <2>1. PICK k \in workload.asks[p] :
          \/ reader' = [reader EXCEPT ![p] = [Idle EXCEPT !.pc = "get", !.key = k, !.version = version]]
          \/ reader' = [reader EXCEPT ![p] = [Idle EXCEPT !.pc = FirstStatement(k), !.key = k]]
    BY <1>3 DEF ReadVersion, Resume
  <2>2. k \in Keys
    BY DEF Inv, Typed
  <2>3. \/ reader'[p] = [pc |-> "get", key |-> k, version |-> version, value |-> <<>>, read |-> 0, age |-> 0]
        \/ reader'[p] = [pc |-> FirstStatement(k), key |-> k, version |-> 0, value |-> <<>>,
                         read |-> 0, age |-> 0]
    BY <1>2, <2>1 DEF Idle
  <2>4. DOMAIN <<>> = {}
    OBVIOUS
  <2>5. Holding(reader'[p]) /\ DOMAIN reader'[p].value = {}
    BY <1>2, <2>2, <2>3, <2>4 DEF Holding, IsReader, Progress, FirstStatement, Steps
  <2> QED BY <1>1, <2>5
<1>4. CASE Hit(p) \/ SetEntry(p) \/ SetFails(p)
  <2>1. reader'[p] = Idle
    BY <1>2, <1>4 DEF Hit, SetEntry, SetFails, Resume
  <2> QED BY <1>1, <1>2, <2>1
<1>5. CASE Miss(p)
  <2>1. reader'[p] = [pc |-> FirstStatement(reader[p].key), key |-> reader[p].key, version |-> 0,
                      value |-> <<>>, read |-> 0, age |-> 0]
    BY <1>2, <1>5 DEF Miss, Resume, Idle
  <2>2. DOMAIN <<>> = {}
    OBVIOUS
  <2>3. Holding(reader'[p]) /\ DOMAIN reader'[p].value = {}
    BY <1>2, <2>1, <2>2 DEF Holding, IsReader, Progress, FirstStatement, Steps
  <2> QED BY <1>1, <2>3
<1>6. CASE FindStories(p) \/ CountStories(p) \/ FindAuthor(p) \/ CountPages(p)
  BY <1>1, <1>6, StatementHolds
<1>7. CASE ReadVersionAgain(p)
  <2>1. reader[p].pc = "version" /\ reader'[p] = [reader[p] EXCEPT !.pc = "set", !.version = version]
    BY <1>2, <1>7 DEF ReadVersionAgain, Resume, At
  <2>2. reader'[p] = [pc |-> "set", key |-> reader[p].key, version |-> version,
                      value |-> reader[p].value, read |-> reader[p].read, age |-> reader[p].age]
    BY <1>2, <2>1 DEF Holding, IsReader
  <2>3. Holding(reader'[p]) /\ Kept(p, reader'[p])
    BY <1>2, <2>1, <2>2 DEF Holding, IsReader, Progress, Steps, Kept
  <2> QED BY <1>1, <2>3
<1> QED BY <1>3, <1>4, <1>5, <1>6, <1>7 DEF Reader

(* What a reader learns shows the data as they are, and what it knew has   *)
(* not become older by it.                                                 *)
LEMMA LearnsRecent ==
  ASSUME Inv, NEW p \in Readers, NEW m, NEW part \in {"stories", "total", "author", "pages"},
         Learns(p, m, part)
  PROVE  /\ Exact => (m.read = version => Fresh(m.key, m.value))
         /\ Recent(m.key, m.value, m.age)
<1>1. /\ m.key = reader[p].key /\ m.age = reader[p].age
      /\ Filling(reader[p]) => m.read = reader[p].read
  BY DEF Learns
<1>2. /\ DOMAIN m.value = DOMAIN reader[p].value \cup {part}
      /\ m.value[part] = Shown(m.key, m.value, db)[part]
      /\ \A q \in DOMAIN reader[p].value \ {part} :
           m.value[q] = reader[p].value[q] /\ \A d : Shown(m.key, m.value, d)[q] = Shown(m.key, reader[p].value, d)[q]
  BY LearnsShows
<1>3. ASSUME Exact, m.read = version PROVE Fresh(m.key, m.value)
  <2>1. CASE Filling(reader[p])
    <3>1. Fresh(m.key, reader[p].value)
      BY <1>1, <1>3, <2>1 DEF Inv, HeldFresh
    <3> QED BY <1>2, <3>1 DEF Fresh
  <2>2. CASE ~Filling(reader[p])
    BY <1>2, <2>2 DEF Filling, Fresh
  <2> QED BY <2>1, <2>2
<1>4. Recent(m.key, m.value, m.age)
  <2>1. PartRecent(m.key, m.value, part, m.age)
    <3>1. <<db, 0>> \in recent /\ db \in Data /\ 0 \in Nat
      BY DEF Inv, AllRecent, Typed
    <3>2. m.age \in 0..MaxFill
      BY <1>1 DEF Inv, Typed, Holding
    <3>3. 0 <= m.age
      BY <3>2
    <3> QED BY <1>2, <3>1, <3>3 DEF PartRecent
  <2>2. ASSUME NEW q \in DOMAIN reader[p].value \ {part} PROVE PartRecent(m.key, m.value, q, m.age)
    <3>1. PartRecent(m.key, reader[p].value, q, m.age)
      BY <1>1 DEF Inv, AllRecent, Recent
    <3> QED BY <1>2, <3>1 DEF PartRecent
  <2> QED BY <1>2, <2>1, <2>2 DEF Recent
<1> QED BY <1>3, <1>4

LEMMA ReaderKeeps ==
  ASSUME Inv, NEW p \in Readers, ReadVersion(p) \/ Reader(p)
  PROVE  Inv'
<1> USE CacheAssumption
<1>1. /\ UNCHANGED <<workload, db, version, writer, lapsed, recent>>
      /\ \E m : reader' = [reader EXCEPT ![p] = m]
      /\ Holding(reader'[p])
  BY ReaderMoves
<1>2. /\ reader' = [q \in Readers |-> reader'[q]]
      /\ \A q \in Readers \ {p} : reader'[q] = reader[q]
  BY <1>1 DEF Inv, Typed
<1>3. Holding(reader[p]) /\ version \in Nat /\ db \in Data
  BY DEF Inv, Typed
<1>4. \A e \in cache' : e \in cache \/ (reader[p].pc = "set" /\ e = Entry(reader[p]))
  BY DEF ReadVersion, Reader, Hit, Miss, FindStories, CountStories, FindAuthor, CountPages, Run,
         ReadVersionAgain, SetEntry, SetFails, At
<1>5. reader[p].pc = "set" =>
        LET e == Entry(reader[p]) IN
        /\ Stored(e) /\ e.version = reader[p].version /\ e.key = reader[p].key
        /\ e.value = reader[p].value /\ e.read = reader[p].read /\ e.ttl = TTL
  BY <1>3 DEF Entry, CacheKey, Holding, Progress, Stored, IsEntry
<1>6. /\ Exact => (reader'[p].read = version => Fresh(reader'[p].key, reader'[p].value))
      /\ Recent(reader'[p].key, reader'[p].value, reader'[p].age)
  <2>1. CASE DOMAIN reader'[p].value = {} \/ Kept(p, reader'[p])
    BY <2>1 DEF Kept, Fresh, Recent, Inv, HeldFresh, AllRecent
  <2>2. ASSUME NEW part \in {"stories", "total", "author", "pages"}, Learns(p, reader'[p], part)
        PROVE  <1>6!1 /\ <1>6!2
    BY <1>3, <2>2, LearnsRecent
  <2> QED BY <2>1, <2>2, ReaderMoves
<1>7. Typed'
  <2>1. \A q \in Readers : Holding(reader'[q])
    BY <1>1, <1>2 DEF Inv, Typed
  <2>2. \A e \in cache' : Stored(e)
    BY <1>4, <1>5 DEF Inv, Typed
  <2>3. version' = version
    BY <1>1
  <2>4. \A q \in Readers : Holding(reader[q])'
    BY <2>1, <2>3 DEF Holding
  <2>5. \A e \in cache' : Stored(e)'
    BY <2>2, <2>3 DEF Stored
  <2> QED BY <1>1, <1>2, <2>4, <2>5 DEF Inv, Typed
<1>8. \A k, v : Fresh(k, v)' <=> Fresh(k, v)
  BY <1>1 DEF Fresh, Shown, Listed
<1>9. Exact' = Exact
  BY <1>1 DEF Exact
<1>10. HeldFresh'
  <2>1. ASSUME Exact, NEW q \in Readers, reader'[q].read = version
        PROVE  Fresh(reader'[q].key, reader'[q].value)
    <3>1. CASE q = p
      BY <1>6, <2>1, <3>1
    <3>2. CASE q # p
      BY <1>2, <2>1, <3>2 DEF Inv, HeldFresh
    <3> QED BY <3>1, <3>2
  <2> QED BY <1>1, <1>8, <1>9, <2>1 DEF HeldFresh
<1>11. FreshAfterBust'
  <2>1. ASSUME Exact, NEW e \in cache', e.version = version, e.read = version
        PROVE  Fresh(e.key, e.value)
    <3>1. CASE e \in cache
      BY <2>1, <3>1 DEF Inv, FreshAfterBust, Exact
    <3>2. CASE reader[p].pc = "set" /\ e = Entry(reader[p])
      BY <1>5, <2>1, <3>2 DEF Inv, HeldFresh
    <3> QED BY <1>4, <3>1, <3>2
  <2>2. Exact' <=> (~lapsed' /\ \A q \in Writers : writer'[q] # "bust")
    BY DEF Exact
  <2> QED BY <1>1, <1>8, <1>9, <2>1, <2>2 DEF FreshAfterBust
<1>12. AllRecent'
  <2>1. \A k, v, a : Recent(k, v, a)' <=> Recent(k, v, a)
    BY <1>1 DEF Recent, PartRecent
  <2>2. \A q \in Readers : Recent(reader'[q].key, reader'[q].value, reader'[q].age)
    BY <1>2, <1>6 DEF Inv, AllRecent
  <2>3. \A e \in cache' : Recent(e.key, e.value, TTL + MaxFill - e.ttl)
    <3> TAKE e \in cache'
    <3>1. CASE e \in cache
      BY <3>1 DEF Inv, AllRecent
    <3>2. CASE reader[p].pc = "set" /\ e = Entry(reader[p])
      <4>1. Recent(reader[p].key, reader[p].value, reader[p].age)
        BY DEF Inv, AllRecent
      <4>2. e.key = reader[p].key /\ e.value = reader[p].value /\ TTL + MaxFill - e.ttl = MaxFill
        BY <1>5, <3>2
      <4>3. reader[p].age \in 0..MaxFill
        BY <1>3 DEF Holding
      <4>4. \A q \in DOMAIN e.value : PartRecent(e.key, e.value, q, MaxFill)
        BY <4>1, <4>2, <4>3 DEF Recent, PartRecent
      <4> QED BY <4>2, <4>4 DEF Recent
    <3> QED BY <1>4, <3>1, <3>2
  <2>4. recent \subseteq Data \X (0..(TTL + MaxFill)) /\ <<db, 0>> \in recent
    BY DEF Inv, AllRecent
  <2> QED BY <1>1, <2>1, <2>2, <2>3, <2>4 DEF AllRecent
<1> QED BY <1>7, <1>10, <1>11, <1>12 DEF Inv

-----------------------------------------------------------------------------
(* Writers leave entries and readers alone.  A write ends exactness until  *)
(* its bust; a bust moves the version beyond all that was queried.         *)
LEMMA WriterKeeps ==
  ASSUME Inv, NEW p \in Writers, SaveStory(p) \/ SaveProfile(p) \/ Bust(p) \/ EditPages(p)
  PROVE  Inv'
<1> USE CacheAssumption
<1>1. UNCHANGED <<workload, cache, reader>>
  BY DEF SaveStory, SaveProfile, Bust, EditPages
<1>2. /\ db \in Data /\ version \in Nat /\ lapsed \in BOOLEAN
      /\ writer \in [Writers -> {"idle", "bust", "done"}]
  BY DEF Inv, Typed
<1>3. version' = version \/ version' = version + 1
  BY DEF SaveStory, SaveProfile, Bust, EditPages
<1>4. /\ db' \in Data /\ lapsed' \in BOOLEAN
      /\ writer' \in [Writers -> {"idle", "bust", "done"}]
  <2>1. CASE SaveStory(p)
    <3>1. PICK s \in Stories :
            \/ \E v \in Visibility : db' = [db EXCEPT !.story[s].visibility = v]
            \/ db' = [db EXCEPT !.story[s].illustrated = ~@]
      BY <2>1 DEF SaveStory, Changed
    <3>2. db' \in Data
      <4>1. db.story \in [Stories -> StoryRow] /\ db.story[s] \in StoryRow
        BY <1>2 DEF Data
      <4>2. \A v \in Visibility : [db.story[s] EXCEPT !.visibility = v] \in StoryRow
        BY <4>1 DEF StoryRow
      <4>3. [db.story[s] EXCEPT !.illustrated = ~@] \in StoryRow
        BY <4>1 DEF StoryRow
      <4>4. \E r \in StoryRow : db' = [db EXCEPT !.story = [@ EXCEPT ![s] = r]]
        BY <3>1, <4>2, <4>3
      <4> QED BY <1>2, <4>1, <4>4 DEF Data
    <3>3. writer' = [writer EXCEPT ![p] = AfterSave] /\ lapsed' = lapsed
      BY <2>1 DEF SaveStory
    <3> QED BY <3>2, <3>3, <1>2 DEF AfterSave
  <2>2. CASE SaveProfile(p)
    <3>1. db' = [db EXCEPT !.renamed = ~@]
      BY <2>2 DEF SaveProfile, Changed
    <3>2. db' \in Data
      BY <3>1, <1>2 DEF Data
    <3>3. writer' = [writer EXCEPT ![p] = AfterSave] /\ lapsed' = lapsed
      BY <2>2 DEF SaveProfile
    <3> QED BY <3>2, <3>3, <1>2 DEF AfterSave
  <2>3. CASE Bust(p)
    BY <2>3, <1>2 DEF Bust
  <2>4. CASE EditPages(p)
    <3>1. PICK s \in Stories : db' = [db EXCEPT !.story[s].illustrated = ~@]
      BY <2>4 DEF EditPages, Changed
    <3>2. db' \in Data
      BY <3>1, <1>2 DEF Data, StoryRow
    <3>3. writer' = [writer EXCEPT ![p] = "done"] /\ lapsed' = TRUE
      BY <2>4 DEF EditPages
    <3> QED BY <3>2, <3>3, <1>2
  <2> QED BY <2>1, <2>2, <2>3, <2>4
<1>5. Typed'
  <2>1. version' \in Nat /\ \A i : i \in 0..version => i \in 0..version'
    BY <1>2, <1>3
  <2>2. \A q \in Readers : Holding(reader[q])'
    BY <1>1, <2>1 DEF Inv, Typed, Holding
  <2>3. \A e \in cache' : Stored(e)'
    BY <1>1, <2>1 DEF Inv, Typed, Stored
  <2> QED BY <1>1, <1>4, <2>1, <2>2, <2>3 DEF Inv, Typed
<1>6. ASSUME Exact' PROVE version' = version + 1 \/ (version' = version /\ db' = db /\ Exact)
  <2>1. ~SaveStory(p) /\ ~SaveProfile(p)
    <3>1. SaveStory(p) \/ SaveProfile(p) => writer'[p] = "bust"
      BY <1>2 DEF SaveStory, SaveProfile, AfterSave
    <3> QED BY <3>1, <1>6 DEF Exact
  <2>2. ~EditPages(p)
    BY <1>6 DEF EditPages, Exact
  <2> QED BY <1>6, <2>1, <2>2 DEF Bust, Exact
<1>7. HeldFresh' /\ FreshAfterBust'
  <2>1. CASE Exact' /\ version' = version + 1
    <3>1. \A q \in Readers : reader'[q].read # version'
      BY <1>1, <1>2, <2>1 DEF Inv, Typed, Holding
    <3>2. \A e \in cache' : e.version # version'
      BY <1>1, <1>2, <2>1 DEF Inv, Typed, Stored
    <3> QED BY <3>1, <3>2 DEF HeldFresh, FreshAfterBust
  <2>2. CASE Exact' /\ version' = version /\ db' = db /\ Exact
    <3>1. \A k, v : Fresh(k, v)' <=> Fresh(k, v)
      BY <2>2 DEF Fresh, Shown, Listed
    <3>2. HeldFresh'
      BY <1>1, <2>2, <3>1 DEF Inv, HeldFresh
    <3>3. FreshAfterBust'
      BY <1>1, <2>2, <3>1 DEF Inv, FreshAfterBust, Exact
    <3> QED BY <3>2, <3>3
  <2>3. CASE ~Exact'
    BY <2>3 DEF HeldFresh, FreshAfterBust, Exact
  <2> QED BY <1>6, <2>1, <2>2, <2>3
<1>8. AllRecent'
  <2>1. recent' = recent \cup {<<db', 0>>} \/ (recent' = recent /\ db' = db)
    BY DEF SaveStory, SaveProfile, Bust, EditPages, Changed
  <2>2. 0 \in 0..(TTL + MaxFill)
    OBVIOUS
  <2>3. recent \subseteq Data \X (0..(TTL + MaxFill)) /\ <<db, 0>> \in recent
    BY DEF Inv, AllRecent
  <2>4. recent' \subseteq Data \X (0..(TTL + MaxFill)) /\ <<db', 0>> \in recent'
    BY <2>1, <2>2, <2>3, <1>4
  <2>5. \A k, v, a : Recent(k, v, a) => Recent(k, v, a)'
    BY <2>1 DEF Recent, PartRecent
  <2> QED BY <2>4, <2>5, <1>1 DEF Inv, AllRecent
<1> QED BY <1>5, <1>7, <1>8 DEF Inv

-----------------------------------------------------------------------------
(* A tick makes what is held a tick older, and gives what is stored a tick *)
(* less to live.                                                           *)
LEMMA TickKeeps ==
  ASSUME Inv, Tick
  PROVE  Inv'
<1> USE CacheAssumption
<1>1. UNCHANGED <<workload, db, version, writer, lapsed>>
  BY DEF Tick
<1>2. \A p \in Readers : Holding(reader[p])
  BY DEF Inv, Typed
<1>3. \A p \in Readers :
        /\ Filling(reader[p]) => reader'[p] = [reader[p] EXCEPT !.age = @ + 1] /\ reader[p].age < MaxFill
        /\ ~Filling(reader[p]) => reader'[p] = reader[p]
  BY DEF Tick
<1>4. \A p \in Readers :
        /\ Holding(reader'[p])
        /\ reader'[p].key = reader[p].key /\ reader'[p].value = reader[p].value
        /\ reader'[p].read = reader[p].read
        /\ reader'[p].age = IF Filling(reader[p]) THEN reader[p].age + 1 ELSE reader[p].age
  <2> TAKE p \in Readers
  <2>1. CASE Filling(reader[p])
    <3>1. reader[p].age + 1 \in 0..MaxFill
      <4>1. reader[p].age \in 0..MaxFill /\ reader[p].age < MaxFill
        BY <1>2, <1>3, <2>1 DEF Holding
      <4> QED BY <4>1
    <3>2. reader'[p] = [pc |-> reader[p].pc, key |-> reader[p].key, version |-> reader[p].version,
                        value |-> reader[p].value, read |-> reader[p].read,
                        age |-> reader[p].age + 1]
      BY <1>2, <1>3, <2>1, ZenonT(30) DEF Holding, IsReader
    <3>3. Holding(reader'[p])
      <4>0. /\ IsReader(reader'[p])
            /\ reader'[p].pc = reader[p].pc /\ reader'[p].key = reader[p].key
            /\ reader'[p].value = reader[p].value
        BY <3>2 DEF IsReader
      <4>1. Progress(reader'[p])
        BY <1>2, <4>0 DEF Holding, Progress
      <4> QED BY <1>2, <3>1, <3>2, <4>0, <4>1 DEF Holding
    <3> QED BY <2>1, <3>2, <3>3
  <2>2. CASE ~Filling(reader[p])
    BY <1>2, <1>3, <2>2
  <2> QED BY <2>1, <2>2
<1>5. \A e \in cache' : \E f \in cache :
        /\ IsEntry(e) /\ e.ttl = f.ttl - 1 /\ e.ttl \in 0..TTL
        /\ e.version = f.version /\ e.key = f.key /\ e.value = f.value /\ e.read = f.read
  <2> TAKE e \in cache'
  <2>1. PICK f \in cache : f.ttl > 0 /\ e = [f EXCEPT !.ttl = @ - 1]
    BY DEF Tick, Live, Older
  <2>2. IsEntry(f) /\ f.ttl \in 0..TTL
    BY DEF Inv, Typed, Stored
  <2>3. e = [version |-> f.version, key |-> f.key, value |-> f.value, read |-> f.read,
             ttl |-> f.ttl - 1]
    BY <2>1, <2>2, ZenonT(30) DEF IsEntry
  <2>4. f.ttl - 1 \in 0..TTL
    BY <2>1, <2>2
  <2> QED BY <2>3, <2>4 DEF IsEntry
<1>6. Typed'
  <2>1. reader' = [p \in Readers |-> reader'[p]]
    BY DEF Tick
  <2>2. \A e \in cache' : Stored(e)
    BY <1>5 DEF Inv, Typed, Stored
  <2>3. \A p \in Readers : Holding(reader[p])'
    BY <1>1, <1>4 DEF Holding
  <2>4. \A e \in cache' : Stored(e)'
    BY <1>1, <2>2 DEF Stored
  <2> QED BY <1>1, <2>1, <2>3, <2>4 DEF Inv, Typed
<1>7. HeldFresh' /\ FreshAfterBust'
  <2>1. Exact' = Exact /\ \A k, v : Fresh(k, v)' <=> Fresh(k, v)
    BY <1>1 DEF Exact, Fresh, Shown, Listed
  <2>2. HeldFresh'
    BY <1>1, <1>4, <2>1 DEF Inv, HeldFresh
  <2>3. FreshAfterBust'
    BY <1>1, <1>5, <2>1 DEF Inv, FreshAfterBust, Exact
  <2> QED BY <2>2, <2>3
<1>8. AllRecent'
  <2>1. recent' = {<<db, 0>>} \cup {<<r[1], r[2] + 1>> : r \in {s \in recent : s[2] < TTL + MaxFill}}
    BY DEF Tick
  <2>2. recent \subseteq Data \X (0..(TTL + MaxFill)) /\ db \in Data
    BY DEF Inv, AllRecent, Typed
  <2>3. recent' \subseteq Data \X (0..(TTL + MaxFill)) /\ <<db', 0>> \in recent'
    <3>1. 0 \in 0..(TTL + MaxFill)
      OBVIOUS
    <3>2. \A r \in recent : r[2] < TTL + MaxFill =>
            r[1] \in Data /\ r[2] + 1 \in 0..(TTL + MaxFill)
      BY <2>2
    <3> QED BY <1>1, <2>1, <2>2, <3>1, <3>2
  <2> DEFINE Then(k, v, q, a) ==
        \E d \in Data, b \in Nat : <<d, b>> \in recent' /\ b <= a /\ v[q] = Shown(k, v, d)[q]
  <2>4. ASSUME NEW k, NEW v, NEW q, NEW a \in Nat, a < TTL + MaxFill, PartRecent(k, v, q, a)
        PROVE  Then(k, v, q, a + 1)
    <3>1. PICK d \in Data, b \in Nat :
            <<d, b>> \in recent /\ b <= a /\ v[q] = Shown(k, v, d)[q]
      BY <2>4 DEF PartRecent
    <3>2. <<d, b + 1>> \in recent'
      <4>1. <<d, b>> \in {s \in recent : s[2] < TTL + MaxFill}
        BY <2>4, <3>1
      <4> QED BY <2>1, <4>1
    <3>3. b + 1 \in Nat /\ b + 1 <= a + 1
      BY <2>4, <3>1
    <3> QED BY <3>1, <3>2, <3>3
  <2>5. ASSUME NEW p \in Readers
        PROVE  Recent(reader[p].key, reader[p].value, reader[p].age)'
    <3>1. CASE ~Filling(reader[p])
      BY <1>3, <3>1 DEF Filling, Recent
    <3>2. CASE Filling(reader[p])
      <4>1. reader[p].age \in Nat /\ reader[p].age < TTL + MaxFill
        <5>1. reader[p].age \in 0..MaxFill /\ reader[p].age < MaxFill
          BY <1>2, <1>3, <3>2 DEF Holding
        <5> QED BY <5>1
      <4>2. \A q \in DOMAIN reader[p].value :
              Then(reader[p].key, reader[p].value, q, reader[p].age + 1)
        <5>1. Recent(reader[p].key, reader[p].value, reader[p].age)
          BY DEF Inv, AllRecent
        <5> HIDE DEF Then
        <5> QED BY <2>4, <4>1, <5>1 DEF Recent
      <4>3. reader'[p].key = reader[p].key /\ reader'[p].value = reader[p].value
            /\ reader'[p].age = reader[p].age + 1
        BY <1>4, <3>2
      <4> QED BY <4>2, <4>3 DEF Recent, PartRecent
    <3> QED BY <3>1, <3>2
  <2>6. ASSUME NEW e \in cache' PROVE Recent(e.key, e.value, TTL + MaxFill - e.ttl)'
    <3>1. PICK f \in cache : /\ e.ttl = f.ttl - 1 /\ e.ttl \in 0..TTL
                             /\ e.key = f.key /\ e.value = f.value
      BY <1>5
    <3>2. Recent(f.key, f.value, TTL + MaxFill - f.ttl) /\ f.ttl \in 0..TTL
      BY DEF Inv, AllRecent, Typed, Stored
    <3>3. TTL + MaxFill - f.ttl \in Nat /\ TTL + MaxFill - f.ttl < TTL + MaxFill
          /\ TTL + MaxFill - f.ttl + 1 = TTL + MaxFill - e.ttl
      BY <3>1, <3>2
    <3>4. \A q \in DOMAIN f.value : Then(f.key, f.value, q, TTL + MaxFill - f.ttl + 1)
      <4> HIDE DEF Then
      <4> QED BY <2>4, <3>2, <3>3 DEF Recent
    <3>5. \A q \in DOMAIN e.value : Then(e.key, e.value, q, TTL + MaxFill - e.ttl)
      BY <3>1, <3>3, <3>4
    <3> QED BY <3>5 DEF Recent, PartRecent
  <2> QED BY <2>3, <2>5, <2>6 DEF AllRecent
<1> QED BY <1>6, <1>7, <1>8 DEF Inv

-----------------------------------------------------------------------------
LEMMA NextInv == Inv /\ [Next]_vars => Inv'
<1> SUFFICES ASSUME Inv, [Next]_vars PROVE Inv'
  OBVIOUS
<1>1. CASE UNCHANGED vars
  <2>1. UNCHANGED <<workload, db, version, cache, reader, writer, lapsed, recent>>
    BY <1>1 DEF vars
  <2>2. Typed'
    BY <2>1 DEF Inv, Typed, Holding, Stored
  <2>3. FreshAfterBust' /\ HeldFresh'
    <3>1. Exact' = Exact /\ \A k, v : Fresh(k, v)' <=> Fresh(k, v)
      BY <2>1 DEF Exact, Fresh, Shown, Listed
    <3>2. HeldFresh'
      BY <2>1, <3>1 DEF Inv, HeldFresh
    <3>3. FreshAfterBust'
      BY <2>1, <3>1 DEF Inv, FreshAfterBust, Exact
    <3> QED BY <3>2, <3>3
  <2>4. AllRecent'
    BY <2>1 DEF Inv, AllRecent, Recent, PartRecent
  <2> QED BY <2>2, <2>3, <2>4 DEF Inv
<1> QED BY <1>1, ReaderKeeps, WriterKeeps, TickKeeps DEF Next

(* Versions, keys, ages and times to live are what they are said to be, in *)
(* any instance: no entry is of a version that is not there yet.           *)
THEOREM CacheTyped == Spec => []TypeOK
<1>1. Inv => TypeOK
  BY DEF Inv, Typed, Holding, Stored, Steps, TypeOK
<1> QED BY <1>1, InitInv, NextInv, PTL DEF Spec

(* Once the writers have busted what they saved, every part of every entry *)
(* that was queried under the current version shows the data as they are,  *)
(* for any number of overlapping readers and writers.                      *)
THEOREM CacheFresh == Spec => []FreshAfterBust
<1>1. Inv => FreshAfterBust
  BY DEF Inv
<1> QED BY <1>1, InitInv, NextInv, PTL DEF Spec

-----------------------------------------------------------------------------
(* The answers of a reader, as StaleView allows them.                      *)
LEMMA ReaderAnswers ==
  ASSUME Inv, NEW p \in Readers, ReadVersion(p) \/ Reader(p)
  PROVE  Promise!Answer
<1> USE CacheAssumption
<1>1. UNCHANGED <<db, recent>>
  BY ReaderMoves
<1>2. ASSUME NEW k \in Keys, NEW v, NEW a, DOMAIN v = Parts(k, v), Recent(k, v, a)
      PROVE  \A q \in DOMAIN v : \E r \in recent : v[q] = Shown(k, v, r[1])[q]
  <2> TAKE q \in DOMAIN v
  <2>1. PICK d \in Data, b \in Nat : <<d, b>> \in recent /\ v[q] = Shown(k, v, d)[q]
    BY <1>2 DEF Recent, PartRecent
  <2>2. <<d, b>>[1] = d
    OBVIOUS
  <2> QED BY <2>1, <2>2
<1>3. ASSUME NEW k \in Keys, NEW v, NEW a, DOMAIN v = Parts(k, v), Recent(k, v, a), answer' = <<k, v>>
      PROVE  Promise!Answer
  <2>1. answer'[1] = k /\ answer'[2] = v
    BY <1>3
  <2> QED BY <1>1, <1>2, <1>3, <2>1 DEF Promise!Answer, Promise!IsAnswer
<1>4. CASE ReadVersion(p) \/ Miss(p) \/ FindStories(p) \/ CountStories(p) \/ FindAuthor(p)
           \/ CountPages(p) \/ ReadVersionAgain(p)
  <2>1. answer' = <<>>
    BY <1>4 DEF ReadVersion, Miss, FindStories, CountStories, FindAuthor, CountPages, Run,
                ReadVersionAgain, Silent
  <2> QED BY <1>1, <2>1 DEF Promise!Answer
<1>5. CASE Hit(p)
  <2>1. PICK e \in cache : e.key = reader[p].key /\ answer' = <<reader[p].key, e.value>>
    BY <1>5 DEF Hit, Found, CacheKey
  <2>2. Recent(e.key, e.value, TTL + MaxFill - e.ttl) /\ e.key \in Keys /\ DOMAIN e.value = Parts(e.key, e.value)
    BY DEF Inv, AllRecent, Typed, Stored
  <2> QED BY <1>3, <2>1, <2>2
<1>6. CASE SetEntry(p) \/ SetFails(p)
  <2>1. reader[p].pc \in {"version", "set"} /\ answer' = <<reader[p].key, reader[p].value>>
    BY <1>6 DEF SetEntry, SetFails, At
  <2>2. /\ Recent(reader[p].key, reader[p].value, reader[p].age) /\ reader[p].key \in Keys
        /\ DOMAIN reader[p].value = Parts(reader[p].key, reader[p].value)
    BY <2>1 DEF Inv, AllRecent, Typed, Holding, Progress
  <2> QED BY <1>3, <2>1, <2>2
<1> QED BY <1>4, <1>5, <1>6 DEF Reader

(* The cache implements StaleView: whatever readers, writers and failures  *)
(* of Redis do, each part of an answer shows data of the last TTL +        *)
(* MaxFill ticks through the eyes of its reader's own scope, at whatever   *)
(* moments the statements behind it ran.                                   *)
THEOREM CacheAnswersRecent == Spec => AnswersRecent
<1>1. Init => Promise!Init
  <2>1. Init => db \in Data
    BY DEF Init, Data, StoryRow, Visibility
  <2> QED BY <2>1 DEF Init, Promise!Init
<1>2. Inv /\ Inv' /\ [Next]_vars =>
        [Promise!Change \/ Promise!Tick \/ Promise!Answer]_<<db, recent, answer>>
  <2> SUFFICES ASSUME Inv, Inv', [Next]_vars
               PROVE  \/ Promise!Change \/ Promise!Tick \/ Promise!Answer
                      \/ UNCHANGED <<db, recent, answer>>
    OBVIOUS
  <2>1. ASSUME NEW p \in Writers, SaveStory(p) \/ SaveProfile(p) \/ EditPages(p)
        PROVE  Promise!Change
    <3>1. recent' = recent \cup {<<db', 0>>} /\ answer' = <<>>
      BY <2>1 DEF SaveStory, SaveProfile, EditPages, Changed, Silent
    <3>2. db' \in Data
      BY DEF Inv, Typed, TypeOK
    <3> QED BY <3>1, <3>2 DEF Promise!Change
  <2>2. ASSUME NEW p \in Writers, Bust(p) PROVE Promise!Answer
    BY <2>2 DEF Bust, Silent, Promise!Answer
  <2>3. CASE Tick
    BY <2>3 DEF Tick, Silent, Promise!Tick
  <2>4. CASE UNCHANGED vars
    BY <2>4 DEF vars
  <2> QED BY <2>1, <2>2, <2>3, <2>4, ReaderAnswers DEF Next
<1> QED BY <1>1, <1>2, InitInv, NextInv, PTL DEF Spec, AnswersRecent, Promise!Spec
=============================================================================
