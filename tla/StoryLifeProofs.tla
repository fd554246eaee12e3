--------------------------- MODULE StoryLifeProofs ---------------------------
(***************************************************************************)
(* For any accounts, years, workloads and requests that the validation     *)
(* lets pass: the row stays typed and within the rules of normalize, a     *)
(* save touches only what it names and what others changed since its copy  *)
(* was loaded, every list agrees with the access rule, the audience had    *)
(* access or was invited, the context of a prompt does not contradict      *)
(* itself, and the pages of a text keep its words and are well cut.        *)
(***************************************************************************)
EXTENDS StoryLife, StorySectionsProofs

-----------------------------------------------------------------------------
(* What a request gives.                                                   *)

LEMMA GivenValues ==
  /\ Given("era") = Eras \cup {None}
  /\ Given("year") = Years \cup {None}
  /\ Given("civilization") = Kinds \cup {None}
  /\ Given("theme") = Themes \cup {None}
  /\ \A f \in OptionFields : Given(f) = {"name", None}
  /\ \A f \in {"location", "customCivilization", "customTheme"} : Given(f) = Texts \cup {None}
  BY DEF Given, OptionFields

(* A value that is given, or the default.                                  *)
LEMMA InputTyped ==
  ASSUME NEW dto, IsRequest(dto, Fields), NEW f, NEW S, NEW default \in S,
         Given(f) \subseteq S \cup {None}
  PROVE  InputOf(dto, f, default) \in S
  BY DEF InputOf, IsRequest

TextFields == {"location", "customCivilization", "customTheme"}

(* No stored text is blank.                                                *)
LEMMA TextTyped ==
  ASSUME NEW dto, IsRequest(dto, Fields), NEW f \in TextFields
  PROVE  TrimOrNull(InputOf(dto, f, None)) \in {"text", None}
<1>1. InputOf(dto, f, None) \in Texts \cup {None}
  BY InputTyped, GivenValues DEF TextFields
<1> QED
  BY <1>1 DEF TrimOrNull, Texts

ContextTyped(c) ==
  /\ c["era"] \in Eras /\ c["year"] \in Years \cup {None}
  /\ c["location"] \in {"text", None}
  /\ c["civilization"] \in Kinds /\ c["customCivilization"] \in {"text", None}
  /\ c["theme"] \in Themes /\ c["customTheme"] \in {"text", None}

LEMMA NormalizeTyped ==
  ASSUME NEW dto, IsRequest(dto, Fields)
  PROVE  ContextTyped(Normalize(dto))
<1> DEFINE c == Normalize(dto)
<1>1. c["era"] \in Eras
  <2>1. InputOf(dto, "era", "UNSPECIFIED") \in Eras
    BY InputTyped, GivenValues DEF Eras
  <2> QED BY <2>1 DEF Normalize
<1>2. c["year"] \in Years \cup {None}
  <2>1. InputOf(dto, "year", None) \in Years \cup {None}
    BY InputTyped, GivenValues
  <2> QED BY <2>1 DEF Normalize
<1>3. c["civilization"] \in Kinds
  <2>1. InputOf(dto, "civilization", "unspecified") \in Kinds
    BY InputTyped, GivenValues DEF Kinds
  <2> QED BY <2>1 DEF Normalize
<1>4. c["theme"] \in Themes
  <2>1. InputOf(dto, "theme", "UNSPECIFIED") \in Themes
    BY InputTyped, GivenValues DEF Themes
  <2> QED BY <2>1 DEF Normalize
<1>5. c["location"] \in {"text", None}
  BY TextTyped DEF Normalize, TextFields
<1>6. c["customCivilization"] \in {"text", None}
  BY TextTyped DEF Normalize, OwnText, TextFields
<1>7. c["customTheme"] \in {"text", None}
  BY TextTyped DEF Normalize, OwnText, TextFields
<1> QED
  BY <1>1, <1>2, <1>3, <1>4, <1>5, <1>6, <1>7 DEF ContextTyped

(* The three rules of a normalized request.                                *)
PeriodRule(c)  == c["era"] = "UNSPECIFIED" => c["year"] = None
CultureRule(c) == (c["civilization"] = "custom") <=> (c["customCivilization"] # None)
ThemeRule(c)   == (c["theme"] = "CUSTOM") <=> (c["customTheme"] # None)

LEMMA NormalizeRules ==
  ASSUME NEW dto, ~Refused(dto)
  PROVE  LET c == Normalize(dto) IN PeriodRule(c) /\ CultureRule(c) /\ ThemeRule(c)
  BY DEF Refused, Normalize, OwnText, PeriodRule, CultureRule, ThemeRule

-----------------------------------------------------------------------------
(* The row.                                                                *)

(* A function on the columns, with typed values.                           *)
LEMMA RowTyped ==
  ASSUME NEW r, r = [f \in Fields |-> r[f]], ContextTyped(r),
         \A f \in OptionFields : r[f] \in {"name", None}
  PROVE  r \in ContextRow
  BY DEF ContextRow, ContextTyped, Fields, ContextFields, OptionFields

LEMMA RowParts ==
  ASSUME NEW r \in ContextRow
  PROVE  ContextTyped(r) /\ \A f \in OptionFields : r[f] \in {"name", None}
  BY DEF ContextRow, ContextTyped, OptionFields

LEMMA CreatedRowTyped ==
  ASSUME NEW dto, IsRequest(dto, Fields)
  PROVE  CreatedRow(dto) \in ContextRow
<1> DEFINE r == CreatedRow(dto)
<1>1. r = [f \in Fields |-> r[f]]
  BY DEF CreatedRow
<1>2. ContextTyped(r)
  BY NormalizeTyped DEF ContextTyped, CreatedRow, Fields, ContextFields
<1>3. \A f \in OptionFields : r[f] \in {"name", None}
  <2> SUFFICES ASSUME NEW f \in OptionFields PROVE r[f] \in {"name", None}
    OBVIOUS
  <2>1. InputOf(dto, f, None) \in {"name", None}
    BY InputTyped, GivenValues
  <2> QED BY <2>1 DEF CreatedRow, Fields, ContextFields, OptionFields
<1> QED
  BY <1>1, <1>2, <1>3, RowTyped

LEMMA CreatedRowRules ==
  ASSUME NEW dto, ~Refused(dto)
  PROVE  LET r == CreatedRow(dto) IN PeriodRule(r) /\ CultureRule(r) /\ ThemeRule(r)
<1>1. \A f \in ContextFields : CreatedRow(dto)[f] = Normalize(dto)[f]
  BY DEF CreatedRow, Fields
<1> QED
  BY <1>1, NormalizeRules DEF PeriodRule, CultureRule, ThemeRule, ContextFields

LEMMA UpdatedRowTyped ==
  ASSUME NEW r \in ContextRow, NEW dto, IsRequest(dto, Fields)
  PROVE  UpdatedRow(r, dto) \in ContextRow
<1> DEFINE u == UpdatedRow(r, dto)
<1>1. u = [f \in Fields |-> u[f]]
  BY DEF UpdatedRow
<1>2. \A f \in ContextFields : u[f] \in {Normalize(dto)[f], r[f]}
  BY DEF UpdatedRow, Fields, ContextFields, OptionFields
<1>3. ContextTyped(u)
  BY <1>2, NormalizeTyped, RowParts DEF ContextTyped, ContextFields
<1>4. \A f \in OptionFields : u[f] \in {"name", None}
  <2> SUFFICES ASSUME NEW f \in OptionFields PROVE u[f] \in {"name", None}
    OBVIOUS
  <2>1. f \in DOMAIN dto => dto[f] \in {"name", None}
    BY GivenValues DEF IsRequest
  <2>2. u[f] = IF f \in DOMAIN dto THEN dto[f] ELSE r[f]
    BY DEF UpdatedRow, ContextPatch, Fields, ContextFields, OptionFields
  <2> QED BY <2>1, <2>2, RowParts
<1> QED
  BY <1>1, <1>3, <1>4, RowTyped

(* An update that names both fields of a pair, or neither, keeps its rule. *)
LEMMA UpdatedRowRules ==
  ASSUME NEW r, PeriodRule(r), CultureRule(r), ThemeRule(r),
         NEW dto, HasStoryContext(dto) => ~Refused(dto),
         \A g \in Pairs : g \cap DOMAIN dto \in {{}, g}
  PROVE  LET u == UpdatedRow(r, dto) IN PeriodRule(u) /\ CultureRule(u) /\ ThemeRule(u)
<1> DEFINE u == UpdatedRow(r, dto)
           c == Normalize(dto)
<1>1. \A f \in ContextFields : u[f] = IF f \in DOMAIN dto THEN c[f] ELSE r[f]
  BY DEF UpdatedRow, HasStoryContext, ContextPatch, Fields, ContextFields, OptionFields
<1>2. /\ "era" \in DOMAIN dto <=> "year" \in DOMAIN dto
      /\ "civilization" \in DOMAIN dto <=> "customCivilization" \in DOMAIN dto
      /\ "theme" \in DOMAIN dto <=> "customTheme" \in DOMAIN dto
  <2>1. \A g \in Pairs : \A x, y \in g : x \in DOMAIN dto => y \in DOMAIN dto
    OBVIOUS
  <2> QED BY <2>1 DEF Pairs
<1>3. ASSUME NEW f \in ContextFields, f \in DOMAIN dto
      PROVE  PeriodRule(c) /\ CultureRule(c) /\ ThemeRule(c)
  BY <1>3, NormalizeRules DEF HasStoryContext
<1>4. PeriodRule(u)
  BY <1>1, <1>2, <1>3 DEF PeriodRule, ContextFields
<1>5. CultureRule(u)
  BY <1>1, <1>2, <1>3 DEF CultureRule, ContextFields
<1>6. ThemeRule(u)
  BY <1>1, <1>2, <1>3 DEF ThemeRule, ContextFields
<1> QED
  BY <1>4, <1>5, <1>6

-----------------------------------------------------------------------------
(* The inductive invariant: beside the properties, who could read the      *)
(* story is on record, a share is looked up only of a story that was       *)
(* SHARED, and the copy that an update has loaded is the row, but for the  *)
(* columns that others have changed since.                                 *)

CopyOf(p) ==
  request[p] # None =>
    /\ row # None
    /\ orderly => request[p].story.row = row
    /\ \A f \in Fields \ overtaken[p] : request[p].story.row[f] = row[f]
    /\ "visibility" \notin overtaken[p] => request[p].story.visibility = visibility

Remembered ==
  /\ row # None => Readers(visibility, shares) \subseteq everReaders
  /\ visibility = "SHARED" => wasShared
  /\ wasShared => shares \subseteq invited

LifeInv ==
  /\ TypeOK
  /\ workload \in Workloads
  /\ DOMAIN request = Updaters /\ DOMAIN overtaken = Updaters
  /\ \A p \in Updaters : CopyOf(p)
  /\ Remembered
  /\ \A use \in Uses : asked[use] # {} => wasShared
  /\ RulesKept
  /\ AudienceHadAccess

LEMMA LifeInit == Init => LifeInv
  BY SMT DEF Init, LifeInv, TypeOK, Visibility, RulesKept, AudienceHadAccess, Range,
             FindFavorites, Notified, CopyOf, Remembered, Uses

LEMMA RulesOfRow ==
  RowRules <=> PeriodRule(row) /\ CultureRule(row) /\ ThemeRule(row)
  BY DEF RowRules, PeriodRule, CultureRule, ThemeRule

LEMMA RangeOfGrants ==
  ASSUME NEW g \in [Uses -> SUBSET Members]
  PROVE  UNION Range(g) = g["favorite"] \cup g["room"]
  BY DEF Range, Uses

(* What is remembered makes up for every change of access.                 *)
LEMMA RememberKeeps ==
  ASSUME LifeInv, Remember, audienceSame
  PROVE  /\ Remembered' /\ AudienceHadAccess'
         /\ \A use \in Uses : asked'[use] # {} => wasShared'
<1>1. Remembered'
  BY DEF Remember, Remembered, Readers
<1>2. everReaders \subseteq everReaders' /\ invited \subseteq invited' /\ (wasShared => wasShared')
  BY DEF Remember
<1>3. AudienceHadAccess'
  BY <1>2 DEF LifeInv, AudienceHadAccess, audienceSame, FindFavorites, Notified
<1> QED
  BY <1>1, <1>2, <1>3 DEF LifeInv, audienceSame

(* The steps that decide what the row is.                                  *)
LEMMA CreateKeeps ==
  ASSUME LifeInv, Create
  PROVE  LifeInv'
<1>1. PICK new \in NewStories[workload] :
        /\ ~Refused(new.context)
        /\ row' = CreatedRow(new.context)
        /\ visibility' = new.visibility
  BY DEF Create
<1>2. IsRequest(new.context, Fields) /\ new.visibility \in Visibility
  BY <1>1, LifeAssumption DEF LifeInv
<1>3. row' \in ContextRow
  BY <1>1, <1>2, CreatedRowTyped
<1>4. RowRules'
  BY <1>1, CreatedRowRules DEF RowRules, PeriodRule, CultureRule, ThemeRule
<1>5. /\ UNCHANGED <<shares, request, workload, overtaken, orderly>> /\ Remember /\ audienceSame
      /\ \A p \in Updaters : request[p] = None
  BY DEF Create, LifeInv, CopyOf
<1>6. TypeOK'
  BY <1>1, <1>2, <1>3, <1>5 DEF LifeInv, TypeOK, audienceSame
<1>7. RulesKept' /\ \A p \in Updaters : CopyOf(p)'
  BY <1>4, <1>5 DEF RulesKept, CopyOf
<1> QED
  BY <1>5, <1>6, <1>7, RememberKeeps DEF LifeInv

LEMMA LoadKeeps ==
  ASSUME LifeInv, NEW p \in Updaters, Load(p)
  PROVE  LifeInv'
<1>1. PICK dto \in Updates[workload][p] :
        request' = [request EXCEPT ![p] =
                     [dto |-> dto, story |-> [row |-> row, visibility |-> visibility]]]
  BY DEF Load
<1>2. /\ row # None /\ request[p] = None /\ UNCHANGED <<row, workload, overtaken, orderly>>
      /\ accessSame /\ audienceSame
  BY DEF Load
<1>3. /\ DOMAIN request' = Updaters
      /\ request'[p].dto = dto
      /\ request'[p].story = [row |-> row, visibility |-> visibility]
      /\ \A q \in Updaters \ {p} : request'[q] = request[q]
  BY <1>1 DEF LifeInv
<1>4. \A q \in Updaters : CopyOf(q)'
  <2> SUFFICES ASSUME NEW q \in Updaters PROVE CopyOf(q)'
    OBVIOUS
  <2>1. CASE q = p
    BY <1>2, <1>3, <2>1 DEF CopyOf, accessSame
  <2>2. CASE q # p
    BY <1>2, <1>3, <2>2 DEF LifeInv, CopyOf, accessSame
  <2> QED BY <2>1, <2>2
<1>5. TypeOK'
  <2>1. request'[p].story \in [row: ContextRow, visibility: Visibility]
    BY <1>2, <1>3 DEF LifeInv, TypeOK
  <2> QED
    BY <1>1, <1>2, <1>3, <2>1 DEF LifeInv, TypeOK, accessSame, audienceSame
<1>6. RulesKept' /\ AudienceHadAccess' /\ Remembered'
  BY <1>2 DEF LifeInv, RulesKept, RowRules, AudienceHadAccess, Remembered, Readers, accessSame,
              audienceSame
<1> QED
  BY <1>2, <1>3, <1>4, <1>5, <1>6 DEF LifeInv, accessSame, audienceSame

LEMMA RejectKeeps ==
  ASSUME LifeInv, NEW p \in Updaters, Reject(p)
  PROVE  LifeInv'
<1>1. /\ UNCHANGED <<row, workload, orderly>> /\ accessSame /\ audienceSame
      /\ DOMAIN request' = Updaters /\ DOMAIN overtaken' = Updaters /\ request'[p] = None
      /\ \A q \in Updaters \ {p} : request'[q] = request[q] /\ overtaken'[q] = overtaken[q]
  BY DEF Reject, LifeInv
<1>2. \A q \in Updaters : CopyOf(q)'
  BY <1>1 DEF LifeInv, CopyOf, accessSame
<1>3. TypeOK'
  BY <1>1 DEF LifeInv, TypeOK, accessSame, audienceSame
<1>4. RulesKept' /\ AudienceHadAccess' /\ Remembered'
  BY <1>1 DEF LifeInv, RulesKept, RowRules, AudienceHadAccess, Remembered, Readers, accessSame,
              audienceSame
<1> QED
  BY <1>1, <1>2, <1>3, <1>4 DEF LifeInv, accessSame, audienceSame

(* A saved copy: what was named, normalized, on what was loaded.           *)
LEMMA SaveKeeps ==
  ASSUME LifeInv, NEW p \in Updaters, Save(p)
  PROVE  LifeInv'
<1> DEFINE dto == request[p].dto
           story == request[p].story
<1>1. /\ row' = UpdatedRow(story.row, dto.context)
      /\ visibility' = IF dto.visibility = None THEN story.visibility ELSE dto.visibility
      /\ request[p] # None /\ ~Rejected(dto) /\ Remember /\ audienceSame
      /\ UNCHANGED <<shares, workload>>
      /\ orderly' = (/\ orderly
                     /\ \A g \in Pairs : g \cap DOMAIN dto.context \in {{}, g}
                     /\ \A q \in Updaters \ {p} : request[q] = None)
  BY DEF Save
<1>2. /\ DOMAIN request' = Updaters /\ DOMAIN overtaken' = Updaters /\ request'[p] = None
      /\ \A q \in Updaters \ {p} :
           /\ request'[q] = request[q]
           /\ request[q] # None => overtaken'[q] = overtaken[q] \cup Changed
  BY DEF Save, LifeInv
<1>3. /\ IsRequest(dto.context, Fields) /\ dto.visibility \in Visibility \cup {None}
      /\ story.row \in ContextRow /\ story.visibility \in Visibility
  BY <1>1, LifeAssumption DEF LifeInv, TypeOK
<1> HIDE DEF dto, story
<1>4. row' \in ContextRow /\ visibility' \in Visibility /\ row' # None
  BY <1>1, <1>3, UpdatedRowTyped, RowAssumption
<1>5. RulesKept'
  <2> SUFFICES ASSUME orderly' PROVE RowRules'
    BY DEF RulesKept
  <2>1. orderly /\ (\A g \in Pairs : g \cap DOMAIN dto.context \in {{}, g})
    BY <1>1
  <2>2. row # None /\ story.row = row
    BY <1>1, <2>1 DEF LifeInv, CopyOf, story
  <2>3. PeriodRule(row) /\ CultureRule(row) /\ ThemeRule(row)
    BY <2>1, <2>2, RulesOfRow DEF LifeInv, RulesKept
  <2>4. LET u == UpdatedRow(row, dto.context)
        IN PeriodRule(u) /\ CultureRule(u) /\ ThemeRule(u)
    BY <1>1, <2>1, <2>3, UpdatedRowRules DEF Rejected
  <2> QED
    BY <1>1, <2>2, <2>4 DEF RowRules, PeriodRule, CultureRule, ThemeRule
<1>6. \A q \in Updaters : CopyOf(q)'
  <2> SUFFICES ASSUME NEW q \in Updaters \ {p}, request[q] # None PROVE CopyOf(q)'
    BY <1>2 DEF CopyOf
  <2>1. ~orderly'
    BY <1>1
  <2>2. /\ \A f \in Fields \ overtaken[q] : request[q].story.row[f] = row[f]
        /\ "visibility" \notin overtaken[q] => request[q].story.visibility = visibility
    BY DEF LifeInv, CopyOf
  <2>3. /\ \A f \in Fields \ overtaken'[q] : f \notin overtaken[q] /\ row'[f] = row[f]
        /\ "visibility" \notin overtaken'[q] =>
             "visibility" \notin overtaken[q] /\ visibility' = visibility
    BY <1>2 DEF Changed
  <2> QED
    BY <1>2, <1>4, <2>1, <2>2, <2>3 DEF CopyOf
<1>7. TypeOK'
  BY <1>1, <1>2, <1>4 DEF LifeInv, TypeOK, audienceSame
<1> QED
  BY <1>1, <1>2, <1>5, <1>6, <1>7, RememberKeeps DEF LifeInv

LEMMA SharesKeep ==
  ASSUME LifeInv, NEW u \in Members, ShareStory(u) \/ RemoveShare(u)
  PROVE  LifeInv'
<1>1. /\ shares' \subseteq Members \ {Owner} /\ UNCHANGED visibility
      /\ contextSame /\ audienceSame /\ Remember
  BY DEF LifeInv, TypeOK, ShareStory, RemoveShare, Shareable
<1>2. TypeOK'
  BY <1>1 DEF LifeInv, TypeOK, contextSame, audienceSame
<1>3. RulesKept' /\ \A p \in Updaters : CopyOf(p)'
  BY <1>1 DEF LifeInv, RulesKept, RowRules, CopyOf, contextSame
<1> QED
  BY <1>1, <1>2, <1>3, RememberKeeps DEF LifeInv, contextSame

(* The check: what the story grants, and what a share grants after it.     *)
LEMMA AskKeeps ==
  ASSUME LifeInv, NEW u \in Members, NEW use \in Uses, Ask(u, use) \/ LookUpShare(u, use)
  PROVE  LifeInv'
<1>1. /\ asked \in [Uses -> SUBSET Members] /\ granted \in [Uses -> SUBSET Members]
      /\ UNCHANGED <<favorites, room>> /\ contextSame /\ accessSame
  BY DEF LifeInv, TypeOK, Ask, LookUpShare
<1>2. /\ asked' \in [Uses -> SUBSET Members] /\ granted' \in [Uses -> SUBSET Members]
      /\ \A other \in Uses : /\ granted'[other] \subseteq granted[other] \cup everReaders \cup invited
                             /\ asked'[other] # {} => wasShared
  <2>1. CASE Ask(u, use)
    <3>1. CASE ByStory(u, visibility)
      <4>1. u \in everReaders
        BY <2>1, <3>1 DEF Ask, LifeInv, Remembered, Readers, CanAccess
      <4>2. granted' = [granted EXCEPT ![use] = @ \cup {u}] /\ UNCHANGED asked
        BY <2>1, <3>1 DEF Ask
      <4> QED BY <1>1, <4>1, <4>2 DEF LifeInv
    <3>2. CASE ~ByStory(u, visibility)
      <4>1. visibility = "SHARED" /\ wasShared
        BY <2>1, <3>2 DEF Ask, LifeInv, Remembered
      <4>2. asked' = [asked EXCEPT ![use] = @ \cup {u}] /\ UNCHANGED granted
        BY <2>1, <3>2 DEF Ask
      <4> QED BY <1>1, <4>1, <4>2
    <3> QED BY <3>1, <3>2
  <2>2. CASE LookUpShare(u, use)
    <3>1. /\ u \in asked[use] /\ wasShared /\ shares \subseteq invited
          /\ asked' = [asked EXCEPT ![use] = @ \ {u}]
          /\ granted' = [granted EXCEPT ![use] = @ \cup ({u} \cap shares)]
      BY <2>2 DEF LookUpShare, LifeInv, Remembered
    <3> QED BY <1>1, <3>1
  <2> QED BY <2>1, <2>2
<1>3. AudienceHadAccess'
  BY <1>1, <1>2, RangeOfGrants
     DEF LifeInv, AudienceHadAccess, accessSame, FindFavorites, Notified, Uses
<1>4. TypeOK'
  BY <1>1, <1>2 DEF LifeInv, TypeOK, contextSame, accessSame
<1> QED
  BY <1>1, <1>2, <1>3, <1>4 DEF LifeInv, RulesKept, RowRules, CopyOf, Remembered, Readers,
                                contextSame, accessSame

LEMMA AudienceKeeps ==
  ASSUME LifeInv, NEW u \in Members,
         AddFavorite(u) \/ RemoveFavorite(u) \/ JoinStory(u) \/ LeaveStory(u)
  PROVE  LifeInv'
<1>1. granted \in [Uses -> SUBSET Members]
  BY DEF LifeInv, TypeOK
<1>2. granted' \in [Uses -> SUBSET Members] /\ UNCHANGED asked /\ contextSame /\ accessSame
  BY <1>1 DEF AddFavorite, RemoveFavorite, JoinStory, LeaveStory, Uses
<1>3. favorites' \cup room' \cup granted'["favorite"] \cup granted'["room"]
        \subseteq favorites \cup room \cup granted["favorite"] \cup granted["room"]
  BY <1>1 DEF AddFavorite, RemoveFavorite, JoinStory, LeaveStory, Uses
<1>4. AudienceHadAccess'
  <2>1. /\ UNION Range(granted) = granted["favorite"] \cup granted["room"]
        /\ UNION Range(granted') = granted'["favorite"] \cup granted'["room"]
    BY <1>1, <1>2, RangeOfGrants
  <2>2. UNCHANGED <<everReaders, invited>>
    BY <1>2 DEF accessSame
  <2>3. ASSUME NEW x \in Members,
               x \in favorites \cup room \cup granted["favorite"] \cup granted["room"]
        PROVE  x \in everReaders \cup invited
    BY <2>1, <2>3 DEF LifeInv, AudienceHadAccess, FindFavorites, Notified
  <2>4. granted'["favorite"] \subseteq Members /\ granted'["room"] \subseteq Members
    BY <1>2 DEF Uses
  <2> QED
    BY <1>3, <2>1, <2>2, <2>3, <2>4 DEF AudienceHadAccess, FindFavorites, Notified
<1> QED
  BY <1>2, <1>4 DEF LifeInv, TypeOK, RulesKept, RowRules, CopyOf, Remembered, Readers,
                    contextSame, accessSame

LEMMA NextKeeps == LifeInv /\ [Next]_vars => LifeInv'
<1> SUFFICES ASSUME LifeInv, [Next]_vars PROVE LifeInv'
  OBVIOUS
<1>1. CASE Parse \/ Illustrate \/ UNCHANGED lifeVars
  <2>1. contextSame /\ accessSame /\ audienceSame
    BY <1>1 DEF Parse, Illustrate, lifeVars, contextSame, accessSame, audienceSame
  <2> QED
    BY <2>1 DEF LifeInv, TypeOK, RulesKept, RowRules, AudienceHadAccess, CopyOf, Remembered,
                Readers, contextSame, accessSame, audienceSame
<1>2. ASSUME NEW u \in Members, AskFavorite(u) \/ AskJoin(u) PROVE LifeInv'
  BY <1>2, AskKeeps DEF AskFavorite, AskJoin, Uses
<1> QED
  BY <1>1, <1>2, CreateKeeps, LoadKeeps, RejectKeeps, SaveKeeps, SharesKeep, AskKeeps,
     AudienceKeeps DEF Next, StoryNext, Sockets, vars

LEMMA Always == Spec => []LifeInv
  BY LifeInit, NextKeeps, PTL DEF Spec

-----------------------------------------------------------------------------
(* What a prompt says.                                                     *)

(* A row as a regeneration sees it: a text may be blank.                   *)
Told(s) ==
  /\ s.era \in Eras /\ s.year \in Years \cup {None}
  /\ s.civilization \in Kinds /\ s.customCivilization \in {"text", None}
  /\ s.theme \in Themes /\ s.customTheme \in {"text", None}
  /\ s.optionEra \in {"name", None} /\ s.optionCivilization \in {"name", None}

LEMMA ResolvedTyped ==
  ASSUME NEW r \in ContextRow, NEW o, IsRequest(o, Overridable)
  PROVE  Told(Resolved(r, o))
<1>1. ContextTyped(r) /\ \A f \in OptionFields : r[f] \in {"name", None}
  BY RowParts
<1>2. IsRequest(o, Fields) /\ DOMAIN o \subseteq Overridable
  BY DEF IsRequest, Overridable, Fields, ContextFields
<1>3. InputOf(o, "era", r["era"]) \in Eras
  BY <1>1, <1>2, InputTyped, GivenValues DEF ContextTyped
<1>4. InputOf(o, "year", r["year"]) \in Years \cup {None}
  BY <1>1, <1>2, InputTyped, GivenValues DEF ContextTyped
<1>5. InputOf(o, "civilization", r["civilization"]) \in Kinds
  BY <1>1, <1>2, InputTyped, GivenValues DEF ContextTyped
<1>6. InputOf(o, "theme", r["theme"]) \in Themes
  BY <1>1, <1>2, InputTyped, GivenValues DEF ContextTyped
<1>7. /\ InputOf(o, "customCivilization", r["customCivilization"]) = r["customCivilization"]
      /\ InputOf(o, "customTheme", r["customTheme"]) = r["customTheme"]
      /\ \A f \in OptionFields : InputOf(o, f, r[f]) = r[f]
  BY <1>2 DEF InputOf, Overridable, OptionFields
<1> QED
  BY <1>1, <1>3, <1>4, <1>5, <1>6, <1>7
  DEF Told, Resolved, Fields, ContextFields, OptionFields, ContextTyped

(* null is none of the labels.                                             *)
LEMMA NotNull ==
  /\ \A name \in {"name", "period"} \cup Kinds \cup Themes : <<name>> # None
  /\ \A era \in Eras, y \in Years \cup {None} : <<era, y>> # None
  /\ <<"custom", "text">> # None
  /\ \A t \in {"text", None} : <<"CUSTOM", t>> # None
  BY LabelAssumption DEF Labels

(* A period that is told is no era without years.                          *)
LEMMA PeriodTold ==
  ASSUME NEW s, Told(s), NEW era \in {"UNSPECIFIED", "MODERN"}, NEW y \in Years \cup {None},
         NEW period \in {None, <<"period">>, <<"name">>, FormatYear(s)}
  PROVE  <<era, y>> # period
<1>1. <<era, y>> # None
  BY NotNull DEF Eras
<1>2. FormatYear(s) \in {None, <<"CE", s.year>>}
  BY DEF FormatYear, Told, Eras
<1> QED BY <1>1, <1>2

LEMMA PeriodsTold ==
  ASSUME NEW s, Told(s)
  PROVE  /\ Period(s) \in {None, <<"name">>, FormatYear(s)}
         /\ EraLine(s) \in {None, <<"period">>, <<"name">>, FormatYear(s)}
  BY DEF Told, Period, EraLine, Named

(* The guidance is about what the line names.                              *)
LEMMA GuidanceTold ==
  ASSUME NEW s, Told(s)
  PROVE  LET g == CivilizationGuidance(s)
             l == CivilizationLine(s) IN
         \/ g = None /\ l = None
         \/ /\ l \in Labels /\ l # None /\ g # None
            /\ g = Guidance(l, g.period)
            /\ g.period \in {None, <<"name">>, FormatYear(s)}
<1> DEFINE g == CivilizationGuidance(s)
           l == CivilizationLine(s)
           Labelled(a, b) == g = Guidance(a, b) /\ l = a /\ a \in Labels
                             /\ b \in {None, <<"name">>, FormatYear(s)}
<1>1. (g = None /\ l = None) \/ \E a, b : Labelled(a, b)
  <2>1. CASE s.optionCivilization # None
    <3>1. Labelled(<<"name">>, Period(s))
      BY <2>1, PeriodsTold DEF CivilizationGuidance, CivilizationLine, Named, Told, Labels
    <3> QED BY <3>1
  <2>2. CASE s.optionCivilization = None /\ s.civilization = "unspecified"
    BY <2>2 DEF CivilizationGuidance, CivilizationLine
  <2>3. CASE s.optionCivilization = None /\ s.civilization = "custom"
    <3>1. CASE s.customCivilization = None
      BY <2>3, <3>1 DEF CivilizationGuidance, CivilizationLine, CustomOf
    <3>2. CASE s.customCivilization # None
      <4>1. Labelled(<<"custom", "text">>, None)
        BY <2>3, <3>2, NotNull DEF CivilizationGuidance, CivilizationLine, CustomOf, Told, Labels
      <4> QED BY <4>1
    <3> QED BY <3>1, <3>2
  <2>4. CASE s.optionCivilization = None /\ s.civilization \in {"specific", "other"}
    <3>1. Labelled(<<s.civilization>>, FormatYear(s))
      BY <2>4 DEF CivilizationGuidance, CivilizationLine, Labels, Kinds
    <3> QED BY <3>1
  <2> QED BY <2>1, <2>2, <2>3, <2>4 DEF Told, Kinds
<1>2. ASSUME NEW a, NEW b, Labelled(a, b)
      PROVE  l \in Labels /\ l # None /\ g # None /\ g = Guidance(l, g.period)
             /\ g.period \in {None, <<"name">>, FormatYear(s)}
  <2>1. b \in Labels \cup {None}
    BY <1>2 DEF FormatYear, Told, Labels
  <2>2. Guidance(a, b) \in Guidances
    BY <1>2, <2>1 DEF Guidance, Guidances
  <2>3. g.period = b
    BY <1>2 DEF Guidance
  <2> QED BY <1>2, <2>2, <2>3, LabelAssumption
<1> QED BY <1>1, <1>2

(* A theme's guidance repeats its line, or is left out.                    *)
LEMMA ThemeTold ==
  ASSUME NEW s, Told(s)
  PROVE  ThemeGuidance(s) \in {None, ThemeLine(s)}
  BY DEF Told, Themes, ThemeGuidance, ThemeLine, CustomOf

(* A custom text is told of a custom civilization only.                    *)
LEMMA CustomTold ==
  ASSUME NEW s, Told(s), CivilizationLine(s) = <<"custom", "text">>
  PROVE  s.civilization = "custom"
<1>1. CivilizationLine(s) \in {None, <<"name">>, <<s.civilization>>} \/ s.civilization = "custom"
  BY DEF CivilizationLine, Named, Told, Kinds
<1> QED BY <1>1, NotNull

-----------------------------------------------------------------------------
(* The catalog: while edits do not overlap, the one that is going on knows *)
(* the rows as they are.                                                   *)

UpToDate(edit) ==
  /\ edit.at = "create" =>
       \A i \in DOMAIN options : options[i].name.word # edit.name.word
  /\ edit.at \in {"loaded", "checked"} =>
       /\ edit = [at |-> edit.at, id |-> edit.id, row |-> edit.row, name |-> edit.name,
                  active |-> edit.active]
       /\ edit.id \in DOMAIN options /\ edit.row = options[edit.id]
       /\ edit.name # Same => ~edit.name.padded
       /\ edit.active \in BOOLEAN \cup {Same}
  /\ edit.at = "checked" =>
       /\ Renamed(edit)
       /\ \A i \in DOMAIN options \ {edit.id} : options[i].name.word # edit.name.spelled.word

CatalogInv ==
  /\ CatalogInOrder
  /\ DOMAIN edits = Editors /\ edits = [e \in Editors |-> edits[e]]
  /\ serial => /\ \A e, f \in Editors : edits[e] # Idle /\ edits[f] # Idle => e = f
               /\ \A e \in Editors : UpToDate(edits[e])
               /\ retired \subseteq DOMAIN options

LEMMA CatalogInit == OptionsInit => CatalogInv
  BY DEF OptionsInit, CatalogInv, CatalogInOrder, UpToDate, Idle

LEMMA BeginKeeps ==
  ASSUME CatalogInv, NEW e \in Editors, NEW edit, NEW given, Begin(e, edit, given),
         serial' => UpToDate(edit)
  PROVE  CatalogInv'
<1>1. UNCHANGED <<options, retired>> /\ (serial' => serial /\ \A f \in Editors : edits[f] = Idle)
  BY DEF Begin
<1>2. edits' = [edits EXCEPT ![e] = edit]
  BY DEF Begin
<1>3. DOMAIN edits' = Editors /\ edits' = [f \in Editors |-> edits'[f]]
  BY <1>2 DEF CatalogInv
<1>4. ASSUME serial', NEW f \in Editors
      PROVE  UpToDate(edits[f])' /\ (edits'[f] # Idle => f = e)
  BY <1>1, <1>2, <1>4 DEF CatalogInv, UpToDate
<1> QED
  BY <1>1, <1>3, <1>4 DEF CatalogInv, CatalogInOrder

(* An edit that ends leaves none going on.                                 *)
LEMMA EndKeeps ==
  ASSUME CatalogInv, NEW e \in Editors, edits[e] # Idle, End(e), CatalogInOrder',
         serial => retired' \subseteq DOMAIN options'
  PROVE  CatalogInv'
<1>1. serial' = serial /\ edits' = [edits EXCEPT ![e] = Idle]
  BY DEF End
<1>2. DOMAIN edits' = Editors /\ edits' = [f \in Editors |-> edits'[f]]
  BY <1>1 DEF CatalogInv
<1>3. serial => \A f \in Editors : edits'[f] = Idle
  BY <1>1 DEF CatalogInv
<1>4. serial => \A f \in Editors : UpToDate(edits[f])'
  BY <1>3 DEF UpToDate, Idle
<1> QED
  BY <1>1, <1>2, <1>3, <1>4 DEF CatalogInv

LEMMA CreateOptionKeeps ==
  ASSUME CatalogInv, NEW e \in Editors, NEW given \in Names, CreateOption(e, given)
  PROVE  CatalogInv'
<1> DEFINE edit == [at |-> "create", name |-> given.spelled]
<1>1. Begin(e, edit, given)
  BY DEF CreateOption
<1>2. given # Same => (serial' => ~given.padded)
  BY <1>1 DEF Begin
<1>3. serial' => UpToDate(edit)
  BY <1>2, OptionsAssumption DEF CreateOption, UpToDate, Matches, Like
<1> QED
  BY <1>1, <1>3, BeginKeeps

LEMMA LoadOptionKeeps ==
  ASSUME CatalogInv, NEW e \in Editors, NEW id \in DOMAIN options, NEW given,
         NEW active \in BOOLEAN \cup {Same}, LoadOption(e, id, given, active)
  PROVE  CatalogInv'
<1> DEFINE edit == [at |-> "loaded", id |-> id, row |-> options[id], name |-> given,
                    active |-> active]
<1>1. Begin(e, edit, given)
  BY DEF LoadOption
<1>2. serial' => UpToDate(edit)
  BY <1>1 DEF Begin, UpToDate
<1> QED
  BY <1>1, <1>2, BeginKeeps

LEMMA InsertOptionKeeps ==
  ASSUME CatalogInv, NEW e \in Editors, InsertOption(e)
  PROVE  CatalogInv'
<1>1. edits[e] # Idle /\ End(e) /\ retired' = retired /\ serial' = serial
  BY DEF InsertOption, Idle, End
<1>2. CASE ~Free(edits[e].name, "none")
  <2>1. options' = options
    BY <1>2 DEF InsertOption
  <2> QED
    BY <1>1, <2>1, EndKeeps DEF CatalogInv, CatalogInOrder
<1>3. CASE Free(edits[e].name, "none")
  <2>1. PICK id \in OptionIds \ DOMAIN options :
          options' = [i \in DOMAIN options \cup {id} |->
                        IF i = id THEN [name |-> edits[e].name, active |-> TRUE]
                        ELSE options[i]]
    BY <1>3 DEF InsertOption
  <2>2. serial => \A i \in DOMAIN options : options[i].name.word # edits[e].name.word
    BY DEF CatalogInv, UpToDate, InsertOption
  <2>3. serial => \A i, j \in DOMAIN options' :
                    options'[i].name.word = options'[j].name.word => i = j
    BY <2>1, <2>2 DEF CatalogInv, CatalogInOrder
  <2>4. serial => \A i \in DOMAIN options' : options'[i].active <=> i \notin retired
    <3> SUFFICES ASSUME serial, NEW i \in DOMAIN options'
                 PROVE  options'[i].active <=> i \notin retired
      OBVIOUS
    <3>1. CASE i = id
      BY <2>1, <3>1 DEF CatalogInv
    <3>2. CASE i # id
      BY <2>1, <3>2 DEF CatalogInv, CatalogInOrder
    <3> QED BY <3>1, <3>2
  <2>5. CatalogInOrder' /\ (serial => retired' \subseteq DOMAIN options')
    BY <1>1, <2>1, <2>3, <2>4 DEF CatalogInOrder, CatalogInv
  <2> QED
    BY <1>1, <2>5, EndKeeps
<1> QED
  BY <1>2, <1>3

LEMMA CheckOptionKeeps ==
  ASSUME CatalogInv, NEW e \in Editors, CheckOption(e)
  PROVE  CatalogInv'
<1> DEFINE edit == edits[e]
<1>1. edit.at = "loaded" /\ Renamed(edit) /\ UNCHANGED <<options, retired, serial>>
  BY DEF CheckOption, End
<1>2. CASE End(e)
  BY <1>1, <1>2, EndKeeps DEF CatalogInv, CatalogInOrder, Idle
<1>3. CASE /\ \/ Matches(edit.name) = {}
              \/ \E duplicate \in Matches(edit.name) : ~Taken(edit, duplicate)
           /\ edits' = [edits EXCEPT ![e].at = "checked"]
  <2>1. DOMAIN edits' = Editors /\ edits' = [f \in Editors |-> edits'[f]]
    BY <1>3 DEF CatalogInv
  <2>2. \A f \in Editors \ {e} : edits'[f] = edits[f]
    BY <1>3 DEF CatalogInv
  <2>3. ASSUME serial
        PROVE  UpToDate(edits[e])'
    <3>1. UpToDate(edit) /\ edit.name # Same /\ ~edit.name.padded
      BY <1>1, <2>3 DEF CatalogInv, UpToDate, Renamed
    <3>2. edits'[e] = [at |-> "checked", id |-> edit.id, row |-> edit.row, name |-> edit.name,
                       active |-> edit.active]
      BY <1>1, <1>3, <3>1 DEF CatalogInv, UpToDate
    <3>3. \A i \in DOMAIN options \ {edit.id} : options[i].name.word # edit.name.spelled.word
      BY <1>3, <2>3, <3>1 DEF Matches, Like, Taken, CatalogInv, CatalogInOrder
    <3> QED
      BY <1>1, <3>1, <3>2, <3>3 DEF UpToDate, Renamed
  <2>4. serial => \A f \in Editors : UpToDate(edits[f])'
    BY <1>1, <2>2, <2>3 DEF CatalogInv, UpToDate
  <2>5. serial => \A f, g \in Editors : edits'[f] # Idle /\ edits'[g] # Idle => f = g
    BY <1>1, <2>2 DEF CatalogInv, Idle
  <2> QED
    BY <1>1, <2>1, <2>4, <2>5 DEF CatalogInv, CatalogInOrder
<1> QED
  BY <1>2, <1>3 DEF CheckOption

LEMMA SaveOptionKeeps ==
  ASSUME CatalogInv, NEW e \in Editors, SaveOption(e)
  PROVE  CatalogInv'
<1> DEFINE edit == edits[e]
           name == IF Renamed(edit) THEN edit.name.spelled ELSE edit.row.name
           active == IF edit.active = Same THEN edit.row.active ELSE edit.active
<1>1. /\ edit.at = "checked" \/ (edit.at = "loaded" /\ ~Renamed(edit))
      /\ End(e) /\ edits[e] # Idle /\ serial' = serial
  BY DEF SaveOption, End, Idle
<1>2. CASE ~Free(name, edit.id)
  <2>1. UNCHANGED <<options, retired>>
    BY <1>2 DEF SaveOption
  <2> QED
    BY <1>1, <2>1, EndKeeps DEF CatalogInv, CatalogInOrder
<1>3. CASE Free(name, edit.id)
  <2>1. /\ options' = [options EXCEPT ![edit.id] = [name |-> name, active |-> active]]
        /\ retired' = IF edit.active = Same THEN retired
                      ELSE IF edit.active THEN retired \ {edit.id}
                      ELSE retired \cup {edit.id}
    BY <1>3 DEF SaveOption
  <2>2. ASSUME serial
        PROVE  /\ \A i, j \in DOMAIN options' :
                    options'[i].name.word = options'[j].name.word => i = j
               /\ \A i \in DOMAIN options' : options'[i].active <=> i \notin retired'
               /\ retired' \subseteq DOMAIN options'
    <3>1. UpToDate(edit) /\ edit.id \in DOMAIN options /\ edit.row = options[edit.id]
      BY <1>1, <2>2 DEF CatalogInv, UpToDate
    <3>2. /\ DOMAIN options' = DOMAIN options
          /\ options'[edit.id] = [name |-> name, active |-> active]
          /\ \A i \in DOMAIN options \ {edit.id} : options'[i] = options[i]
      BY <2>1, <3>1
    <3>3. \A i \in DOMAIN options \ {edit.id} : options[i].name.word # name.word
      BY <1>1, <2>2, <3>1 DEF UpToDate, CatalogInv, CatalogInOrder
    <3>4. \A i, j \in DOMAIN options' : options'[i].name.word = options'[j].name.word => i = j
      BY <2>2, <3>2, <3>3 DEF CatalogInv, CatalogInOrder
    <3>5. active <=> edit.id \notin retired'
      <4>1. CASE edit.active = Same
        BY <2>1, <2>2, <3>1, <4>1 DEF CatalogInv, CatalogInOrder
      <4>2. CASE edit.active # Same
        <5>1. edit.active \in BOOLEAN
          BY <1>1, <3>1, <4>2 DEF UpToDate
        <5> QED BY <2>1, <4>2, <5>1
      <4> QED BY <4>1, <4>2
    <3>6. \A i \in DOMAIN options' : options'[i].active <=> i \notin retired'
      <4> SUFFICES ASSUME NEW i \in DOMAIN options' PROVE options'[i].active <=> i \notin retired'
        OBVIOUS
      <4>1. CASE i = edit.id
        BY <3>2, <3>5, <4>1
      <4>2. CASE i # edit.id
        <5>1. i \in DOMAIN options /\ options'[i] = options[i] /\ (i \in retired' <=> i \in retired)
          BY <2>1, <3>2, <4>2
        <5> QED BY <2>2, <5>1 DEF CatalogInv, CatalogInOrder
      <4> QED BY <4>1, <4>2
    <3> QED
      BY <2>1, <2>2, <3>1, <3>2, <3>4, <3>6 DEF CatalogInv
  <2>3. CatalogInOrder'
    BY <1>1, <2>2 DEF CatalogInOrder
  <2> QED
    BY <1>1, <2>2, <2>3, EndKeeps
<1> QED
  BY <1>2, <1>3

LEMMA CatalogNext == CatalogInv /\ [Next]_vars => CatalogInv'
<1> SUFFICES ASSUME CatalogInv, [Next]_vars PROVE CatalogInv'
  OBVIOUS
<1>1. CASE OptionsNext
  <2>1. PICK e \in Editors :
          \/ \E given \in Names : CreateOption(e, given)
          \/ InsertOption(e)
          \/ \E id \in DOMAIN options :
               \/ \E given \in Names \cup {Same}, active \in BOOLEAN \cup {Same} :
                    LoadOption(e, id, given, active)
               \/ DeactivateOption(e, id)
          \/ CheckOption(e)
          \/ SaveOption(e)
    BY <1>1 DEF OptionsNext
  <2> QED
    BY <2>1, CreateOptionKeeps, InsertOptionKeeps, LoadOptionKeeps, CheckOptionKeeps,
       SaveOptionKeeps DEF DeactivateOption
<1>2. CASE UNCHANGED optionVars
  BY <1>2 DEF CatalogInv, CatalogInOrder, UpToDate, optionVars
<1> QED
  BY <1>1, <1>2 DEF Next, vars

-----------------------------------------------------------------------------
(* Every column, and what is kept of the audience, is typed: no blank text *)
(* ever reaches a row.                                                     *)
THEOREM LifeTyped == Spec => []TypeOK
<1>1. LifeInv => TypeOK
  BY DEF LifeInv
<1> QED BY Always, <1>1, PTL

(* No list shows a story that its reader may not open, and the list of     *)
(* everything leaves out none that he may.                                 *)
THEOREM LifeListed == Spec => []ListedIffReadable
<1>1. LifeInv => ListedIffReadable
  BY AccessAssumption
     DEF LifeInv, TypeOK, ListedIffReadable, Viewers, Visibility, CanAccess, Owns, SharesShown,
         ByStory, ByShare, FindAll, FindMyStories, FindSharedStories, FindShared, FindOwned, FindRecent, FindPublic
<1> QED BY Always, <1>1, PTL

(* A member keeps or follows only a story that he could once read, or that *)
(* was shared with him after it had been SHARED, although the story and    *)
(* the share are read at different moments and used at a third.            *)
THEOREM LifeAudience == Spec => []AudienceHadAccess
<1>1. LifeInv => AudienceHadAccess
  BY DEF LifeInv
<1> QED BY Always, <1>1, PTL

(* The rules between two fields survive every sequence of updates that     *)
(* name both fields of a pair or neither and do not overlap.               *)
THEOREM LifeRules == Spec => []RulesKept
<1>1. LifeInv => RulesKept
  BY DEF LifeInv
<1> QED BY Always, <1>1, PTL

(* Whatever the row holds and whatever a regeneration overrides, the       *)
(* context that a prompt is built from does not contradict itself.         *)
THEOREM LifePrompts == Spec => []PromptConsistent
<1>1. LifeInv => PromptConsistent
  <2> SUFFICES ASSUME LifeInv, row # None, NEW o \in Overrides
               PROVE  LET s == Resolved(row, o)
                          c == ContextOf(s)
                          periods == {c.era} \cup (IF c.guidance = None THEN {}
                                                   ELSE {c.guidance.period})
                      IN /\ \A era \in {"UNSPECIFIED", "MODERN"}, y \in Years \cup {None} :
                              <<era, y>> \notin periods
                         /\ (c.guidance = None) <=> (c.civilization = None)
                         /\ c.guidance # None => c.guidance.about = c.civilization
                         /\ c.themeGuidance # None => c.themeGuidance = c.theme
                         /\ c.civilization = <<"custom", "text">> => s.civilization = "custom"
    BY Zenon DEF PromptConsistent
  <2> DEFINE s == Resolved(row, o)
             c == ContextOf(s)
  <2>1. Told(s)
    BY ResolvedTyped, LifeAssumption DEF LifeInv, TypeOK
  <2>2. /\ c.era = EraLine(s) /\ c.guidance = CivilizationGuidance(s)
        /\ c.civilization = CivilizationLine(s) /\ c.theme = ThemeLine(s)
        /\ c.themeGuidance = ThemeGuidance(s)
    BY DEF ContextOf
  <2> HIDE DEF s, c
  <2>3. \A era \in {"UNSPECIFIED", "MODERN"}, y \in Years \cup {None} :
          /\ <<era, y>> # c.era
          /\ c.guidance # None => <<era, y>> # c.guidance.period
    BY <2>1, <2>2, PeriodTold, PeriodsTold, GuidanceTold
  <2>4. c.guidance # None => c.guidance.about = c.civilization
    BY <2>1, <2>2, GuidanceTold DEF Guidance
  <2>5. (c.guidance = None) <=> (c.civilization = None)
    BY <2>1, <2>2, GuidanceTold
  <2>6. c.themeGuidance # None => c.themeGuidance = c.theme
    BY <2>1, <2>2, ThemeTold
  <2>7. c.civilization = <<"custom", "text">> => s.civilization = "custom"
    BY <2>1, <2>2, CustomTold
  <2> QED BY <2>3, <2>4, <2>5, <2>6, <2>7 DEF s, c
<1> QED BY Always, <1>1, PTL

(* Edits that do not overlap never leave two options whose names differ in *)
(* case only, nor an option active that was switched off last.             *)
THEOREM LifeCatalog == Spec => []CatalogInOrder
<1>1. Init => CatalogInv
  BY CatalogInit DEF Init
<1>2. CatalogInv => CatalogInOrder
  BY DEF CatalogInv
<1> QED BY <1>1, <1>2, CatalogNext, PTL DEF Spec

(* A save changes only what its request names and what others have changed *)
(* since it loaded the story, whose changes it sets back.                  *)
THEOREM LifeUntouched == Spec => UntouchedKept
<1>1. LifeInv /\ [Next]_vars =>
        [\A p \in Updaters : Save(p) =>
           Changed \subseteq NamedIn(request[p].dto) \cup overtaken[p]]_vars
  <2> SUFFICES ASSUME LifeInv, NEW p \in Updaters, Save(p)
               PROVE  Changed \subseteq NamedIn(request[p].dto) \cup overtaken[p]
    OBVIOUS
  <2> DEFINE dto == request[p].dto
             story == request[p].story
  <2>1. /\ row' = UpdatedRow(story.row, dto.context)
        /\ visibility' = IF dto.visibility = None THEN story.visibility ELSE dto.visibility
    BY DEF Save
  <2>2. /\ \A f \in Fields \ overtaken[p] : story.row[f] = row[f]
        /\ "visibility" \notin overtaken[p] => story.visibility = visibility
    BY DEF Save, LifeInv, CopyOf
  <2> HIDE DEF dto, story
  <2>3. \A f \in Fields \ DOMAIN dto.context : row'[f] = story.row[f]
    BY <2>1 DEF UpdatedRow, ContextPatch
  <2>4. Changed \subseteq NamedIn(dto) \cup overtaken[p]
    BY <2>1, <2>2, <2>3 DEF Changed, NamedIn
  <2> QED BY <2>4 DEF dto
<1> QED BY Always, <1>1, PTL DEF Spec, UntouchedKept

-----------------------------------------------------------------------------
(* The text that is parsed, and its pages.                                 *)

ShapeWord == [len: Nat \ {0}, stop: BOOLEAN]

(* No paragraph has more words than the text.                              *)
LEMMA ParagraphShort ==
  \A ss \in Seq(Seq(ShapeWord)) :
    /\ Len(Words(ss)) \in Nat
    /\ \A i \in 1..Len(ss) : Len(ss[i]) <= Len(Words(ss))
<1> DEFINE Q == Seq(ShapeWord)
           G == {ss \in Seq(Q) : /\ Len(Words(ss)) \in Nat
                                 /\ \A i \in 1..Len(ss) : Len(ss[i]) <= Len(Words(ss))}
<1>1. <<>> \in G
  <2>1. Words(<<>>) = <<>>
    BY FlattenEmpty DEF Words
  <2>2. <<>> \in Seq(Q) /\ Len(<<>>) = 0
    OBVIOUS
  <2> QED BY <2>1, <2>2
<1>2. ASSUME NEW ss \in Seq(Q), NEW s \in Q, ss \in G PROVE Append(ss, s) \in G
  <2> DEFINE tt == Append(ss, s)
             ws == Words(ss)
  <2>1. Words(tt) = ws \o s
    BY FlattenAppend DEF Words
  <2>2. ws \in Seq(ShapeWord)
    BY FlattenTyped DEF Words
  <2>3. /\ tt \in Seq(Q) /\ Len(ss) \in Nat /\ Len(tt) = Len(ss) + 1
        /\ tt[Len(ss) + 1] = s /\ \A i \in 1..Len(ss) : tt[i] = ss[i]
    BY AppendProperties, LenProperties
  <2>4. Len(ws) \in Nat /\ Len(s) \in Nat /\ \A i \in 1..Len(ss) : Len(ss[i]) <= Len(ws)
    BY <1>2, LenProperties
  <2>5. \A i \in 1..Len(ss) : Len(ss[i]) \in Nat
    BY ElementOfSeq, LenProperties
  <2> HIDE DEF tt, ws, Q
  <2>6. Len(ws \o s) = Len(ws) + Len(s)
    BY <2>2, ConcatProperties DEF Q
  <2>7. Len(Words(tt)) = Len(ws) + Len(s)
    BY <2>1, <2>6, Zenon
  <2>8. ASSUME NEW i \in 1..Len(tt) PROVE Len(tt[i]) <= Len(Words(tt))
    <3>1. CASE i \in 1..Len(ss)
      BY <2>3, <2>4, <2>5, <2>7, <3>1
    <3>2. CASE i = Len(ss) + 1
      BY <2>3, <2>4, <2>7, <3>2
    <3> QED BY <2>3, <3>1, <3>2
  <2>9. Len(Words(tt)) \in Nat
    BY <2>4, <2>7
  <2> QED BY <2>3, <2>8, <2>9 DEF tt
<1> HIDE DEF G, Q
<1>3. \A ss \in Seq(Q) : ss \in G
  BY <1>1, <1>2, SequenceInduction
<1> QED BY <1>3 DEF G, Q

LEMMA ConcatStrict ==
  ASSUME NEW p \in Paragraph, NEW q \in Paragraph, Strict(p), Strict(q),
         \A x \in Ids(p), y \in Ids(q) : x < y
  PROVE  Strict(p \o q)
<1> DEFINE r == p \o q
           m == Len(p)
<1>1. /\ m \in Nat /\ Len(q) \in Nat
      /\ \A i \in 1..m : r[i] = p[i]
      /\ \A i \in 1..Len(q) : r[m + i] = q[i]
      /\ \A k \in 1..Len(r) : \/ k \in 1..m
                              \/ k > m /\ k - m \in 1..Len(q) /\ k = m + (k - m)
  BY ConcatWords
<1>2. /\ \A i, j \in 1..m : i < j => p[i].id < p[j].id
      /\ \A i, j \in 1..Len(q) : i < j => q[i].id < q[j].id
      /\ \A i \in 1..m, j \in 1..Len(q) : p[i].id < q[j].id
  BY DEF Strict, Ids
<1> HIDE DEF r, m
<1>3. ASSUME NEW i \in 1..Len(r), NEW j \in 1..Len(r), i < j PROVE r[i].id < r[j].id
  <2>1. CASE j \in 1..m
    <3>1. i \in 1..m
      BY <1>1, <1>3, <2>1
    <3> QED BY <1>1, <1>2, <1>3, <2>1, <3>1
  <2>2. CASE i \in 1..m /\ j > m /\ j - m \in 1..Len(q) /\ j = m + (j - m)
    <3>1. r[m + (j - m)] = q[j - m] /\ r[i] = p[i]
      BY <1>1, <2>2
    <3>2. p[i].id < q[j - m].id
      BY <1>2, <2>2
    <3> QED BY <2>2, <3>1, <3>2
  <2>3. CASE /\ i > m /\ i - m \in 1..Len(q) /\ i = m + (i - m)
             /\ j > m /\ j - m \in 1..Len(q) /\ j = m + (j - m)
    <3>1. r[m + (i - m)] = q[i - m] /\ r[m + (j - m)] = q[j - m]
      BY <1>1, <2>3
    <3>2. i - m < j - m
      BY <1>1, <1>3
    <3>3. q[i - m].id < q[j - m].id
      BY <1>2, <2>3, <3>2
    <3> QED BY <2>3, <3>1, <3>3
  <2> QED BY <1>1, <2>1, <2>2, <2>3
<1> QED BY <1>3 DEF Strict, r

(* Numbered by place, the words are told apart.                            *)
Grid(t, n) ==
  \A i \in 1..Len(t) : /\ Len(t[i]) <= n
                        /\ \A j \in 1..Len(t[i]) : t[i][j].id = i * n + j

LEMMA GridStrict ==
  ASSUME NEW n \in Nat
  PROVE  \A t \in Text : Grid(t, n) =>
           Strict(Words(t)) /\ \A x \in Ids(Words(t)) : x <= Len(t) * n + n
<1> DEFINE G == {t \in Text : Grid(t, n) =>
                   Strict(Words(t)) /\ \A x \in Ids(Words(t)) : x <= Len(t) * n + n}
<1>1. <<>> \in G
  <2>1. Words(<<>>) = <<>> /\ <<>> \in Text
    BY FlattenEmpty DEF Words, Text
  <2>2. Ids(<<>>) = {} /\ Strict(<<>>)
    BY DEF Ids, Strict
  <2> QED BY <2>1, <2>2
<1>2. ASSUME NEW t \in Seq(Paragraph), NEW p \in Paragraph, t \in G
      PROVE  Append(t, p) \in G
  <2> DEFINE u == Append(t, p)
             m == Len(t)
             ws == Words(t)
  <2>1. t \in Text /\ u \in Text /\ t \in Seq(Seq(Word)) /\ p \in Seq(Word)
    BY DEF Text, Paragraph
  <2>2. Words(u) = ws \o p
    BY <2>1, FlattenAppend DEF Words
  <2>3. ws \in Paragraph
    BY <2>1, WordsTyped
  <2>4. /\ m \in Nat /\ Len(u) = m + 1 /\ u[m + 1] = p
        /\ \A i \in 1..m : u[i] = t[i]
    BY AppendProperties, LenProperties
  <2> HIDE DEF u, ws, m
  <2> SUFFICES ASSUME Grid(u, n)
               PROVE  /\ Strict(Words(u))
                      /\ \A x \in Ids(Words(u)) : x <= Len(u) * n + n
    BY <2>1 DEF u
  <2>5. \A i \in 1..m : i \in 1..Len(u)
    BY <2>4
  <2>6. Grid(t, n)
    BY <2>4, <2>5 DEF Grid, m
  <2>7. Strict(ws) /\ \A x \in Ids(ws) : x <= m * n + n
    BY <1>2, <2>6 DEF ws, m
  <2>8. Len(p) \in Nat /\ Len(p) <= n /\ \A j \in 1..Len(p) : p[j].id = (m + 1) * n + j
    <3>1. m + 1 \in 1..Len(u)
      BY <2>4
    <3>2. Len(p) \in Nat
      BY LenProperties DEF Paragraph
    <3> QED BY <2>4, <3>1, <3>2 DEF Grid
  <2>9. m * n \in Nat /\ (m + 1) * n = m * n + n
    BY <2>4
  <2> DEFINE a == m * n
             b == (m + 1) * n
  <2>10. a \in Nat /\ b = a + n
    BY <2>9
  <2>11. \A j \in 1..Len(p) : p[j].id = b + j
    BY <2>8
  <2>12. \A x \in Ids(ws) : x <= a + n
    BY <2>7
  <2> HIDE DEF a, b
  <2>13. Strict(p)
    BY <2>8, <2>10, <2>11 DEF Strict
  <2>14. \A y \in Ids(p) : y > b /\ y <= b + n
    BY <2>8, <2>10, <2>11 DEF Ids
  <2>15. Ids(ws) \subseteq Nat /\ Ids(p) \subseteq Nat
    BY <2>3, IdsOf
  <2>16. \A x \in Ids(ws), y \in Ids(p) : x < y
    BY <2>10, <2>12, <2>14, <2>15
  <2>17. Strict(ws \o p)
    BY <2>3, <2>7, <2>13, <2>16, ConcatStrict
  <2>18. Ids(ws \o p) = Ids(ws) \cup Ids(p)
    BY <2>3, IdsConcat
  <2>19. \A x \in Ids(ws \o p) : x <= b + n
    BY <2>10, <2>12, <2>14, <2>15, <2>18
  <2>20. b = Len(u) * n
    BY <2>4 DEF b
  <2> QED BY <2>2, <2>17, <2>19, <2>20, Zenon
<1> HIDE DEF G
<1>3. \A t \in Seq(Paragraph) : t \in G
  BY <1>1, <1>2, SequenceInduction
<1> QED BY <1>3 DEF G, Text

LEMMA NumberedWell ==
  ASSUME NEW shape \in Seq(Seq(ShapeWord))
  PROVE  NumberedText(shape) \in Text /\ Strict(Words(NumberedText(shape)))
<1> DEFINE t == NumberedText(shape)
           n == Len(Words(shape))
<1>1. /\ Len(shape) \in Nat /\ DOMAIN shape = 1..Len(shape)
      /\ \A i \in 1..Len(shape) : /\ shape[i] \in Seq(ShapeWord) /\ Len(shape[i]) \in Nat
                                 /\ DOMAIN shape[i] = 1..Len(shape[i])
  BY ElementOfSeq, LenProperties
<1>2. \A i \in 1..Len(shape) : \A j \in 1..Len(shape[i]) : shape[i][j] \in ShapeWord
  BY <1>1, ElementOfSeq
<1>3. n \in Nat /\ \A i \in 1..Len(shape) : Len(shape[i]) <= n
  BY ParagraphShort
<1> DEFINE w(i, j) == [id |-> i * n + j, len |-> shape[i][j].len, stop |-> shape[i][j].stop]
           par(i) == [j \in 1..Len(shape[i]) |-> w(i, j)]
<1>4. t = [i \in DOMAIN shape |-> [j \in DOMAIN shape[i] |-> w(i, j)]]
  BY DEF NumberedText
<1>5. t = [i \in 1..Len(shape) |-> par(i)]
  BY <1>1, <1>4
<1> HIDE DEF t, n
<1>6. ASSUME NEW i \in 1..Len(shape), NEW j \in 1..Len(shape[i])
      PROVE  w(i, j) \in Word /\ w(i, j).id = i * n + j
  <2>1. i \in Nat /\ j \in Nat /\ n \in Nat
    BY <1>1, <1>3
  <2> DEFINE m == i * n
  <2>2. m \in Nat
    BY <2>1
  <2> HIDE DEF m
  <2>3. m + j \in Nat
    BY <2>1, <2>2
  <2>4. shape[i][j].len \in Nat \ {0} /\ shape[i][j].stop \in BOOLEAN
    BY <1>2 DEF ShapeWord
  <2> QED BY <2>3, <2>4 DEF Word, m
<1> HIDE DEF w
<1>7. ASSUME NEW i \in 1..Len(shape)
      PROVE  /\ par(i) \in Paragraph /\ Len(par(i)) = Len(shape[i])
             /\ \A j \in 1..Len(shape[i]) : par(i)[j] = w(i, j)
  <2>1. Len(shape[i]) \in Nat
    BY <1>1
  <2>2. \A j \in 1..Len(shape[i]) : w(i, j) \in Word
    BY <1>6
  <2> QED BY <2>1, <2>2 DEF Paragraph
<1> HIDE DEF par
<1>8. t \in Text /\ Len(t) = Len(shape) /\ \A i \in 1..Len(shape) : t[i] = par(i)
  BY <1>1, <1>5, <1>7 DEF Text
<1>9. Grid(t, n)
  <2> SUFFICES ASSUME NEW i \in 1..Len(t)
               PROVE  /\ Len(t[i]) <= n
                      /\ \A j \in 1..Len(t[i]) : t[i][j].id = i * n + j
    BY DEF Grid
  <2>1. t[i] = par(i) /\ i \in 1..Len(shape)
    BY <1>8
  <2>2. Len(t[i]) = Len(shape[i]) /\ \A j \in 1..Len(shape[i]) : t[i][j] = w(i, j)
    BY <1>7, <2>1
  <2> QED BY <1>3, <1>6, <2>1, <2>2
<1>10. Strict(Words(t))
  BY <1>3, <1>8, <1>9, GridStrict
<1> QED BY <1>8, <1>10 DEF t

TextInv ==
  \/ text = <<>> /\ pages = <<>>
  \/ text \in Text /\ Strict(Words(text)) /\ pages = Sections(text)

LEMMA TextKept == Spec => []TextInv
<1>1. Init => TextInv
  BY DEF Init, TextInv
<1>2. TextInv /\ [Next]_vars => TextInv'
  <2> SUFFICES ASSUME TextInv, [Next]_vars PROVE TextInv'
    OBVIOUS
  <2>1. CASE Parse
    <3>1. PICK shape \in StoryTexts : text' = NumberedText(shape)
      BY <2>1 DEF Parse
    <3>2. pages' = Sections(text')
      BY <2>1 DEF Parse
    <3>3. shape \in Seq(Seq(ShapeWord))
      BY LifeAssumption DEF ShapeWord
    <3>4. NumberedText(shape) \in Text /\ Strict(Words(NumberedText(shape)))
      BY <3>3, NumberedWell
    <3>5. text' \in Text /\ Strict(Words(text'))
      BY <3>1, <3>4, Zenon
    <3> QED BY <3>2, <3>5, Zenon DEF TextInv
  <2>2. CASE ~Parse
    <3>1. UNCHANGED <<text, pages>>
      BY <2>2
         DEF Next, StoryNext, vars, lifeVars, textSame, Create, Load, Reject, Save, Illustrate,
             ShareStory, RemoveShare, AskFavorite, AskJoin, Ask, LookUpShare, AddFavorite,
             RemoveFavorite, JoinStory, LeaveStory
    <3> QED BY <3>1, Zenon DEF TextInv
  <2> QED BY <2>1, <2>2
<1> QED BY <1>1, <1>2, PTL DEF Spec

LEMMA StrictOrdered ==
  ASSUME NEW p \in Paragraph, Strict(p)
  PROVE  Ordered(p)
<1>1. \A i \in 1..Len(p) : p[i].id \in Nat
  BY WordsId
<1> QED BY <1>1 DEF Strict, Ordered

(* Whatever text is parsed, no word of it is lost or moved by the cutting  *)
(* into pages, and only a word as long as a page may be cut                *)
(* (splitIntoSections, story-parser.service.ts:34-84).                     *)
THEOREM LifeWords == Spec => []AllWordsKept
<1>1. TextInv => AllWordsKept
  <2>1. ASSUME text = <<>>, pages = <<>> PROVE AllWordsKept
    <3>1. Words(<<>>) = <<>> /\ FlattenSeq(<<>>) = <<>>
      BY FlattenEmpty DEF Words
    <3>2. [i \in DOMAIN <<>> |-> Words(<<>>[i])] = <<>>
      OBVIOUS
    <3>3. Range(<<>>) = {} /\ DOMAIN <<>> = {}
      BY DEF Range
    <3>4. ~(Len(<<>>) > Len(<<>>))
      OBVIOUS
    <3> QED BY <2>1, <3>1, <3>2, <3>3, <3>4, Zenon DEF AllWordsKept, WordsKept
  <2>2. ASSUME text \in Text, Strict(Words(text)), pages = Sections(text) PROVE AllWordsKept
    <3>1. Ordered(Words(text))
      BY <2>2, StrictOrdered, WordsTyped
    <3>2. WordsKept(text, Sections(text))
      BY <2>2, <3>1, SectionsKeepWords
    <3> QED BY <2>2, <3>2, Zenon DEF AllWordsKept
  <2> QED BY <2>1, <2>2 DEF TextInv
<1> QED BY TextKept, <1>1, PTL

(* Whatever text is parsed, its pages have the sizes that the two limits   *)
(* promise, and a page is not broken off within a sentence that could have *)
(* been left to the next (findBestSplit and the last round of              *)
(* splitIntoSections, story-parser.service.ts:34-128).                     *)
THEOREM LifePages == Spec => []AllPagesWellCut
<1>1. TextInv => AllPagesWellCut
  <2>1. ASSUME text = <<>>, pages = <<>> PROVE AllPagesWellCut
    <3>1. Len(<<>>) = 0 /\ DOMAIN <<>> = {} /\ 1..(0 - 1) = {} /\ ~(0 > 1)
      OBVIOUS
    <3> QED
      BY <2>1, <3>1, Zenon DEF AllPagesWellCut, PagesSized, LastPageFull, BrokenAtSentence
  <2>2. ASSUME text \in Text, Strict(Words(text)), pages = Sections(text)
        PROVE  AllPagesWellCut
    <3>1. PagesSized(Sections(text)) /\ LastPageFull(Sections(text))
      BY <2>2, SectionsSized
    <3>2. BrokenAtSentence(text, Sections(text))
      BY <2>2, SectionsBreakAtSentences
    <3> QED BY <2>2, <3>1, <3>2, Zenon DEF AllPagesWellCut
  <2> QED BY <2>1, <2>2 DEF TextInv
<1> QED BY TextKept, <1>1, PTL

-----------------------------------------------------------------------------
(* Compaction of a prompt.                                                 *)

LineLens(s)  == [i \in DOMAIN s |-> s[i].len]
MainShare(l) == IF Main(l) THEN l.len + 1 ELSE 0
MainLens(s)  == [i \in DOMAIN s |-> MainShare(s[i])]
UsedOf(s)    == Total[MainLens(s)]

(* A sum with one more.                                                    *)
LEMMA TotalAppend ==
  ASSUME NEW u \in Seq(Nat), NEW n \in Nat
  PROVE  Total[Append(u, n)] = Total[u] + n
<1>1. <<n>> \in Seq(Nat) /\ Len(<<n>>) = 1 /\ <<n>>[1] = n
  OBVIOUS
<1>2. Total[<<n>>] = n
  BY <1>1, TotalOne
<1>3. Append(u, n) = u \o <<n>>
  BY AppendIsConcat
<1>4. Total[u \o <<n>>] = Total[u] + Total[<<n>>]
  BY <1>1, TotalConcat
<1> QED BY <1>2, <1>3, <1>4, Zenon

LEMMA LineTyped ==
  ASSUME NEW l \in NamedLine
  PROVE  /\ l.len \in Nat \ {0} /\ MainShare(l) \in Nat /\ Priority(l) \in 1..8
         /\ Essential(l) <=> Main(l)
         /\ Essential(l) <=> Priority(l) \in 1..3
         /\ Main(l) => MainShare(l) = l.len + 1
<1>1. l.kind \in LineKinds /\ l.len \in Nat \ {0}
  BY DEF NamedLine
<1>2. /\ Priority(l) \in 1..8
      /\ Priority(l) <= 3 <=> Main(l)
      /\ Priority(l) <= 3 <=> Priority(l) \in 1..3
  BY <1>1 DEF Priority, Main, LineKinds
<1>3. Essential(l) <=> Priority(l) <= 3
  BY Zenon DEF Essential
<1>4. MainShare(l) = IF Main(l) THEN l.len + 1 ELSE 0
  BY Zenon DEF MainShare
<1>5. MainShare(l) \in Nat /\ (Main(l) => MainShare(l) = l.len + 1)
  BY <1>1, <1>4
<1> QED BY <1>1, <1>2, <1>3, <1>5, Zenon

(* The lines of a prompt with one more.                                    *)
LEMMA LinesAppend ==
  ASSUME NEW s \in Seq(NamedLine), NEW l \in NamedLine
  PROVE  /\ LineLens(s) \in Seq(Nat) /\ MainLens(s) \in Seq(Nat)
         /\ LineLens(Append(s, l)) = Append(LineLens(s), l.len)
         /\ MainLens(Append(s, l)) = Append(MainLens(s), MainShare(l))
<1> DEFINE n == Len(s)
           t == Append(s, l)
<1>1. /\ n \in Nat /\ DOMAIN s = 1..n /\ DOMAIN t = 1..(n + 1)
      /\ t[n + 1] = l /\ \A i \in 1..n : t[i] = s[i] /\ s[i] \in NamedLine
  BY AppendProperties, LenProperties
<1>2. /\ l.len \in Nat /\ MainShare(l) \in Nat
      /\ \A i \in 1..n : s[i].len \in Nat /\ MainShare(s[i]) \in Nat
  BY <1>1, LineTyped
<1> HIDE DEF n, t, MainShare
<1>3. /\ LineLens(s) \in Seq(Nat) /\ Len(LineLens(s)) = n
      /\ MainLens(s) \in Seq(Nat) /\ Len(MainLens(s)) = n
      /\ \A i \in 1..n : LineLens(s)[i] = s[i].len /\ MainLens(s)[i] = MainShare(s[i])
  BY <1>1, <1>2 DEF LineLens, MainLens
<1>4. \A i \in 1..(n + 1) : i # n + 1 => i \in 1..n
  BY <1>1
<1>5. /\ LineLens(t) \in Seq(Nat) /\ Len(LineLens(t)) = n + 1
      /\ MainLens(t) \in Seq(Nat) /\ Len(MainLens(t)) = n + 1
      /\ \A i \in 1..(n + 1) : LineLens(t)[i] = t[i].len /\ MainLens(t)[i] = MainShare(t[i])
  <2>1. \A i \in 1..(n + 1) : t[i].len \in Nat /\ MainShare(t[i]) \in Nat
    BY <1>1, <1>2, <1>4
  <2> QED BY <1>1, <2>1 DEF LineLens, MainLens
<1> DEFINE u == LineLens(s)
           v == MainLens(s)
           w == LineLens(t)
           x == MainLens(t)
           m == MainShare(l)
<1> HIDE DEF u, v, w, x, m
<1>6. /\ Append(u, l.len) \in Seq(Nat) /\ Len(Append(u, l.len)) = n + 1
      /\ Append(u, l.len)[n + 1] = l.len
      /\ \A i \in 1..n : Append(u, l.len)[i] = u[i]
  BY <1>2, <1>3, AppendProperties DEF u
<1>7. /\ Append(v, m) \in Seq(Nat) /\ Len(Append(v, m)) = n + 1
      /\ Append(v, m)[n + 1] = m
      /\ \A i \in 1..n : Append(v, m)[i] = v[i]
  BY <1>2, <1>3, AppendProperties DEF v, m
<1>8. w = Append(u, l.len)
  <2>1. \A i \in 1..(n + 1) : w[i] = Append(u, l.len)[i]
    BY <1>1, <1>3, <1>4, <1>5, <1>6 DEF u, w
  <2> QED BY <1>5, <1>6, <2>1, SeqEqual DEF w
<1>9. x = Append(v, m)
  <2>1. \A i \in 1..(n + 1) : x[i] = Append(v, m)[i]
    BY <1>1, <1>3, <1>4, <1>5, <1>7 DEF v, x, m
  <2> QED BY <1>5, <1>7, <2>1, SeqEqual DEF x
<1> QED BY <1>3, <1>8, <1>9 DEF u, v, w, x, m, t

(* The length of lines and of the main ones among them; what one more adds *)
(* is the same for the first line and for the others.                      *)
LEMMA LengthsTyped ==
  ASSUME NEW s \in Seq(NamedLine)
  PROVE  /\ LengthOf(s) \in Nat /\ UsedOf(s) \in Nat /\ Len(s) \in Nat
         /\ JoinedLength(s) = IF s = <<>> THEN 0 ELSE LengthOf(s) + Len(s) - 1
         /\ LengthOf(<<>>) = 0 /\ UsedOf(<<>>) = 0
<1>1. LineLens(s) \in Seq(Nat) /\ MainLens(s) \in Seq(Nat)
  <2>1. /\ Len(s) \in Nat /\ DOMAIN s = 1..Len(s)
        /\ \A i \in 1..Len(s) : s[i].len \in Nat /\ MainShare(s[i]) \in Nat
    BY LenProperties, ElementOfSeq, LineTyped
  <2> HIDE DEF MainShare
  <2> QED BY <2>1 DEF LineLens, MainLens
<1>2. LineLens(<<>>) = <<>> /\ MainLens(<<>>) = <<>>
  BY DEF LineLens, MainLens
<1>3. \A q : LengthOf(q) = Total[LineLens(q)]
  BY Zenon DEF LengthOf, LineLens
<1>4. LengthOf(<<>>) = 0 /\ UsedOf(<<>>) = 0
  BY <1>2, <1>3, TotalTyped, Zenon DEF UsedOf
<1>5. LengthOf(s) \in Nat /\ UsedOf(s) \in Nat
  BY <1>1, <1>3, TotalTyped DEF UsedOf
<1> QED BY <1>4, <1>5, LenProperties DEF JoinedLength

LEMMA LengthsAppend ==
  ASSUME NEW s \in Seq(NamedLine), NEW l \in NamedLine
  PROVE  /\ Append(s, l) \in Seq(NamedLine) /\ Append(s, l) # <<>>
         /\ LengthOf(Append(s, l)) = LengthOf(s) + l.len
         /\ UsedOf(Append(s, l)) = UsedOf(s) + MainShare(l)
         /\ Len(Append(s, l)) = Len(s) + 1
         /\ Grown(s, l) = LengthOf(s) + Len(s) + l.len
         /\ JoinedLength(Append(s, l)) = Grown(s, l)
<1>1. /\ Append(s, l) \in Seq(NamedLine) /\ Append(s, l) # <<>>
      /\ Len(Append(s, l)) = Len(s) + 1
  BY AppendProperties
<1>2. \A q : LengthOf(q) = Total[LineLens(q)]
  BY Zenon DEF LengthOf, LineLens
<1>3. l.len \in Nat /\ MainShare(l) \in Nat
  BY LineTyped
<1>4. LengthOf(Append(s, l)) = LengthOf(s) + l.len
  <2>1. Total[Append(LineLens(s), l.len)] = Total[LineLens(s)] + l.len
    BY <1>3, LinesAppend, TotalAppend
  <2> QED BY <1>2, <2>1, LinesAppend, Zenon
<1>5. UsedOf(Append(s, l)) = UsedOf(s) + MainShare(l)
  <2> HIDE DEF MainShare
  <2>1. Total[Append(MainLens(s), MainShare(l))] = Total[MainLens(s)] + MainShare(l)
    BY <1>3, LinesAppend, TotalAppend
  <2> QED BY <2>1, LinesAppend, Zenon DEF UsedOf
<1>6. LengthOf(s) \in Nat /\ Len(s) \in Nat /\ (s = <<>> => LengthOf(s) = 0 /\ Len(s) = 0)
  BY LengthsTyped
<1>7. Grown(s, l) = LengthOf(s) + Len(s) + l.len
  BY <1>3, <1>6, LengthsTyped DEF Grown
<1>8. JoinedLength(Append(s, l)) = LengthOf(Append(s, l)) + Len(Append(s, l)) - 1
  BY <1>1, LengthsTyped
<1>9. JoinedLength(Append(s, l)) = Grown(s, l)
  <2> DEFINE a == LengthOf(s)
             n == Len(s)
             x == l.len
  <2>1. JoinedLength(Append(s, l)) = (a + x) + (n + 1) - 1
    BY <1>1, <1>4, <1>8, Zenon
  <2>2. a \in Nat /\ n \in Nat /\ x \in Nat
    BY <1>3, <1>6
  <2> HIDE DEF a, n, x
  <2>3. (a + x) + (n + 1) - 1 = a + n + x
    BY <2>2
  <2> QED BY <1>7, <2>1, <2>3, Zenon DEF a, n, x
<1> QED BY <1>1, <1>4, <1>5, <1>7, <1>9

-----------------------------------------------------------------------------
(* What passes a test, and the sort.                                       *)

Taken1(l, passes) == IF passes THEN <<l>> ELSE <<>>
Chosen(s, k)      == [i \in DOMAIN s |-> Taken1(s[i], Priority(s[i]) = k)]
OfPriority(s, k)  == Those(s, [i \in DOMAIN s |-> Priority(s[i]) = k])

LEMMA OneTaken ==
  ASSUME NEW S, NEW l \in S, NEW b \in BOOLEAN
  PROVE  Taken1(l, b) \in Seq(S) /\ Range(Taken1(l, b)) = {e \in {l} : b}
<1>1. CASE b
  <2>1. Taken1(l, b) = <<l>>
    BY <1>1, Zenon DEF Taken1
  <2>2. <<l>> \in Seq(S) /\ Range(<<l>>) = {l}
    BY RangeOne
  <2> QED BY <1>1, <2>1, <2>2
<1>2. CASE ~b
  <2>1. Taken1(l, b) = <<>>
    BY <1>2, Zenon DEF Taken1
  <2>2. <<>> \in Seq(S) /\ Range(<<>>) = {}
    BY DEF Range
  <2> QED BY <1>2, <2>1, <2>2
<1> QED BY <1>1, <1>2

LEMMA ChosenAppend ==
  ASSUME NEW s \in Seq(NamedLine), NEW l \in NamedLine, NEW k
  PROVE  /\ Chosen(s, k) \in Seq(Seq(NamedLine))
         /\ Chosen(Append(s, l), k) = Append(Chosen(s, k), Taken1(l, Priority(l) = k))
<1> DEFINE n == Len(s)
           t == Append(s, l)
           One(e) == Taken1(e, Priority(e) = k)
           NL == NamedLine
<1>1. /\ n \in Nat /\ DOMAIN s = 1..n /\ DOMAIN t = 1..(n + 1)
      /\ t[n + 1] = l /\ \A i \in 1..n : t[i] = s[i] /\ s[i] \in NL
  BY AppendProperties, LenProperties
<1>2. \A e \in NL : One(e) \in Seq(NL)
  BY OneTaken
<1>3. \A q : Chosen(q, k) = [i \in DOMAIN q |-> One(q[i])]
  BY Zenon DEF Chosen
<1>a. l \in NL
  OBVIOUS
<1> HIDE DEF n, t, One, NL
<1>4. \A i \in 1..(n + 1) : t[i] \in NL /\ (i # n + 1 => i \in 1..n)
  BY <1>1, <1>a
<1> DEFINE u == Chosen(s, k)
           v == Chosen(t, k)
<1>5. u \in Seq(Seq(NL)) /\ Len(u) = n /\ \A i \in 1..n : u[i] = One(s[i])
  <2>1. \A i \in 1..n : One(s[i]) \in Seq(NL)
    BY <1>1, <1>2
  <2>2. u = [i \in 1..n |-> One(s[i])]
    BY <1>1, <1>3
  <2> DEFINE W == Seq(NL)
  <2>3. \A i \in 1..n : One(s[i]) \in W
    BY <2>1
  <2> HIDE DEF u, W
  <2>4. u \in Seq(W) /\ Len(u) = n /\ \A i \in 1..n : u[i] = One(s[i])
    BY <1>1, <2>2, <2>3
  <2> QED BY <2>4 DEF W
<1>6. v \in Seq(Seq(NL)) /\ Len(v) = n + 1 /\ \A i \in 1..(n + 1) : v[i] = One(t[i])
  <2>1. \A i \in 1..(n + 1) : One(t[i]) \in Seq(NL)
    BY <1>2, <1>4
  <2>2. v = [i \in 1..(n + 1) |-> One(t[i])]
    BY <1>1, <1>3
  <2> DEFINE W == Seq(NL)
  <2>3. \A i \in 1..(n + 1) : One(t[i]) \in W
    BY <2>1
  <2> HIDE DEF v, W
  <2>4. v \in Seq(W) /\ Len(v) = (n + 1) /\ \A i \in 1..(n + 1) : v[i] = One(t[i])
    BY <1>1, <2>2, <2>3
  <2> QED BY <2>4 DEF W
<1> HIDE DEF u, v
<1>7. /\ Append(u, One(l)) \in Seq(Seq(NL)) /\ Len(Append(u, One(l))) = n + 1
      /\ Append(u, One(l))[n + 1] = One(l)
      /\ \A i \in 1..n : Append(u, One(l))[i] = u[i]
  BY <1>2, <1>5, <1>a, AppendProperties
<1>8. \A i \in 1..(n + 1) : v[i] = Append(u, One(l))[i]
  BY <1>1, <1>4, <1>5, <1>6, <1>7
<1>9. v = Append(u, One(l))
  BY <1>6, <1>7, <1>8, SeqEqual
<1> QED BY <1>5, <1>9 DEF u, v, t, One, NL

(* The lines of a priority are just those.                                 *)
LEMMA PriorityRange ==
  ASSUME NEW k
  PROVE  \A s \in Seq(NamedLine) :
           /\ OfPriority(s, k) \in Seq(NamedLine)
           /\ Range(OfPriority(s, k)) = {l \in Range(s) : Priority(l) = k}
<1> DEFINE NL == NamedLine
           G == {s \in Seq(NL) :
                   Range(FlattenSeq(Chosen(s, k))) = {l \in Range(s) : Priority(l) = k}}
<1>1. <<>> \in G
  <2>1. Chosen(<<>>, k) = <<>> /\ <<>> \in Seq(NL) /\ Range(<<>>) = {}
    BY DEF Chosen, Range
  <2> QED BY <2>1, FlattenEmpty
<1>2. ASSUME NEW s \in Seq(NL), NEW l \in NL, s \in G PROVE Append(s, l) \in G
  <2> DEFINE o == Taken1(l, Priority(l) = k)
             u == FlattenSeq(Chosen(s, k))
  <2>1. o \in Seq(NL) /\ Range(o) = {e \in {l} : Priority(l) = k}
    BY OneTaken
  <2>2. Chosen(s, k) \in Seq(Seq(NL)) /\ Chosen(Append(s, l), k) = Append(Chosen(s, k), o)
    BY ChosenAppend
  <2>3. u \in Seq(NL)
    BY <2>2, FlattenTyped
  <2>4. FlattenSeq(Append(Chosen(s, k), o)) = u \o o
    BY <2>1, <2>2, FlattenAppend
  <2>5. Range(u) = {e \in Range(s) : Priority(e) = k}
    BY <1>2
  <2>6. Range(Append(s, l)) = Range(s) \cup {l} /\ Append(s, l) \in Seq(NL)
    BY RangeAppend, AppendProperties
  <2> HIDE DEF o, u
  <2>7. Range(u \o o) = Range(u) \cup Range(o)
    BY <2>1, <2>3, RangeConcat
  <2>8. Range(u \o o) = {e \in Range(Append(s, l)) : Priority(e) = k}
    BY <2>1, <2>5, <2>6, <2>7
  <2> QED BY <2>2, <2>4, <2>6, <2>8
<1> HIDE DEF G
<1>3. \A s \in Seq(NL) : s \in G
  BY <1>1, <1>2, SequenceInduction
<1>4. ASSUME NEW s \in Seq(NL)
      PROVE  OfPriority(s, k) = FlattenSeq(Chosen(s, k))
  <2>1. [i \in DOMAIN s |-> IF [j \in DOMAIN s |-> Priority(s[j]) = k][i] THEN <<s[i]>> ELSE <<>>]
          = [i \in DOMAIN s |-> IF Priority(s[i]) = k THEN <<s[i]>> ELSE <<>>]
    OBVIOUS
  <2>2. Chosen(s, k) = [i \in DOMAIN s |-> IF Priority(s[i]) = k THEN <<s[i]>> ELSE <<>>]
    BY Zenon DEF Chosen, Taken1
  <2> QED BY <2>1, <2>2, Zenon DEF OfPriority, Those
<1>5. ASSUME NEW s \in Seq(NL)
      PROVE  /\ OfPriority(s, k) \in Seq(NL)
             /\ Range(OfPriority(s, k)) = {l \in Range(s) : Priority(l) = k}
  <2>1. Chosen(s, k) \in Seq(Seq(NL))
    <3>1. CASE s = <<>>
      <4>1. Chosen(<<>>, k) = <<>>
        BY DEF Chosen
      <4>2. <<>> \in Seq(Seq(NL))
        OBVIOUS
      <4> QED BY <3>1, <4>1, <4>2, Zenon
    <3>2. CASE s # <<>>
      <4>1. PICK l \in NL : l \in NL
        BY <3>2, ElementOfSeq, LenProperties, EmptySeq
      <4> QED BY <4>1, ChosenAppend
    <3> QED BY <3>1, <3>2
  <2>2. FlattenSeq(Chosen(s, k)) \in Seq(NL)
    BY <2>1, FlattenTyped
  <2>3. s \in G
    BY <1>3
  <2> QED BY <1>4, <2>2, <2>3 DEF G
<1> QED BY <1>5

(* The elements of sequences written one after the other.                  *)
LEMMA RangeFlatten ==
  ASSUME NEW S
  PROVE  \A ss \in Seq(Seq(S)) : Range(FlattenSeq(ss)) = UNION {Range(s) : s \in Range(ss)}
<1> DEFINE G == {ss \in Seq(Seq(S)) :
                   Range(FlattenSeq(ss)) = UNION {Range(s) : s \in Range(ss)}}
<1>1. <<>> \in G
  <2>1. <<>> \in Seq(Seq(S)) /\ Range(<<>>) = {}
    BY DEF Range
  <2>2. FlattenSeq(<<>>) = <<>>
    BY FlattenEmpty
  <2>3. UNION {Range(s) : s \in {}} = {}
    OBVIOUS
  <2> QED BY <2>1, <2>2, <2>3, Zenon
<1>2. ASSUME NEW ss \in Seq(Seq(S)), NEW t \in Seq(S), ss \in G PROVE Append(ss, t) \in G
  <2>1. FlattenSeq(Append(ss, t)) = FlattenSeq(ss) \o t /\ FlattenSeq(ss) \in Seq(S)
    BY FlattenAppend, FlattenTyped
  <2>2. Range(FlattenSeq(ss) \o t) = Range(FlattenSeq(ss)) \cup Range(t)
    BY <2>1, RangeConcat
  <2>3. Range(Append(ss, t)) = Range(ss) \cup {t}
    BY RangeAppend
  <2>4. Range(FlattenSeq(ss)) = UNION {Range(s) : s \in Range(ss)}
    BY <1>2
  <2>5. Append(ss, t) \in Seq(Seq(S))
    BY AppendProperties
  <2>6. UNION {Range(s) : s \in Range(ss) \cup {t}}
          = (UNION {Range(s) : s \in Range(ss)}) \cup Range(t)
    OBVIOUS
  <2>7. Range(FlattenSeq(Append(ss, t))) = UNION {Range(s) : s \in Range(Append(ss, t))}
    BY <2>1, <2>2, <2>3, <2>4, <2>6, Zenon
  <2> QED BY <2>5, <2>7
<1> HIDE DEF G
<1>3. \A ss \in Seq(Seq(S)) : ss \in G
  BY <1>1, <1>2, SequenceInduction
<1> QED BY <1>3 DEF G

(* The sort: every line once more, the main ones first.                    *)
MainFirst(s) == \A i \in 1..Len(s) : Main(s[i]) => \A j \in 1..i : Main(s[j])

LEMMA Sorted ==
  ASSUME NEW s \in Seq(NamedLine)
  PROVE  /\ ByPriority(s) \in Seq(NamedLine) /\ Range(ByPriority(s)) = Range(s)
         /\ MainFirst(ByPriority(s))
<1> DEFINE NL == NamedLine
           P(k) == OfPriority(s, k)
           aa == [k \in 1..3 |-> P(k)]
           bb == [k \in 1..5 |-> P(k + 3)]
           all == [k \in 1..8 |-> P(k)]
           W == Seq(NL)
<1>1. \A k : P(k) \in W /\ Range(P(k)) = {l \in Range(s) : Priority(l) = k}
  BY PriorityRange
<1>2. ByPriority(s) = FlattenSeq(all)
  BY Zenon DEF ByPriority, OfPriority
<1>3. \A l \in Range(s) : l \in NL
  BY ElementOfSeq, LenProperties DEF Range
<1> HIDE DEF P, W, NL
<1>4. /\ aa \in Seq(W) /\ Len(aa) = 3 /\ \A k \in 1..3 : aa[k] = P(k)
      /\ bb \in Seq(W) /\ Len(bb) = 5 /\ \A k \in 1..5 : bb[k] = P(k + 3)
      /\ all \in Seq(W) /\ Len(all) = 8 /\ \A k \in 1..8 : all[k] = P(k)
  BY <1>1
<1> HIDE DEF aa, bb, all
<1>5. all = aa \o bb
  <2>1. /\ aa \o bb \in Seq(W) /\ Len(aa \o bb) = Len(aa) + Len(bb)
        /\ \A i \in 1..(Len(aa) + Len(bb)) :
             (aa \o bb)[i] = IF i <= Len(aa) THEN aa[i] ELSE bb[i - Len(aa)]
    <3>1. aa \in Seq(W) /\ bb \in Seq(W)
      BY <1>4
    <3> QED BY <3>1, ConcatProperties
  <2>2. /\ Len(aa \o bb) = 8
        /\ \A i \in 1..8 : (aa \o bb)[i] = IF i <= 3 THEN aa[i] ELSE bb[i - 3]
    <3>1. Len(aa) = 3 /\ Len(bb) = 5
      BY <1>4
    <3> QED BY <2>1, <3>1
  <2>3. ASSUME NEW i \in 1..8 PROVE all[i] = (aa \o bb)[i]
    <3>1. CASE i <= 3
      <4>1. i \in 1..3
        BY <3>1
      <4> QED BY <1>4, <2>2, <3>1, <4>1, SMTT(30)
    <3>2. CASE ~(i <= 3)
      <4>1. i - 3 \in 1..5 /\ (i - 3) + 3 = i
        BY <3>2
      <4>2. bb[i - 3] = P((i - 3) + 3)
        BY <1>4, <4>1
      <4>3. bb[i - 3] = P(i)
        BY <4>1, <4>2, Zenon
      <4> QED BY <1>4, <2>2, <3>2, <4>3
    <3> QED BY <3>1, <3>2
  <2>4. all \in Seq(W) /\ aa \o bb \in Seq(W) /\ Len(all) = Len(aa \o bb)
    BY <1>4, <2>1, <2>2
  <2>5. \A i \in 1..Len(all) : all[i] = (aa \o bb)[i]
    BY <1>4, <2>3
  <2> QED BY <2>4, <2>5, SeqEqual
<1> DEFINE a == FlattenSeq(aa)
           b == FlattenSeq(bb)
<1>6. FlattenSeq(all) = a \o b /\ a \in Seq(NL) /\ b \in Seq(NL)
  <2>1. aa \in Seq(Seq(NL)) /\ bb \in Seq(Seq(NL))
    BY <1>4 DEF W
  <2> QED BY <1>5, <2>1, FlattenConcat, FlattenTyped
<1>7. /\ Range(a) = UNION {Range(r) : r \in Range(aa)}
      /\ Range(b) = UNION {Range(r) : r \in Range(bb)}
  BY <1>4, RangeFlatten DEF W
<1>8. Range(a) = {l \in Range(s) : Priority(l) \in 1..3}
  <2>1. Range(aa) = {P(k) : k \in 1..3}
    <3>1. DOMAIN aa = 1..3
      BY <1>4, LenProperties
    <3> QED BY <1>4, <3>1 DEF Range
  <2>2. \A l : l \in Range(a) <=> \E k \in 1..3 : l \in Range(P(k))
    BY <1>7, <2>1
  <2> HIDE DEF a
  <2> QED BY <1>1, <2>2
<1>9. Range(b) = {l \in Range(s) : Priority(l) \in 4..8}
  <2>1. Range(bb) = {P(k) : k \in 4..8}
    <3>1. DOMAIN bb = 1..5
      BY <1>4, LenProperties
    <3>2. \A k \in 1..5 : bb[k] = P(k + 3) /\ k + 3 \in 4..8
      BY <1>4
    <3>3. \A k \in 4..8 : k - 3 \in 1..5 /\ (k - 3) + 3 = k
      OBVIOUS
    <3>4. \A k \in 4..8 : bb[k - 3] = P(k)
      <4> TAKE k \in 4..8
      <4>1. bb[k - 3] = P((k - 3) + 3)
        BY <3>2, <3>3
      <4> QED BY <3>3, <4>1, Zenon
    <3>5. Range(bb) \subseteq {P(k) : k \in 4..8}
      BY <3>1, <3>2 DEF Range
    <3>6. {P(k) : k \in 4..8} \subseteq Range(bb)
      BY <3>1, <3>3, <3>4 DEF Range
    <3> QED BY <3>5, <3>6
  <2>2. \A l : l \in Range(b) <=> \E k \in 4..8 : l \in Range(P(k))
    BY <1>7, <2>1
  <2> HIDE DEF b
  <2> QED BY <1>1, <2>2
<1> HIDE DEF a, b
<1>10. a \o b \in Seq(NL) /\ Range(a \o b) = Range(a) \cup Range(b)
  BY <1>6, RangeConcat
<1>11. Range(a \o b) = Range(s)
  <2>1. \A l \in Range(s) : Priority(l) \in 1..3 \/ Priority(l) \in 4..8
    <3> TAKE l \in Range(s)
    <3>1. Priority(l) \in 1..8
      BY <1>3, LineTyped DEF NL
    <3> QED BY <3>1
  <2> QED BY <1>8, <1>9, <1>10, <2>1
<1>12. /\ \A l \in Range(a) : Main(l)
       /\ \A l \in Range(b) : ~Main(l)
  <2>1. \A l \in NL : Main(l) <=> Priority(l) \in 1..3
    BY LineTyped DEF NL
  <2>2. \A k \in 4..8 : k \notin 1..3
    OBVIOUS
  <2> QED BY <1>3, <1>8, <1>9, <2>1, <2>2
<1>13. MainFirst(a \o b)
  <2>1. /\ Len(a) \in Nat /\ Len(b) \in Nat /\ Len(a \o b) = Len(a) + Len(b)
        /\ \A i \in 1..(Len(a) + Len(b)) :
             (a \o b)[i] = IF i <= Len(a) THEN a[i] ELSE b[i - Len(a)]
        /\ DOMAIN a = 1..Len(a) /\ DOMAIN b = 1..Len(b)
    BY <1>6, ConcatProperties, LenProperties
  <2>2. \A i \in 1..Len(a) : Main(a[i])
    BY <1>12, <2>1 DEF Range
  <2>3. \A i \in 1..Len(b) : ~Main(b[i])
    BY <1>12, <2>1 DEF Range
  <2> SUFFICES ASSUME NEW i \in 1..Len(a \o b), Main((a \o b)[i]), NEW j \in 1..i
               PROVE  Main((a \o b)[j])
    BY DEF MainFirst
  <2>4. i <= Len(a)
    <3> SUFFICES ASSUME ~(i <= Len(a)) PROVE FALSE
      OBVIOUS
    <3>1. i - Len(a) \in 1..Len(b) /\ (a \o b)[i] = b[i - Len(a)]
      BY <2>1
    <3>2. ~Main(b[i - Len(a)])
      BY <2>3, <3>1
    <3> QED BY <3>1, <3>2, Zenon
  <2>5. j \in 1..Len(a) /\ (a \o b)[j] = a[j]
    BY <2>1, <2>4
  <2>6. Main(a[j])
    BY <2>2, <2>5
  <2> QED BY <2>5, <2>6, Zenon
<1> QED BY <1>2, <1>6, <1>10, <1>11, <1>13 DEF NL

(* The lines kept are lines: the loop computes what its recursion says.    *)
LEMMA KeepTyped ==
  ASSUME NEW kept \in Seq(NamedLine), NEW l \in NamedLine
  PROVE  Keep(kept, l) \in Seq(NamedLine)
<1>1. \A f : Those(kept, f) \in Seq(NamedLine)
  <2> TAKE f
  <2> DEFINE W == Seq(NamedLine)
             One(i) == IF f[i] THEN <<kept[i]>> ELSE <<>>
             g == [i \in DOMAIN kept |-> One(i)]
  <2>1. DOMAIN kept = 1..Len(kept) /\ Len(kept) \in Nat
    BY LenProperties
  <2>2. ASSUME NEW i \in 1..Len(kept) PROVE One(i) \in W
    <3>1. kept[i] \in NamedLine
      BY <2>2, ElementOfSeq
    <3>2. <<kept[i]>> \in W /\ <<>> \in W
      BY <3>1
    <3>3. One(i) = <<kept[i]>> \/ One(i) = <<>>
      BY Zenon
    <3> HIDE DEF One, W
    <3> QED BY <3>2, <3>3, Zenon
  <2> HIDE DEF W, One
  <2>3. g \in Seq(W)
    BY <2>1, <2>2
  <2>4. FlattenSeq(g) \in Seq(NamedLine)
    BY <2>3, FlattenTyped DEF W
  <2> QED BY <2>4, Zenon DEF Those, g, One
<1>2. \A q \in Seq(NamedLine) : Append(q, l) \in Seq(NamedLine)
  BY AppendProperties
<1>3. MakeRoom(kept, l) \in Seq(NamedLine)
  <2> DEFINE lesser     == {i \in DOMAIN kept : Priority(kept[i]) > 3}
             gone(n)    == {i \in lesser : Cardinality({j \in lesser : j >= i}) <= n}
             without(n) == Those(kept, [i \in DOMAIN kept |-> i \notin gone(n)])
             enough     == {n \in 1..Cardinality(lesser) : Grown(without(n), l) <= MaxPrompt}
  <2>1. \A n : without(n) \in Seq(NamedLine)
    BY <1>1
  <2>2. MakeRoom(kept, l) = IF enough = {} THEN without(Cardinality(lesser))
                            ELSE Append(without(Min(enough)), l)
    BY Zenon DEF MakeRoom
  <2> HIDE DEF lesser, gone, without, enough
  <2>3. without(Cardinality(lesser)) \in Seq(NamedLine)
    BY <2>1
  <2>4. Append(without(Min(enough)), l) \in Seq(NamedLine)
    BY <1>2, <2>1
  <2> QED BY <2>2, <2>3, <2>4, Zenon
<1>4. \/ Keep(kept, l) = Append(kept, l)
      \/ Keep(kept, l) = MakeRoom(kept, l)
      \/ Keep(kept, l) = kept
  BY Zenon DEF Keep
<1> QED BY <1>2, <1>3, <1>4, Zenon

LEMMA KeptEquation ==
  /\ KeptOf \in [Seq(NamedLine) -> Seq(NamedLine)]
  /\ KeptOf[<<>>] = <<>>
  /\ \A s \in Seq(NamedLine), l \in NamedLine : KeptOf[Append(s, l)] = Keep(KeptOf[s], l)
<1> DEFINE S == Seq(NamedLine)
           size == [s \in S |-> Len(s)]
           Base == {<<>>}
           base == [s \in Base |-> <<>>]
           next == [s \in S \ Base |-> Front(s)]
           combine == [x \in (S \ Base) \X S |-> Keep(x[2], Last(x[1]))]
<1>1. \A s \in S, l \in NamedLine :
        /\ Append(s, l) \in S \ Base /\ Front(Append(s, l)) = s /\ Last(Append(s, l)) = l
        /\ Len(Append(s, l)) = Len(s) + 1
  <2> TAKE s \in S, l \in NamedLine
  <2>1. /\ Append(s, l) \in S /\ Append(s, l) # <<>> /\ Len(Append(s, l)) = Len(s) + 1
        /\ Append(s, l)[Len(s) + 1] = l /\ Len(s) \in Nat
    BY AppendProperties, LenProperties
  <2>2. Last(Append(s, l)) = l
    BY <2>1 DEF Last
  <2>3. Front(Append(s, l)) = s
    <3> DEFINE t == Append(s, l)
    <3>1. Front(t) = SubSeq(t, 1, (Len(s) + 1) - 1)
      BY <2>1, Zenon DEF Front
    <3>2. (Len(s) + 1) - 1 = Len(s)
      BY <2>1
    <3>3. SubSeq(t, 1, Len(s)) = s
      <4>1. \A i \in 1..Len(s) : t[i] = s[i]
        BY AppendProperties
      <4>2. SubSeq(t, 1, Len(s)) = [i \in 1..Len(s) |-> t[i]]
        BY <2>1
      <4>3. s = [i \in 1..Len(s) |-> s[i]]
        BY LenProperties
      <4> HIDE DEF t
      <4>4. [i \in 1..Len(s) |-> t[i]] = [i \in 1..Len(s) |-> s[i]]
        BY <4>1
      <4> QED BY <4>2, <4>3, <4>4, Zenon
    <3> QED BY <3>1, <3>2, <3>3, Zenon
  <2> QED BY <2>1, <2>2, <2>3
<1>2. \A s \in S \ Base : \E r \in S, l \in NamedLine : s = Append(r, l)
  BY SequenceEmptyOrAppend
<1>3. Recursive(S, S, size, Base, base, next, combine)
  <2>1. ASSUME NEW s \in S \ Base
        PROVE  Front(s) \in S /\ Len(Front(s)) < Len(s) /\ Last(s) \in NamedLine
    <3>1. PICK r \in S, l \in NamedLine : s = Append(r, l)
      BY <1>2
    <3>2. Front(s) = r /\ Last(s) = l /\ Len(s) = Len(r) + 1 /\ Len(r) \in Nat
      BY <1>1, <3>1, LenProperties
    <3> QED BY <3>2
  <2>2. \A x \in (S \ Base) \X S : Keep(x[2], Last(x[1])) \in S
    BY <2>1, KeepTyped
  <2>3. <<>> \in S /\ \A s \in S : Len(s) \in Nat
    BY LenProperties
  <2>4. size \in [S -> Nat] /\ base \in [Base -> S] /\ next \in [S \ Base -> S]
    <3> HIDE DEF S, Base
    <3> QED BY <2>1, <2>3
  <2>5. combine \in [(S \ Base) \X S -> S]
    <3> HIDE DEF S, Base
    <3> QED BY <2>2
  <2>6. \A s \in S \ Base : size[next[s]] < size[s]
    <3> HIDE DEF S, Base
    <3> QED BY <2>1
  <2> HIDE DEF S, size, Base, base, next, combine
  <2> QED BY <2>4, <2>5, <2>6 DEF Recursive
<1>4. PICK f \in [S -> S] : \A t \in S : f[t] = Body(Base, base, next, combine, f, t)
  <2> HIDE DEF S, size, Base, base, next, combine
  <2> QED BY <1>3, RecursionDefines
<1>5. ASSUME NEW s \in S
      PROVE  f[s] = IF s = <<>> THEN <<>> ELSE Keep(f[Front(s)], Last(s))
  <2>1. CASE s = <<>>
    <3>1. f[s] = base[s] /\ base[s] = <<>>
      BY <1>4, <2>1 DEF Body
    <3> QED BY <2>1, <3>1
  <2>2. CASE s # <<>>
    <3>1. s \in S \ Base
      BY <2>2
    <3>2. f[s] = combine[<<s, f[next[s]]>>]
      BY <1>4, <3>1, Zenon DEF Body
    <3>3. next[s] = Front(s)
      BY <3>1, Zenon
    <3>4. Front(s) \in S
      <4>1. PICK r \in S, l \in NamedLine : s = Append(r, l)
        BY <1>2, <3>1
      <4> QED BY <1>1, <4>1
    <3>5. f[Front(s)] \in S
      BY <1>4, <3>4
    <3>6. <<s, f[Front(s)]>> \in (S \ Base) \X S
      <4> HIDE DEF S, Base
      <4> QED BY <3>1, <3>5
    <3>7. \A x \in (S \ Base) \X S : combine[x] = Keep(x[2], Last(x[1]))
      BY Zenon
    <3>8. combine[<<s, f[Front(s)]>>] = Keep(f[Front(s)], Last(s))
      <4> HIDE DEF S, Base, combine
      <4> QED BY <3>6, <3>7
    <3> QED BY <2>2, <3>2, <3>3, <3>8, Zenon
  <2> QED BY <2>1, <2>2
<1>6. f = [s \in S |-> IF s = <<>> THEN <<>> ELSE Keep(f[Front(s)], Last(s))]
  <2> HIDE DEF S
  <2> QED BY <1>4, <1>5
<1>7. KeptOf = CHOOSE g :
                 g = [s \in Seq(NamedLine) |->
                       IF s = <<>> THEN <<>> ELSE Keep(g[Front(s)], Last(s))]
  BY Zenon DEF KeptOf
<1>8. KeptOf = [s \in S |-> IF s = <<>> THEN <<>> ELSE Keep(KeptOf[Front(s)], Last(s))]
  BY <1>6, <1>7, Zenon
<1>9. \A s \in S : KeptOf[s] = IF s = <<>> THEN <<>> ELSE Keep(KeptOf[Front(s)], Last(s))
  BY <1>8, Zenon
<1>10. ASSUME NEW s \in S, NEW l \in NamedLine
       PROVE  KeptOf[Append(s, l)] = Keep(KeptOf[s], l)
  <2>1. /\ Append(s, l) \in S /\ Append(s, l) # <<>>
        /\ Front(Append(s, l)) = s /\ Last(Append(s, l)) = l
    BY <1>1
  <2> QED BY <1>9, <2>1, Zenon
<1>11. <<>> \in S /\ KeptOf[<<>>] = <<>>
  <2>1. <<>> \in S
    OBVIOUS
  <2> QED BY <1>9, <2>1, Zenon
<1>12. \A s \in S : KeptOf[s] \in S
  <2> DEFINE G == {s \in S : KeptOf[s] \in S}
  <2>1. <<>> \in G
    BY <1>11
  <2>2. \A s \in S, l \in NamedLine : s \in G => Append(s, l) \in G
    BY <1>1, <1>10, KeepTyped
  <2> HIDE DEF G
  <2>3. \A s \in S : s \in G
    BY <2>1, <2>2, SequenceInduction
  <2> QED BY <2>3 DEF G
<1>13. KeptOf \in [S -> S]
  <2> DEFINE E(s) == IF s = <<>> THEN <<>> ELSE Keep(KeptOf[Front(s)], Last(s))
  <2>1. KeptOf = [s \in S |-> E(s)]
    BY <1>8, Zenon
  <2>2. \A s \in S : E(s) \in S
    BY <1>9, <1>12, Zenon
  <2> HIDE DEF E, S
  <2> QED BY <2>1, <2>2
<1> QED BY <1>10, <1>11, <1>13

(* No essential line ever pushes another out: when it comes, only such     *)
(* lines have been kept.                                                   *)
LEMMA FlattenLines ==
  \A s \in Seq(NamedLine) : FlattenSeq([i \in DOMAIN s |-> <<s[i]>>]) = s
<1> DEFINE NL == NamedLine
           Ones(s) == [i \in DOMAIN s |-> <<s[i]>>]
           G == {s \in Seq(NL) : Ones(s) \in Seq(Seq(NL)) /\ FlattenSeq(Ones(s)) = s}
<1>1. <<>> \in G
  <2>1. Ones(<<>>) = <<>> /\ <<>> \in Seq(Seq(NL)) /\ <<>> \in Seq(NL)
    OBVIOUS
  <2>2. FlattenSeq(<<>>) = <<>>
    BY FlattenEmpty
  <2> HIDE DEF Ones
  <2> QED BY <2>1, <2>2
<1>2. ASSUME NEW s \in Seq(NL), NEW l \in NL, s \in G PROVE Append(s, l) \in G
  <2> DEFINE n == Len(s)
             t == Append(s, l)
             u == Ones(s)
             v == Ones(t)
             W == Seq(NL)
  <2>1. /\ n \in Nat /\ DOMAIN s = 1..n /\ DOMAIN t = 1..(n + 1) /\ t \in Seq(NL)
        /\ t[n + 1] = l /\ \A i \in 1..n : t[i] = s[i]
    BY AppendProperties, LenProperties
  <2>2. <<l>> \in W
    OBVIOUS
  <2>3. u \in Seq(W) /\ FlattenSeq(u) = s
    BY <1>2
  <2>4. Len(u) = n /\ \A i \in 1..n : u[i] = <<s[i]>>
    BY <2>1
  <2>5. DOMAIN v = 1..(n + 1) /\ \A i \in 1..(n + 1) : v[i] = <<t[i]>>
    BY <2>1
  <2> HIDE DEF n, t, u, W
  <2>6. /\ Append(u, <<l>>) \in Seq(W) /\ Len(Append(u, <<l>>)) = n + 1
        /\ Append(u, <<l>>)[n + 1] = <<l>>
        /\ \A i \in 1..n : Append(u, <<l>>)[i] = u[i]
    BY <2>2, <2>3, <2>4, AppendProperties
  <2>7. \A i \in 1..(n + 1) : <<t[i]>> = Append(u, <<l>>)[i]
    <3>1. \A i \in 1..(n + 1) : i = n + 1 \/ i \in 1..n
      BY <2>1
    <3> QED BY <2>1, <2>4, <2>6, <3>1
  <2>8. v \in Seq(W) /\ Len(v) = n + 1
    <3>1. \A i \in 1..(n + 1) : Append(u, <<l>>)[i] \in W
      BY <2>6, ElementOfSeq
    <3>2. \A i \in 1..(n + 1) : <<t[i]>> \in W
      BY <2>7, <3>1
    <3>3. v = [i \in 1..(n + 1) |-> <<t[i]>>]
      BY <2>1
    <3> HIDE DEF v
    <3>4. v \in Seq(W)
      BY <2>1, <3>2, <3>3
    <3>5. Len(v) = n + 1
      BY <2>1, <3>3
    <3> QED BY <3>4, <3>5
  <2> HIDE DEF v
  <2>9. v = Append(u, <<l>>)
    <3>1. \A i \in 1..Len(v) : v[i] = Append(u, <<l>>)[i]
      BY <2>5, <2>7, <2>8
    <3> QED BY <2>6, <2>8, <3>1, SeqEqual
  <2>10. FlattenSeq(Append(u, <<l>>)) = s \o <<l>>
    BY <2>2, <2>3, FlattenAppend DEF W
  <2>11. s \o <<l>> = t
    BY AppendIsConcat DEF t
  <2> QED BY <2>1, <2>8, <2>9, <2>10, <2>11 DEF v, t, W
<1> HIDE DEF G
<1>3. \A s \in Seq(NL) : s \in G
  BY <1>1, <1>2, SequenceInduction
<1> QED BY <1>3 DEF G

LEMMA NoRoomMade ==
  ASSUME NEW kept \in Seq(NamedLine), NEW l,
         \A i \in 1..Len(kept) : Main(kept[i])
  PROVE  MakeRoom(kept, l) = kept
<1> DEFINE lesser     == {i \in DOMAIN kept : Priority(kept[i]) > 3}
           gone(n)    == {i \in lesser : Cardinality({j \in lesser : j >= i}) <= n}
           without(n) == Those(kept, [i \in DOMAIN kept |-> i \notin gone(n)])
           enough     == {n \in 1..Cardinality(lesser) : Grown(without(n), l) <= MaxPrompt}
<1>1. lesser = {}
  <2> SUFFICES ASSUME NEW i \in DOMAIN kept, Priority(kept[i]) > 3 PROVE FALSE
    OBVIOUS
  <2>1. i \in 1..Len(kept) /\ kept[i] \in NamedLine
    BY LenProperties, ElementOfSeq
  <2>2. Essential(kept[i]) /\ Priority(kept[i]) \in 1..8
    BY <2>1, LineTyped
  <2>3. Priority(kept[i]) <= 3
    BY <2>2, Zenon DEF Essential
  <2> QED BY <2>2, <2>3
<1>2. Cardinality(lesser) = 0
  BY <1>1, FS_EmptySet
<1>3. \A n : gone(n) = {}
  BY <1>1
<1>4. MakeRoom(kept, l) = IF enough = {} THEN without(Cardinality(lesser))
                          ELSE Append(without(Min(enough)), l)
  BY Zenon DEF MakeRoom
<1> HIDE DEF lesser
<1>5. enough = {}
  <2>1. 1..Cardinality(lesser) = {}
    BY <1>2
  <2> HIDE DEF without
  <2> QED BY <2>1
<1> HIDE DEF gone
<1>6. without(0) = kept
  <2>1. [i \in DOMAIN kept |-> i \notin gone(0)] = [i \in DOMAIN kept |-> TRUE]
    BY <1>3
  <2>2. without(0) = Those(kept, [i \in DOMAIN kept |-> TRUE])
    BY <2>1, Zenon
  <2>3. [i \in DOMAIN kept |-> IF [j \in DOMAIN kept |-> TRUE][i] THEN <<kept[i]>> ELSE <<>>]
          = [i \in DOMAIN kept |-> <<kept[i]>>]
    OBVIOUS
  <2>4. Those(kept, [i \in DOMAIN kept |-> TRUE]) = FlattenSeq([i \in DOMAIN kept |-> <<kept[i]>>])
    BY <2>3, Zenon DEF Those
  <2> QED BY <2>2, <2>4, FlattenLines
<1> HIDE DEF enough, without
<1> QED BY <1>2, <1>4, <1>5, <1>6, Zenon

AllMain(s) == \A l \in Range(s) : Main(l)

(* What the loop has made of the lines s so far.                           *)
Compacted(s, kept) ==
  /\ kept \in Seq(NamedLine) /\ Range(kept) \subseteq Range(s)
  /\ JoinedLength(kept) <= MaxPrompt
  /\ kept = <<>> => \A l \in Range(s) : l.len > MaxPrompt
  /\ \A l \in Range(s) : Main(l) => l \in Range(kept) \/ UsedOf(kept) + l.len > MaxPrompt
  /\ AllMain(s) => UsedOf(kept) = LengthOf(kept) + Len(kept)

LEMMA KeepCompacts ==
  ASSUME NEW s \in Seq(NamedLine), NEW l \in NamedLine, NEW kept,
         Compacted(s, kept), Main(l) => AllMain(s)
  PROVE  Compacted(Append(s, l), Keep(kept, l))
<1> DEFINE a == LengthOf(kept)
           n == Len(kept)
           u == UsedOf(kept)
           x == l.len
           m == MainShare(l)
<1>1. kept \in Seq(NamedLine) /\ Range(kept) \subseteq Range(s)
  BY DEF Compacted
<1>2. /\ a \in Nat /\ n \in Nat /\ u \in Nat /\ x \in Nat /\ m \in Nat
      /\ Main(l) => m = x + 1
      /\ MaxPrompt \in Nat
  BY <1>1, LengthsTyped, LineTyped, PromptAssumption
<1>3. Grown(kept, l) = a + n + x
  BY <1>1, LengthsAppend
<1>4. Range(Append(s, l)) = Range(s) \cup {l}
  BY RangeAppend
<1>5. AllMain(Append(s, l)) => AllMain(s) /\ Main(l)
  BY <1>4 DEF AllMain
<1>6. AllMain(s) => u = a + n
  BY Zenon DEF Compacted
<1>7. \A k \in Range(s) : k \in NamedLine /\ k.len \in Nat
  BY LenProperties, ElementOfSeq, LineTyped DEF Range
<1>8. \A k \in Range(s) : Main(k) => k \in Range(kept) \/ u + k.len > MaxPrompt
  BY Zenon DEF Compacted
<1>9. CASE a + n + x <= MaxPrompt
  <2> DEFINE r == Append(kept, l)
  <2>1. Keep(kept, l) = r
    BY <1>3, <1>9, Zenon DEF Keep
  <2>2. /\ r \in Seq(NamedLine) /\ r # <<>> /\ LengthOf(r) = a + x /\ UsedOf(r) = u + m
        /\ Len(r) = n + 1 /\ JoinedLength(r) = a + n + x
    BY <1>1, <1>3, LengthsAppend
  <2>3. Range(r) = Range(kept) \cup {l}
    BY <1>1, RangeAppend
  <2> HIDE DEF a, n, u, x, m, r
  <2>4. ASSUME NEW k \in Range(Append(s, l)), Main(k)
        PROVE  k \in Range(r) \/ UsedOf(r) + k.len > MaxPrompt
    <3>1. CASE k = l
      BY <2>3, <3>1
    <3>2. CASE k # l
      <4>1. k \in Range(s) /\ k.len \in Nat
        BY <1>4, <1>7, <3>2
      <4>2. k \in Range(kept) \/ u + k.len > MaxPrompt
        BY <1>8, <2>4, <4>1
      <4>3. u + k.len > MaxPrompt => (u + m) + k.len > MaxPrompt
        BY <1>2, <4>1
      <4> QED BY <2>2, <2>3, <4>2, <4>3
    <3> QED BY <3>1, <3>2
  <2>5. AllMain(Append(s, l)) => UsedOf(r) = LengthOf(r) + Len(r)
    <3> SUFFICES ASSUME AllMain(Append(s, l)) PROVE u + m = (a + x) + (n + 1)
      BY <2>2
    <3> QED BY <1>2, <1>5, <1>6
  <2>6. Range(r) \subseteq Range(Append(s, l))
    BY <1>1, <1>4, <2>3
  <2>7. JoinedLength(r) <= MaxPrompt
    BY <1>9, <2>2
  <2>8. Compacted(Append(s, l), r)
    BY <2>2, <2>4, <2>5, <2>6, <2>7 DEF Compacted
  <2> QED BY <2>1, <2>8, Zenon
<1>10. CASE ~(a + n + x <= MaxPrompt)
  <2>1. Keep(kept, l) = kept
    <3>1. Keep(kept, l) = IF Essential(l) THEN MakeRoom(kept, l) ELSE kept
      BY <1>3, <1>10, Zenon DEF Keep
    <3>2. CASE Essential(l)
      <4>1. AllMain(s)
        BY <3>2, LineTyped
      <4>2. \A i \in 1..Len(kept) : Main(kept[i])
        <5>1. \A i \in 1..Len(kept) : kept[i] \in Range(kept)
          BY <1>1, LenProperties DEF Range
        <5> QED BY <1>1, <4>1, <5>1 DEF AllMain
      <4>3. MakeRoom(kept, l) = kept
        BY <1>1, <4>2, NoRoomMade
      <4> QED BY <3>1, <4>3, Zenon
    <3>3. CASE ~Essential(l)
      BY <3>1, <3>3, Zenon
    <3> QED BY <3>2, <3>3
  <2>2. kept = <<>> => a = 0 /\ n = 0
    BY <1>1, LengthsTyped
  <2>3. kept = <<>> => \A k \in Range(s) : k.len > MaxPrompt
    BY Zenon DEF Compacted
  <2>4. JoinedLength(kept) <= MaxPrompt
    BY Zenon DEF Compacted
  <2> HIDE DEF a, n, u
  <2>5. kept = <<>> => \A k \in Range(Append(s, l)) : k.len > MaxPrompt
    <3> SUFFICES ASSUME kept = <<>> PROVE l.len > MaxPrompt
      BY <1>4, <2>3
    <3> QED BY <1>2, <1>10, <2>2
  <2>6. ASSUME NEW k \in Range(Append(s, l)), Main(k)
        PROVE  k \in Range(kept) \/ UsedOf(kept) + k.len > MaxPrompt
    <3>1. CASE k = l
      <4>1. u = a + n
        BY <1>6, <2>6, <3>1
      <4>2. u + x > MaxPrompt
        BY <1>2, <1>10, <4>1
      <4> QED BY <3>1, <4>2 DEF u
    <3>2. CASE k # l
      BY <1>4, <1>8, <2>6, <3>2 DEF u
    <3> QED BY <3>1, <3>2
  <2>7. AllMain(Append(s, l)) => UsedOf(kept) = LengthOf(kept) + Len(kept)
    BY <1>5, <1>6, Zenon DEF a, n, u
  <2>8. Compacted(Append(s, l), kept)
    <3>1. Range(kept) \subseteq Range(Append(s, l))
      BY <1>1, <1>4
    <3> QED BY <1>1, <2>4, <2>5, <2>6, <2>7, <3>1, Zenon DEF Compacted
  <2> QED BY <2>1, <2>8, Zenon
<1> QED BY <1>9, <1>10

LEMMA LoopCompacts ==
  \A s \in Seq(NamedLine) : MainFirst(s) => Compacted(s, KeptOf[s])
<1> DEFINE NL == NamedLine
           G == {s \in Seq(NL) : MainFirst(s) => Compacted(s, KeptOf[s])}
<1>1. <<>> \in G
  <2>1. KeptOf[<<>>] = <<>> /\ <<>> \in Seq(NL) /\ Range(<<>>) = {} /\ Len(<<>>) = 0
    BY KeptEquation DEF Range
  <2>2. /\ JoinedLength(<<>>) = 0 /\ UsedOf(<<>>) = 0 /\ LengthOf(<<>>) = 0
    BY <2>1, LengthsTyped
  <2>3. MaxPrompt \in Nat /\ 0 <= MaxPrompt /\ 0 + 0 = 0
    BY PromptAssumption
  <2>4. Compacted(<<>>, <<>>)
    BY <2>1, <2>2, <2>3 DEF Compacted
  <2> QED BY <2>1, <2>4
<1>2. ASSUME NEW s \in Seq(NL), NEW l \in NL, s \in G PROVE Append(s, l) \in G
  <2>1. /\ Append(s, l) \in Seq(NL) /\ Len(Append(s, l)) = Len(s) + 1 /\ Len(s) \in Nat
        /\ Append(s, l)[Len(s) + 1] = l /\ \A i \in 1..Len(s) : Append(s, l)[i] = s[i]
    BY AppendProperties, LenProperties
  <2> SUFFICES ASSUME MainFirst(Append(s, l))
               PROVE  Compacted(Append(s, l), KeptOf[Append(s, l)])
    BY <2>1
  <2>2. \A i \in 1..Len(s) : i \in 1..Len(Append(s, l)) /\ \A j \in 1..i : j \in 1..Len(s)
    BY <2>1
  <2>3. MainFirst(s)
    <3> SUFFICES ASSUME NEW i \in 1..Len(s), Main(s[i]), NEW j \in 1..i PROVE Main(s[j])
      BY DEF MainFirst
    <3>1. i \in 1..Len(Append(s, l)) /\ Append(s, l)[i] = s[i]
      BY <2>1, <2>2
    <3>2. j \in 1..Len(s) /\ Append(s, l)[j] = s[j]
      BY <2>1, <2>2
    <3>3. Main(Append(s, l)[j])
      BY <3>1 DEF MainFirst
    <3> QED BY <3>2, <3>3
  <2>4. Main(l) => AllMain(s)
    <3> SUFFICES ASSUME Main(l), NEW j \in 1..Len(s) PROVE Main(s[j])
      BY LenProperties DEF AllMain, Range
    <3>1. Len(s) + 1 \in 1..Len(Append(s, l)) /\ j \in 1..(Len(s) + 1)
      BY <2>1
    <3>2. Main(Append(s, l)[j])
      BY <2>1, <3>1 DEF MainFirst
    <3> QED BY <2>1, <3>2
  <2>5. Compacted(s, KeptOf[s])
    BY <1>2, <2>3
  <2>6. Compacted(Append(s, l), Keep(KeptOf[s], l))
    BY <2>4, <2>5, KeepCompacts
  <2>7. KeptOf[Append(s, l)] = Keep(KeptOf[s], l)
    BY KeptEquation
  <2> QED BY <2>6, <2>7, Zenon
<1> HIDE DEF G
<1>3. \A s \in Seq(NL) : s \in G
  BY <1>1, <1>2, SequenceInduction
<1> QED BY <1>3 DEF G

-----------------------------------------------------------------------------
(* The finished prompt.                                                    *)

Line == [kind: LineKinds, len: Nat \ {0}]

(* Lines have a length.                                                    *)
LEMMA SomeLength ==
  \A s \in Seq(NamedLine) : s # <<>> => LengthOf(s) >= 1 /\ Len(s) >= 1
<1> SUFFICES ASSUME NEW s \in Seq(NamedLine), s # <<>>
             PROVE  LengthOf(s) >= 1 /\ Len(s) >= 1
  OBVIOUS
<1>1. PICK t \in Seq(NamedLine), l \in NamedLine : s = Append(t, l)
  BY SequenceEmptyOrAppend
<1>2. LengthOf(Append(t, l)) = LengthOf(t) + l.len /\ Len(Append(t, l)) = Len(t) + 1
  BY LengthsAppend
<1>3. LengthOf(t) \in Nat /\ Len(t) \in Nat /\ l.len \in Nat \ {0}
  BY LengthsTyped, LineTyped
<1>4. LengthOf(Append(t, l)) >= 1 /\ Len(Append(t, l)) >= 1
  BY <1>2, <1>3
<1> QED BY <1>1, <1>4

(* Naming the lines changes neither their number nor their lengths.        *)
LEMMA LinesNamed ==
  ASSUME NEW sections \in Seq(Seq(Line))
  PROVE  /\ LinesOf(sections) \in Seq(NamedLine)
         /\ Len(LinesOf(sections)) = Len(FlattenSeq(sections))
         /\ LengthOf(LinesOf(sections)) = LengthOf(FlattenSeq(sections))
         /\ \A l \in Range(FlattenSeq(sections)) :
              \E m \in Range(LinesOf(sections)) : m.len = l.len
<1> DEFINE f == FlattenSeq(sections)
           g == LinesOf(sections)
           Name(i) == [kind |-> f[i].kind, len |-> f[i].len, id |-> i]
<1>1. f \in Seq(Line)
  BY FlattenTyped
<1>2. g = [i \in DOMAIN f |-> Name(i)]
  BY Zenon DEF LinesOf
<1> HIDE DEF f, g
<1>3. DOMAIN f = 1..Len(f) /\ Len(f) \in Nat /\ \A i \in 1..Len(f) : f[i] \in Line
  BY <1>1, LenProperties, ElementOfSeq
<1>4. \A i \in 1..Len(f) : Name(i) \in NamedLine /\ Name(i).len = f[i].len
  BY <1>3 DEF Line, NamedLine
<1> HIDE DEF Name
<1>5. g \in Seq(NamedLine) /\ Len(g) = Len(f) /\ \A i \in 1..Len(f) : g[i] = Name(i)
  <2> DEFINE NL == NamedLine
  <2>1. \A i \in 1..Len(f) : Name(i) \in NL
    BY <1>4
  <2> HIDE DEF NL
  <2>2. g \in Seq(NL) /\ Len(g) = Len(f) /\ \A i \in 1..Len(f) : g[i] = Name(i)
    BY <1>2, <1>3, <2>1
  <2> QED BY <2>2 DEF NL
<1>6. DOMAIN g = 1..Len(f)
  BY <1>2, <1>3
<1>7. LineLens(g) = LineLens(f)
  <2>1. \A i \in 1..Len(f) : g[i].len = f[i].len
    BY <1>4, <1>5
  <2> QED BY <1>3, <1>6, <2>1 DEF LineLens
<1>8. LengthOf(g) = LengthOf(f)
  <2>1. \A q : LengthOf(q) = Total[LineLens(q)]
    BY Zenon DEF LengthOf, LineLens
  <2> QED BY <1>7, <2>1, Zenon
<1>9. ASSUME NEW l \in Range(f) PROVE \E m \in Range(g) : m.len = l.len
  <2>1. PICK i \in 1..Len(f) : l = f[i]
    BY <1>3 DEF Range
  <2>2. g[i] \in Range(g) /\ g[i].len = l.len
    BY <1>4, <1>5, <1>6, <2>1 DEF Range
  <2> QED BY <2>2
<1> QED BY <1>5, <1>8, <1>9 DEF f, g

(* What holds of a finished prompt of these sections.                      *)
Finished(sections, p) ==
  /\ ValidPrompt(p)
  /\ \A i \in DOMAIN p.lines : p.lines[i] \in Range(LinesOf(sections))
  /\ \A l \in Range(LinesOf(sections)) \ Range(p.lines) :
       Main(l) => UsedOf(p.lines) + l.len > MaxPrompt

LEMMA PromptFinished ==
  ASSUME NEW sections \in Seq(Seq(Line)), <<L("body", Fixed)>> \in Range(sections)
  PROVE  Finished(sections, FinalizePrompt(sections))
<1> DEFINE full == LinesOf(sections)
           f    == FlattenSeq(sections)
           fix  == L("body", Fixed)
<1>1. full \in Seq(NamedLine) /\ Len(full) = Len(f) /\ LengthOf(full) = LengthOf(f)
  BY LinesNamed
<1>2. MaxPrompt \in Nat /\ Fixed \in Nat \ {0} /\ Fixed <= MaxPrompt
  BY PromptAssumption
<1>3. PICK m \in Range(full) : m.len = Fixed
  <2>1. fix.len = Fixed
    BY DEF L
  <2>2. Range(f) = UNION {Range(s) : s \in Range(sections)}
    BY RangeFlatten
  <2>3. fix \in Range(<<fix>>)
    BY RangeOne
  <2>4. fix \in Range(f)
    <3> HIDE DEF fix, f
    <3> QED BY <2>2, <2>3 DEF fix
  <2> QED BY <2>1, <2>4, LinesNamed
<1>4. full # <<>>
  BY <1>3 DEF Range
<1>5. Len(sections) \in Nat /\ Len(sections) >= 1
  <2>1. sections # <<>>
    BY DEF Range
  <2> QED BY <2>1, LenProperties, EmptySeq
<1> HIDE DEF full, f, fix
<1>6. CASE PromptLength(sections) <= MaxPrompt
  <2>1. FinalizePrompt(sections) = [lines |-> full, length |-> PromptLength(sections)]
    BY <1>6, Zenon DEF FinalizePrompt, full
  <2>2. PromptLength(sections) = LengthOf(f) + (Len(f) - 1) + (Len(sections) - 1)
    BY Zenon DEF PromptLength, f
  <2>3. LengthOf(f) \in Nat /\ LengthOf(f) >= 1 /\ Len(f) \in Nat /\ Len(f) >= 1
    BY <1>1, <1>4, SomeLength, LengthsTyped
  <2>4. PromptLength(sections) \in 1..MaxPrompt
    BY <1>2, <1>5, <1>6, <2>2, <2>3
  <2>5. ValidPrompt(FinalizePrompt(sections))
    BY <2>1, <2>4 DEF ValidPrompt
  <2>6. FinalizePrompt(sections).lines = full
    BY <2>1
  <2>7. \A i \in DOMAIN full : full[i] \in Range(full)
    BY DEF Range
  <2> QED BY <2>5, <2>6, <2>7 DEF Finished, full
<1>7. CASE ~(PromptLength(sections) <= MaxPrompt)
  <2> DEFINE compact == CompactPrompt(full)
             sorted  == ByPriority(full)
  <2>1. sorted \in Seq(NamedLine) /\ Range(sorted) = Range(full) /\ MainFirst(sorted)
    BY <1>1, Sorted
  <2>2. Compacted(sorted, compact)
    BY <2>1, LoopCompacts DEF CompactPrompt
  <2>3. compact \in Seq(NamedLine) /\ JoinedLength(compact) <= MaxPrompt
    BY <2>2, Zenon DEF Compacted
  <2>4. FinalizePrompt(sections) = [lines |-> compact, length |-> JoinedLength(compact)]
    BY <1>7, <2>3, Zenon DEF FinalizePrompt, full
  <2>5. compact # <<>>
    <3>1. compact = <<>> => \A l \in Range(sorted) : l.len > MaxPrompt
      BY <2>2, Zenon DEF Compacted
    <3>2. ~(m.len > MaxPrompt) /\ m \in Range(sorted)
      BY <1>2, <1>3, <2>1
    <3> QED BY <3>1, <3>2, Zenon
  <2>6. JoinedLength(compact) \in 1..MaxPrompt
    <3>1. /\ LengthOf(compact) \in Nat /\ LengthOf(compact) >= 1
          /\ Len(compact) \in Nat /\ Len(compact) >= 1
          /\ JoinedLength(compact) = LengthOf(compact) + Len(compact) - 1
      BY <2>3, <2>5, SomeLength, LengthsTyped
    <3> DEFINE a == LengthOf(compact)
               n == Len(compact)
               j == JoinedLength(compact)
    <3> HIDE DEF compact, a, n, j
    <3>2. a \in Nat /\ a >= 1 /\ n \in Nat /\ n >= 1 /\ j = a + n - 1 /\ j <= MaxPrompt
      BY <2>3, <3>1 DEF a, n, j
    <3>3. j \in 1..MaxPrompt
      BY <1>2, <3>2
    <3> QED BY <3>3 DEF j
  <2>7. /\ Range(compact) \subseteq Range(full)
        /\ \A l \in Range(full) :
             Main(l) => l \in Range(compact) \/ UsedOf(compact) + l.len > MaxPrompt
    BY <2>1, <2>2 DEF Compacted
  <2> HIDE DEF compact, sorted
  <2>8. ValidPrompt(FinalizePrompt(sections)) /\ FinalizePrompt(sections).lines = compact
    BY <2>4, <2>6 DEF ValidPrompt
  <2>9. \A i \in DOMAIN compact : compact[i] \in Range(full)
    BY <2>7 DEF Range
  <2> QED BY <2>7, <2>8, <2>9 DEF Finished, full
<1> QED BY <1>6, <1>7

(* The sections are sections of lines, one of fixed wording among them.    *)
LEMMA LineMade ==
  ASSUME NEW kind \in LineKinds, NEW n \in Nat \ {0}
  PROVE  L(kind, n) \in Line /\ <<L(kind, n)>> \in Seq(Line)
<1>1. L(kind, n) \in Line
  BY DEF L, Line
<1> QED BY <1>1

LEMMA HeadedMade ==
  ASSUME NEW kind \in LineKinds, NEW n \in Nat \ {0}
  PROVE  Headed(kind, n) \in Seq(Line)
<1>1. Heading \in Nat \ {0} /\ "body" \in LineKinds
  BY PromptAssumption DEF LineKinds
<1>2. L(kind, Heading) \in Line /\ L("body", n) \in Line
  BY <1>1, LineMade
<1> DEFINE a == L(kind, Heading)
           b == L("body", n)
           S == Line
<1> HIDE DEF a, b, S
<1>3. <<a, b>> \in Seq(S)
  BY <1>2 DEF a, b, S
<1> QED BY <1>3 DEF Headed, a, b, S

LEMMA PartMade ==
  ASSUME NEW S, NEW b, NEW x, b => x \in S
  PROVE  Part(b, x) \in Seq(S)
<1>1. CASE b
  <2>1. <<x>> \in Seq(S) /\ Part(b, x) = <<x>>
    BY <1>1 DEF Part
  <2> QED BY <2>1
<1>2. CASE ~b
  <2>1. <<>> \in Seq(S) /\ Part(b, x) = <<>>
    BY <1>2 DEF Part
  <2> QED BY <2>1
<1> QED BY <1>1, <1>2

LEMMA ContextMade ==
  ASSUME NEW s \in Scene
  PROVE  StoryContextSection(s) \in Seq(Line) /\ GenreSection(s) \in Seq(Line)
<1>1. s.place \in Nat /\ s.genre \in BOOLEAN
  BY DEF Scene
<1>2. Fixed \in Nat \ {0} /\ {"body", "place", "setting"} \subseteq LineKinds
  BY PromptAssumption DEF LineKinds
<1>3. <<L("body", Fixed)>> \in Seq(Line)
  BY <1>2, LineMade
<1>4. GenreSection(s) \in Seq(Line)
  <2>1. Headed("setting", Fixed) \in Seq(Line)
    BY <1>2, HeadedMade
  <2> QED BY <1>3, <2>1, Zenon DEF GenreSection
<1>5. StoryContextSection(s) \in Seq(Line)
  <2> DEFINE p == IF s.place > 0 THEN <<L("place", s.place)>> ELSE <<>>
             q == <<L("body", Fixed)>>
  <2>1. p \in Seq(Line)
    <3>1. CASE s.place > 0
      <4>1. s.place \in Nat \ {0}
        BY <1>1, <3>1
      <4>2. <<L("place", s.place)>> \in Seq(Line)
        BY <1>2, <4>1, LineMade
      <4> QED BY <3>1, <4>2, Zenon
    <3>2. CASE ~(s.place > 0)
      <4>1. <<>> \in Seq(Line)
        OBVIOUS
      <4> QED BY <3>2, <4>1, Zenon
    <3> QED BY <3>1, <3>2
  <2>2. q \in Seq(Line)
    BY <1>3
  <2>3. StoryContextSection(s) = q \o p
    BY Zenon DEF StoryContextSection
  <2> HIDE DEF p, q
  <2>4. q \o p \in Seq(Line)
    BY <2>1, <2>2, ConcatProperties
  <2> QED BY <2>3, <2>4, Zenon
<1> QED BY <1>4, <1>5

LEMMA CoverMade ==
  ASSUME NEW s \in Scene
  PROVE  /\ CoverPromptSections(s) \in Seq(Seq(Line))
         /\ <<L("body", Fixed)>> \in Range(CoverPromptSections(s))
<1> DEFINE W == Seq(Line)
           a == <<L("body", Fixed)>>
           b == <<L("scene", s.text[1])>>
           c == StoryContextSection(s)
           d == GenreSection(s)
           e == <<L("suppression", Fixed)>>
<1>1. Fixed \in Nat \ {0} /\ {"body", "scene", "suppression"} \subseteq LineKinds
  BY PromptAssumption DEF LineKinds
<1>2. s.text[1] \in Nat \ {0}
  <2>1. s.text \in Seq(Nat \ {0}) /\ s.text # <<>>
    BY DEF Scene
  <2>2. 1 \in 1..Len(s.text)
    BY <2>1, LenProperties, EmptySeq
  <2> QED BY <2>1, <2>2, ElementOfSeq
<1>3. a \in W /\ b \in W /\ c \in W /\ d \in W /\ e \in W
  BY <1>1, <1>2, LineMade, ContextMade
<1>4. CoverPromptSections(s) = <<a, b, c, d, a, e>>
  BY Zenon DEF CoverPromptSections
<1> HIDE DEF W, a, b, c, d, e
<1>5. <<a, b, c, d, a, e>> \in Seq(W) /\ a \in Range(<<a, b, c, d, a, e>>)
  <2>1. <<a, b, c, d, a, e>> \in Seq(W)
    BY <1>3
  <2>2. 1 \in DOMAIN <<a, b, c, d, a, e>> /\ <<a, b, c, d, a, e>>[1] = a
    OBVIOUS
  <2> QED BY <2>1, <2>2 DEF Range
<1> QED BY <1>4, <1>5 DEF W, a

LEMMA ImageMade ==
  ASSUME NEW s \in Scene
  PROVE  /\ ImagePromptSections(s) \in Seq(Seq(Line))
         /\ <<L("body", Fixed)>> \in Range(ImagePromptSections(s))
<1> DEFINE W == Seq(Line)
           t == SceneText(s)
           h == <<L("scene", Heading)>>
           a == <<L("body", Fixed)>>
           x1 == h \o t
           x2 == Headed("subject", s.subject)
           x3 == Headed("place", s.action)
           x4 == Headed("setting", Fixed)
           o == Part(s.objects > 0, Headed("place", s.objects))
           d == Part(s.details > 0, Headed("setting", s.details))
           c == StoryContextSection(s)
           g == GenreSection(s)
           k == <<L("continuity", Heading), L("continuity", s.continuity)>>
           q == Part(s.continuity > 0, k)
           e == <<L("suppression", Fixed)>>
<1>1. /\ Fixed \in Nat \ {0} /\ Heading \in Nat \ {0}
      /\ {"body", "scene", "subject", "place", "setting", "continuity", "suppression"}
           \subseteq LineKinds
  BY PromptAssumption DEF LineKinds
<1>2. /\ s.text \in Seq(Nat \ {0}) /\ s.subject \in Nat \ {0} /\ s.action \in Nat \ {0}
      /\ s.objects \in Nat /\ s.details \in Nat /\ s.continuity \in Nat
  BY DEF Scene
<1>3. t \in W
  <2> DEFINE One(i) == L(IF i = 1 THEN "scene" ELSE "body", s.text[i])
  <2>1. ASSUME NEW i \in 1..Len(s.text) PROVE One(i) \in Line
    <3>1. s.text[i] \in Nat \ {0}
      BY <1>2, ElementOfSeq
    <3>2. (IF i = 1 THEN "scene" ELSE "body") \in LineKinds
      BY <1>1
    <3> QED BY <3>1, <3>2, LineMade
  <2>2. DOMAIN s.text = 1..Len(s.text) /\ Len(s.text) \in Nat
    BY <1>2, LenProperties
  <2>3. t = [i \in DOMAIN s.text |-> One(i)]
    BY Zenon DEF SceneText
  <2> HIDE DEF One, t
  <2> QED BY <2>1, <2>2, <2>3
<1>4. a \in W /\ h \in W /\ e \in W
  BY <1>1, LineMade
<1>5. x1 \in W
  <2> HIDE DEF h, t
  <2> QED BY <1>3, <1>4, ConcatProperties
<1>6. x2 \in W /\ x3 \in W /\ x4 \in W
  BY <1>1, <1>2, HeadedMade
<1>7. c \in W /\ g \in W
  BY ContextMade
<1>8. o \in Seq(W)
  <2>1. s.objects > 0 => Headed("place", s.objects) \in W
    BY <1>1, <1>2, HeadedMade
  <2> HIDE DEF W
  <2> QED BY <2>1, PartMade, Zenon
<1>9. d \in Seq(W)
  <2>1. s.details > 0 => Headed("setting", s.details) \in W
    BY <1>1, <1>2, HeadedMade
  <2> HIDE DEF W
  <2> QED BY <2>1, PartMade, Zenon
<1>10. q \in Seq(W)
  <2>1. s.continuity > 0 => k \in W
    <3> SUFFICES ASSUME s.continuity > 0 PROVE k \in W
      OBVIOUS
    <3>1. L("continuity", Heading) \in Line /\ L("continuity", s.continuity) \in Line
      BY <1>1, <1>2, LineMade
    <3> QED BY <3>1
  <2> HIDE DEF W, k
  <2> QED BY <2>1, PartMade, Zenon
<1>11. ImagePromptSections(s)
         = ((((<<x1, x2, x3, x4>> \o o) \o d) \o <<a, c, g>>) \o q) \o <<a, e>>
  BY Zenon DEF ImagePromptSections
<1> HIDE DEF W, t, h, a, x1, x2, x3, x4, o, d, c, g, k, q, e
<1>12. <<x1, x2, x3, x4>> \in Seq(W) /\ <<a, c, g>> \in Seq(W) /\ <<a, e>> \in Seq(W)
  BY <1>4, <1>5, <1>6, <1>7
<1> DEFINE y1 == <<x1, x2, x3, x4>> \o o
           y2 == y1 \o d
           y3 == y2 \o <<a, c, g>>
           y4 == y3 \o q
           y5 == y4 \o <<a, e>>
<1>13. y1 \in Seq(W)
  BY <1>8, <1>12, ConcatProperties
<1> HIDE DEF y1
<1>14. y2 \in Seq(W)
  BY <1>9, <1>13, ConcatProperties
<1> HIDE DEF y2
<1>15. y3 \in Seq(W)
  BY <1>12, <1>14, ConcatProperties
<1> HIDE DEF y3
<1>16. y4 \in Seq(W)
  BY <1>10, <1>15, ConcatProperties
<1> HIDE DEF y4
<1>17. y5 \in Seq(W)
  BY <1>12, <1>16, ConcatProperties
<1>18. a \in Range(y5)
  <2>1. a \in Range(<<a, e>>)
    <3>1. 1 \in DOMAIN <<a, e>> /\ <<a, e>>[1] = a
      OBVIOUS
    <3> QED BY <3>1 DEF Range
  <2>2. Range(y5) = Range(y4) \cup Range(<<a, e>>)
    BY <1>12, <1>16, RangeConcat, SMTT(30)
  <2> QED BY <2>1, <2>2
<1>19. ImagePromptSections(s) = y5
  BY <1>11, Zenon DEF y1, y2, y3, y4
<1> QED BY <1>17, <1>18, <1>19 DEF W, a

-----------------------------------------------------------------------------
(* The prompt of the page last illustrated.                                *)

SectionsOf(s, cover) == IF cover THEN CoverPromptSections(s) ELSE ImagePromptSections(s)

PromptInv ==
  scene # None =>
    /\ scene \in [page: Scenes, cover: BOOLEAN]
    /\ prompt = FinalizePrompt(SectionsOf(scene.page, scene.cover))

LEMMA PromptKept == Spec => []PromptInv
<1>1. Init => PromptInv
  BY DEF Init, PromptInv
<1>2. PromptInv /\ [Next]_vars => PromptInv'
  <2> SUFFICES ASSUME PromptInv, [Next]_vars PROVE PromptInv'
    OBVIOUS
  <2>1. CASE Illustrate
    <3>1. /\ scene' \in [page: Scenes, cover: BOOLEAN]
          /\ prompt' = BuildPrompt(scene'.page, scene'.cover)
      BY <2>1 DEF Illustrate
    <3> QED BY <3>1, Zenon DEF PromptInv, BuildPrompt, SectionsOf
  <2>2. CASE ~Illustrate
    <3>1. UNCHANGED <<scene, prompt>>
      BY <2>2
         DEF Next, StoryNext, vars, lifeVars, textSame, Create, Load, Reject, Save, Parse,
             ShareStory, RemoveShare, AskFavorite, AskJoin, Ask, LookUpShare, AddFavorite,
             RemoveFavorite, JoinStory, LeaveStory
    <3> QED BY <3>1, Zenon DEF PromptInv
  <2> QED BY <2>1, <2>2
<1> QED BY <1>1, <1>2, PTL DEF Spec

LEMMA SceneFinished ==
  ASSUME PromptInv, scene # None
  PROVE  Finished(SectionsOf(scene.page, scene.cover), prompt)
<1>1. scene.page \in Scene /\ scene.cover \in BOOLEAN
  BY LifeAssumption DEF PromptInv
<1> DEFINE sections == SectionsOf(scene.page, scene.cover)
<1>2. sections \in Seq(Seq(Line)) /\ <<L("body", Fixed)>> \in Range(sections)
  <2>1. sections = CoverPromptSections(scene.page) \/ sections = ImagePromptSections(scene.page)
    BY Zenon DEF SectionsOf
  <2> HIDE DEF sections
  <2> QED BY <1>1, <2>1, CoverMade, ImageMade
<1> HIDE DEF sections
<1>3. Finished(sections, FinalizePrompt(sections))
  BY <1>2, PromptFinished
<1>4. prompt = FinalizePrompt(sections)
  BY DEF PromptInv, sections
<1> QED BY <1>3, <1>4, Zenon DEF sections

(* Whatever page is illustrated, its prompt is accepted for its length and *)
(* none of its lines is cut: compaction alone brings a prompt under the    *)
(* limit, so truncateAtWordBoundary never does anything                    *)
(* (scene-prompt.service.ts:256-432, prompt-validation.service.ts:9-35).   *)
THEOREM LifePromptWhole == Spec => []PromptWhole
<1>1. PromptInv => PromptWhole
  <2> SUFFICES ASSUME PromptInv, scene # None
               PROVE  /\ ValidPrompt(prompt)
                      /\ \A i \in DOMAIN prompt.lines :
                           prompt.lines[i]
                             \in Range(LinesOf(IF scene.cover
                                               THEN CoverPromptSections(scene.page)
                                               ELSE ImagePromptSections(scene.page)))
    BY Zenon DEF PromptWhole
  <2> QED BY SceneFinished, Zenon DEF Finished, SectionsOf
<1> QED BY PromptKept, <1>1, PTL

(* A line of the scene, its subject or its place is left out of a prompt   *)
(* only when it does not fit beside the other such lines, although the     *)
(* loop that removes lesser lines for it never removes any: the sort has   *)
(* put it before them (compactPrompt, scene-prompt.service.ts:289-415).    *)
THEOREM LifeEssentials == Spec => []EssentialKept
<1>1. PromptInv => EssentialKept
  <2> SUFFICES ASSUME PromptInv, scene # None PROVE EssentialKept
    BY DEF EssentialKept
  <2> DEFINE full == LinesOf(IF scene.cover THEN CoverPromptSections(scene.page)
                             ELSE ImagePromptSections(scene.page))
  <2>1. \A l \in Range(full) \ Range(prompt.lines) :
          Main(l) => UsedOf(prompt.lines) + l.len > MaxPrompt
    BY SceneFinished, Zenon DEF Finished, SectionsOf
  <2>2. UsedOf(prompt.lines)
          = Total[[i \in DOMAIN prompt.lines |->
                    IF Main(prompt.lines[i]) THEN prompt.lines[i].len + 1 ELSE 0]]
    BY Zenon DEF UsedOf, MainLens, MainShare
  <2> HIDE DEF full
  <2> QED BY <2>1, <2>2, Zenon DEF EssentialKept, full
<1> QED BY PromptKept, <1>1, PTL

=============================================================================
