----------------------------- MODULE ScenePrompt -----------------------------
(***************************************************************************)
(* The prompt of an illustration: scene-prompt.service.ts.                 *)
(*                                                                         *)
(* A prompt is a sequence of sections, a section a sequence of lines, and  *)
(* a line what compactPrompt recognizes in it and its length.  A scene     *)
(* gives the lengths of what varies; 0 is a part that is missing.  That a  *)
(* line of the story's own text contains one of the phrases by which       *)
(* headings are recognized is left out.                                    *)
(***************************************************************************)
EXTENDS Totals, Naturals, Sequences, FiniteSets, SequencesExt, FiniteSetsExt

CONSTANTS MaxPrompt,  \* MAX_AI_PROMPT_LENGTH
          Heading,    \* length of a heading
          Fixed       \* length of a line of fixed wording

ASSUME PromptAssumption ==
  {MaxPrompt, Heading, Fixed} \subseteq Nat \ {0} /\ Fixed <= MaxPrompt

(* What the phrases of compactPrompt tell apart.                           *)
LineKinds == {"scene", "subject", "place", "setting", "body", "continuity", "suppression"}
L(kind, len) == [kind |-> kind, len |-> len]
NamedLine    == [kind: LineKinds, len: Nat \ {0}, id: Nat]
LengthOf(lines) == Total[[i \in DOMAIN lines |-> lines[i].len]]

(* A page to illustrate: its lines of text, and the lengths of the parts.  *)
Scene ==
  [text: Seq(Nat \ {0}) \ {<<>>}, subject: Nat \ {0}, action: Nat \ {0}, objects: Nat,
   details: Nat, place: Nat, genre: BOOLEAN, continuity: Nat]

(* Mutant: neither the scene nor the line of the title is recognized.      *)
PriorityButScene(l) ==
  [scene |-> 5, subject |-> 2, place |-> 3,
   setting |-> 4, body |-> 5, continuity |-> 7, suppression |-> 8][l.kind]
Priority(l) ==
  [scene |-> 1, subject |-> 2, place |-> 3, setting |-> 4, body |-> 5,
   continuity |-> 7, suppression |-> 8][l.kind]
Essential(l) == Priority(l) <= 3

-----------------------------------------------------------------------------
(* Sections.                                                               *)

Part(present, section) == IF present THEN <<section>> ELSE <<>>
Headed(kind, len)      == <<L(kind, Heading), L("body", len)>>

(* buildSceneText: only its first line begins with the story's title.      *)
SceneText(s) ==
  [i \in DOMAIN s.text |-> L(IF i = 1 THEN "scene" ELSE "body", s.text[i])]

(* buildStoryContext: a line for the period, one for the place.            *)
StoryContextSection(s) ==
  <<L("body", Fixed)>> \o (IF s.place > 0 THEN <<L("place", s.place)>> ELSE <<>>)

GenreSection(s) ==
  IF s.genre THEN Headed("setting", Fixed) ELSE <<L("body", Fixed)>>

ImagePromptSections(s) ==
  << <<L("scene", Heading)>> \o SceneText(s), Headed("subject", s.subject),
     Headed("place", s.action), Headed("setting", Fixed) >>
  \o Part(s.objects > 0, Headed("place", s.objects))
  \o Part(s.details > 0, Headed("setting", s.details))
  \o << <<L("body", Fixed)>>, StoryContextSection(s), GenreSection(s) >>
  \o Part(s.continuity > 0, <<L("continuity", Heading), L("continuity", s.continuity)>>)
  \o << <<L("body", Fixed)>>, <<L("suppression", Fixed)>> >>

CoverPromptSections(s) ==
  << <<L("body", Fixed)>>, <<L("scene", s.text[1])>>, StoryContextSection(s),
     GenreSection(s), <<L("body", Fixed)>>, <<L("suppression", Fixed)>> >>

(* Lines are separated by a newline, sections by two.                      *)
PromptLength(sections) ==
  LET lines == FlattenSeq(sections)
  IN LengthOf(lines) + (Len(lines) - 1) + (Len(sections) - 1)

(* A line is named by its place in the prompt.                             *)
LinesOf(sections) ==
  LET lines == FlattenSeq(sections)
  IN [i \in DOMAIN lines |-> [kind |-> lines[i].kind, len |-> lines[i].len, id |-> i]]

-----------------------------------------------------------------------------
(* compactPrompt.                                                          *)

JoinedLength(lines) == IF lines = <<>> THEN 0 ELSE LengthOf(lines) + Len(lines) - 1

(* Mutant: the newline before the line is forgotten.                       *)
GrownTight(kept, l) == LengthOf(kept) + l.len
(* The length of the kept lines with one more.                             *)
Grown(kept, l) == IF kept = <<>> THEN l.len ELSE JoinedLength(kept) + 1 + l.len

(* The lines that pass a test, in their order.                             *)
Those(lines, passes) ==
  FlattenSeq([i \in DOMAIN lines |-> IF passes[i] THEN <<lines[i]>> ELSE <<>>])

(* The sort is stable.                                                     *)
ByPriority(lines) ==
  FlattenSeq([k \in 1..8 |->
    Those(lines, [i \in DOMAIN lines |-> Priority(lines[i]) = k])])

(* An essential line that does not fit pushes out lesser lines, the last   *)
(* first, until it does.  After the sort there are none before it.         *)
MakeRoom(kept, l) ==
  LET lesser     == {i \in DOMAIN kept : Priority(kept[i]) > 3}
      gone(n)    == {i \in lesser : Cardinality({j \in lesser : j >= i}) <= n}
      without(n) == Those(kept, [i \in DOMAIN kept |-> i \notin gone(n)])
      enough     == {n \in 1..Cardinality(lesser) : Grown(without(n), l) <= MaxPrompt}
  IN IF enough = {} THEN without(Cardinality(lesser))
     ELSE Append(without(Min(enough)), l)

Keep(kept, l) ==
  IF Grown(kept, l) <= MaxPrompt THEN Append(kept, l)
  ELSE IF Essential(l) THEN MakeRoom(kept, l)
  ELSE kept

KeptOf[lines \in Seq(NamedLine)] ==
  IF lines = <<>> THEN <<>> ELSE Keep(KeptOf[Front(lines)], Last(lines))

CompactPrompt(lines) == KeptOf[ByPriority(lines)]

(* truncateAtWordBoundary: the line in which the limit falls is cut.       *)
TruncateAtWordBoundary(lines) ==
  LET whole == {n \in 0..Len(lines) : JoinedLength(SubSeq(lines, 1, n)) <= MaxPrompt}
      n     == Max(whole)
      left  == MaxPrompt - JoinedLength(SubSeq(lines, 1, n))
  IN IF n = Len(lines) \/ left < 2 THEN SubSeq(lines, 1, n)
     ELSE Append(SubSeq(lines, 1, n), [lines[n + 1] EXCEPT !.len = left - 1])

(* truncatePrompt.                                                         *)
FinalizePrompt(sections) ==
  IF PromptLength(sections) <= MaxPrompt
  THEN [lines |-> LinesOf(sections), length |-> PromptLength(sections)]
  ELSE LET compact == CompactPrompt(LinesOf(sections))
           lines   == IF JoinedLength(compact) <= MaxPrompt THEN compact
                      ELSE TruncateAtWordBoundary(compact)
       IN [lines |-> lines, length |-> JoinedLength(lines)]

(* validateImagePrompt, before the job calls the model.                    *)
ValidPrompt(prompt) == prompt.length \in 1..MaxPrompt

BuildPrompt(s, cover) ==
  FinalizePrompt(IF cover THEN CoverPromptSections(s) ELSE ImagePromptSections(s))
=============================================================================
