---------------------------- MODULE StorySections ----------------------------
(***************************************************************************)
(* Segmentation of a story's text into pages: story-parser.service.ts.     *)
(*                                                                         *)
(* A text is a sequence of paragraphs, separated in the code by a blank    *)
(* line; a paragraph is a sequence of words, separated by one space, as    *)
(* they are once the code has normalized them.  A word has an identity, a  *)
(* length in characters (the mark of a sentence's end included) and says   *)
(* whether it ends a sentence.  Recursion is by recursive functions.       *)
(***************************************************************************)
EXTENDS Totals, Integers, Sequences, FiniteSets, SequencesExt, FiniteSetsExt

CONSTANTS MaxChars,  \* MAX_CHARS
          MaxRest    \* MAX_REMAINING_CHARS

ASSUME SectionsAssumption == MaxChars \in Nat \ {0} /\ MaxRest \in Nat

Word      == [id: Nat, len: Nat \ {0}, stop: BOOLEAN]
Paragraph == Seq(Word)
Text      == Seq(Paragraph)
FullText  == Seq(Paragraph \ {<<>>})

(* Lengths, with one space between words, and between two paragraphs two   *)
(* newlines, or one space where the code normalizes before it counts.      *)
Chars(p)      == Total[[i \in DOMAIN p |-> p[i].len]] + Len(p) - 1
Length(t)     == Total[[i \in DOMAIN t |-> Chars(t[i])]] + 2 * (Len(t) - 1)
Normalized(t) == IF t = <<>> THEN 0 ELSE Length(t) - (Len(t) - 1)

Words(t) == FlattenSeq(t)

(* Two texts written one after the other with a space between.             *)
JoinSpace(t, u) ==
  IF u = <<>> THEN t
  ELSE SubSeq(t, 1, Len(t) - 1) \o <<t[Len(t)] \o Head(u)>> \o Tail(u)

(* The first n elements, and the others.                                   *)
Cut(s, n) == [head |-> SubSeq(s, 1, n), tail |-> SubSeq(s, n + 1, Len(s))]
NoEmpty(t) == FlattenSeq([i \in DOMAIN t |-> IF t[i] = <<>> THEN <<>> ELSE <<t[i]>>])

-----------------------------------------------------------------------------
(* Mutant: the separators are forgotten when the paragraphs are added up.  *)
WholeParagraphsTight(t) ==
  Max({0} \cup {n \in DOMAIN t : Total[[i \in 1..n |-> Chars(t[i])]] <= MaxChars})
(* How many whole paragraphs fit in a page.                                *)
WholeParagraphs(t) ==
  Max({0} \cup {n \in DOMAIN t : Length(SubSeq(t, 1, n)) <= MaxChars})

(* Mutant: the last space is preferred to the end of a sentence.           *)
BestSplitAtSpace(p) ==
  Max({0} \cup {n \in 1..(Len(p) - 1) : Chars(SubSeq(p, 1, n)) < MaxChars})
(* findBestSplit: the words before the last sentence end in the first      *)
(* MaxChars characters, or else before the last space in them; 0 if there  *)
(* is no space.                                                            *)
BestSplit(p) ==
  LET fitting == {n \in 1..(Len(p) - 1) : Chars(SubSeq(p, 1, n)) < MaxChars}
      ends    == {n \in fitting : p[n].stop}
  IN IF ends # {} THEN Max(ends) ELSE Max({0} \cup fitting)

(* The unavoidable split, after MaxChars characters of the first word.     *)
CutWord(p) ==
  LET w == Head(p)
  IN [head |-> <<[w EXCEPT !.len = MaxChars, !.stop = @ /\ w.len = MaxChars]>>,
      tail |-> IF w.len = MaxChars THEN Tail(p)
               ELSE <<[w EXCEPT !.len = @ - MaxChars]>> \o Tail(p)]

CutParagraph(p) == IF BestSplit(p) = 0 THEN CutWord(p) ELSE Cut(p, BestSplit(p))

(* One round of the loop: the next page, and what remains.                 *)
NextSection(t) ==
  IF WholeParagraphs(t) > 0 THEN Cut(t, WholeParagraphs(t))
  ELSE LET c == CutParagraph(Head(t))
       IN [head |-> <<c.head>>, tail |-> NoEmpty(<<c.tail>> \o Tail(t))]

(* Mutant: a short rest is dropped.                                        *)
WithRestDropped(head, rest) == head
(* A rest of at most MaxRest characters joins the page before it.          *)
WithRest(head, rest) == JoinSpace(head, rest)

(* splitIntoSections, of a text without empty paragraphs.                  *)
SectionsFrom[t \in FullText] ==
  IF Length(t) <= MaxChars THEN <<t>>
  ELSE LET s == NextSection(t)
       IN IF Normalized(s.tail) <= MaxRest THEN <<WithRest(s.head, s.tail)>>
          ELSE <<s.head>> \o SectionsFrom[s.tail]

Sections(t) == SectionsFrom[NoEmpty(t)]

-----------------------------------------------------------------------------
(* What segmentation promises, for every text.                             *)

(* The characters of every word are kept, in order; only a word longer     *)
(* than a page may be cut in two.                                          *)
Pieces(ws, id) == Total[[i \in DOMAIN ws |-> IF ws[i].id = id THEN ws[i].len ELSE 0]]
WordsKept(t, pages) ==
  LET before == Words(t)
      after  == FlattenSeq([i \in DOMAIN pages |-> Words(pages[i])])
      long   == {w \in Range(before) : w.len > MaxChars}
  IN /\ \A w \in Range(before) : Pieces(after, w.id) = Pieces(before, w.id)
     /\ \A i, j \in DOMAIN after : i < j => after[i].id <= after[j].id
     /\ Len(after) > Len(before) => long # {}

(* A page is at most MaxChars long; the last is as much longer as a rest   *)
(* and the space before it.                                                *)
PagesSized(pages) ==
  \A i \in DOMAIN pages :
    IF i < Len(pages) THEN Length(pages[i]) <= MaxChars
    ELSE Normalized(pages[i]) <= MaxChars + 1 + MaxRest

(* Only a story of one page is shorter than a rest.                        *)
LastPageFull(pages) ==
  Len(pages) > 1 => Normalized(pages[Len(pages)]) > MaxRest

(* A page that ends within a paragraph ends with a sentence, unless there  *)
(* is no sentence end in it.                                               *)
BrokenAtSentence(t, pages) ==
  \A i \in 1..(Len(pages) - 1) :
    LET ws     == Words(pages[i])
        end    == ws[Len(ws)]
        next   == Words(pages[i + 1])[1]
        within == \E p \in Range(t) : \E k \in 1..(Len(p) - 1) :
                    p[k].id = end.id /\ p[k + 1].id = next.id
    IN within => end.stop \/ \A w \in Range(ws) : ~w.stop
=============================================================================
