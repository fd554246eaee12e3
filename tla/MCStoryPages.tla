----------------------------- MODULE MCStoryPages -----------------------------
EXTENDS StoryPages, TLC

Requests == Permutations(Procs)

W(i, n, s) == [id |-> i, len |-> n, stop |-> s]
(* Two paragraphs that do not fit a page of at most 6 characters.          *)
MCTexts == {<< <<W(1, 2, FALSE), W(2, 2, TRUE)>>, <<W(3, 2, TRUE)>> >>}
=============================================================================
