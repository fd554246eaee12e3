----------------------------- MODULE MCStoryLife -----------------------------
(* Instances of StoryLife for TLC.                                         *)
EXTENDS StoryLife

MCWorkloads == {{"create", "update"}, {"create", "overlap"}, {"create", "share", "favorite"},
                {"create", "share", "room"}, {"parse"}, {"illustrate"}, {"options"}}

(* Requests that name the fields in D, with any value the pipe lets pass.  *)
Values == UNION {Given(f) : f \in Fields}
Naming(D) == {dto \in [D -> Values] : \A f \in D : dto[f] \in Given(f)}

MCContexts ==
  Naming({"era", "year"}) \cup Naming({"civilization", "customCivilization"})
  \cup Naming({"theme", "customTheme"}) \cup Naming({"customCivilization", "customTheme"})
MCNewStories ==
  [w \in MCWorkloads |->
    CASE "update" \in w   -> [context: MCContexts, visibility: {"PRIVATE"}]
      [] "favorite" \in w -> [context: Naming({}), visibility: Visibility]
      [] "room" \in w     -> [context: Naming({}), visibility: {"PRIVATE", "SHARED"}]
      [] OTHER            -> [context: Naming({}), visibility: {"PRIVATE"}]]

(* One request after another, with any context that names one field, a     *)
(* pair, or two of different pairs.                                        *)
MCContextUpdates ==
  UNION {Naming({f}) : f \in Fields} \cup UNION {Naming(g) : g \in Pairs}
  \cup Naming({"era", "civilization"})

(* Two at a time: both fields of a pair against one of them, a visibility, *)
(* or the save of a service that changes none of them.                     *)
MCOverlapUpdates ==
  [first |-> [context: Naming({"era", "year"}), visibility: {None}],
   second |-> [context: Naming({"year"}), visibility: {None}]
              \cup [context: Naming({}), visibility: {None, "PUBLIC"}]]

CONSTANTS first, second
MCUpdaters == {first, second}
MCUpdates ==
  [w \in MCWorkloads |->
    [p \in MCUpdaters |->
      CASE "update" \in w -> IF p = first THEN [context: MCContextUpdates, visibility: {None}]
                             ELSE {}
        [] "overlap" \in w -> IF p = first THEN MCOverlapUpdates.first
                              ELSE MCOverlapUpdates.second
        [] "favorite" \in w -> [context: Naming({}),
                                visibility: IF p = first THEN Visibility ELSE {}]
        [] "room" \in w -> [context: Naming({}),
                            visibility: IF p = first THEN {"PRIVATE", "SHARED"} ELSE {None}]
        [] OTHER -> {}]]

MCOverrides == Naming({}) \cup Naming({"era", "civilization"}) \cup Naming({"year", "theme"})

(* Texts of one paragraph of up to four words, two of up to three, and     *)
(* three of up to two.                                                     *)
CONSTANT WordLengths
Shape == [len: WordLengths, stop: BOOLEAN]
Paragraphs(words) == UNION {[1..n -> Shape] : n \in 1..words}
MCStoryTexts == UNION {[1..n -> Paragraphs(5 - n)] : n \in 1..3}

(* Pages of one or two paragraphs, with and without the optional parts.    *)
CONSTANT PartLengths
MCScenes ==
  [text: UNION {[1..n -> PartLengths] : n \in 1..2}, subject: PartLengths,
   action: PartLengths, objects: {0, 2}, details: {0, 2}, place: {0} \cup PartLengths,
   genre: BOOLEAN, continuity: {0, 3}]
=============================================================================
