---------------------------- MODULE StoryContext ----------------------------
(***************************************************************************)
(* The historical context of a story: how a request's fields become the    *)
(* row's (story-context.service.ts, create and update of story.service.ts) *)
(* and what of the row an illustration prompt says                         *)
(* (story-context-prompt.service.ts).                                      *)
(*                                                                         *)
(* A civilization is known by its kind in the registry, an era and a theme *)
(* by how they are treated ("CE" stands for every era with a label,        *)
(* "DRAMA" for every theme with guidance), a text by whether it is blank.  *)
(* A request is a function on the fields it names; the validation pipe has *)
(* checked enumerations, lengths and the range of the year before.         *)
(***************************************************************************)
EXTENDS Naturals, FiniteSets

CONSTANTS None,   \* null
          Years   \* years from YEAR_MIN to YEAR_MAX

ASSUME ContextAssumption == None \notin Years

Eras   == {"UNSPECIFIED", "MODERN", "CE"}
Kinds  == {"unspecified", "specific", "other", "custom"}
Themes == {"UNSPECIFIED", "CUSTOM", "DRAMA"}
Texts  == {"text", "blank"}

ContextFields == {"era", "year", "location", "civilization", "customCivilization",
                  "theme", "customTheme"}
(* Names of the catalog, which take precedence over the enumerations.      *)
OptionFields  == {"optionEra", "optionCivilization"}
Fields        == ContextFields \cup OptionFields

(* What a request may give for a field: null passes every decorator.       *)
Given(f) ==
  CASE f = "era"          -> Eras \cup {None}
    [] f = "year"         -> Years \cup {None}
    [] f = "civilization" -> Kinds \cup {None}
    [] f = "theme"        -> Themes \cup {None}
    [] f \in OptionFields -> {"name", None}
    [] OTHER              -> Texts \cup {None}

(* A regeneration may override some of them for one prompt.                *)
Overridable == {"era", "year", "location", "civilization", "theme"}

IsRequest(dto, fields) ==
  DOMAIN dto \subseteq fields /\ \A f \in DOMAIN dto : dto[f] \in Given(f)

ContextRow ==
  [era: Eras, year: Years \cup {None}, location: {"text", None},
   civilization: Kinds, customCivilization: {"text", None},
   theme: Themes, customTheme: {"text", None},
   optionEra: {"name", None}, optionCivilization: {"name", None}]
ASSUME RowAssumption == None \notin ContextRow

-----------------------------------------------------------------------------
(* normalize.                                                              *)

InputOf(dto, f, default) ==
  IF f \in DOMAIN dto /\ dto[f] # None THEN dto[f] ELSE default

(* Mutant: a text is stored as it came.                                    *)
TrimOrNullAsGiven(text) == text
TrimOrNull(text) == IF text = "blank" THEN None ELSE text

(* The rules that span two fields of one request.                          *)
Refused(dto) ==
  LET era  == InputOf(dto, "era", "UNSPECIFIED")
      kind == InputOf(dto, "civilization", "unspecified")
      text(f) == TrimOrNull(InputOf(dto, f, None))
  IN \/ era = "UNSPECIFIED" /\ InputOf(dto, "year", None) # None
     \/ kind = "custom" /\ text("customCivilization") = None
     \/ InputOf(dto, "theme", "UNSPECIFIED") = "CUSTOM" /\ text("customTheme") = None

(* Mutant: a custom text is kept whatever the civilization or theme is.    *)
OwnTextKept(chosen, custom, text) == text
(* A custom text only goes with the choice that calls for it.              *)
OwnText(chosen, custom, text) == IF chosen = custom THEN text ELSE None

Normalize(dto) ==
  LET kind  == InputOf(dto, "civilization", "unspecified")
      theme == InputOf(dto, "theme", "UNSPECIFIED")
      text(f) == TrimOrNull(InputOf(dto, f, None))
  IN [era |-> InputOf(dto, "era", "UNSPECIFIED"),
      year |-> InputOf(dto, "year", None),
      location |-> text("location"),
      civilization |-> kind,
      customCivilization |-> OwnText(kind, "custom", text("customCivilization")),
      theme |-> theme,
      customTheme |-> OwnText(theme, "CUSTOM", text("customTheme"))]

-----------------------------------------------------------------------------
(* contextToEntity, with the option names of the request.                  *)
CreatedRow(dto) ==
  LET context == Normalize(dto)
  IN [f \in Fields |-> IF f \in ContextFields THEN context[f] ELSE InputOf(dto, f, None)]

HasStoryContext(dto) == DOMAIN dto \cap ContextFields # {}

(* Mutant: the whole normalized context is assigned.                       *)
ContextPatchWhole(dto) == ContextFields
(* contextPatch: only the fields that the request names.                   *)
ContextPatch(dto) == DOMAIN dto \cap ContextFields

(* The fields that are no part of the context are assigned as given.       *)
UpdatedRow(row, dto) ==
  LET context == Normalize(dto)
      patch   == IF HasStoryContext(dto) THEN ContextPatch(dto) ELSE {}
  IN [f \in Fields |-> IF f \in patch THEN context[f]
                       ELSE IF f \in OptionFields \cap DOMAIN dto THEN dto[f] ELSE row[f]]

-----------------------------------------------------------------------------
(* The prompt's context.                                                   *)

(* resolveStory: what a regeneration overrides replaces the row's value.   *)
Resolved(row, overrides) == [f \in Fields |-> InputOf(overrides, f, row[f])]

(* Mutant: only MODERN has no year.                                        *)
FormatYearAlways(s) == IF s.era = "MODERN" THEN None ELSE <<s.era, s.year>>
(* formatYear: a labelled era with its year, if any.                       *)
FormatYear(s) == IF s.era \in {"UNSPECIFIED", "MODERN"} THEN None ELSE <<s.era, s.year>>

(* Labels are tuples: a name of the catalog, an era with its year, a kind  *)
(* of civilization, a theme, or a custom choice with its text.             *)
Named(option) == IF option = None THEN None ELSE <<option>>

(* optionEraName ?? formatYear.                                            *)
Period(s) == IF s.optionEra # None THEN Named(s.optionEra) ELSE FormatYear(s)

EraLine(s) ==
  IF s.optionEra = None /\ s.era = "UNSPECIFIED" THEN None
  ELSE IF Period(s) = None THEN <<"period">> ELSE Period(s)

CustomOf(choice, text) == IF text = None THEN None ELSE <<choice, text>>

(* civilizationLabel, behind the option's name.                            *)
CivilizationLine(s) ==
  IF s.optionCivilization # None THEN Named(s.optionCivilization)
  ELSE CASE s.civilization = "unspecified" -> None
         [] s.civilization = "custom"      -> CustomOf("custom", s.customCivilization)
         [] OTHER                          -> <<s.civilization>>

(* buildCivilizationGuidance: whom it is about, and of which period.  The  *)
(* era's option name is only used next to a civilization's.                *)
Guidance(about, period) == [about |-> about, period |-> period]
CivilizationGuidance(s) ==
  IF s.optionCivilization # None THEN Guidance(Named(s.optionCivilization), Period(s))
  ELSE CASE s.civilization = "custom" ->
              IF s.customCivilization = None THEN None
              ELSE Guidance(<<"custom", s.customCivilization>>, None)
         [] s.civilization = "unspecified" -> None
         [] OTHER -> Guidance(<<s.civilization>>, FormatYear(s))

(* themeLabel: a custom theme is named as such even without its text.      *)
ThemeLine(s) ==
  CASE s.theme = "UNSPECIFIED" -> None
    [] s.theme = "CUSTOM"      -> <<"CUSTOM", s.customTheme>>
    [] OTHER                   -> <<s.theme>>

(* buildThemeGuidance.                                                     *)
ThemeGuidance(s) ==
  CASE s.theme = "UNSPECIFIED" -> None
    [] s.theme = "CUSTOM"      -> CustomOf("CUSTOM", s.customTheme)
    [] OTHER                   -> <<s.theme>>

(* buildContext and the guidance after it.                                 *)
ContextOf(s) ==
  [era |-> EraLine(s), civilization |-> CivilizationLine(s), location |-> s.location,
   theme |-> ThemeLine(s), guidance |-> CivilizationGuidance(s),
   themeGuidance |-> ThemeGuidance(s)]

(* What a prompt may say of a context; null is none of it.                 *)
Labels ==
  {<<name>> : name \in {"name", "period"} \cup Kinds \cup Themes}
  \cup Eras \X (Years \cup {None}) \cup {"custom", "CUSTOM"} \X {"text", None}
Guidances == [about: Labels, period: Labels \cup {None}]
ASSUME LabelAssumption == None \notin Labels \cup Guidances
=============================================================================
