---------------------------- MODULE StoryOptions ----------------------------
(***************************************************************************)
(* The catalog that administrators and authors edit                        *)
(* (story-options.service.ts).  Genres, eras and civilizations are three   *)
(* tables treated alike; one is modelled.                                  *)
(*                                                                         *)
(* A name is a word in one of two spellings that differ in case.  It is    *)
(* given with or without spaces around it, and stored without.  Names with *)
(* wildcards of ILIKE, descriptions and audit records are left out.        *)
(***************************************************************************)
EXTENDS FiniteSets

CONSTANTS Editors,    \* requests that edit the catalog
          OptionIds,  \* bounds the options created
          NameWords,
          Same        \* a field that a request leaves out

VARIABLES
  options,     \* the rows: id -> name and whether it is active
  edits,       \* what each editor holds between two awaits
  \* history
  retired,     \* options whose last change of isActive switched them off
  serial       \* no name was padded, and no edit began during another

optionVars == <<options, edits, retired, serial>>

Spellings == [word: NameWords, upper: BOOLEAN]
Names     == [spelled: Spellings, padded: BOOLEAN]

ASSUME OptionsAssumption == Same \notin BOOLEAN \cup Names

Idle == [at |-> "idle"]

OptionsInit ==
  /\ options = <<>>
  /\ edits = [e \in Editors |-> Idle]
  /\ retired = {}
  /\ serial = TRUE

-----------------------------------------------------------------------------
(* ILIKE of the name as given: spaces match only spaces.                   *)
Like(given, stored) == ~given.padded /\ given.spelled.word = stored.word
Matches(given) == {i \in DOMAIN options : Like(given, options[i].name)}

(* The unique index tells cases apart.                                     *)
Free(name, id) == \A i \in DOMAIN options \ {id} : options[i].name # name

(* Bound: after the first overlap or padded name, of which CatalogInOrder   *)
(* claims nothing, what has begun is finished and nothing more begins.     *)
Begin(e, edit, given) ==
  /\ edits[e] = Idle /\ serial
  /\ edits' = [edits EXCEPT ![e] = edit]
  /\ serial' = (serial /\ (given # Same => ~given.padded)
                       /\ \A other \in Editors : edits[other] = Idle)
  /\ UNCHANGED <<options, retired>>

End(e) == edits' = [edits EXCEPT ![e] = Idle] /\ UNCHANGED serial

(* create: refused where a name matches.                                   *)
CreateOption(e, given) ==
  /\ Matches(given) = {}
  /\ Begin(e, [at |-> "create", name |-> given.spelled], given)

InsertOption(e) ==
  /\ edits[e].at = "create"
  /\ IF Free(edits[e].name, "none")
     THEN \E id \in OptionIds \ DOMAIN options :
            options' = [i \in DOMAIN options \cup {id} |->
                          IF i = id THEN [name |-> edits[e].name, active |-> TRUE]
                          ELSE options[i]]
     ELSE UNCHANGED options
  /\ End(e) /\ UNCHANGED retired

(* update and deactivate load the row,                                     *)
LoadOption(e, id, given, active) ==
  Begin(e, [at |-> "loaded", id |-> id, row |-> options[id], name |-> given, active |-> active],
        given)
DeactivateOption(e, id) == LoadOption(e, id, Same, FALSE)

Renamed(edit) == edit.name # Same /\ edit.name.spelled # edit.row.name

(* Mutant: the match is not looked at.                                     *)
TakenNever(edit, duplicate) == FALSE
Taken(edit, duplicate) == duplicate # edit.id

(* look whether a new name is taken - one match is looked at, whichever    *)
(* the database finds -                                                    *)
CheckOption(e) ==
  LET edit == edits[e] IN
  /\ edit.at = "loaded" /\ Renamed(edit)
  /\ \/ /\ \E duplicate \in Matches(edit.name) : Taken(edit, duplicate)
        /\ End(e)
     \/ /\ \/ Matches(edit.name) = {}
           \/ \E duplicate \in Matches(edit.name) : ~Taken(edit, duplicate)
        /\ edits' = [edits EXCEPT ![e].at = "checked"]
        /\ UNCHANGED serial
  /\ UNCHANGED <<options, retired>>

(* and save it: every column in which it differs from the row by now.      *)
SaveOption(e) ==
  LET edit == edits[e]
      name == IF Renamed(edit) THEN edit.name.spelled ELSE edit.row.name
      active == IF edit.active = Same THEN edit.row.active ELSE edit.active
  IN /\ edit.at = "checked" \/ (edit.at = "loaded" /\ ~Renamed(edit))
     /\ IF Free(name, edit.id)
        THEN /\ options' = [options EXCEPT ![edit.id] = [name |-> name, active |-> active]]
             /\ retired' = IF edit.active = Same THEN retired
                           ELSE IF edit.active THEN retired \ {edit.id}
                           ELSE retired \cup {edit.id}
        ELSE UNCHANGED <<options, retired>>
     /\ End(e)

OptionsNext ==
  \E e \in Editors :
    \/ \E given \in Names : CreateOption(e, given)
    \/ InsertOption(e)
    \/ \E id \in DOMAIN options :
         \/ \E given \in Names \cup {Same}, active \in BOOLEAN \cup {Same} :
              LoadOption(e, id, given, active)
         \/ DeactivateOption(e, id)
    \/ CheckOption(e)
    \/ SaveOption(e)

-----------------------------------------------------------------------------
(* Edits that do not overlap keep the catalog in order: no two options     *)
(* whose names differ in case only, although renames, refused ones         *)
(* included, come in any order; and an option that was switched off stays  *)
(* off until an update asks for it.  (Overlapping edits, and a name with   *)
(* spaces around it, break both.)                                          *)
CatalogInOrder ==
  serial =>
    /\ \A i, j \in DOMAIN options : options[i].name.word = options[j].name.word => i = j
    /\ \A i \in DOMAIN options : options[i].active <=> i \notin retired
=============================================================================
