----------------------------- MODULE StoryAccess -----------------------------
(***************************************************************************)
(* Who may read a story, and which lists show it.                          *)
(*                                                                         *)
(* The rule is written once in TypeScript (story-access.service.ts) and    *)
(* again, in part, as the WHERE clause of every list (story.service.ts,    *)
(* story-library.service.ts): here each is an operator over the row's      *)
(* visibility v and the set of users it is shared with.  The filters that  *)
(* a reader adds (search, status, sort, page) only narrow a list and are   *)
(* left out.                                                               *)
(***************************************************************************)
EXTENDS FiniteSets

CONSTANTS Members,  \* accounts
          Owner,    \* the account the story belongs to
          Guest     \* a request without a session

ASSUME AccessAssumption == Owner \in Members /\ Guest \notin Members

Visibility == {"PRIVATE", "SHARED", "MEMBERS", "PUBLIC"}
Viewers    == Members \cup {Guest}

-----------------------------------------------------------------------------
(* canAccessStory: what the story alone grants, and what a row of          *)
(* story_shares grants, which is looked up next and only when the story    *)
(* is SHARED.                                                              *)
ByStory(u, v) == v = "PUBLIC" \/ (u # Guest /\ (u = Owner \/ v = "MEMBERS"))
ByShare(u, v, shares) == u # Guest /\ v = "SHARED" /\ u \in shares

CanAccess(u, v, shares) == ByStory(u, v) \/ ByShare(u, v, shares)

(* requireOwnership, and what it guards: listShares shows every share.     *)
Owns(u) == u = Owner
SharesShown(u, shares) == IF Owns(u) THEN shares ELSE {}

-----------------------------------------------------------------------------
(* The lists; each is true when it shows the story to u.                   *)

FindAll(u, v, shares) ==
  u = Owner \/ v \in {"PUBLIC", "MEMBERS"} \/ (v = "SHARED" /\ u \in shares)

FindMyStories(u) == u = Owner

FindSharedStories(u, v, shares) == u \in shares /\ v = "SHARED" /\ u # Owner

(* Mutant: a private story stays in the lists of those it was shared with. *)
FindSharedAlways(u, v, shares) == u \in shares
(* findShared, of the library.                                             *)
FindShared(u, v, shares) == u \in shares /\ v # "PRIVATE"

(* findOwned, findRecent: the library's lists of one's own stories.        *)
FindOwned(u)  == u = Owner
FindRecent(u) == u = Owner

FindPublic(u, v) == v \in (IF u = Guest THEN {"PUBLIC"} ELSE {"PUBLIC", "MEMBERS"})

(* findFavorites: what was kept, whoever may read it now.                  *)
FindFavorites(u, favorites) == u \in favorites

(* notify: the sockets in the story's room.  The owner's own room, which   *)
(* it names beside it, is one that no socket ever enters.                  *)
Notified(u, room) == u \in room

(* share, of an account that is not the owner and has no share yet.        *)
Shareable(u, shares) == u # Owner /\ u \notin shares
=============================================================================
