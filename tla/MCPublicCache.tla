---------------------------- MODULE MCPublicCache ----------------------------
EXTENDS PublicCache, TLC
CONSTANTS r1, r2, w1, w2

(* A guest and a member on one connection, and every kind of save; a bust  *)
(* and a save without one; a save of the story and one of its author's     *)
(* name; two readers of the profile.                                       *)
MCWorkloads ==
  {[asks |-> r1 :> {"public", "members"} @@ r2 :> {},
    writes |-> w1 :> {"story", "profile", "pages"} @@ w2 :> {}],
   [asks |-> r1 :> {"members"} @@ r2 :> {},
    writes |-> w1 :> {"story", "profile"} @@ w2 :> {"pages"}],
   [asks |-> r1 :> {"public"} @@ r2 :> {},
    writes |-> w1 :> {"story"} @@ w2 :> {"profile"}],
   [asks |-> r1 :> {"profile"} @@ r2 :> {"profile"},
    writes |-> w1 :> {"story", "profile"} @@ w2 :> {}]}
=============================================================================
