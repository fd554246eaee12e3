-------------------------------- MODULE Totals --------------------------------
(* Sums of lengths.  The recursion is that of a recursive function, so that  *)
(* it can be reasoned about.                                                 *)
EXTENDS Naturals, Sequences

Total[lens \in Seq(Nat)] == IF lens = <<>> THEN 0 ELSE Head(lens) + Total[Tail(lens)]
=============================================================================
