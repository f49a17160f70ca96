-------------------------- MODULE MCPromotedRelease --------------------------
(* Two runs of promotion and one release command over two models of one family. *)
EXTENDS PromotedRelease, TLC

CONSTANTS b1, b2, m1, m2, f1

MCBundles == {b1, b2}
MCModels == {m1, m2}
MCFamilies == {f1}
MCModelOf == b1 :> m1 @@ b2 :> m2
MCFamilyOf == b1 :> f1 @@ b2 :> f1

Symmetry == Permutations(Runs) \cup Permutations(Stamps)
=============================================================================
