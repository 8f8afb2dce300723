---------------------------- MODULE TeamAccessMC ----------------------------
(* Instances of TeamAccess for TLC. *)
EXTENDS TeamAccess, TLC

CONSTANTS a1, a2, c1, n1, n2, t1, t2, t3

TwoAdmins == {a1, a2}
TwoNames == {n1, n2}
OneBatch == {<<n1, n2>>}
ThreeTokens == {t1, t2, t3}
OneJwt == {t3}

Symmetry == Permutations(TwoAdmins) \cup Permutations({t1, t2})
=============================================================================
