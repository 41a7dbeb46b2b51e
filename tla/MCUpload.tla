------------------------------ MODULE MCUpload ------------------------------
(* Model checking of Upload: two uploads, of one name or of two.           *)
EXTENDS Upload, TLC
CONSTANTS u1, u2, p1, p2, r1, r2, r3, a, b
OneName  == [u \in {u1, u2} |-> a]
TwoNames == (u1 :> a) @@ (u2 :> b)
MCUploads == {u1, u2}
TwoParts == {p1, p2}
OnePart  == {p1}
Three == {r1, r2, r3}
Two == {r1, r2}
MCFds == 1..3
Symmetry == Permutations(Three) \cup Permutations(TwoParts)
=============================================================================
