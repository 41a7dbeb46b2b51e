------------------------------ MODULE MCUpdate ------------------------------
(* Model checking of Update: the last file is eboot.bin, and the others may *)
(* be new in a release.                                                     *)
EXTENDS Update
MCAlways == {Files}

\* Whichever of their calls fail, install() and recover() come to their end.
UpdateEnds == InstallEnds /\ StartEnds
=============================================================================
