---------------------------- MODULE AtomicUpdate ----------------------------
(***************************************************************************)
(* What the updater promises (src/webui_update.cpp): the title's folder    *)
(* holds either the files it held before an update or that update's, and   *)
(* goes from the one to the other in a single step.                        *)
(***************************************************************************)
EXTENDS Integers

CONSTANTS Paths,      \* the files a release manages
          Always,     \* the ones every plan ends with (manifest, eboot.bin)
          MaxRelease  \* versions are numbered up to here; 0 is an absent file

VARIABLE tree         \* the version of each file

Versions == 0..MaxRelease

Init == tree \in [Paths -> Versions]

\* A release replaces the files that changed, and always those of Always.
Switch(changed, release) ==
    tree' = [p \in Paths |-> IF p \in changed THEN release ELSE tree[p]]

Next == \E changed \in SUBSET Paths, release \in 1..MaxRelease :
            Always \subseteq changed /\ Switch(changed, release)

Spec == Init /\ [][Next]_tree
=============================================================================
