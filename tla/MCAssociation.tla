---------------------------- MODULE MCAssociation ----------------------------
(***************************************************************************)
(* Association on small sets of model values, for TLC.                     *)
(***************************************************************************)
EXTENDS Association, TLC

\* Only some access points answer; all of them can end a link.
CONSTANT Answering
MCFrames == {frame \in Responses : frame.from \in Answering}

\* Only for safety: the objects of each kind are interchangeable.
MCSymmetry ==
  Permutations(Contexts)
    \cup Permutations(Callers) \cup Permutations(Receivers)

\* Bounds.  A reference that was overwritten stays lost, and after the use of a
\* destroyed object nothing is promised: for safety such states are checked and
\* what follows them is not explored.  For liveness only the first is cut off,
\* since the counter would grow for ever.
MCNothingLost == \A a \in AccessPoints : lost[a] = 0
MCBound == fault \in {"none", "null", "crash"} /\ MCNothingLost

=============================================================================
