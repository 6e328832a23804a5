------------------------------- MODULE MCKeys -------------------------------
(***************************************************************************)
(* Instances of Keys for TLC.                                              *)
(***************************************************************************)
EXTENDS Keys, TLC

\* A pairwise key, and the group key of the same access point and index.
MCPairwise == [index |-> 0, peer |-> CHOOSE p \in Peers : TRUE, flags |-> {"PAIRWISE", "RX", "TX"}]
MCGroup == [MCPairwise EXCEPT !.flags = {"GROUP", "RX"}]
MCIdentities == {MCPairwise, MCGroup}

\* Two pairwise keys for the same access point.
MCTxIdentities == {MCPairwise, [MCPairwise EXCEPT !.index = 1]}

MCZeroStart == {Zero}
MCRxStarts == {Zero, [Zero EXCEPT ![0] = 1]}

\* These have no names.
MCSymmetry == Permutations(Configurators) \cup Permutations(Transmitters)
                \cup Permutations(Receivers) \cup Permutations(Installations)

=============================================================================
