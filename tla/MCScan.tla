------------------------------- MODULE MCScan -------------------------------
(***************************************************************************)
(* Instances of Scan for TLC.                                              *)
(***************************************************************************)
EXTENDS Scan

\* Channel 2 is not allowed; the last one is.
MCAllowedChannels == {1, 3}

\* The first access point has no RSN element, the others do.
MCRecordSize == [a \in AccessPoints |-> IF a = CHOOSE b \in AccessPoints : TRUE THEN 1 ELSE 2]

=============================================================================
