------------------------------ MODULE MCDevice ------------------------------
(***************************************************************************)
(* An instance of Device for TLC.                                          *)
(***************************************************************************)
EXTENDS Device

CONSTANT MaxActivity   \* a bound

\* Access points 0 and 1 have the same address.
MCKey == [a \in Nodes |-> IF a = 0 THEN 1 ELSE a]

Total(counts) == Cardinality({x \in APs \X (1 .. MaxHeld) : counts[x[1]] >= x[2]})

\* How much goes on at a time: entries and references of users, and, counted twice,
\* links, references on their way, losses, a key, and the end of a scan.
Explored ==
  Cardinality(Members(tree)) + Total(held)
    + 2 * (Total(lost) + Len(taken)
             + Cardinality({a \in {ap, association_context, disconnected_ap} : a # None})
             + Cardinality({"key"} \cap objects)
             + (IF work["scan_cleanup_work"].running THEN 1 ELSE 0))
    <= MaxActivity

=============================================================================
