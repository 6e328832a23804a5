----------------------------- MODULE Directory -----------------------------
(***************************************************************************)
(* What src/bss_cache.c and src/ap.h promise together: a directory of      *)
(* access points, at most one for an address, each of which lives exactly  *)
(* as long as it is in the directory or in use by somebody who was given a *)
(* reference.  A purge removes the entries that it finds unused, spares the*)
(* others, and passes over none.                                           *)
(***************************************************************************)
EXTENDS Integers, FiniteSets

CONSTANTS
  AccessPoints,
  Address   \* of each; two may have the same

VARIABLES
  entries, count,
  uses,       \* of each access point: the references given out and not returned
  alive,
  sweeping,   \* "nobody", "purge" or "deinit": who has the directory for itself
  unseen      \* entries the sweep has not come to

vars == <<entries, count, uses, alive, sweeping, unseen>>

Init ==
  /\ entries = {} /\ count = 0
  /\ uses = [a \in AccessPoints |-> 0] /\ alive = {}
  /\ sweeping = "nobody" /\ unseen = {}

Idle == sweeping = "nobody" /\ UNCHANGED <<sweeping, unseen>>

-----------------------------------------------------------------------------
\* What follows from being in the directory, or in use, and from nothing else.
Live == LET in_use == uses' IN alive' = entries' \cup {a \in AccessPoints : in_use[a] > 0}

Use(set) ==
  /\ LET before == uses
     IN  uses' = [a \in AccessPoints |-> IF a \in set THEN before[a] + 1 ELSE before[a]]
  /\ Live
  /\ UNCHANGED <<entries, count>>

Allocate(a) == a \notin alive /\ Use({a}) /\ UNCHANGED <<sweeping, unseen>>

Hold(a) == uses[a] > 0 /\ Use({a}) /\ UNCHANGED <<sweeping, unseen>>

Release(a) ==
  /\ uses[a] > 0
  /\ uses' = [uses EXCEPT ![a] = @ - 1]
  /\ Live
  /\ UNCHANGED <<entries, count, sweeping, unseen>>

Find(a) == Idle /\ a \in entries /\ Use({a})

\* The entries of the lowest addresses, as many as are asked for.
List(capacity) ==
  /\ Idle
  /\ Use({a \in entries : Cardinality({b \in entries : Address[b] < Address[a]}) < capacity})

Insert(a) ==
  /\ Idle
  /\ a \notin entries /\ uses[a] > 0 /\ \A b \in entries : Address[a] # Address[b]
  /\ entries' = entries \cup {a} /\ count' = count + 1
  /\ Live
  /\ UNCHANGED uses

Leave(a) ==
  /\ a \in entries
  /\ entries' = entries \ {a} /\ count' = count - 1
  /\ Live
  /\ UNCHANGED uses

Remove(a) == Idle /\ Leave(a)

-----------------------------------------------------------------------------
Sweep(by) ==
  /\ sweeping = "nobody"
  /\ sweeping' = by /\ unseen' = entries
  /\ UNCHANGED <<entries, count, uses, alive>>

See(a) == a \in unseen /\ unseen' = unseen \ {a} /\ UNCHANGED sweeping

Spare(a) == sweeping = "purge" /\ See(a) /\ uses[a] > 0 /\ UNCHANGED <<entries, count, uses, alive>>

Drop(a) == See(a) /\ (sweeping = "deinit" \/ uses[a] = 0) /\ Leave(a)

Finish ==
  /\ sweeping # "nobody" /\ unseen = {}
  /\ sweeping' = "nobody"
  /\ UNCHANGED <<entries, count, uses, alive, unseen>>

Next ==
  \/ \E a \in AccessPoints :
       \/ Allocate(a) \/ Hold(a) \/ Release(a) \/ Find(a)
       \/ Insert(a) \/ Remove(a) \/ Spare(a) \/ Drop(a)
  \/ \E capacity \in 0 .. Cardinality(AccessPoints) : List(capacity)
  \/ \E by \in {"purge", "deinit"} : Sweep(by)
  \/ Finish

Spec == Init /\ [][Next]_vars

=============================================================================
