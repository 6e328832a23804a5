------------------------------ MODULE BssCache ------------------------------
(***************************************************************************)
(* src/bss_cache.c and src/ap.c: the access points a device has heard of,  *)
(* in a tree ordered by their addresses, and their reference counts.       *)
(*                                                                         *)
(* The tree is only looked at under the read/write lock, so what holds it  *)
(* for one call is one action; the two sweeps, which decide entry by entry *)
(* while users go on to take and return references without the lock, are   *)
(* taken turn by turn.                                                     *)
(*                                                                         *)
(* A definition named X_Y, with a capital Y, is X with a defect; no action *)
(* uses it.                                                                *)
(***************************************************************************)
EXTENDS RbTree

CONSTANT MaxHeld   \* references of users to one access point: a bound

ASSUME BssCacheAssumption == MaxHeld \in Nat \ {0}

VARIABLES
  tree, entry_count,
  refcount,   \* of each access point; 0 when it is not allocated
  held,       \* how many of these are users' own
  sweep       \* the call that holds the lock exclusively for many turns

cacheVars == <<tree, entry_count, refcount, held, sweep>>

\* An access point is where its node is in memory, and has its address for life.
APs == Nodes
Addresses == {Key[ap] : ap \in APs}

\* Of a sweep: the iterator, whether it was found unused, and, for the
\* properties, the entries that have not been decided on.
Sweeps == [by : {"nobody", "purge", "deinit"}, iterator : Pointers, unused : BOOLEAN,
           left : SUBSET APs]
NoSweep == [by |-> "nobody", iterator |-> None, unused |-> FALSE, left |-> {}]

CacheTypeOK ==
  /\ tree \in Trees
  /\ entry_count \in 0 .. Cardinality(APs)
  /\ refcount \in [APs -> Nat]
  /\ held \in [APs -> 0 .. MaxHeld]
  /\ sweep \in Sweeps

\* u80211_bss_cache_init, with nothing allocated.
CacheInit ==
  /\ tree = EmptyTree /\ entry_count = 0
  /\ refcount = [ap \in APs |-> 0]
  /\ held = [ap \in APs |-> 0]
  /\ sweep = NoSweep

-----------------------------------------------------------------------------
(***************************************************************************)
(* References.  The last release frees, which is to be 0.                  *)
(***************************************************************************)

Held(ap) == refcount' = [refcount EXCEPT ![ap] = @ + 1]
Released(ap) == refcount' = [refcount EXCEPT ![ap] = @ - 1]

\* A user allocates an access point, and holds it ...
u80211_ap_allocate(ap) ==
  /\ refcount[ap] = 0
  /\ refcount' = [refcount EXCEPT ![ap] = 1]
  /\ held' = [held EXCEPT ![ap] = 1]
  /\ UNCHANGED <<tree, entry_count, sweep>>

\* ... and who holds it may hold it again, and let go.
u80211_ap_hold(ap) ==
  /\ held[ap] \in 1 .. MaxHeld - 1
  /\ Held(ap)
  /\ held' = [held EXCEPT ![ap] = @ + 1]
  /\ UNCHANGED <<tree, entry_count, sweep>>

u80211_ap_release(ap) ==
  /\ held[ap] > 0
  /\ Released(ap)
  /\ held' = [held EXCEPT ![ap] = @ - 1]
  /\ UNCHANGED <<tree, entry_count, sweep>>

-----------------------------------------------------------------------------
(***************************************************************************)
(* Calls that take the lock once.                                          *)
(***************************************************************************)

Unlocked == sweep.by = "nobody"

u80211_bss_cache_insert_NotCounted(ap) ==
  /\ Unlocked
  /\ held[ap] > 0 /\ u80211_rbtree_lookup(tree, Key[ap]) = None
  /\ tree' = u80211_rbtree_insert(tree, ap)
  /\ Held(ap)
  /\ UNCHANGED <<held, sweep, entry_count>>
\* Of an access point the caller holds, unless there is one of its address.
u80211_bss_cache_insert(ap) ==
  /\ Unlocked
  /\ held[ap] > 0 /\ u80211_rbtree_lookup(tree, Key[ap]) = None
  /\ tree' = u80211_rbtree_insert(tree, ap)
  /\ Held(ap)
  /\ entry_count' = entry_count + 1
  /\ UNCHANGED <<held, sweep>>

\* An entry leaves the tree, and the cache's reference goes.
Dropped(node) ==
  /\ tree' = u80211_rbtree_remove(tree, node)
  /\ entry_count' = entry_count - 1
  /\ Released(node)

u80211_bss_cache_remove(address) ==
  LET node == u80211_rbtree_lookup(tree, address)
  IN  Unlocked /\ node # None /\ Dropped(node) /\ UNCHANGED <<held, sweep>>

\* The caller is given references to some entries.
GivenOut(set) ==
  /\ \A ap \in set : held[ap] < MaxHeld
  /\ refcount' = [ap \in APs |-> IF ap \in set THEN refcount[ap] + 1 ELSE refcount[ap]]
  /\ held' = [ap \in APs |-> IF ap \in set THEN held[ap] + 1 ELSE held[ap]]
  /\ UNCHANGED <<tree, entry_count, sweep>>

u80211_bss_cache_find_Unlocked(address) ==
  LET node == u80211_rbtree_lookup(tree, address)
  IN  node # None /\ GivenOut({node})
u80211_bss_cache_find(address) ==
  LET node == u80211_rbtree_lookup(tree, address)
  IN  Unlocked /\ node # None /\ GivenOut({node})

First == IF tree.root = None THEN None ELSE u80211_rbtree_first(tree)

\* The buffer of the caller is filled from the first entry on.
u80211_bss_cache_get_aps(capacity) ==
  /\ Unlocked
  /\ LET buffer[i \in 0 .. capacity] ==   \* its first i pointers, then what comes next
           IF i = 0 THEN [filled |-> {}, iterator |-> First]
           ELSE LET so_far == buffer[i - 1]
                IN  IF so_far.iterator = None THEN so_far
                    ELSE [filled |-> so_far.filled \cup {so_far.iterator},
                          iterator |-> u80211_rbtree_successor(tree, so_far.iterator)]
     IN  GivenOut(buffer[capacity].filled)

u80211_bss_cache_get_count == entry_count

-----------------------------------------------------------------------------
(***************************************************************************)
(* The sweeps.  The next entry is looked up before the iterator leaves.    *)
(***************************************************************************)

SweepBegins(by) ==
  /\ Unlocked
  /\ sweep' = [by |-> by, iterator |-> First, unused |-> FALSE, left |-> Members(tree)]
  /\ UNCHANGED <<tree, entry_count, refcount, held>>

u80211_bss_cache_purge == SweepBegins("purge")
u80211_bss_cache_deinit == SweepBegins("deinit")

GoesOn(next) ==
  sweep' = [sweep EXCEPT !.iterator = next, !.unused = FALSE, !.left = @ \ {sweep.iterator}]

\* The count is read: an entry that somebody holds besides the cache is spared.
PurgeLooks ==
  /\ sweep.by = "purge" /\ sweep.iterator # None /\ ~sweep.unused
  /\ IF refcount[sweep.iterator] = 1 THEN sweep' = [sweep EXCEPT !.unused = TRUE]
     ELSE GoesOn(u80211_rbtree_successor(tree, sweep.iterator))
  /\ UNCHANGED <<tree, entry_count, refcount, held>>

SweepDrops ==
  /\ sweep.by # "nobody" /\ sweep.iterator # None /\ (sweep.by = "deinit" \/ sweep.unused)
  /\ Dropped(sweep.iterator)
  /\ GoesOn(u80211_rbtree_successor(tree, sweep.iterator))
  /\ UNCHANGED held

SweepEnds ==
  /\ sweep.by # "nobody" /\ sweep.iterator = None
  /\ sweep' = NoSweep
  /\ UNCHANGED <<tree, entry_count, refcount, held>>

=============================================================================
