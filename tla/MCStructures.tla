---------------------------- MODULE MCStructures ----------------------------
(***************************************************************************)
(* An instance of the data structures for TLC: the ring buffer under any   *)
(* calls, the ring buffer with the records of scans, and the red-black tree*)
(* under any calls.  They share nothing, and a behaviour exercises one.    *)
(***************************************************************************)
EXTENDS ScanRecords, RbTree

VARIABLES
  exercised,
  tree,
  inserted   \* the nodes that were inserted and not removed since

treeVars == <<tree, inserted>>

MCInit ==
  /\ exercised \in {"buffer", "records", "tree"}
  /\ RecordsInit
  /\ exercised = "tree" => \A offset \in Offsets : data[offset] = data[0]
  /\ tree = EmptyTree /\ inserted = {}

\* Callers insert no node whose key is in the tree, and remove only nodes that are.
InsertNode(node) ==
  /\ \A n \in inserted : Key[n] # Key[node]
  /\ tree' = u80211_rbtree_insert(tree, node) /\ inserted' = inserted \cup {node}

RemoveNode(node) ==
  /\ node \in inserted
  /\ tree' = u80211_rbtree_remove(tree, node) /\ inserted' = inserted \ {node}

BufferCall == exercised = "buffer" /\ Next /\ UNCHANGED <<exercised, recordVars, treeVars>>

RecordCall == exercised = "records" /\ RecordsNext /\ UNCHANGED <<exercised, treeVars>>

TreeCall ==
  /\ exercised = "tree"
  /\ \E node \in Nodes : InsertNode(node) \/ RemoveNode(node)
  /\ UNCHANGED <<exercised, vars, recordVars>>

MCSpec == MCInit /\ [][BufferCall \/ RecordCall \/ TreeCall]_<<exercised, vars, recordVars, treeVars>>

\* Under the calls of a scan the buffer has whole records, one after the other,
\* whatever came while it was full.
RecordsAreWhole == exercised = "records" => RecordsWhole

\* After any sequence of insertions and removals the tree has just the nodes it
\* should have, is a search tree that is linked both ways, keeps the rules of the
\* colours, and is walked in order from either end; lookups find what they should.
TreeIsSound ==
  Members(tree) = inserted /\ IsSearchTree(tree) /\ IsBalanced(tree) /\ WalksInOrder(tree)

MCKey == [n \in Nodes |-> n]

=============================================================================
