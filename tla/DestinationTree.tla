---------------------------- MODULE DestinationTree ----------------------------
(***************************************************************************)
(* What somebody who watches the destination of an extraction may see,     *)
(* whoever extracts into it and however the extraction ends: directories   *)
(* appear, files appear whole, what is in the way of a file disappears     *)
(* unless it is a directory that is in use.  The temporary files of the    *)
(* extractors are beside the point and not part of the tree.               *)
(***************************************************************************)
CONSTANTS
    Paths,          \* names below the destination, prefix-closed
    Parent(_),      \* Parent(p) = Root for a name directly in the destination
    Root,
    Whole           \* the files an extraction may publish

VARIABLE
    tree            \* [Paths -> nodes], a node is a record with a "kind"

Absent == [kind |-> "absent"]
Directory == [kind |-> "directory"]

Children(p) == {q \in Paths : Parent(q) = p}
InDirectory(p) == Parent(p) # Root => tree[Parent(p)] = Directory

MakeDirectory(p) ==
    /\ tree[p] = Absent
    /\ InDirectory(p)
    /\ tree' = [tree EXCEPT ![p] = Directory]

Discard(p) ==
    /\ tree[p] # Absent
    /\ \A q \in Children(p) : tree[q] = Absent
    /\ tree' = [tree EXCEPT ![p] = Absent]

Publish(p, file) ==
    /\ tree[p] # Directory
    /\ InDirectory(p)
    /\ tree' = [tree EXCEPT ![p] = file]

Init == \A p \in Paths : tree[p] # Absent => InDirectory(p)

Next ==
    \E p \in Paths :
       \/ MakeDirectory(p)
       \/ Discard(p)
       \/ \E file \in Whole : Publish(p, file)

Spec == Init /\ [][Next]_tree
===============================================================================
