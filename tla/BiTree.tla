-------------------------------- MODULE BiTree --------------------------------
(***************************************************************************)
(* bitree.c as test_bitree.c uses it: a binary search tree whose nodes     *)
(* keep their height.  A node is the path of turns that leads to it.       *)
(***************************************************************************)
EXTENDS Integers, Sequences, FiniteSets, SequencesExt

CONSTANTS Elems     \* the integers that are inserted

ASSUME TreeAssumption == Elems \subseteq Int /\ IsFiniteSet(Elems)

VARIABLES
    tree,           \* from paths to [elem, height]
    inserted        \* history: the elements of bitree_create and _insert

trvars == <<tree, inserted>>

Turns == {"left", "right"}
Paths == UNION {[1 .. n -> Turns] : n \in 0 .. Cardinality(Elems)}
Flip(turn) == IF turn = "left" THEN "right" ELSE "left"

bitree_create(elem) == [p \in {<<>>} |-> [elem |-> elem, height |-> 0]]

\* Where bitree_insert goes from node q.
Turn(q, elem) == IF elem < tree[q].elem THEN "left" ELSE "right"

\* The free place to which the turns lead.
Place(elem) ==
    CHOOSE p \in Paths \ DOMAIN tree :
        \A n \in 1 .. Len(p) : LET q == SubSeq(p, 1, n - 1)
                               IN  q \in DOMAIN tree /\ p[n] = Turn(q, elem)

\* Mutant: it grows only next to a sibling.
AddedNextToSibling(p) ==
    IF Append(Front(p), Flip(Last(p))) \in DOMAIN tree THEN 1 ELSE 0

\* A new node adds to the height only if it has no sibling; every node above
\* takes that over, also where its other side is higher.
height_added(p) ==
    IF Append(Front(p), Flip(Last(p))) \in DOMAIN tree THEN 0 ELSE 1

bitree_insert(elem) ==
    /\ inserted' = inserted \cup {elem}
    /\ IF \E q \in DOMAIN tree : tree[q].elem = elem THEN UNCHANGED tree
       ELSE LET p == Place(elem)
                Above(q) == IsStrictPrefix(q, p)
            IN  tree' = [q \in DOMAIN tree \cup {p} |->
                    IF q = p THEN [elem |-> elem, height |-> 0]
                    ELSE IF Above(q)
                    THEN [tree[q] EXCEPT !.height = @ + height_added(p)]
                    ELSE tree[q]]

TreeIdle == tree = bitree_create(0) /\ inserted = {0}
TreeInit == \E elem \in Elems : tree = bitree_create(elem) /\ inserted = {elem}
TreeNext == \E elem \in Elems : bitree_insert(elem)
TreeSpec == TreeInit /\ [][TreeNext]_trvars

\* Every element inserted is in the tree once, and every node has smaller
\* elements to its left and larger ones to its right, so that
\* bitree_mid_show prints them sorted.  The turns below a node are at most
\* its height, which is their number exactly while it has a single branch
\* (bitree_insert; with two branches the height may be too large).
SearchTree ==
    /\ {tree[q].elem : q \in DOMAIN tree} = inserted
    /\ Cardinality(DOMAIN tree) = Cardinality(inserted)
    /\ \A q, r \in DOMAIN tree : IsStrictPrefix(q, r) =>
            IF r[Len(q) + 1] = "left" THEN tree[r].elem < tree[q].elem
                                      ELSE tree[r].elem > tree[q].elem
    /\ \A q \in DOMAIN tree :
        LET below == {r \in DOMAIN tree : IsPrefix(q, r)}
            depths == {Len(r) - Len(q) : r \in below}
        IN  /\ \A d \in depths : d <= tree[q].height
            /\ Cardinality(below) = Cardinality(depths)
                    => tree[q].height = Cardinality(depths) - 1
=============================================================================
