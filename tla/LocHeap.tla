------------------------------- MODULE LocHeap -------------------------------
(***************************************************************************)
(* utils/LocHeap.cpp: the binary tree of LocRankables that holds the       *)
(* timers.  A node is a record; the internal links never change but where  *)
(* a leaf is added or taken, so a tree is the value of its root.           *)
(***************************************************************************)
EXTENDS Integers

CONSTANTS
    Data,       \* the LocRankable objects
    Rank,       \* their ranks, those of a smaller number ranking higher
    None        \* NULL

ASSUME RankAssumption == Rank \in [Data -> Int] /\ None \notin Data

VARIABLES
    mTree,      \* LocHeap::mTree
    got         \* what the last pop() or remove() returned

vars == <<mTree, got>>

Nil == [mSize |-> 0]
Leaf(d) == [mSize |-> 1, mData |-> d, mLeft |-> Nil, mRight |-> Nil]

OutRanks(d, e) == Rank[e] - Rank[d] > 0

-----------------------------------------------------------------------------
(* LocHeapNode                                                             *)

Settle(t, d) ==             \* the data t keeps and the one that goes down
    IF OutRanks(d, t.mData) THEN <<d, t.mData>> ELSE <<t.mData, d>>

With(t, data, by, side, child) ==
    [t EXCEPT !.mData = data, !.mSize = @ + by, ![side] = child]

RECURSIVE NodePush(_, _)
NodePush(t, d) ==
    LET s == Settle(t, d)
        side == IF t.mLeft = Nil THEN "mLeft" ELSE IF t.mRight = Nil THEN "mRight"
                ELSE IF t.mLeft.mSize <= t.mRight.mSize THEN "mLeft" ELSE "mRight"
    IN With(t, s[1], 1, side, IF t[side] = Nil THEN Leaf(s[2]) ELSE NodePush(t[side], s[2]))

\* A mistake: the left child moves up whenever there is one.
RECURSIVE PopLeftFirst(_)
PopLeftFirst(t) ==
    LET side == IF t.mLeft # Nil THEN "mLeft" ELSE "mRight"
    IN IF t.mLeft = Nil /\ t.mRight = Nil THEN Nil
       ELSE With(t, t[side].mData, -1, side, PopLeftFirst(t[side]))

(* The data of the popped node is swapped down to a leaf, the children     *)
(* that rank higher moving up.                                             *)
RECURSIVE NodePop(_)
NodePop(t) ==
    LET side == IF t.mLeft = Nil THEN "mRight" ELSE IF t.mRight = Nil THEN "mLeft"
                ELSE IF OutRanks(t.mLeft.mData, t.mRight.mData) THEN "mLeft" ELSE "mRight"
    IN IF t.mLeft = Nil /\ t.mRight = Nil THEN Nil
       ELSE With(t, t[side].mData, -1, side, NodePop(t[side]))

\* A mistake: data of the rank of a node is not looked for below it.
RECURSIVE RemoveStrictly(_, _)
RemoveStrictly(t, d) ==
    LET below(side) == IF t[side] = Nil THEN Nil ELSE RemoveStrictly(t[side], d)
    IN CASE t.mData = d -> NodePop(t)
         [] t.mData # d /\ ~ OutRanks(t.mData, d) -> t
         [] t.mData # d /\ OutRanks(t.mData, d) ->
              IF below("mLeft") # t.mLeft
              THEN With(t, t.mData, -1, "mLeft", below("mLeft"))
              ELSE IF below("mRight") # t.mRight
                   THEN With(t, t.mData, -1, "mRight", below("mRight")) ELSE t

(* A tree without d, the same tree when d is not found in it.              *)
RECURSIVE NodeRemove(_, _)
NodeRemove(t, d) ==
    LET below(side) == IF t[side] = Nil THEN Nil ELSE NodeRemove(t[side], d)
    IN CASE t.mData = d -> NodePop(t)
         [] t.mData # d /\ OutRanks(d, t.mData) -> t
         [] t.mData # d /\ ~ OutRanks(d, t.mData) ->
              IF below("mLeft") # t.mLeft
              THEN With(t, t.mData, -1, "mLeft", below("mLeft"))
              ELSE IF below("mRight") # t.mRight
                   THEN With(t, t.mData, -1, "mRight", below("mRight")) ELSE t

RECURSIVE Subtrees(_)
Subtrees(t) ==
    IF t = Nil THEN {} ELSE {t} \cup Subtrees(t.mLeft) \cup Subtrees(t.mRight)

Contents(t) == {n.mData : n \in Subtrees(t)}

-----------------------------------------------------------------------------
(* LocHeap                                                                 *)

Init == mTree = Nil /\ got = None

(* A timer is pushed once.                                                 *)
Push(d) ==
    /\ d \notin Contents(mTree)
    /\ mTree' = IF mTree = Nil THEN Leaf(d) ELSE NodePush(mTree, d)
    /\ UNCHANGED got

Peek == IF mTree = Nil THEN None ELSE mTree.mData

Pop ==
    /\ got' = Peek
    /\ mTree' = IF mTree = Nil THEN Nil ELSE NodePop(mTree)

Remove(d) ==
    /\ mTree' = IF mTree = Nil THEN Nil ELSE NodeRemove(mTree, d)
    /\ got' = IF mTree' # mTree THEN d ELSE None

Next == Pop \/ \E d \in Data : Push(d) \/ Remove(d)

Spec == Init /\ [][Next]_vars

-----------------------------------------------------------------------------
(* Properties                                                              *)

\* LocHeapNode::checkNodes: every node counts the nodes of its tree, and no
\* node outranks its parent.
CheckTree ==
    \A t \in Subtrees(mTree) :
        /\ t.mSize = 1 + t.mLeft.mSize + t.mRight.mSize
        /\ \A side \in {"mLeft", "mRight"} :
             t[side] # Nil => ~ OutRanks(t[side].mData, t.mData)

\* "it is guaranteed that the subtree that is smaller gets to have the new
\* node", however unbalanced pops and removals have left the tree.
PushedToSmaller ==
    [][\A side, other \in {"mLeft", "mRight"} :
         mTree # Nil /\ mTree'.mSize > mTree.mSize /\ side # other
           /\ mTree'[side].mSize > mTree[side].mSize
           => mTree[side].mSize <= mTree[other].mSize]_vars

\* The tree is the set with a head that LocTimer works with.
Promise == INSTANCE HeapPromise WITH heap <- Contents(mTree), top <- Peek
KeepsPromise == Promise!Spec
=============================================================================
