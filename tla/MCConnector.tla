---------------------------- MODULE MCConnector ----------------------------
(***************************************************************************)
(* Constants of Connector for model checking: two branches from the first  *)
(* block.  In the larger tree the first branch is longer, and a node on    *)
(* the other can be two blocks from the fork.                              *)
(***************************************************************************)
EXTENDS Connector

MCGenesis == <<3, 3>>
a2 == <<1, 2>>
a3 == <<2, 2>>
a4 == <<1, 1>>
b2 == <<2, 1>>
b3 == <<1, 3>>

LargeTree == {a2, a3, a4, b2, b3}
SmallTree == {a2, a3, b2}

\* The tips of peers: a block on the shorter branch, and the end of the longer.
LargeTips == {b2, a4}
SmallTips == SmallTree \cup {MCGenesis}

\* The blocks that are broadcast: one on each branch.
BothBranches == {a3, b3}

MCParent == [b \in Block |-> CASE b \in {a2, b2} -> MCGenesis
                               [] b = a3 -> a2
                               [] b = a4 -> a3
                               [] b = b3 -> b2]

MCNumber == [b \in AnyBlock |-> CASE b = MCGenesis -> 1
                                  [] b \in {a2, b2} -> 2
                                  [] b \in {a3, b3} -> 3
                                  [] b = a4 -> 4]

MCNone == <<>>
=============================================================================
