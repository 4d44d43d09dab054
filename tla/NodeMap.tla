------------------------------ MODULE NodeMap ------------------------------
(***************************************************************************)
(* The node map of misc/nodemap.c: two trees over the same items, one      *)
(* ordered by id and one by hx_node_cmp, and the next id.                  *)
(*                                                                         *)
(* An operator with an underscore in its name is a mutated form of the one *)
(* that follows it, and is used by no specification.                       *)
(***************************************************************************)
EXTENDS Nodes

\* hx_new_nodemap; an item is a pair of an id and a node.
NewMap == [id2node |-> {}, node2id |-> {}, next_id |-> 1]

\* avl_find and avl_delete in the tree of nodes: items that compare equal.
WithNode(M, n) == {e \in M.node2id : NodeCmp(e[2], n) = 0}
WithId(M, id)  == {e \in M.id2node : e[1] = id}

\* hx_nodemap_get_node_id
GetNodeId(M, n) ==
  IF NodeIsVariable(n) THEN n.value
  ELSE IF WithNode(M, n) = {} THEN 0 ELSE (CHOOSE e \in WithNode(M, n) : TRUE)[1]

\* hx_nodemap_get_node: NULL is the empty sequence.
GetNode(M, id) ==
  IF id = 0 \/ WithId(M, id) = {} THEN <<>> ELSE << (CHOOSE e \in WithId(M, id) : TRUE)[2] >>

\* hx_nodemap_add_node; a variable is not treated apart here.
MapNode(M, n) ==
  IF WithNode(M, n) # {} THEN M
  ELSE [id2node |-> M.id2node \cup {<<M.next_id, n>>},
        node2id |-> M.node2id \cup {<<M.next_id, n>>}, next_id |-> M.next_id + 1]

\* hx_nodemap_remove_node_id
UnmapId(M, id) ==
  LET gone == WithId(M, id)
  IN  [M EXCEPT !.id2node = @ \ gone,
                !.node2id = {e \in @ : \A g \in gone : NodeCmp(e[2], g[2]) # 0}]

\* hx_nodemap_remove_node
UnmapNode(M, n) ==
  LET gone == WithNode(M, n)
  IN  [M EXCEPT !.node2id = @ \ gone, !.id2node = {e \in @ : \A g \in gone : e[1] # g[1]}]

\* hx_nodemap_write and hx_nodemap_read.  A node that compares equal to one that
\* was read before would not get into the tree.
Stored(M) == {<<e[1], NodeRead(NodeWrite(e[2]))>> : e \in M.id2node}

ReadBack_Counted(M) ==
  [id2node |-> Stored(M), node2id |-> Stored(M), next_id |-> Cardinality(M.id2node) + 1]

ReadBack(M) == [id2node |-> Stored(M), node2id |-> Stored(M), next_id |-> M.next_id]

\* hx_nodemap_sparql_order_nodes: the nodes in order, numbered from 1.
OrderNodes(M) ==
  LET nodes == {e[2] : e \in M.id2node}
      items == {<<Cardinality({m \in nodes : NodeCmp(m, n) <= 0}), n>> : n \in nodes}
  IN  [id2node |-> items, node2id |-> items, next_id |-> Cardinality(nodes) + 1]
=============================================================================
