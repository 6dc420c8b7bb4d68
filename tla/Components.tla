----------------------------- MODULE Components ------------------------------
(***************************************************************************)
(* Tarjan's algorithm as _scc.py runs it: over a stack of its own, so that *)
(* a deep graph reaches no recursion limit.  A frame is a node and how far *)
(* its neighbors were looked at; one step takes the frame on top, looks on *)
(* until a neighbor that was not visited yet, and goes down to it, or ends *)
(* the node.                                                               *)
(***************************************************************************)
EXTENDS Integers, FiniteSets, SequencesExt

CONSTANT Sorted   \* the nodes, in the order they sort

Nodes == ToSet(Sorted)
None  == -1

ASSUME ComponentsAssumption ==
  Sorted \in Seq(Nodes) /\ IsInjective(Sorted) /\ None \notin Nodes

VARIABLES
  graph,     \* the nodes each node has an edge to
  index,     \* when each node was visited, counted from 0
  lowlinks,
  stack,     \* the nodes visited that are in no component yet: stack, and on_stack
  frames,    \* call_stack
  result     \* the components found, in the order they were

tarjan == <<index, lowlinks, stack, frames, result>>

\* at is the place, in the order, of the neighbor to look at next, or, below another frame, of the
\* one gone down to (POSTVISIT).
Frames == [node: Nodes, at: Nat, back: BOOLEAN]

Visited == {n \in Nodes : index[n] # None}

(* initialize_node, and a frame for it on top of others *)
Visit(node, below) ==
  /\ index' = [index EXCEPT ![node] = Cardinality(Visited)]
  /\ stack' = Append(stack, node)
  /\ frames' = Append(below, [node |-> node, at |-> 1, back |-> FALSE])

(* A node that no walk came to starts one. *)
Start ==
  /\ frames = <<>>
  /\ \E n \in DOMAIN Sorted :
       /\ Sorted[n] \notin Visited /\ \A m \in 1..(n - 1) : Sorted[m] \in Visited
       /\ Visit(Sorted[n], <<>>)
       /\ lowlinks' = [lowlinks EXCEPT ![Sorted[n]] = Cardinality(Visited)]
  /\ UNCHANGED <<graph, result>>

(* The neighbors of a node from one place of the order on, up to another *)
Neighbors(node, from, to) == {Sorted[n] : n \in {k \in from..(to - 1) : Sorted[k] \in graph[node]}}

From(frame) == IF frame.back THEN frame.at + 1 ELSE frame.at

Least(numbers) == {low \in numbers : \A other \in numbers : low <= other}

(* Mutant: a neighbor in a component already found counts as one in this. *)
LowestAny(frame, to) ==
  Least({lowlinks[frame.node]}
        \cup {lowlinks[Sorted[n]] : n \in IF frame.back THEN {frame.at} ELSE {}}
        \cup {index[w] : w \in Neighbors(frame.node, From(frame), to)})

(* lowlinks of the frame's node once the neighbors up to a place were looked at: lowered to that *)
(* of the node it comes back from, and to the index of each neighbor on the stack.               *)
Lowest(frame, to) ==
  Least({lowlinks[frame.node]}
        \cup {lowlinks[Sorted[n]] : n \in IF frame.back THEN {frame.at} ELSE {}}
        \cup {index[w] : w \in Neighbors(frame.node, From(frame), to) \cap ToSet(stack)})

(* extract_scc: the stack down to the node is a component. *)
Extract(node) ==
  \E n \in DOMAIN stack :
    /\ stack[n] = node
    /\ stack' = SubSeq(stack, 1, n - 1)
    /\ result' = Append(result, {stack[k] : k \in n..Len(stack)})

\* The frame on top has looked at its neighbors up to a place: all were visited.
Looks(to) == Neighbors(Last(frames).node, From(Last(frames)), to) \subseteq Visited

(* A turn of the loop of _strongconnect that goes down to the first neighbor not visited *)
Down ==
  /\ frames # <<>>
  /\ \E to \in From(Last(frames))..Len(Sorted) :
       LET node == Last(frames).node IN
       /\ Looks(to) /\ Sorted[to] \in graph[node] \ Visited
       /\ Visit(Sorted[to], Append(Front(frames), [node |-> node, at |-> to, back |-> TRUE]))
       /\ \E low \in Lowest(Last(frames), to) :
            lowlinks' = [lowlinks EXCEPT ![node] = low, ![Sorted[to]] = Cardinality(Visited)]
  /\ UNCHANGED <<graph, result>>

(* A turn that ends a node, and its component if its low link is its index *)
Ends ==
  /\ frames # <<>>
  /\ Looks(Len(Sorted) + 1)
  /\ LET node == Last(frames).node IN
     \E low \in Lowest(Last(frames), Len(Sorted) + 1) :
       /\ lowlinks' = [lowlinks EXCEPT ![node] = low]
       /\ IF low = index[node] THEN Extract(node) ELSE UNCHANGED <<stack, result>>
  /\ frames' = Front(frames)
  /\ UNCHANGED <<graph, index>>

Found == frames = <<>> /\ Visited = Nodes

(* The walk of a graph before its first step *)
Begun ==
  /\ index = [n \in Nodes |-> None] /\ lowlinks = index
  /\ stack = <<>> /\ frames = <<>> /\ result = <<>>

FindNext == Start \/ Down \/ Ends

-----------------------------------------------------------------------------
(* find_circular_sccs: a component of more nodes than one, or of one with an edge to itself *)
Circular(component) ==
  Cardinality(component) > 1 \/ \E n \in component : n \in graph[n]

(* The nodes that edges lead to from a node, itself among them: those of every set that has it *)
(* and every edge of its members                                                               *)
Reachable(node) ==
  {m \in Nodes : \A set \in SUBSET Nodes :
     (node \in set /\ \A n \in set : graph[n] \subseteq set) => m \in set}

(* Each component found is all the nodes that lead to one another, whenever it is found,  *)
(* and its edges lead to those found before it, or into it: at the end all nodes are in   *)
(* one, leaves first.  A node's low link is lowered by nodes of the stack alone, and by   *)
(* the index, for a neighbor, and by the low link, for a node it comes back from; an      *)
(* edge to a component already found must join nothing (strongly_connected_components).   *)
ComponentsFound ==
  /\ \A n \in DOMAIN result :
       /\ \A x \in result[n] : result[n] = {y \in Reachable(x) : x \in Reachable(y)}
       /\ \A x \in result[n] : graph[x] \subseteq UNION {result[m] : m \in 1..n}
  /\ Found => UNION ToSet(result) = Nodes
=============================================================================
