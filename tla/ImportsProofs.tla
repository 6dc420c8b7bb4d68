---------------------------- MODULE ImportsProofs ----------------------------
(***************************************************************************)
(* Proofs about Imports and Components, for every package, plan and entry. *)
(* Tarjan's algorithm finds the components of its graph (TInv).  And every *)
(* read that fails in the walk of Python's import is in one of them on a   *)
(* cycle, and is looked for (IInv): the modules that run, from the bottom  *)
(* of the walk up, are a path of the graph (Led), which leaves out the     *)
(* packages above an importer because they have begun to run before it     *)
(* (Started).                                                              *)
(***************************************************************************)
EXTENDS Imports, FiniteSetTheorems, SequenceTheorems, TLAPS

\* What edges lead to, as a function of the node.
Reach == [m \in Nodes |-> Reachable(m)]

-----------------------------------------------------------------------------
(* The components. *)

Node(i)  == frames[i].node
Child(i) == Sorted[frames[i].at]
OnStack  == ToSet(stack)
InResult == UNION ToSet(result)

TarjanTyped ==
  /\ graph \in [Nodes -> SUBSET Nodes]
  /\ index \in [Nodes -> Nat \cup {None}] /\ lowlinks \in [Nodes -> Nat \cup {None}]
  /\ stack \in Seq(Nodes) /\ frames \in Seq(Frames) /\ result \in Seq(SUBSET Nodes)
  /\ \A x \in Visited : index[x] < Cardinality(Visited)

\* The nodes visited are on the stack, in the order they were, or in one component.
Stacked ==
  /\ \A i, j \in DOMAIN stack : i < j => index[stack[i]] < index[stack[j]]
  /\ Visited = OnStack \cup InResult /\ OnStack \cap InResult = {}

\* The frames are a path down the graph, of nodes on the stack.
Framed ==
  /\ \A i \in DOMAIN frames :
       /\ Node(i) \in OnStack /\ frames[i].at \in 1..(Len(Sorted) + 1)
       /\ frames[i].back =>
            /\ frames[i].at <= Len(Sorted) /\ Child(i) \in graph[Node(i)] \cap Visited
            /\ index[Node(i)] < index[Child(i)]
            /\ Child(i) \notin OnStack => index[Node(i)] < lowlinks[Child(i)]
       /\ i < Len(frames) => frames[i].back /\ Child(i) = Node(i + 1)
  /\ \A i, j \in DOMAIN frames : i < j => index[Node(i)] < index[Node(j)]

\* Node u of the stack is in the part of it that starts at frame i.
InPart(i, u) ==
  index[Node(i)] <= index[u] /\ (i < Len(frames) => index[u] < index[Node(i + 1)])

\* A frame's node leads to what is above it on the stack, and what is in its part to it.
Joined ==
  \A u \in OnStack :
    /\ \A i \in DOMAIN frames : index[Node(i)] <= index[u] => u \in Reach[Node(i)]
    /\ \E i \in DOMAIN frames : InPart(i, u) /\ Node(i) \in Reach[u]

\* What was looked at was visited: all neighbors of a node that ended, and those before where a
\* frame is.
LookedAt ==
  /\ \A x \in Visited : (\A i \in DOMAIN frames : x # Node(i)) => graph[x] \subseteq Visited
  /\ \A i \in DOMAIN frames : Neighbors(Node(i), 1, From(frames[i])) \subseteq Visited

\* Frame i knows of this index: its low link, or that of the node it comes back from, is as low.
Known(i, number) ==
  \/ lowlinks[Node(i)] <= number
  \/ frames[i].back /\ lowlinks[Child(i)] <= number

\* A low link is the index of a node of the stack that is led to; and none that an edge from the
\* frame's part leads to is lower than the frame knows.
Low ==
  /\ \A x \in OnStack :
       /\ lowlinks[x] <= index[x]
       /\ \E w \in OnStack : index[w] = lowlinks[x] /\ w \in Reach[x]
  /\ \A i \in DOMAIN frames :
       /\ \A u \in OnStack : InPart(i, u) /\ u # Node(i) =>
            \A w \in graph[u] \cap OnStack : Known(i, index[w])
       /\ \A w \in Neighbors(Node(i), 1, frames[i].at) \cap OnStack : Known(i, index[w])

\* Each component is all that leads to one another, and no edge leaves those found up to it.
Separate ==
  \A n \in DOMAIN result :
    /\ \A x \in result[n] : result[n] = {y \in Reachable(x) : x \in Reachable(y)}
    /\ \A x \in result[n] : graph[x] \subseteq UNION {result[m] : m \in 1..n}

TInv == TarjanTyped /\ Stacked /\ Framed /\ Joined /\ LookedAt /\ Low /\ Separate
-----------------------------------------------------------------------------
(* The nodes. *)

LEMMA NodesFinite == IsFiniteSet(Nodes)
<1>1. Sorted \in [1..Len(Sorted) -> Nodes] /\ Len(Sorted) \in Nat
  BY ComponentsAssumption
<1>2. Sorted \in Surjection(1..Len(Sorted), Nodes)
  BY <1>1 DEF Surjection, Nodes, ToSet
<1> QED BY <1>1, <1>2, FS_Interval, FS_Surjection

LEMMA Places ==
  /\ Len(Sorted) \in Nat /\ \A n \in 1..Len(Sorted) : Sorted[n] \in Nodes
  /\ \A x \in Nodes : \E n \in 1..Len(Sorted) : Sorted[n] = x
BY ComponentsAssumption DEF Nodes, ToSet

LEMMA Counted == IsFiniteSet(Visited) /\ Cardinality(Visited) \in Nat /\ Visited \subseteq Nodes
BY NodesFinite, FS_Subset, FS_CardinalityType DEF Visited

LEMMA ReachSelf == ASSUME NEW m \in Nodes PROVE m \in Reach[m]
BY DEF Reach, Reachable

LEMMA ReachEdge ==
  ASSUME NEW m \in Nodes, NEW n \in Nodes, n \in Reach[m], NEW o \in Nodes, o \in graph[n]
  PROVE  o \in Reach[m]
BY DEF Reach, Reachable

LEMMA ReachOn ==
  ASSUME NEW m \in Nodes, NEW n \in Nodes, n \in Reach[m], NEW o \in Reach[n]
  PROVE  o \in Reach[m]
BY DEF Reach, Reachable

\* A set that no edge leaves has all that its nodes lead to.
LEMMA ReachClosed ==
  ASSUME NEW set \in SUBSET Nodes, \A x \in set : graph[x] \subseteq set, NEW m \in set
  PROVE  Reach[m] \subseteq set
BY DEF Reach, Reachable

LEMMA SameReach == ASSUME UNCHANGED graph PROVE Reach' = Reach
BY DEF Reach, Reachable

\* The frames and the stack have nodes that were visited, with an index each.
LEMMA TInvFacts ==
  ASSUME TInv
  PROVE  /\ Visited \subseteq Nodes /\ OnStack \subseteq Visited
         /\ \A x \in Visited : index[x] \in Nat /\ index[x] < Cardinality(Visited)
         /\ \A x \in OnStack : lowlinks[x] \in Nat
         /\ Len(frames) \in Nat /\ DOMAIN frames = 1..Len(frames)
         /\ \A i \in 1..Len(frames) :
              Node(i) \in OnStack /\ frames[i].at \in Nat \ {0} /\ frames[i].back \in BOOLEAN
         /\ \A x \in Nodes : graph[x] \subseteq Nodes
         /\ \A i \in 1..Len(frames) : frames[i] \in Frames
<1>1. OnStack \subseteq Visited
  BY DEF TInv, Stacked
<1>2. \A x \in Visited : index[x] \in Nat
  BY DEF TInv, TarjanTyped, Visited, None
<1>3. \A x \in OnStack : lowlinks[x] \in Nat
  BY <1>1, <1>2 DEF TInv, Low
<1>4. Len(frames) \in Nat /\ DOMAIN frames = 1..Len(frames) /\ \A i \in 1..Len(frames) : frames[i] \in Frames
  BY DEF TInv, TarjanTyped
<1>5. \A i \in 1..Len(frames) : Node(i) \in OnStack /\ frames[i].at \in Nat \ {0}
  BY <1>4, Places DEF TInv, Framed
<1>6. \A i \in 1..Len(frames) : frames[i].back \in BOOLEAN
  BY <1>4 DEF Frames
<1>7. (\A x \in Nodes : graph[x] \subseteq Nodes) /\ \A x \in Visited : index[x] < Cardinality(Visited)
  BY DEF TInv, TarjanTyped
<1> QED BY <1>1, <1>2, <1>3, <1>4, <1>5, <1>6, <1>7, Counted

\* What the frame on top knows once it has looked on up to a place.
LEMMA Looked ==
  ASSUME TInv, frames # <<>>, NEW to \in 1..(Len(Sorted) + 1), NEW n, n = Len(frames),
         NEW low \in Lowest(Last(frames), to)
  PROVE  /\ n \in Nat \ {0} /\ Last(frames) = frames[n] /\ Node(n) \in OnStack
         /\ low \in Nat /\ low <= lowlinks[Node(n)] /\ low <= index[Node(n)]
         /\ \E x \in OnStack : index[x] = low /\ x \in Reach[Node(n)]
         /\ \A number \in Nat : Known(n, number) => low <= number
         /\ \A u \in Neighbors(Node(n), 1, to) \cap OnStack : low <= index[u]
         /\ Looks(to) => Neighbors(Node(n), 1, to) \subseteq Visited
<1> DEFINE v  == Node(n)
           fr == frames[n]
           numbers == {lowlinks[v]}
                      \cup {lowlinks[Sorted[k]] : k \in IF fr.back THEN {fr.at} ELSE {}}
                      \cup {index[u] : u \in Neighbors(v, From(fr), to) \cap OnStack}
<1>1. n \in Nat \ {0} /\ n \in 1..Len(frames) /\ Last(frames) = fr
  BY DEF TInv, TarjanTyped, Last
<1>2. v \in OnStack /\ v \in Nodes /\ fr.at \in Nat \ {0} /\ fr.back \in BOOLEAN
  BY <1>1, TInvFacts
<1>3. low \in numbers /\ \A other \in numbers : low <= other
  BY <1>1 DEF Lowest, Least, Node, OnStack
<1>4. lowlinks[v] \in Nat /\ index[v] \in Nat /\ lowlinks[v] <= index[v] /\ low <= lowlinks[v]
  BY <1>2, <1>3, TInvFacts DEF TInv, Low
<1>5. fr.back => low <= lowlinks[Child(n)]
  BY <1>3 DEF Child
<1>6. fr.back => Child(n) \in graph[v] \cap Visited /\ (Child(n) \notin OnStack => index[v] < lowlinks[Child(n)])
  BY <1>1, TInvFacts DEF TInv, Framed
<1>7. low \in Nat /\ \E x \in OnStack : index[x] = low /\ x \in Reach[v]
  <2>1. CASE low = lowlinks[v]
    BY <2>1, <1>2, <1>4 DEF TInv, Low
  <2>2. CASE fr.back /\ low = lowlinks[Child(n)]
    <3>1. Child(n) \in OnStack
      <4>1. SUFFICES ASSUME Child(n) \notin OnStack PROVE FALSE
        OBVIOUS
      <4>2. index[v] < low /\ low <= index[v]
        <5>1. lowlinks[Child(n)] \in Nat \cup {None} /\ None = -1
          BY <1>6, <2>2, Counted DEF TInv, TarjanTyped, None
        <5> QED BY <5>1, <4>1, <1>4, <1>6, <2>2
      <4>3. low \in Int
        BY <1>6, <2>2, Counted DEF TInv, TarjanTyped, None
      <4> QED BY <4>2, <4>3, <1>4
    <3>2. PICK x \in OnStack : index[x] = lowlinks[Child(n)] /\ x \in Reach[Child(n)]
      BY <3>1 DEF TInv, Low
    <3>3. Child(n) \in Reach[v] /\ Child(n) \in Nodes
      BY <1>2, <1>6, <2>2, ReachSelf, ReachEdge, TInvFacts
    <3>4. x \in Reach[v]
      BY <1>2, <3>2, <3>3, ReachOn
    <3> QED BY <2>2, <3>1, <3>2, <3>4, TInvFacts
  <2>3. CASE \E u \in Neighbors(v, From(fr), to) \cap OnStack : low = index[u]
    <3>1. PICK u \in Neighbors(v, From(fr), to) \cap OnStack : low = index[u]
      BY <2>3
    <3>2. u \in graph[v] /\ u \in Nodes
      BY <3>1, TInvFacts DEF Neighbors
    <3>3. u \in Reach[v]
      BY <1>2, <3>2, ReachSelf, ReachEdge
    <3> QED BY <3>1, <3>3, TInvFacts
  <2>4. low = lowlinks[v] \/ (fr.back /\ low = lowlinks[Child(n)])
        \/ \E u \in Neighbors(v, From(fr), to) \cap OnStack : low = index[u]
    BY <1>3 DEF Child
  <2> QED BY <2>1, <2>2, <2>3, <2>4
<1>8. ASSUME NEW number \in Nat, Known(n, number) PROVE low <= number
  <2>1. fr.back => lowlinks[Child(n)] \in Int
    BY <1>6, Counted DEF TInv, TarjanTyped, None
  <2> QED BY <1>4, <1>5, <1>7, <1>8, <2>1 DEF Known
<1>9. \A k \in 1..(to - 1) : k \in 1..(fr.at - 1) \/ k \in From(fr)..(to - 1) \/ (fr.back /\ k = fr.at)
  BY <1>2, Places DEF From
<1>10. ASSUME NEW u \in Neighbors(v, 1, to) \cap OnStack PROVE low <= index[u]
  <2>1. PICK k \in 1..(to - 1) : Sorted[k] \in graph[v] /\ u = Sorted[k]
    BY DEF Neighbors
  <2>2. index[u] \in Nat
    BY TInvFacts
  <2>3. CASE k \in 1..(fr.at - 1)
    <3>1. u \in Neighbors(v, 1, fr.at) \cap OnStack
      BY <2>1, <2>3 DEF Neighbors
    <3>2. Known(n, index[u])
      BY <1>1, <3>1, TInvFacts DEF TInv, Low
    <3> QED BY <2>2, <3>2, <1>8
  <2>4. CASE k \in From(fr)..(to - 1)
    <3>1. u \in Neighbors(v, From(fr), to) \cap OnStack
      BY <2>1, <2>4 DEF Neighbors
    <3> QED BY <3>1, <1>3
  <2>5. CASE fr.back /\ k = fr.at
    <3>1. u = Child(n) /\ low <= lowlinks[u]
      BY <2>1, <2>5, <1>5 DEF Child
    <3>2. lowlinks[u] <= index[u] /\ lowlinks[u] \in Nat
      BY TInvFacts DEF TInv, Low
    <3> QED BY <3>1, <3>2, <2>2, <1>7
  <2> QED BY <1>9, <2>1, <2>3, <2>4, <2>5
<1>11. ASSUME Looks(to) PROVE Neighbors(v, 1, to) \subseteq Visited
  <2> SUFFICES ASSUME NEW k \in 1..(to - 1), Sorted[k] \in graph[v] PROVE Sorted[k] \in Visited
    BY DEF Neighbors
  <2>1. Neighbors(v, 1, From(fr)) \subseteq Visited /\ Neighbors(v, From(fr), to) \subseteq Visited
    BY <1>1, <1>11, TInvFacts DEF TInv, LookedAt, Looks, Node
  <2>2. k \in 1..(From(fr) - 1) \/ k \in From(fr)..(to - 1)
    BY <1>2, <1>9, Places DEF From
  <2> QED BY <2>1, <2>2 DEF Neighbors
<1>12. low <= index[v]
  BY <1>4, <1>7
<1> QED BY <1>1, <1>2, <1>4, <1>7, <1>8, <1>10, <1>11, <1>12

\* A node that is visited is pushed onto the stack, its index above all others.
LEMMA Visits ==
  ASSUME TInv, NEW w \in Nodes \ Visited, NEW c, c = Cardinality(Visited),
         index' = [index EXCEPT ![w] = c], stack' = Append(stack, w), UNCHANGED result
  PROVE  /\ c \in Nat /\ Visited' = Visited \cup {w} /\ Cardinality(Visited') = c + 1
         /\ w \notin OnStack /\ OnStack' = OnStack \cup {w}
         /\ index'[w] = c /\ \A x \in Visited : index'[x] = index[x] /\ index[x] < c
         /\ index' \in [Nodes -> Nat \cup {None}] /\ stack' \in Seq(Nodes)
         /\ Stacked'
<1>1. index \in [Nodes -> Nat \cup {None}] /\ stack \in Seq(Nodes)
  BY DEF TInv, TarjanTyped
<1>2. c \in Nat
  BY Counted
<1>3. /\ index'[w] = c /\ \A x \in Nodes \ {w} : index'[x] = index[x]
      /\ index' \in [Nodes -> Nat \cup {None}]
  BY <1>1, <1>2
<1>4. Visited' = Visited \cup {w}
  <2>1. c # None
    BY <1>2 DEF None
  <2>2. \A x \in Nodes : x \in Visited' <=> x = w \/ x \in Visited
    BY <1>3, <2>1 DEF Visited
  <2>3. Visited' \subseteq Nodes /\ Visited \subseteq Nodes
    BY DEF Visited
  <2> QED BY <2>2, <2>3
<1>5. Cardinality(Visited') = c + 1
  BY <1>4, Counted, FS_AddElement
<1>6. w \notin OnStack /\ OnStack \subseteq Visited /\ Visited \subseteq Nodes
  BY TInvFacts
<1>7. OnStack' = OnStack \cup {w} /\ stack' \in Seq(Nodes)
  <2>1. /\ stack' \in Seq(Nodes) /\ DOMAIN stack' = 1..(Len(stack) + 1) /\ Len(stack) \in Nat
        /\ DOMAIN stack = 1..Len(stack) /\ stack'[Len(stack) + 1] = w
        /\ \A k \in 1..Len(stack) : stack'[k] = stack[k]
    BY <1>1
  <2>2. \A k \in 1..(Len(stack) + 1) : k \in 1..Len(stack) \/ k = Len(stack) + 1
    BY <2>1
  <2>3. OnStack' = {stack'[k] : k \in 1..(Len(stack) + 1)} /\ OnStack = {stack[k] : k \in 1..Len(stack)}
    BY <2>1 DEF OnStack, ToSet
  <2> QED BY <2>1, <2>2, <2>3
<1>8. \A x \in Visited : index'[x] = index[x] /\ index[x] < c
  BY <1>3, <1>6, TInvFacts
<1>9. Stacked'
  <2>1. ASSUME NEW i \in DOMAIN stack', NEW j \in DOMAIN stack', i < j
        PROVE  index'[stack'[i]] < index'[stack'[j]]
    <3>1. /\ i \in DOMAIN stack /\ stack'[i] = stack[i] /\ stack[i] \in OnStack
          /\ \/ j \in DOMAIN stack /\ stack'[j] = stack[j] /\ stack[j] \in OnStack
             \/ stack'[j] = w
      BY <1>1, <2>1 DEF OnStack, ToSet
    <3>2. CASE j \in DOMAIN stack /\ stack'[j] = stack[j] /\ stack[j] \in OnStack
      BY <3>1, <3>2, <1>6, <1>8, <2>1 DEF TInv, Stacked
    <3>3. CASE stack'[j] = w
      BY <3>1, <3>3, <1>3, <1>6, <1>8
    <3> QED BY <3>1, <3>2, <3>3
  <2>2. InResult' = InResult
    BY DEF InResult
  <2> QED BY <2>1, <2>2, <1>4, <1>6, <1>7 DEF TInv, Stacked
<1> QED BY <1>2, <1>3, <1>4, <1>5, <1>6, <1>7, <1>8, <1>9

\* Frames further up have nodes visited later.
LEMMA FramesRise ==
  ASSUME TInv, NEW i \in 1..Len(frames), NEW j \in 1..Len(frames)
  PROVE  /\ i < j => index[Node(i)] < index[Node(j)]
         /\ i <= j => index[Node(i)] <= index[Node(j)]
<1>1. i \in DOMAIN frames /\ j \in DOMAIN frames
  BY TInvFacts
<1>2. i < j => index[Node(i)] < index[Node(j)]
  BY <1>1 DEF TInv, Framed
<1>3. index[Node(i)] \in Nat /\ index[Node(j)] \in Nat
  BY TInvFacts
<1>4. i <= j => i < j \/ i = j
  BY TInvFacts
<1> QED BY <1>2, <1>3, <1>4

LEMMA StartKeeps == ASSUME TInv, Start PROVE TInv'
<1>1. PICK w \in Nodes \ Visited :
        /\ index' = [index EXCEPT ![w] = Cardinality(Visited)] /\ stack' = Append(stack, w)
        /\ frames' = <<[node |-> w, at |-> 1, back |-> FALSE]>>
        /\ lowlinks' = [lowlinks EXCEPT ![w] = Cardinality(Visited)]
        /\ UNCHANGED <<graph, result>>
  <2>1. PICK n \in DOMAIN Sorted :
          /\ Sorted[n] \notin Visited /\ Visit(Sorted[n], <<>>)
          /\ lowlinks' = [lowlinks EXCEPT ![Sorted[n]] = Cardinality(Visited)]
    BY DEF Start
  <2>2. Sorted[n] \in Nodes
    BY <2>1, Places, ComponentsAssumption
  <2>3. UNCHANGED <<graph, result>>
    BY DEF Start
  <2>4. Append(<<>>, [node |-> Sorted[n], at |-> 1, back |-> FALSE])
          = <<[node |-> Sorted[n], at |-> 1, back |-> FALSE]>>
    OBVIOUS
  <2>5. /\ index' = [index EXCEPT ![Sorted[n]] = Cardinality(Visited)]
        /\ stack' = Append(stack, Sorted[n])
        /\ frames' = <<[node |-> Sorted[n], at |-> 1, back |-> FALSE]>>
    BY <2>1, <2>4 DEF Visit
  <2> QED BY <2>1, <2>2, <2>3, <2>5
<1>2. PICK c : c = Cardinality(Visited)
  OBVIOUS
<1>3. /\ c \in Nat /\ Visited' = Visited \cup {w} /\ Cardinality(Visited') = c + 1
      /\ OnStack' = OnStack \cup {w}
      /\ index'[w] = c /\ \A x \in Visited : index'[x] = index[x] /\ index[x] < c
      /\ index' \in [Nodes -> Nat \cup {None}] /\ stack' \in Seq(Nodes)
      /\ Stacked'
  BY <1>1, <1>2, Visits
<1>4. frames = <<>> /\ OnStack = {}
  BY DEF Start, TInv, Joined
<1>5. /\ frames' \in Seq(Frames) /\ Len(frames') = 1 /\ DOMAIN frames' = {1}
      /\ frames'[1] = [node |-> w, at |-> 1, back |-> FALSE]
  BY <1>1 DEF Frames
<1>6. lowlinks' \in [Nodes -> Nat \cup {None}] /\ lowlinks'[w] = c
  BY <1>1, <1>2, <1>3 DEF TInv, TarjanTyped
<1>7. Reach' = Reach /\ w \in Reach[w]
  BY <1>1, SameReach, ReachSelf
<1>8. TarjanTyped'
  <2>1. \A x \in Visited' : index'[x] < c + 1
    BY <1>3, TInvFacts
  <2> QED BY <1>1, <1>3, <1>5, <1>6, <2>1 DEF TInv, TarjanTyped
<1>9. Framed'
  BY <1>3, <1>5, Places DEF Framed, Node, Child
<1>10. Joined'
  BY <1>3, <1>4, <1>5, <1>7 DEF Joined, InPart, Node
<1>11. LookedAt'
  <2>1. Neighbors(w, 1, 1)' = {}
    BY DEF Neighbors
  <2>2. \A x \in Visited' : x # w => graph[x] \subseteq Visited
    BY <1>3, <1>4, TInvFacts DEF TInv, LookedAt
  <2>3. frames'[1].node = w /\ From(frames'[1]) = 1
    BY <1>5 DEF From
  <2> QED BY <1>1, <1>3, <1>5, <2>1, <2>2, <2>3 DEF LookedAt, Node, Neighbors, From
<1>12. Low'
  BY <1>3, <1>4, <1>5, <1>6, <1>7 DEF Low, Node, Neighbors, InPart
<1>13. Separate'
  BY <1>1 DEF TInv, Separate, Reachable
<1> QED BY <1>3, <1>8, <1>9, <1>10, <1>11, <1>12, <1>13 DEF TInv

LEMMA DownKeeps == ASSUME TInv, Down PROVE TInv'
<1>1. PICK n \in Nat \ {0} : n = Len(frames)
  BY DEF Down, TInv, TarjanTyped
<1>2. PICK v \in Nodes : v = Node(n) /\ v \in OnStack
  BY <1>1, TInvFacts
<1>3. Last(frames) = frames[n] /\ frames # <<>> /\ frames \in Seq(Frames)
  BY <1>1 DEF Last, Down, TInv, TarjanTyped
<1>b. PICK to \in 1..Len(Sorted) :
        /\ Looks(to) /\ Sorted[to] \in graph[v] \ Visited
        /\ Visit(Sorted[to], Append(Front(frames), [node |-> v, at |-> to, back |-> TRUE]))
        /\ \E low \in Lowest(Last(frames), to) :
             lowlinks' = [lowlinks EXCEPT ![v] = low, ![Sorted[to]] = Cardinality(Visited)]
  <2>1. From(frames[n]) \in Nat \ {0}
    BY <1>1, TInvFacts DEF From
  <2>2. v = Last(frames).node
    BY <1>2, <1>3 DEF Node
  <2>3. PICK to \in From(frames[n])..Len(Sorted) :
          /\ Looks(to) /\ Sorted[to] \in graph[v] \ Visited
          /\ Visit(Sorted[to], Append(Front(frames), [node |-> v, at |-> to, back |-> TRUE]))
          /\ \E low \in Lowest(Last(frames), to) :
               lowlinks' = [lowlinks EXCEPT ![v] = low, ![Sorted[to]] = Cardinality(Visited)]
    BY <1>3, <2>2 DEF Down
  <2>4. to \in 1..Len(Sorted)
    BY <2>1, <2>3, Places
  <2> QED BY <2>3, <2>4
<1>4. PICK low \in Lowest(Last(frames), to) :
        lowlinks' = [lowlinks EXCEPT ![v] = low, ![Sorted[to]] = Cardinality(Visited)]
  BY <1>b
<1>5. PICK w \in Nodes \ Visited : w = Sorted[to] /\ w \in graph[v]
  BY <1>b, Places
<1>6. PICK c : c = Cardinality(Visited)
  OBVIOUS
<1>7. UNCHANGED <<graph, result>> /\ to \in 1..(Len(Sorted) + 1) /\ to \in Nat /\ Len(Sorted) \in Nat
  BY Places DEF Down
<1>8. /\ c \in Nat /\ Visited' = Visited \cup {w} /\ Cardinality(Visited') = c + 1
      /\ w \notin OnStack /\ OnStack' = OnStack \cup {w}
      /\ index'[w] = c /\ \A x \in Visited : index'[x] = index[x] /\ index[x] < c
      /\ index' \in [Nodes -> Nat \cup {None}] /\ stack' \in Seq(Nodes)
      /\ Stacked'
  BY <1>b, <1>5, <1>6, <1>7, Visits DEF Visit
<1>9. /\ low \in Nat /\ low <= lowlinks[v] /\ low <= index[v]
      /\ \E x \in OnStack : index[x] = low /\ x \in Reach[v]
      /\ \A number \in Nat : Known(n, number) => low <= number
      /\ \A u \in Neighbors(v, 1, to) \cap OnStack : low <= index[u]
      /\ Neighbors(v, 1, to) \subseteq Visited
  BY <1>1, <1>2, <1>3, <1>b, <1>7, Looked
<1>10. /\ frames' \in Seq(Frames) /\ Len(frames') = n + 1 /\ DOMAIN frames' = 1..(n + 1)
       /\ \A i \in 1..(n - 1) : frames'[i] = frames[i]
       /\ frames'[n] = [node |-> v, at |-> to, back |-> TRUE]
       /\ frames'[n + 1] = [node |-> w, at |-> 1, back |-> FALSE]
  <2> DEFINE below == Front(frames)
             old == [node |-> v, at |-> to, back |-> TRUE]
             new == [node |-> w, at |-> 1, back |-> FALSE]
  <2>1. below \in Seq(Frames) /\ Len(below) = n - 1 /\ \A i \in 1..(n - 1) : below[i] = frames[i]
    <3>1. below = SubSeq(frames, 1, n - 1)
      BY <1>1, <1>3 DEF Front
    <3>2. 1..(n - 1) \subseteq 1..Len(frames) /\ (n - 1) - 1 + 1 = n - 1 /\ n - 1 \in Int
      BY <1>1
    <3>3. \A i \in 1..(n - 1) : frames[i] \in Frames
      BY <1>3, <3>2
    <3> QED BY <3>1, <3>2, <3>3, SubSeqProperties
  <2>2. old \in Frames /\ new \in Frames
    BY <1>7 DEF Frames
  <2>3. frames' = Append(Append(below, old), new)
    BY <1>b, <1>5 DEF Visit
  <2> HIDE DEF below, old, new
  <2>4. /\ Append(below, old) \in Seq(Frames) /\ Len(Append(below, old)) = n
        /\ \A i \in 1..(n - 1) : Append(below, old)[i] = frames[i]
        /\ Append(below, old)[n] = old
    BY <2>1, <2>2
  <2>5. /\ frames' \in Seq(Frames) /\ Len(frames') = n + 1
        /\ \A i \in 1..n : frames'[i] = Append(below, old)[i]
        /\ frames'[n + 1] = new
    BY <2>2, <2>3, <2>4
  <2>6. \A i \in 1..(n - 1) : i \in 1..n
    OBVIOUS
  <2>7. n \in 1..n
    OBVIOUS
  <2>8. \A i \in 1..(n - 1) : frames'[i] = frames[i]
    BY <2>4, <2>5, <2>6
  <2>9. frames'[n] = old /\ frames'[n + 1] = new /\ frames' \in Seq(Frames) /\ Len(frames') = n + 1
    BY <2>4, <2>5, <2>7
  <2>10. DOMAIN frames' = 1..(n + 1)
    BY <2>9
  <2> USE DEF old, new
  <2> QED BY <2>8, <2>9, <2>10
<1>11. /\ \A i \in 1..n : frames'[i].node = frames[i].node
       /\ frames'[n + 1].node = w
       /\ \A i \in 1..(n + 1) : i \in 1..(n - 1) \/ i = n \/ i = n + 1
  <2>1. \A i \in 1..n : i \in 1..(n - 1) \/ i = n
    OBVIOUS
  <2> QED BY <1>2, <1>10, <2>1 DEF Node
<1>12. /\ lowlinks' \in [Nodes -> Nat \cup {None}]
       /\ lowlinks'[w] = c /\ lowlinks'[v] = low
       /\ \A x \in Nodes \ {v, w} : lowlinks'[x] = lowlinks[x]
       /\ \A x \in Visited : lowlinks'[x] <= lowlinks[x] /\ lowlinks[x] \in Int
  <2>1. lowlinks \in [Nodes -> Nat \cup {None}] /\ v # w
    BY <1>2, <1>5, TInvFacts DEF TInv, TarjanTyped
  <2>2. lowlinks' = [lowlinks EXCEPT ![v] = low, ![w] = c]
    BY <1>4, <1>5, <1>6
  <2>3. lowlinks' \in [Nodes -> Nat \cup {None}]
    BY <2>1, <2>2, <1>8, <1>9
  <2>4. /\ lowlinks'[w] = c /\ lowlinks'[v] = low
        /\ \A x \in Nodes \ {v, w} : lowlinks'[x] = lowlinks[x]
    BY <2>1, <2>2, <1>8, <1>9
  <2>5. ASSUME NEW x \in Visited PROVE lowlinks'[x] <= lowlinks[x] /\ lowlinks[x] \in Int
    <3>1. x \in Nodes /\ x # w /\ lowlinks[x] \in Int
      BY <2>1, <1>5, Counted DEF None
    <3>2. CASE x = v
      BY <3>1, <3>2, <2>4, <1>9
    <3>3. CASE x # v
      BY <3>1, <3>3, <2>4
    <3> QED BY <3>1, <3>2, <3>3
  <2> QED BY <2>3, <2>4, <2>5
<1>13. Reach' = Reach /\ \A x, a, b : Neighbors(x, a, b)' = Neighbors(x, a, b)
  BY <1>7, SameReach DEF Neighbors
<1>14. \A i \in 1..n : Node(i) \in OnStack /\ Node(i) \in Visited /\ Node(i) \in Nodes
  BY <1>1, TInvFacts
<1>15. TarjanTyped'
  <2>1. \A x \in Visited' : index'[x] < c + 1
    BY <1>8, TInvFacts
  <2> QED BY <1>7, <1>8, <1>10, <1>12, <2>1 DEF TInv, TarjanTyped
<1>16. Framed'
  <2>1. ASSUME NEW i \in 1..(n - 1)
        PROVE  /\ frames[i] = frames'[i] /\ i < n /\ i \in 1..n /\ i + 1 \in 1..n
               /\ frames[i].back /\ Child(i) = Node(i + 1) /\ Child(i) \in OnStack
               /\ frames[i].at \in 1..Len(Sorted) /\ Child(i) \in graph[Node(i)]
               /\ index[Node(i)] < index[Child(i)]
    BY <1>1, <1>10, <1>14 DEF TInv, Framed
  <2>2. ASSUME NEW i \in 1..(n + 1)
        PROVE  /\ frames'[i].node \in OnStack' /\ frames'[i].at \in 1..(Len(Sorted) + 1)
               /\ frames'[i].back =>
                    /\ frames'[i].at <= Len(Sorted)
                    /\ Sorted[frames'[i].at] \in graph[frames'[i].node] \cap Visited'
                    /\ index'[frames'[i].node] < index'[Sorted[frames'[i].at]]
                    /\ Sorted[frames'[i].at] \in OnStack'
               /\ i < n + 1 => frames'[i].back /\ Sorted[frames'[i].at] = frames'[i + 1].node
    <3>1. CASE i \in 1..(n - 1)
      <4>1. /\ frames'[i] = frames[i] /\ frames'[i].node = Node(i) /\ Sorted[frames'[i].at] = Child(i)
            /\ frames'[i + 1].node = Node(i + 1)
        BY <3>1, <2>1, <1>11 DEF Node, Child
      <4>2. Node(i) \in Visited /\ Child(i) \in Visited /\ Child(i) \in OnStack'
        BY <3>1, <2>1, <1>8, <1>14
      <4>3. frames[i].at \in 1..(Len(Sorted) + 1) /\ frames[i].at <= Len(Sorted)
        BY <3>1, <2>1, <1>7
      <4>4. index'[Node(i)] < index'[Child(i)] /\ Node(i) \in OnStack'
        BY <3>1, <2>1, <4>2, <1>8, <1>14
      <4>5. i < n + 1 /\ frames'[i].back
        BY <3>1, <2>1, <4>1
      <4> QED BY <3>1, <2>1, <4>1, <4>2, <4>3, <4>4, <4>5, <1>8
    <3>2. CASE i = n
      BY <3>2, <1>2, <1>5, <1>7, <1>8, <1>10, <1>14
    <3>3. CASE i = n + 1
      BY <3>3, <1>7, <1>8, <1>10
    <3> QED BY <3>1, <3>2, <3>3, <1>11
  <2>3. ASSUME NEW i \in 1..(n + 1), NEW j \in 1..(n + 1), i < j
        PROVE  index'[frames'[i].node] < index'[frames'[j].node]
    <3>1. i \in 1..n
      BY <2>3
    <3>2. CASE j \in 1..n
      <4>1. index[Node(i)] < index[Node(j)]
        BY <2>3, <3>1, <3>2, <1>1, FramesRise
      <4> QED BY <3>1, <3>2, <4>1, <1>8, <1>11, <1>14 DEF Node
    <3>3. CASE j = n + 1
      BY <3>1, <3>3, <1>8, <1>11, <1>14 DEF Node
    <3>4. j \in 1..n \/ j = n + 1
      OBVIOUS
    <3> QED BY <3>2, <3>3, <3>4
  <2> QED BY <1>7, <1>10, <2>2, <2>3 DEF Framed, Node, Child
<1>17. Joined'
  <2> SUFFICES ASSUME NEW u \in OnStack'
               PROVE  /\ \A i \in 1..(n + 1) : index'[frames'[i].node] <= index'[u] => u \in Reach[frames'[i].node]
                      /\ \E i \in 1..(n + 1) :
                           /\ index'[frames'[i].node] <= index'[u]
                           /\ i < n + 1 => index'[u] < index'[frames'[i + 1].node]
                           /\ frames'[i].node \in Reach[u]
    BY <1>10, <1>13 DEF Joined, InPart, Node
  <2>1. CASE u = w
    <3>1. ASSUME NEW i \in 1..n PROVE w \in Reach[Node(i)]
      <4>1. v \in Reach[Node(i)]
        <5>1. index[Node(i)] <= index[v]
          BY <1>1, <1>2, FramesRise
        <5> QED BY <5>1, <1>1, <1>2, <1>14 DEF TInv, Joined
      <4> QED BY <4>1, <1>2, <1>5, <1>14, ReachEdge
    <3>2. w \in Reach[w]
      BY <1>5, ReachSelf
    <3>3. index'[frames'[n + 1].node] <= index'[u] /\ frames'[n + 1].node \in Reach[u]
      BY <2>1, <3>2, <1>8, <1>11
    <3>4. \A i \in 1..(n + 1) : u \in Reach[frames'[i].node]
      <4>1. \A i \in 1..(n + 1) : i \in 1..n \/ i = n + 1
        OBVIOUS
      <4> QED BY <2>1, <3>1, <3>2, <4>1, <1>11 DEF Node
    <3>5. n + 1 \in 1..(n + 1) /\ ~(n + 1 < n + 1)
      OBVIOUS
    <3> QED BY <3>3, <3>4, <3>5
  <2>2. CASE u \in OnStack
    <3>1. u \in Visited /\ index'[u] = index[u] /\ index[u] < c /\ index[u] \in Nat
      BY <2>2, <1>8, TInvFacts
    <3>2. PICK j \in 1..n : InPart(j, u) /\ Node(j) \in Reach[u]
      BY <2>2, <1>1 DEF TInv, Joined
    <3>3. \A i \in 1..n : index[Node(i)] <= index[u] => u \in Reach[Node(i)]
      BY <2>2, <1>1 DEF TInv, Joined
    <3>4. ~(c <= index[u])
      BY <3>1, <1>8
    <3>5. \A i \in 1..n : frames'[i].node = Node(i) /\ index'[frames'[i].node] = index[Node(i)]
      BY <1>8, <1>11, <1>14 DEF Node
    <3>6. \A i \in 1..(n + 1) : i \in 1..n \/ i = n + 1
      OBVIOUS
    <3>7. j < n + 1 => index'[u] < index'[frames'[j + 1].node]
      <4>1. CASE j < n
        <5>1. j + 1 \in 1..n
          BY <4>1
        <5> QED BY <4>1, <5>1, <3>1, <3>2, <3>5, <1>1 DEF InPart
      <4>2. CASE j = n
        BY <4>2, <3>1, <1>8, <1>11
      <4> QED BY <4>1, <4>2
    <3>8. j \in 1..(n + 1)
      OBVIOUS
    <3>9. index'[frames'[j].node] <= index'[u] /\ frames'[j].node \in Reach[u]
      BY <3>1, <3>2, <3>5 DEF InPart
    <3>10. \A i \in 1..(n + 1) : index'[frames'[i].node] <= index'[u] => u \in Reach[frames'[i].node]
      BY <3>1, <3>3, <3>4, <3>5, <3>6, <1>8, <1>11
    <3> QED BY <3>7, <3>8, <3>9, <3>10
  <2> QED BY <2>1, <2>2, <1>8
<1>18. LookedAt'
  <2>1. ASSUME NEW x \in Visited', \A i \in 1..(n + 1) : x # frames'[i].node
        PROVE  graph[x] \subseteq Visited'
    <3>1. x \in Visited
      BY <2>1, <1>8, <1>11
    <3>2. \A i \in 1..n : x # Node(i)
      <4>1. \A i \in 1..n : i \in 1..(n + 1)
        OBVIOUS
      <4> QED BY <2>1, <4>1, <1>11 DEF Node
    <3> QED BY <3>1, <3>2, <1>1, <1>8, TInvFacts DEF TInv, LookedAt
  <2>2. ASSUME NEW i \in 1..(n + 1)
        PROVE  Neighbors(frames'[i].node, 1, From(frames'[i])) \subseteq Visited'
    <3>1. CASE i \in 1..(n - 1)
      <4>1. frames'[i] = frames[i] /\ i \in DOMAIN frames
        BY <3>1, <1>1, <1>10
      <4>2. Neighbors(Node(i), 1, From(frames[i])) \subseteq Visited
        BY <4>1 DEF TInv, LookedAt
      <4> QED BY <4>1, <4>2, <1>8 DEF Node
    <3>2. CASE i = n
      <4>1. frames'[i].node = v /\ From(frames'[i]) = to + 1
        BY <3>2, <1>10 DEF From
      <4>2. Neighbors(v, 1, to + 1) \subseteq Neighbors(v, 1, to) \cup {w}
        <5>1. \A k \in 1..((to + 1) - 1) : k \in 1..(to - 1) \/ k = to
          BY <1>7
        <5> QED BY <5>1, <1>5 DEF Neighbors
      <4> QED BY <4>1, <4>2, <1>8, <1>9
    <3>3. CASE i = n + 1
      <4>1. From(frames'[i]) = 1
        BY <3>3, <1>10 DEF From
      <4>2. Neighbors(w, 1, 1) = {}
        BY DEF Neighbors
      <4> QED BY <3>3, <4>1, <4>2, <1>11
    <3> QED BY <3>1, <3>2, <3>3, <1>11
  <2>3. \A i \in DOMAIN frames' : (Neighbors(frames[i].node, 1, From(frames[i])) \subseteq Visited)'
    <3>1. \A i : From(frames[i])' = From(frames'[i])
      BY DEF From
    <3> QED BY <3>1, <2>2, <1>7, <1>10 DEF Neighbors, From
  <2> QED BY <2>1, <2>3, <1>7, <1>10 DEF LookedAt, Node
<1>19. Low'
  <2>1. ASSUME NEW x \in OnStack'
        PROVE  lowlinks'[x] <= index'[x] /\ \E z \in OnStack' : index'[z] = lowlinks'[x] /\ z \in Reach[x]
    <3>1. CASE x = w
      BY <3>1, <1>5, <1>8, <1>12, ReachSelf
    <3>2. CASE x = v
      BY <3>2, <1>2, <1>8, <1>9, <1>12, TInvFacts
    <3>3. CASE x \in OnStack \ {v, w}
      <4>1. lowlinks[x] <= index[x] /\ \E z \in OnStack : index[z] = lowlinks[x] /\ z \in Reach[x]
        BY <3>3 DEF TInv, Low
      <4>2. lowlinks'[x] = lowlinks[x] /\ \A z \in OnStack : index'[z] = index[z] /\ z \in OnStack'
        BY <3>3, <1>8, <1>12, TInvFacts
      <4> QED BY <3>3, <4>1, <4>2
    <3> QED BY <3>1, <3>2, <3>3, <1>8
  <2> DEFINE known(i, number) ==
               \/ lowlinks'[frames'[i].node] <= number
               \/ frames'[i].back /\ lowlinks'[Sorted[frames'[i].at]] <= number
  <2>2. ASSUME NEW i \in 1..n, NEW z \in OnStack', z = w \/ Known(i, index[z]) PROVE known(i, index'[z])
    <3>1. CASE z = w
      <4>1. lowlinks'[Node(i)] <= lowlinks[Node(i)] /\ lowlinks[Node(i)] <= index[Node(i)] /\ index[Node(i)] < c
        BY <1>8, <1>12, <1>14 DEF TInv, Low
      <4>2. lowlinks'[Node(i)] \in Int /\ lowlinks[Node(i)] \in Int /\ index[Node(i)] \in Int
        BY <1>12, <1>14, TInvFacts DEF None
      <4> QED BY <3>1, <4>1, <4>2, <1>8, <1>11 DEF Node
    <3>2. CASE z # w /\ Known(i, index[z])
      <4>1. z \in OnStack /\ index'[z] = index[z] /\ index[z] \in Nat
        BY <3>2, <1>8, TInvFacts
      <4>2. CASE i = n
        <5>1. low <= index[z]
          BY <3>2, <4>1, <4>2, <1>9
        <5> QED BY <4>1, <4>2, <5>1, <1>10, <1>12
      <4>3. CASE i # n
        <5>1. i \in 1..(n - 1) /\ i \in DOMAIN frames /\ i < Len(frames) /\ i + 1 \in 1..n
          BY <4>3, <1>1
        <5>2. frames'[i] = frames[i] /\ frames[i].back /\ Child(i) = Node(i + 1)
          BY <5>1, <1>10 DEF TInv, Framed
        <5>3. /\ lowlinks'[Node(i)] <= lowlinks[Node(i)] /\ lowlinks'[Node(i + 1)] <= lowlinks[Node(i + 1)]
              /\ lowlinks'[Node(i)] \in Int /\ lowlinks[Node(i)] \in Int
              /\ lowlinks'[Node(i + 1)] \in Int /\ lowlinks[Node(i + 1)] \in Int
          BY <5>1, <1>12, <1>14, TInvFacts DEF None
        <5>4. lowlinks[Node(i)] <= index[z] \/ lowlinks[Node(i + 1)] <= index[z]
          BY <3>2, <5>2 DEF Known
        <5>5. frames'[i].node = Node(i) /\ frames'[i].back /\ Sorted[frames'[i].at] = Node(i + 1)
          BY <5>2 DEF Node, Child
        <5> QED BY <4>1, <5>3, <5>4, <5>5
      <4> QED BY <4>2, <4>3
    <3> QED BY <2>2, <3>1, <3>2
  <2>3. ASSUME NEW i \in 1..(n + 1), NEW u \in OnStack', u # frames'[i].node,
               index'[frames'[i].node] <= index'[u],
               i < n + 1 => index'[u] < index'[frames'[i + 1].node],
               NEW z \in graph[u] \cap OnStack'
        PROVE  known(i, index'[z])
    <3>1. i \in 1..n
      <4>1. ASSUME i = n + 1 PROVE FALSE
        <5>1. c <= index'[u] /\ u \in OnStack
          BY <2>3, <4>1, <1>8, <1>11
        <5> QED BY <5>1, <1>8, TInvFacts
      <4> QED BY <4>1, <1>11
    <3>2. u \in OnStack
      <4>1. ASSUME u = w PROVE FALSE
        <5>1. c < index'[frames'[i + 1].node] /\ i + 1 \in 1..(n + 1)
          BY <2>3, <3>1, <4>1, <1>8
        <5>2. index'[frames'[i + 1].node] <= c /\ index'[frames'[i + 1].node] \in Nat
          <6>1. i + 1 \in 1..n \/ i + 1 = n + 1
            BY <3>1
          <6>2. ASSUME i + 1 \in 1..n PROVE index'[frames'[i + 1].node] < c /\ index'[frames'[i + 1].node] \in Nat
            BY <6>2, <1>8, <1>11, <1>14, TInvFacts DEF Node
          <6> QED BY <6>1, <6>2, <1>8, <1>11
        <5> QED BY <5>1, <5>2, <1>8
      <4> QED BY <4>1, <1>8
    <3>3. frames'[i].node = Node(i) /\ index'[u] = index[u] /\ index'[Node(i)] = index[Node(i)]
      BY <3>1, <3>2, <1>8, <1>11, <1>14, TInvFacts DEF Node
    <3>4. InPart(i, u)
      <4>1. ASSUME i < n PROVE index[u] < index[Node(i + 1)]
        <5>1. i + 1 \in 1..n
          BY <3>1, <4>1
        <5> QED BY <5>1, <4>1, <2>3, <3>3, <1>8, <1>11, <1>14 DEF Node
      <4> QED BY <4>1, <2>3, <3>3, <1>1 DEF InPart
    <3>5. z = w \/ Known(i, index[z])
      BY <3>1, <3>2, <3>3, <3>4, <2>3, <1>1, <1>8 DEF TInv, Low
    <3> QED BY <3>1, <3>5, <2>2
  <2>4. ASSUME NEW i \in 1..(n + 1), NEW z \in Neighbors(frames'[i].node, 1, frames'[i].at) \cap OnStack'
        PROVE  known(i, index'[z])
    <3>1. CASE i \in 1..(n - 1)
      <4>1. frames'[i] = frames[i] /\ i \in DOMAIN frames /\ i \in 1..n
        BY <3>1, <1>1, <1>10
      <4>2. z = w \/ Known(i, index[z])
        BY <4>1, <1>8 DEF TInv, Low, Node
      <4> QED BY <4>1, <4>2, <2>2
    <3>2. CASE i = n
      <4>1. z \in Neighbors(v, 1, to) /\ z \in OnStack
        BY <3>2, <1>8, <1>9, <1>10
      <4>2. low <= index[z] /\ index'[z] = index[z]
        BY <4>1, <1>8, <1>9, TInvFacts
      <4> QED BY <3>2, <4>2, <1>10, <1>12
    <3>3. CASE i = n + 1
      <4>1. Neighbors(w, 1, 1) = {}
        BY DEF Neighbors
      <4> QED BY <3>3, <4>1, <1>10
    <3> QED BY <3>1, <3>2, <3>3, <1>11
  <2>5. \A i \in 1..(n + 1) : \A number : Known(i, number)' <=> known(i, number)
    BY DEF Known, Node, Child
  <2>6. \A i \in 1..(n + 1) : \A u \in OnStack' : InPart(i, u)' /\ u # Node(i)' =>
          \A z \in graph'[u] \cap OnStack' : known(i, index'[z])
    BY <2>3, <1>7, <1>10 DEF InPart, Node
  <2>7. \A i \in 1..(n + 1) : \A z \in Neighbors(Node(i), 1, frames[i].at)' \cap OnStack' : known(i, index'[z])
    BY <2>4, <1>7 DEF Neighbors, Node
  <2> QED BY <2>1, <2>6, <2>7, <1>10, <1>13 DEF Low, Known, Node, Child
<1>20. Separate'
  BY <1>7 DEF TInv, Separate, Reachable
<1> QED BY <1>8, <1>15, <1>16, <1>17, <1>18, <1>19, <1>20 DEF TInv

LEMMA EndsKeeps == ASSUME TInv, Ends PROVE TInv'
<1>1. PICK n \in Nat \ {0} : n = Len(frames)
  BY DEF Ends, TInv, TarjanTyped
<1>2. PICK v \in Nodes : v = Node(n) /\ v \in OnStack
  BY <1>1, TInvFacts
<1>3. Last(frames) = frames[n] /\ frames # <<>> /\ frames \in Seq(Frames)
  BY <1>1 DEF Last, Ends, TInv, TarjanTyped
<1>4. PICK low \in Lowest(Last(frames), Len(Sorted) + 1) :
        /\ lowlinks' = [lowlinks EXCEPT ![v] = low]
        /\ IF low = index[v] THEN Extract(v) ELSE UNCHANGED <<stack, result>>
  BY <1>2, <1>3 DEF Ends, Node
<1>5. UNCHANGED <<graph, index>> /\ frames' = Front(frames) /\ Looks(Len(Sorted) + 1)
  BY DEF Ends
<1>6. Visited' = Visited /\ Cardinality(Visited') = Cardinality(Visited)
  BY <1>5 DEF Visited
<1>7. Neighbors(v, 1, Len(Sorted) + 1) = graph[v]
  <2>1. \A k \in 1..((Len(Sorted) + 1) - 1) : k \in 1..Len(Sorted)
    BY Places
  <2>2. \A k \in 1..Len(Sorted) : k \in 1..((Len(Sorted) + 1) - 1)
    BY Places
  <2>3. graph[v] \subseteq Nodes
    BY <1>2, TInvFacts
  <2> QED BY <2>1, <2>2, <2>3, Places DEF Neighbors
<1>8. /\ low \in Nat /\ low <= lowlinks[v] /\ low <= index[v]
      /\ \E x \in OnStack : index[x] = low /\ x \in Reach[v]
      /\ \A number \in Nat : Known(n, number) => low <= number
      /\ \A u \in graph[v] \cap OnStack : low <= index[u]
      /\ graph[v] \subseteq Visited
  <2>1. Len(Sorted) + 1 \in 1..(Len(Sorted) + 1)
    BY Places
  <2> QED BY <2>1, <1>1, <1>2, <1>3, <1>4, <1>5, <1>7, Looked
<1>9. /\ frames' \in Seq(Frames) /\ Len(frames') = n - 1 /\ DOMAIN frames' = 1..(n - 1)
      /\ \A i \in 1..(n - 1) : frames'[i] = frames[i]
  <2>1. frames' = SubSeq(frames, 1, n - 1)
    BY <1>1, <1>5 DEF Front
  <2>2. 1..(n - 1) \subseteq 1..Len(frames) /\ (n - 1) - 1 + 1 = n - 1 /\ n - 1 \in Int
    BY <1>1
  <2>3. \A i \in 1..(n - 1) : frames[i] \in Frames
    BY <1>3, <2>2
  <2>4. frames' \in Seq(Frames) /\ Len(frames') = n - 1 /\ \A i \in 1..(n - 1) : frames'[i] = frames[1 + i - 1]
    BY <2>1, <2>2, <2>3, SubSeqProperties
  <2>5. \A i \in 1..(n - 1) : 1 + i - 1 = i
    OBVIOUS
  <2> QED BY <2>4, <2>5
<1>10. \A i \in 1..(n - 1) :
         /\ i \in 1..n /\ i + 1 \in 1..n /\ i \in DOMAIN frames /\ i < Len(frames)
         /\ Node(i) \in OnStack /\ Node(i) \in Visited /\ Node(i) \in Nodes /\ index[Node(i)] \in Nat
         /\ index[Node(i)] < index[v]
         /\ frames[i].back /\ Child(i) = Node(i + 1)
         /\ frames'[i].node = Node(i) /\ Sorted[frames'[i].at] = Child(i)
  <2> SUFFICES ASSUME NEW i \in 1..(n - 1)
               PROVE  /\ i \in 1..n /\ i + 1 \in 1..n /\ i \in DOMAIN frames /\ i < Len(frames)
                      /\ Node(i) \in OnStack /\ Node(i) \in Visited /\ Node(i) \in Nodes /\ index[Node(i)] \in Nat
                      /\ index[Node(i)] < index[v]
                      /\ frames[i].back /\ Child(i) = Node(i + 1)
                      /\ frames'[i].node = Node(i) /\ Sorted[frames'[i].at] = Child(i)
    OBVIOUS
  <2>1. i \in 1..n /\ i + 1 \in 1..n /\ i \in DOMAIN frames /\ i < Len(frames) /\ i < n
    BY <1>1
  <2>2. index[Node(i)] < index[v]
    BY <2>1, <1>1, <1>2, FramesRise
  <2>3. Node(i) \in OnStack /\ Node(i) \in Visited /\ Node(i) \in Nodes /\ index[Node(i)] \in Nat
    BY <2>1, <1>1, TInvFacts
  <2>4. frames[i].back /\ Child(i) = Node(i + 1)
    BY <2>1 DEF TInv, Framed
  <2>5. frames'[i].node = Node(i) /\ Sorted[frames'[i].at] = Child(i)
    BY <1>9 DEF Node, Child
  <2> QED BY <2>1, <2>2, <2>3, <2>4, <2>5
<1>11. /\ lowlinks' \in [Nodes -> Nat \cup {None}] /\ lowlinks'[v] = low
       /\ \A x \in Nodes \ {v} : lowlinks'[x] = lowlinks[x]
       /\ \A x \in Visited : lowlinks'[x] <= lowlinks[x] /\ lowlinks[x] \in Int /\ lowlinks'[x] \in Int
  BY <1>2, <1>4, <1>8, Counted DEF TInv, TarjanTyped, None
<1>12. Reach' = Reach /\ \A x, a, b : Neighbors(x, a, b)' = Neighbors(x, a, b)
  BY <1>5, SameReach DEF Neighbors
<1>13. \A x \in Visited : index[x] \in Nat
  BY TInvFacts
<1>14. LookedAt'
  <2>1. ASSUME NEW x \in Visited, \A i \in 1..(n - 1) : x # frames'[i].node
        PROVE  graph[x] \subseteq Visited
    <3>1. CASE x = v
      BY <3>1, <1>8
    <3>2. CASE x # v
      <4>1. \A i \in DOMAIN frames : x # Node(i)
        <5>1. \A i \in DOMAIN frames : i \in 1..(n - 1) \/ i = n
          BY <1>1, TInvFacts
        <5> QED BY <5>1, <2>1, <3>2, <1>2, <1>10
      <4> QED BY <4>1 DEF TInv, LookedAt
    <3> QED BY <3>1, <3>2
  <2>2. \A i \in 1..(n - 1) : (Neighbors(frames[i].node, 1, From(frames[i])) \subseteq Visited)'
    <3>1. \A i \in 1..(n - 1) : Neighbors(frames[i].node, 1, From(frames[i])) \subseteq Visited
      BY <1>10 DEF TInv, LookedAt, Node
    <3> QED BY <3>1, <1>5, <1>6, <1>9 DEF Neighbors, From
  <2> QED BY <2>1, <2>2, <1>5, <1>6, <1>9 DEF LookedAt, Node
\* A frame below knows what it knew, and the one that is now on top what the ended one did.
<1>15. ASSUME NEW i \in 1..(n - 1), NEW number \in Nat, Known(i, number) \/ (i = n - 1 /\ low <= number)
       PROVE  \/ lowlinks'[frames'[i].node] <= number
              \/ frames'[i].back /\ lowlinks'[Sorted[frames'[i].at]] <= number
  <2>1. Node(i + 1) \in Visited
    BY <1>1, <1>10, TInvFacts
  <2>2. /\ lowlinks'[Node(i)] <= lowlinks[Node(i)] /\ lowlinks'[Node(i + 1)] <= lowlinks[Node(i + 1)]
        /\ lowlinks'[Node(i)] \in Int /\ lowlinks[Node(i)] \in Int
        /\ lowlinks'[Node(i + 1)] \in Int /\ lowlinks[Node(i + 1)] \in Int
    BY <2>1, <1>10, <1>11
  <2>3. CASE Known(i, number)
    <3>1. lowlinks[Node(i)] <= number \/ lowlinks[Node(i + 1)] <= number
      BY <2>3, <1>10 DEF Known
    <3>2. lowlinks'[Node(i)] <= number \/ lowlinks'[Node(i + 1)] <= number
      BY <3>1, <2>2
    <3>3. frames'[i].node = Node(i) /\ frames'[i].back /\ Sorted[frames'[i].at] = Node(i + 1)
      BY <1>9, <1>10
    <3> QED BY <3>2, <3>3
  <2>4. CASE i = n - 1 /\ low <= number
    <3>1. Node(i + 1) = v
      BY <2>4, <1>2
    <3> QED BY <3>1, <2>4, <1>9, <1>10, <1>11
  <2> QED BY <1>15, <2>3, <2>4
\* So a low link of what is below stays known, whichever part of the stack is kept.
<1>16. ASSUME NEW i \in 1..(n - 1), NEW u \in OnStack, u # Node(i), index[Node(i)] <= index[u],
              i < n - 1 => index[u] < index[Node(i + 1)], NEW z \in graph[u] \cap OnStack
       PROVE  \/ lowlinks'[frames'[i].node] <= index[z]
              \/ frames'[i].back /\ lowlinks'[Sorted[frames'[i].at]] <= index[z]
  <2>1. index[z] \in Nat /\ index[u] \in Nat /\ index[v] \in Nat
    BY <1>2, TInvFacts
  <2>2. CASE InPart(i, u)
    <3>1. Known(i, index[z])
      BY <1>10, <1>16, <2>2 DEF TInv, Low
    <3> QED BY <3>1, <2>1, <1>15
  <2>3. CASE ~InPart(i, u)
    <3>1. i = n - 1 /\ index[v] <= index[u]
      <4>1. ~(index[u] < index[Node(i + 1)])
        BY <1>16, <2>3 DEF InPart
      <4>2. i = n - 1
        BY <4>1, <1>16
      <4> QED BY <4>1, <4>2, <2>1, <1>2
    <3>2. low <= index[z]
      <4>1. CASE u = v
        BY <4>1, <1>8
      <4>2. CASE u # v
        <5>1. InPart(n, u) /\ n \in DOMAIN frames
          BY <3>1, <1>1, <1>2, TInvFacts DEF InPart
        <5>2. Known(n, index[z])
          BY <4>2, <5>1, <1>2 DEF TInv, Low
        <5> QED BY <5>2, <2>1, <1>8
      <4> QED BY <4>1, <4>2
    <3> QED BY <3>1, <3>2, <2>1, <1>15
  <2> QED BY <2>2, <2>3
<1>17. ASSUME NEW i \in 1..(n - 1), NEW z \in Neighbors(frames'[i].node, 1, frames'[i].at) \cap OnStack
       PROVE  \/ lowlinks'[frames'[i].node] <= index[z]
              \/ frames'[i].back /\ lowlinks'[Sorted[frames'[i].at]] <= index[z]
  <2>1. Known(i, index[z])
    BY <1>9, <1>10 DEF TInv, Low, Node
  <2>2. index[z] \in Nat
    BY TInvFacts
  <2> QED BY <2>1, <2>2, <1>15
<1>18. CASE low # index[v]
  <2>1. UNCHANGED <<stack, result>> /\ OnStack' = OnStack /\ InResult' = InResult /\ low < index[v]
    <3>1. UNCHANGED <<stack, result>>
      BY <1>4, <1>18
    <3>2. low < index[v]
      BY <1>2, <1>8, <1>18, TInvFacts
    <3> QED BY <3>1, <3>2 DEF OnStack, InResult
  <2>2. TarjanTyped' /\ Stacked' /\ Separate'
    <3>1. TarjanTyped'
      BY <1>5, <1>6, <1>9, <1>11, <2>1 DEF TInv, TarjanTyped
    <3>2. Stacked'
      BY <1>5, <1>6, <2>1 DEF TInv, Stacked
    <3>3. Separate'
      BY <1>5, <2>1 DEF TInv, Separate, Reachable
    <3> QED BY <3>1, <3>2, <3>3
  <2>3. Framed'
    <3>1. ASSUME NEW i \in 1..(n - 1)
          PROVE  /\ frames'[i].node \in OnStack /\ frames'[i].at \in 1..(Len(Sorted) + 1)
                 /\ frames'[i].back =>
                      /\ frames'[i].at <= Len(Sorted)
                      /\ Sorted[frames'[i].at] \in graph[frames'[i].node] \cap Visited
                      /\ index[frames'[i].node] < index[Sorted[frames'[i].at]]
                      /\ Sorted[frames'[i].at] \in OnStack
                 /\ i < n - 1 => frames'[i].back /\ Sorted[frames'[i].at] = frames'[i + 1].node
      <4>1. /\ frames[i].at \in 1..(Len(Sorted) + 1) /\ frames[i].at <= Len(Sorted)
            /\ Child(i) \in graph[Node(i)] \cap Visited /\ index[Node(i)] < index[Child(i)]
        BY <1>10 DEF TInv, Framed
      <4>2. Child(i) \in OnStack
        BY <1>1, <1>10, TInvFacts
      <4>3. i < n - 1 => frames'[i + 1].node = Node(i + 1)
        <5>1. i < n - 1 => i + 1 \in 1..(n - 1)
          OBVIOUS
        <5> QED BY <5>1, <1>10
      <4> QED BY <4>1, <4>2, <4>3, <1>9, <1>10
    <3>2. ASSUME NEW i \in 1..(n - 1), NEW j \in 1..(n - 1), i < j
          PROVE  index[frames'[i].node] < index[frames'[j].node]
      BY <3>2, <1>1, <1>10, FramesRise
    <3> QED BY <3>1, <3>2, <1>5, <1>6, <1>9, <2>1 DEF Framed, Node, Child
  \* The ended node leads to one below it, and so to the frame now on top.
  <2>4. n - 1 \in 1..(n - 1) /\ Node(n - 1) \in Reach[v]
    <3>1. PICK x \in OnStack : index[x] = low /\ x \in Reach[v]
      BY <1>8
    <3>2. PICK j \in 1..n : InPart(j, x) /\ Node(j) \in Reach[x]
      BY <1>1, TInvFacts DEF TInv, Joined
    <3>3. j # n
      <4>1. ~(index[v] <= index[x])
        BY <3>1, <2>1, <1>2, <1>8, TInvFacts
      <4> QED BY <3>2, <4>1, <1>2 DEF InPart
    <3>4. j \in 1..(n - 1) /\ n - 1 \in 1..(n - 1)
      BY <3>3
    <3>5. Node(j) \in Nodes /\ Node(n - 1) \in OnStack /\ Node(n - 1) \in Nodes
      BY <3>4, <1>10
    <3>6. Node(n - 1) \in Reach[Node(j)]
      <4>1. index[Node(j)] <= index[Node(n - 1)] /\ j \in DOMAIN frames
        BY <3>4, <1>1, <1>10, FramesRise
      <4> QED BY <4>1, <3>5 DEF TInv, Joined
    <3>7. x \in Nodes
      BY TInvFacts
    <3>8. Node(j) \in Reach[v]
      BY <3>1, <3>2, <3>5, <3>7, <1>2, ReachOn
    <3> QED BY <3>4, <3>5, <3>6, <3>8, <1>2, ReachOn
  <2>5. Joined'
    <3>1. ASSUME NEW u \in OnStack
          PROVE  /\ \A i \in 1..(n - 1) : index[Node(i)] <= index[u] => u \in Reach[Node(i)]
                 /\ \E i \in 1..(n - 1) :
                      /\ index[Node(i)] <= index[u]
                      /\ i < n - 1 => index[u] < index[Node(i + 1)]
                      /\ Node(i) \in Reach[u]
      <4>1. \A i \in 1..(n - 1) : index[Node(i)] <= index[u] => u \in Reach[Node(i)]
        BY <1>10 DEF TInv, Joined
      <4>2. PICK j \in 1..n : InPart(j, u) /\ Node(j) \in Reach[u]
        BY <1>1, TInvFacts DEF TInv, Joined
      <4>3. u \in Nodes /\ index[u] \in Nat /\ index[v] \in Nat
        BY <1>2, TInvFacts
      <4>4. CASE j \in 1..(n - 1)
        <5>1. index[Node(j)] <= index[u] /\ (j < n - 1 => index[u] < index[Node(j + 1)])
          BY <4>2, <4>4, <1>1 DEF InPart
        <5> QED BY <4>1, <4>2, <4>4, <5>1
      <4>5. CASE j = n
        <5>1. v \in Reach[u] /\ index[v] <= index[u]
          BY <4>2, <4>5, <1>2 DEF InPart
        <5>2. Node(n - 1) \in Reach[u]
          BY <4>3, <5>1, <2>4, <1>2, ReachOn
        <5>3. index[Node(n - 1)] <= index[u]
          BY <4>3, <5>1, <2>4, <1>10
        <5> QED BY <4>1, <5>2, <5>3, <2>4
      <4> QED BY <4>4, <4>5
    <3>2. \A i \in 1..(n - 1) : i < n - 1 => frames'[i + 1].node = Node(i + 1)
      <4>1. \A i \in 1..(n - 1) : i < n - 1 => i + 1 \in 1..(n - 1)
        OBVIOUS
      <4> QED BY <4>1, <1>10
    <3>3. \A i \in 1..(n - 1) : Node(i)' = Node(i)
      BY <1>10 DEF Node
    <3>4. \A i \in 1..(n - 1) : \A u \in OnStack :
            InPart(i, u)' <=> index[Node(i)] <= index[u] /\ (i < n - 1 => index[u] < index[Node(i + 1)])
      BY <3>2, <3>3, <1>5, <1>9 DEF InPart, Node
    <3> QED BY <3>1, <3>3, <3>4, <1>5, <1>9, <1>12, <2>1 DEF Joined
  <2>6. Low'
    <3>1. ASSUME NEW x \in OnStack
          PROVE  lowlinks'[x] <= index[x] /\ \E z \in OnStack : index[z] = lowlinks'[x] /\ z \in Reach[x]
      <4>1. CASE x = v
        BY <4>1, <1>8, <1>11
      <4>2. CASE x # v
        BY <4>2, <1>11, TInvFacts DEF TInv, Low
      <4> QED BY <4>1, <4>2
    <3>2. \A i \in 1..(n - 1) : \A u \in OnStack : InPart(i, u)' /\ u # Node(i)' =>
            \A z \in graph[u] \cap OnStack : Known(i, index[z])'
      <4> SUFFICES ASSUME NEW i \in 1..(n - 1), NEW u \in OnStack, InPart(i, u)', u # Node(i)',
                          NEW z \in graph[u] \cap OnStack
                   PROVE  \/ lowlinks'[frames'[i].node] <= index[z]
                          \/ frames'[i].back /\ lowlinks'[Sorted[frames'[i].at]] <= index[z]
        BY <1>5 DEF Known, Node, Child
      <4>1. u # Node(i) /\ index[Node(i)] <= index[u]
        BY <1>5, <1>10 DEF InPart, Node
      <4>2. i < n - 1 => index[u] < index[Node(i + 1)]
        <5>1. i < n - 1 => i + 1 \in 1..(n - 1)
          OBVIOUS
        <5>2. i < n - 1 => index[u] < index[frames'[i + 1].node]
          BY <1>5, <1>9 DEF InPart, Node
        <5> QED BY <5>1, <5>2, <1>10
      <4> QED BY <4>1, <4>2, <1>16
    <3>3. \A i \in 1..(n - 1) : \A z \in Neighbors(Node(i), 1, frames[i].at)' \cap OnStack : Known(i, index[z])'
      BY <1>5, <1>17 DEF Known, Node, Child, Neighbors
    <3> QED BY <3>1, <3>2, <3>3, <1>5, <1>9, <1>12, <2>1 DEF Low
  <2> QED BY <1>14, <2>2, <2>3, <2>5, <2>6 DEF TInv
<1>19. CASE low = index[v]
  <2>1. PICK p \in DOMAIN stack :
          /\ stack[p] = v /\ stack' = SubSeq(stack, 1, p - 1)
          /\ result' = Append(result, {stack[k] : k \in p..Len(stack)})
    BY <1>4, <1>19 DEF Extract
  <2> DEFINE found == {u \in OnStack : index[v] <= index[u]}
  <2>2. /\ stack \in Seq(Nodes) /\ Len(stack) \in Nat /\ DOMAIN stack = 1..Len(stack)
        /\ p \in 1..Len(stack) /\ result \in Seq(SUBSET Nodes) /\ OnStack = {stack[k] : k \in 1..Len(stack)}
    BY <2>1 DEF TInv, TarjanTyped, OnStack, ToSet
  <2>3. \A k \in 1..Len(stack) : /\ k < p => index[stack[k]] < index[v]
                                 /\ p <= k => index[v] <= index[stack[k]]
                                 /\ stack[k] \in OnStack
    <3> SUFFICES ASSUME NEW k \in 1..Len(stack)
                 PROVE  /\ k < p => index[stack[k]] < index[v]
                        /\ p <= k => index[v] <= index[stack[k]]
                        /\ stack[k] \in OnStack
      OBVIOUS
    <3>1. stack[k] \in OnStack
      BY <2>2
    <3>2. k < p => index[stack[k]] < index[v]
      BY <2>1, <2>2 DEF TInv, Stacked
    <3>3. p < k => index[v] < index[stack[k]]
      BY <2>1, <2>2 DEF TInv, Stacked
    <3>4. index[v] \in Nat /\ index[stack[k]] \in Nat
      BY <3>1, <1>2, TInvFacts
    <3>5. p <= k => p < k \/ p = k
      BY <2>2
    <3> QED BY <2>1, <3>1, <3>2, <3>3, <3>4, <3>5
  <2>4. {stack[k] : k \in p..Len(stack)} = found
    <3>1. \A k \in p..Len(stack) : k \in 1..Len(stack) /\ p <= k
      BY <2>2
    <3>2. \A k \in 1..Len(stack) : k < p \/ k \in p..Len(stack)
      BY <2>2
    <3>3. \A k \in 1..Len(stack) : index[stack[k]] \in Nat /\ index[v] \in Nat
      BY <2>3, <1>2, TInvFacts
    <3>4. \A u \in found : \E k \in p..Len(stack) : u = stack[k]
      <4> TAKE u \in found
      <4>1. PICK k \in 1..Len(stack) : u = stack[k]
        BY <2>2
      <4>2. ~(k < p)
        BY <4>1, <2>3, <3>3
      <4> QED BY <4>1, <4>2, <3>2
    <3>5. \A k \in p..Len(stack) : stack[k] \in found
      BY <3>1, <2>3
    <3> QED BY <3>4, <3>5
  <2>5. /\ stack' \in Seq(Nodes) /\ Len(stack') = p - 1 /\ DOMAIN stack' = 1..(p - 1)
        /\ \A k \in 1..(p - 1) : stack'[k] = stack[k] /\ k \in 1..Len(stack) /\ k < p
    <3>1. 1..(p - 1) \subseteq 1..Len(stack) /\ (p - 1) - 1 + 1 = p - 1 /\ p - 1 \in Int
      BY <2>2
    <3>2. \A k \in 1..(p - 1) : stack[k] \in Nodes /\ 1 + k - 1 = k /\ k < p
      BY <2>2, <3>1
    <3>3. stack' \in Seq(Nodes) /\ Len(stack') = p - 1 /\ \A k \in 1..(p - 1) : stack'[k] = stack[1 + k - 1]
      BY <2>1, <2>2, <3>1, <3>2, SubSeqProperties
    <3> QED BY <3>1, <3>2, <3>3, <2>2
  <2>6. OnStack' = {u \in OnStack : index[u] < index[v]} /\ OnStack' = OnStack \ found
    <3>1. OnStack' = {stack[k] : k \in 1..(p - 1)}
      BY <2>5 DEF OnStack, ToSet
    <3>2. \A u \in OnStack' : u \in OnStack /\ index[u] < index[v]
      BY <3>1, <2>3, <2>5
    <3>3. \A u \in OnStack : index[u] < index[v] => u \in OnStack'
      <4> SUFFICES ASSUME NEW u \in OnStack, index[u] < index[v] PROVE u \in OnStack'
        OBVIOUS
      <4>1. PICK k \in 1..Len(stack) : u = stack[k]
        BY <2>2
      <4>2. ~(p <= k)
        BY <4>1, <2>3, <1>2, TInvFacts
      <4>3. k \in 1..(p - 1)
        BY <4>2, <2>2
      <4> QED BY <3>1, <4>1, <4>3
    <3>4. \A u \in OnStack : index[u] \in Nat /\ index[v] \in Nat
      BY <1>2, TInvFacts
    <3> QED BY <3>2, <3>3, <3>4
  <2>7. /\ result' \in Seq(SUBSET Nodes) /\ Len(result') = Len(result) + 1 /\ Len(result) \in Nat
        /\ DOMAIN result' = 1..(Len(result) + 1) /\ DOMAIN result = 1..Len(result)
        /\ result'[Len(result) + 1] = found
        /\ \A k \in 1..Len(result) : result'[k] = result[k]
        /\ InResult' = InResult \cup found /\ InResult = UNION {result[k] : k \in 1..Len(result)}
    <3>1. result' = Append(result, found) /\ found \in SUBSET Nodes
      BY <2>1, <2>4, TInvFacts
    <3> HIDE DEF found
    <3>2. /\ result' \in Seq(SUBSET Nodes) /\ Len(result') = Len(result) + 1 /\ Len(result) \in Nat
          /\ DOMAIN result' = 1..(Len(result) + 1) /\ DOMAIN result = 1..Len(result)
          /\ result'[Len(result) + 1] = found
          /\ \A k \in 1..Len(result) : result'[k] = result[k]
      BY <2>2, <3>1
    <3>3. \A k \in 1..(Len(result) + 1) : k \in 1..Len(result) \/ k = Len(result) + 1
      BY <3>2
    <3>4. \A k \in 1..Len(result) : k \in 1..(Len(result) + 1)
      BY <3>2
    <3>5. Len(result) + 1 \in 1..(Len(result) + 1)
      BY <3>2
    <3>6. \A x : x \in InResult <=> \E k \in 1..Len(result) : x \in result[k]
      BY <3>2 DEF InResult, ToSet
    <3>7. \A x : x \in InResult' <=> \E k \in 1..(Len(result) + 1) : x \in result'[k]
      BY <3>2 DEF InResult, ToSet
    <3>8. InResult' = InResult \cup found
      BY <3>2, <3>3, <3>4, <3>5, <3>6, <3>7
    <3>9. InResult = UNION {result[k] : k \in 1..Len(result)}
      BY <3>6
    <3> QED BY <3>2, <3>8, <3>9
  <2>8. \A u \in found : u \in OnStack /\ u \in Nodes /\ u \in Reach[v] /\ v \in Reach[u]
    <3> SUFFICES ASSUME NEW u \in found PROVE u \in OnStack /\ u \in Nodes /\ u \in Reach[v] /\ v \in Reach[u]
      OBVIOUS
    <3>1. u \in Nodes /\ index[u] \in Nat /\ index[v] \in Nat
      BY <1>2, TInvFacts
    <3>2. n \in DOMAIN frames
      BY <1>1, TInvFacts
    <3>3. u \in Reach[v]
      BY <1>2, <3>2 DEF TInv, Joined
    <3>4. PICK j \in 1..n : InPart(j, u) /\ Node(j) \in Reach[u]
      BY <1>1, TInvFacts DEF TInv, Joined
    <3>5. j = n
      <4>1. ASSUME j < n PROVE FALSE
        <5>1. index[u] < index[Node(j + 1)] /\ j + 1 \in 1..n /\ j + 1 <= n
          BY <3>4, <4>1, <1>1 DEF InPart
        <5>2. index[Node(j + 1)] <= index[v] /\ index[Node(j + 1)] \in Nat
          BY <5>1, <1>1, <1>2, FramesRise, TInvFacts
        <5> QED BY <3>1, <5>1, <5>2
      <4> QED BY <4>1
    <3> QED BY <3>1, <3>3, <3>4, <3>5, <1>2
  \* No edge leaves what is found and what was found before.
  <2>9. \A u \in found : graph[u] \subseteq found \cup InResult
    <3> SUFFICES ASSUME NEW u \in found, NEW z \in graph[u], z \in OnStack PROVE z \in found
      <4>1. ASSUME NEW u \in found PROVE graph[u] \subseteq Visited
        <5>1. CASE u = v
          BY <5>1, <1>8
        <5>2. CASE u # v
          <6>1. \A i \in DOMAIN frames : u # Node(i)
            <7>1. \A i \in DOMAIN frames : i \in 1..(n - 1) \/ i = n
              BY <1>1, TInvFacts
            <7>2. \A i \in 1..(n - 1) : ~(index[v] <= index[Node(i)])
              BY <1>2, <1>10, TInvFacts
            <7> QED BY <7>1, <7>2, <5>2, <1>2
          <6> QED BY <6>1, TInvFacts DEF TInv, LookedAt
        <5> QED BY <5>1, <5>2
      <4> QED BY <4>1 DEF TInv, Stacked
    <3>1. index[z] \in Nat /\ index[u] \in Nat
      BY TInvFacts
    <3>2. CASE u = v
      BY <3>2, <1>8, <1>19
    <3>3. CASE u # v
      <4>1. InPart(n, u) /\ n \in DOMAIN frames
        BY <1>1, <1>2, TInvFacts DEF InPart
      <4>2. Known(n, index[z])
        BY <4>1, <3>3, <1>2 DEF TInv, Low
      <4> QED BY <3>1, <4>2, <1>8, <1>19
    <3> QED BY <3>2, <3>3
  <2>10. Separate'
    <3> DEFINE upto(m) == UNION {result[k] : k \in 1..m}
    <3>1. \A m \in 1..Len(result) : \A x \in upto(m) : x \in Nodes /\ graph[x] \subseteq upto(m)
      <4> SUFFICES ASSUME NEW m \in 1..Len(result), NEW k \in 1..m, NEW x \in result[k]
                   PROVE  x \in Nodes /\ graph[x] \subseteq upto(m)
        OBVIOUS
      <4>1. k \in DOMAIN result /\ 1..k \subseteq 1..m
        BY <2>7
      <4>2. graph[x] \subseteq upto(k)
        BY <4>1 DEF TInv, Separate
      <4>3. upto(k) \subseteq upto(m)
        BY <4>1
      <4>4. x \in Nodes
        BY <4>1, <2>2
      <4> QED BY <4>2, <4>3, <4>4
    <3>2. ASSUME NEW x \in found PROVE found = {y \in Reachable(x) : x \in Reachable(y)}
      <4>1. x \in Nodes
        BY <2>8
      <4>2. ASSUME NEW y \in found PROVE y \in Reach[x] /\ x \in Reach[y] /\ y \in Nodes
        BY <2>8, <1>2, ReachOn
      <4>3. ASSUME NEW y \in Reach[x], y \in Nodes, x \in Reach[y] PROVE y \in found
        <5>1. Reach[x] \subseteq found \cup InResult
          <6> DEFINE set == found \cup InResult
          <6>1. set \in SUBSET Nodes
            BY <2>8, TInvFacts, Counted DEF TInv, Stacked
          <6>2. \A z \in set : graph[z] \subseteq set
            <7>1. \A z \in InResult : graph[z] \subseteq InResult
              <8> TAKE z \in InResult
              <8>1. Len(result) \in 1..Len(result) /\ InResult = upto(Len(result))
                BY <2>7
              <8> QED BY <8>1, <3>1
            <7> QED BY <7>1, <2>9
          <6> HIDE DEF set
          <6>3. x \in set
            BY DEF set
          <6>4. Reach[x] \subseteq set
            BY <6>1, <6>2, <6>3, ReachClosed
          <6> QED BY <6>4 DEF set
        <5>2. ASSUME y \in InResult PROVE FALSE
          <6> DEFINE set == upto(Len(result))
          <6>1. set = InResult
            BY <2>7
          <6>2. Len(result) \in 1..Len(result)
            BY <2>7, <5>2
          <6>3. set \in SUBSET Nodes /\ \A z \in set : graph[z] \subseteq set
            BY <6>2, <3>1
          <6> HIDE DEF set
          <6>4. Reach[y] \subseteq set
            BY <6>1, <6>3, <5>2, ReachClosed
          <6>5. x \in InResult /\ x \in OnStack
            BY <4>3, <6>1, <6>4, <2>8
          <6> QED BY <6>5 DEF TInv, Stacked
        <5> QED BY <5>1, <5>2, <4>3
      <4>4. \A y \in Nodes : Reach[y] = Reachable(y) /\ Reachable(y) \subseteq Nodes
        BY DEF Reach, Reachable
      <4>5. \A y : y \in found <=> y \in Reachable(x) /\ x \in Reachable(y)
        BY <4>1, <4>2, <4>3, <4>4
      <4> HIDE DEF found
      <4> QED BY <4>5
    <3>3. ASSUME NEW k \in 1..(Len(result) + 1), NEW x \in result'[k]
          PROVE  /\ result'[k] = {y \in Reachable(x) : x \in Reachable(y)}
                 /\ graph[x] \subseteq UNION {result'[m] : m \in 1..k}
      <4>1. CASE k \in 1..Len(result)
        <5>1. k \in DOMAIN result /\ result'[k] = result[k] /\ \A m \in 1..k : result'[m] = result[m]
          BY <4>1, <2>7
        <5>2. /\ result[k] = {y \in Reachable(x) : x \in Reachable(y)}
              /\ graph[x] \subseteq UNION {result[m] : m \in 1..k}
          BY <3>3, <5>1 DEF TInv, Separate
        <5> QED BY <5>1, <5>2
      <4>2. CASE k = Len(result) + 1
        <5>1. result'[k] = found /\ x \in found
          BY <3>3, <4>2, <2>7
        <5>2. found = {y \in Reachable(x) : x \in Reachable(y)}
          BY <5>1, <3>2
        <5>3. graph[x] \subseteq found \cup InResult
          BY <5>1, <2>9
        <5> HIDE DEF found
        <5>4. \A z \in found \cup InResult : \E m \in 1..k : z \in result'[m]
          <6>1. \A m \in 1..Len(result) : m \in 1..k
            BY <4>2, <2>7
          <6>2. k \in 1..k
            BY <4>2, <2>7
          <6> QED BY <6>1, <6>2, <5>1, <2>7
        <5> QED BY <5>1, <5>2, <5>3, <5>4
      <4>3. k \in 1..Len(result) \/ k = Len(result) + 1
        BY <2>7
      <4> QED BY <4>1, <4>2, <4>3
    <3>4. \A x : Reachable(x)' = Reachable(x)
      BY <1>5 DEF Reachable
    <3> QED BY <3>3, <3>4, <1>5, <2>7 DEF Separate, Reachable
  <2>11. TarjanTyped' /\ Stacked'
    <3>1. TarjanTyped'
      BY <1>5, <1>6, <1>9, <1>11, <2>5, <2>7 DEF TInv, TarjanTyped
    <3>2. \A i, j \in DOMAIN stack' : i < j => index'[stack'[i]] < index'[stack'[j]]
      BY <1>5, <2>2, <2>5 DEF TInv, Stacked
    <3>3. Visited' = OnStack' \cup InResult'
      BY <1>6, <2>6, <2>7 DEF TInv, Stacked
    <3>4. OnStack' \cap InResult' = {}
      BY <2>6, <2>7 DEF TInv, Stacked
    <3> QED BY <3>1, <3>2, <3>3, <3>4 DEF Stacked
  <2>12. Framed'
    <3>1. ASSUME NEW i \in 1..(n - 1)
          PROVE  /\ frames'[i].node \in OnStack' /\ frames'[i].at \in 1..(Len(Sorted) + 1)
                 /\ frames'[i].back =>
                      /\ frames'[i].at <= Len(Sorted)
                      /\ Sorted[frames'[i].at] \in graph[frames'[i].node] \cap Visited
                      /\ index[frames'[i].node] < index[Sorted[frames'[i].at]]
                      /\ Sorted[frames'[i].at] \notin OnStack' =>
                           index[frames'[i].node] < lowlinks'[Sorted[frames'[i].at]]
                 /\ i < n - 1 => frames'[i].back /\ Sorted[frames'[i].at] = frames'[i + 1].node
      <4>1. /\ frames[i].at \in 1..(Len(Sorted) + 1) /\ frames[i].at <= Len(Sorted)
            /\ Child(i) \in graph[Node(i)] \cap Visited /\ index[Node(i)] < index[Child(i)]
        BY <1>10 DEF TInv, Framed
      <4>2. Node(i) \in OnStack'
        BY <1>10, <2>6
      <4>3. i < n - 1 => frames'[i + 1].node = Node(i + 1) /\ Child(i) \in OnStack'
        <5>1. i < n - 1 => i + 1 \in 1..(n - 1)
          OBVIOUS
        <5> QED BY <5>1, <1>10, <2>6
      <4>4. i = n - 1 => index[Node(i)] < lowlinks'[Child(i)]
        BY <1>2, <1>10, <1>11, <1>19
      <4>5. i < n - 1 \/ i = n - 1
        OBVIOUS
      <4> QED BY <4>1, <4>2, <4>3, <4>4, <4>5, <1>9, <1>10
    <3>2. ASSUME NEW i \in 1..(n - 1), NEW j \in 1..(n - 1), i < j
          PROVE  index[frames'[i].node] < index[frames'[j].node]
      BY <3>2, <1>1, <1>10, FramesRise
    <3> QED BY <3>1, <3>2, <1>5, <1>6, <1>9 DEF Framed, Node, Child
  <2>13. \A i \in 1..(n - 1) : i < n - 1 => frames'[i + 1].node = Node(i + 1)
    <3>1. \A i \in 1..(n - 1) : i < n - 1 => i + 1 \in 1..(n - 1)
      OBVIOUS
    <3> QED BY <3>1, <1>10
  <2>14. Joined'
    <3>1. ASSUME NEW u \in OnStack'
          PROVE  /\ \A i \in 1..(n - 1) : index[Node(i)] <= index[u] => u \in Reach[Node(i)]
                 /\ \E i \in 1..(n - 1) :
                      /\ index[Node(i)] <= index[u]
                      /\ i < n - 1 => index[u] < index[Node(i + 1)]
                      /\ Node(i) \in Reach[u]
      <4>1. u \in OnStack /\ index[u] < index[v] /\ index[u] \in Nat /\ index[v] \in Nat
        BY <2>6, <1>2, TInvFacts
      <4>2. \A i \in 1..(n - 1) : index[Node(i)] <= index[u] => u \in Reach[Node(i)]
        BY <4>1, <1>10 DEF TInv, Joined
      <4>3. PICK j \in 1..n : InPart(j, u) /\ Node(j) \in Reach[u]
        BY <4>1, <1>1, TInvFacts DEF TInv, Joined
      <4>4. j # n
        BY <4>1, <4>3, <1>2 DEF InPart
      <4>5. j \in 1..(n - 1) /\ index[Node(j)] <= index[u] /\ (j < n - 1 => index[u] < index[Node(j + 1)])
        BY <4>3, <4>4, <1>1 DEF InPart
      <4> QED BY <4>2, <4>3, <4>5
    <3>2. \A i \in 1..(n - 1) : Node(i)' = Node(i)
      BY <1>10 DEF Node
    <3>3. \A i \in 1..(n - 1) : \A u \in OnStack' :
            InPart(i, u)' <=> index[Node(i)] <= index[u] /\ (i < n - 1 => index[u] < index[Node(i + 1)])
      BY <2>13, <3>2, <1>5, <1>9 DEF InPart, Node
    <3> QED BY <3>1, <3>2, <3>3, <1>5, <1>9, <1>12 DEF Joined
  <2>15. Low'
    <3>1. ASSUME NEW x \in OnStack'
          PROVE  lowlinks'[x] <= index[x] /\ \E z \in OnStack' : index[z] = lowlinks'[x] /\ z \in Reach[x]
      <4>1. x \in OnStack /\ index[x] < index[v] /\ x # v
        BY <2>6, <1>2, TInvFacts
      <4>2. lowlinks'[x] = lowlinks[x]
        BY <4>1, <1>11, TInvFacts
      <4>3. PICK z \in OnStack : index[z] = lowlinks[x] /\ z \in Reach[x] /\ lowlinks[x] <= index[x]
        BY <4>1 DEF TInv, Low
      <4>4. index[z] < index[v]
        BY <4>1, <4>3, <1>2, TInvFacts
      <4> QED BY <4>2, <4>3, <4>4, <2>6
    <3>2. \A i \in 1..(n - 1) : \A u \in OnStack' : InPart(i, u)' /\ u # Node(i)' =>
            \A z \in graph[u] \cap OnStack' : Known(i, index[z])'
      <4> SUFFICES ASSUME NEW i \in 1..(n - 1), NEW u \in OnStack', InPart(i, u)', u # Node(i)',
                          NEW z \in graph[u] \cap OnStack'
                   PROVE  \/ lowlinks'[frames'[i].node] <= index[z]
                          \/ frames'[i].back /\ lowlinks'[Sorted[frames'[i].at]] <= index[z]
        BY <1>5 DEF Known, Node, Child
      <4>1. u # Node(i) /\ index[Node(i)] <= index[u] /\ u \in OnStack /\ z \in graph[u] \cap OnStack
        BY <1>5, <1>10, <2>6 DEF InPart, Node
      <4>2. i < n - 1 => index[u] < index[Node(i + 1)]
        <5>1. i < n - 1 => index[u] < index[frames'[i + 1].node]
          BY <1>5, <1>9 DEF InPart, Node
        <5> QED BY <5>1, <2>13
      <4> QED BY <4>1, <4>2, <1>16
    <3>3. \A i \in 1..(n - 1) : \A z \in Neighbors(Node(i), 1, frames[i].at)' \cap OnStack' : Known(i, index[z])'
      BY <1>5, <1>17, <2>6 DEF Known, Node, Child, Neighbors
    <3> QED BY <3>1, <3>2, <3>3, <1>5, <1>9, <1>12 DEF Low
  <2> QED BY <1>14, <2>10, <2>11, <2>12, <2>14, <2>15 DEF TInv
<1> QED BY <1>18, <1>19

LEMMA TarjanBegins == ASSUME Begun, graph \in [Nodes -> SUBSET Nodes] PROVE TInv
<1>1. /\ index = [n \in Nodes |-> None] /\ lowlinks = index
      /\ stack = <<>> /\ frames = <<>> /\ result = <<>>
  BY DEF Begun
<1>2. Visited = {} /\ OnStack = {} /\ InResult = {}
  BY <1>1 DEF Visited, OnStack, InResult, ToSet
<1> QED BY <1>1, <1>2 DEF TInv, TarjanTyped, Stacked, Framed, Joined, LookedAt, Low, Separate

LEMMA TarjanKeeps == ASSUME TInv, FindNext \/ UNCHANGED <<tarjan, graph>> PROVE TInv'
<1>1. CASE FindNext
  BY <1>1, StartKeeps, DownKeeps, EndsKeeps DEF FindNext
<1>2. CASE UNCHANGED <<tarjan, graph>>
  <2>1. UNCHANGED <<graph, index, lowlinks, stack, frames, result>>
    BY <1>2 DEF tarjan
  <2>2. Visited' = Visited /\ OnStack' = OnStack /\ InResult' = InResult /\ Reach' = Reach
    BY <2>1, SameReach DEF Visited, OnStack, InResult
  <2>3. TarjanTyped' /\ Stacked'
    BY <2>1, <2>2 DEF TInv, TarjanTyped, Stacked
  <2>4. Framed' /\ Joined'
    BY <2>1, <2>2 DEF TInv, Framed, Joined, InPart, Node, Child
  <2>5. LookedAt' = LookedAt
    BY <2>1, <2>2 DEF LookedAt, Node, Neighbors, From
  <2>6. Low' = Low
    BY <2>1, <2>2 DEF Low, InPart, Known, Node, Child, Neighbors
  <2>7. Separate'
    BY <2>1 DEF TInv, Separate, Reachable
  <2> QED BY <2>3, <2>4, <2>5, <2>6, <2>7 DEF TInv
<1> QED BY <1>1, <1>2

LEMMA TarjanFinds == TInv => ComponentsFound
<1> SUFFICES ASSUME TInv PROVE ComponentsFound
  OBVIOUS
<1>1. Found => InResult = Nodes
  <2> SUFFICES ASSUME Found PROVE InResult = Nodes
    OBVIOUS
  <2>1. OnStack = {}
    BY DEF TInv, Joined, Found
  <2> QED BY <2>1 DEF TInv, Stacked, Found
<1> QED BY <1>1 DEF TInv, Separate, ComponentsFound, InResult

-----------------------------------------------------------------------------
(* The walk. *)

USE DEF Modules

Deeds == [does: {"import", "bind", "read"}, target: Modules, of: Modules]
Calls == [does: {"import", "run"}, of: Modules, left: SUBSET Deeds]

Parts(m) == ToSet(Above[m]) \cup {m}

\* What running a module does, as a function of it.
Bodies == [m \in Modules |-> Body(m)]

\* The modules that began to run.
Started == RunningNow \cup done

\* Module p is led to: by a part of the entry, and by all that runs below place n of the walk.
Led(n, p) ==
  /\ \E part \in Parts(entry) : p \in Reach[part]
  /\ \A k \in 1..(n - 1) : walk[k].does = "run" => p \in Reach[walk[k].of]

\* What runs is led to, and what is imported has begun to run or is.
Placed(n) ==
  IF walk[n].does = "run" THEN Led(n, walk[n].of)
  ELSE \A p \in Parts(walk[n].of) : p \in Started \/ Led(n, p)

\* What a running module imported has begun to run, unless it is just imported.
Imports(n) ==
  walk[n].does = "run" =>
    /\ walk[n].left \subseteq Bodies[walk[n].of]
    /\ \A deed \in Bodies[walk[n].of] \ walk[n].left :
         deed.does = "import" =>
           \/ deed.of \in Started
           \/ n < Len(walk) /\ walk[n + 1].does = "import" /\ walk[n + 1].of = deed.of

\* A read failed between modules that lead to one another, and that the entry leads to.
Failed ==
  /\ Found /\ entry \in Modules
  /\ \E x, y \in Modules :
       /\ failure = <<x, y>> /\ x # y /\ y \in Reach[x] /\ x \in Reach[y]
       /\ \E part \in Parts(entry) : x \in Reach[part]

Planned ==
  /\ \A m \in Modules : lines[m] \subseteq Lines(m) /\ reads[m] \subseteq Imported(m, "module")
  /\ graph = ImportGraph

IInv ==
  /\ Planned
  /\ walk \in Seq(Calls) /\ done \subseteq Modules
  /\ walk # <<>> => Found /\ entry \in Modules
  /\ \A m \in Started : ToSet(Above[m]) \subseteq Started
  /\ \A n \in 1..Len(walk) : Placed(n) /\ Imports(n)
  /\ failure # <<>> => Failed
-----------------------------------------------------------------------------
(* The plan. *)

LEMMA Ancestors ==
  ASSUME NEW m \in Modules
  PROVE  /\ Above[m] \in Seq(Modules) /\ ToSet(Above[m]) \subseteq Modules
         /\ Parts(m) \subseteq Modules /\ m \in Parts(m)
BY ImportsAssumption DEF Modules, ToSet, Parts

\* The packages above a package above a module are above the module.
LEMMA AboveAbove ==
  ASSUME NEW m \in Modules, NEW n \in DOMAIN Above[m]
  PROVE  /\ Above[m][n] \in Modules
         /\ \A q \in ToSet(Above[Above[m][n]]) : \E k \in 1..(n - 1) : q = Above[m][k]
<1>1. Above[m] \in Seq(Modules) /\ n \in 1..Len(Above[m])
  BY Ancestors
<1>2. Above[Above[m][n]] = SubSeq(Above[m], 1, n - 1)
  BY ImportsAssumption DEF Modules
<1> QED BY <1>1, <1>2 DEF ToSet

LEMMA LinesTyped ==
  ASSUME NEW m \in Modules, NEW line \in Lines(m)
  PROVE  /\ line.target \in Modules /\ line.of \in Modules \ {m} /\ line.kind \in {"class", "module"}
         /\ line.kind = "class" => line.target # m
<1>1. CASE \E t \in Modules \ {m}, c \in Modules \ {m} : line = Line(t, "class", c)
  BY <1>1 DEF Line
<1>2. CASE \E s \in {n \in Modules \ {m} : Above[n] # <<>>} : line = Line(Last(Above[s]), "module", s)
  <2>1. PICK s \in Modules \ {m} : Above[s] # <<>> /\ line = Line(Last(Above[s]), "module", s)
    BY <1>2
  <2>2. Last(Above[s]) \in Modules
    BY <2>1, Ancestors DEF Last
  <2> QED BY <2>1, <2>2 DEF Line
<1> QED BY <1>1, <1>2 DEF Lines

LEMMA BodyTyped ==
  ASSUME Planned, NEW m \in Modules
  PROVE  Body(m) \subseteq Deeds
<1>1. \A t \in Targets(m) : t \in Modules
  BY LinesTyped DEF Planned, Targets
<1>2. \A line \in lines[m] : line.target \in Modules /\ line.of \in Modules
  BY LinesTyped DEF Planned
<1>3. \A s \in reads[m] : s \in Modules
  BY <1>2 DEF Planned, Imported
<1> QED BY <1>1, <1>2, <1>3 DEF Body, Deed, Deeds

\* What a module imports is an edge of the graph, itself, or above it; so are the packages above that.
LEMMA ImportLeads ==
  ASSUME Planned, NEW m \in Modules, NEW deed \in Body(m), deed.does = "import"
  PROVE  \/ deed.of \in ToSet(Above[m])
         \/ \A p \in Parts(deed.of) : p = m \/ p \in ToSet(Above[m]) \/ p \in graph[m]
<1>1. deed.of \in Targets(m) \/ deed.of \in Imported(m, "module")
  BY DEF Body, Deed, Imported
<1>2. deed.of \in Modules
  BY BodyTyped DEF Deeds
<1>3. CASE deed.of \in OfLines(m)
  <2> SUFFICES ASSUME NEW p \in Parts(deed.of), p # m, p \notin ToSet(Above[m])
               PROVE  p \in graph[m]
    OBVIOUS
  <2>1. p \in Modules /\ (p \in OfLines(m) \/ \E n \in OfLines(m) : p \in ToSet(Above[n]))
    BY <1>2, <1>3, Ancestors DEF Parts
  <2> QED BY <2>1 DEF Planned, ImportGraph, Edges, IsAbove
<1>4. CASE deed.of \notin OfLines(m)
  BY <1>1, <1>4 DEF OfLines, IsAbove
<1> QED BY <1>3, <1>4

\* A class is bound or read of another module, along an edge, after that module was imported.
LEMMA NameLeads ==
  ASSUME Planned, NEW m \in Modules, NEW deed \in Body(m), deed.does \in {"bind", "read"}
  PROVE  /\ deed.target \in Modules \ {m} /\ deed.target \in graph[m]
         /\ \E other \in Body(m) : other.does = "import" /\ other.of = deed.target
                                   /\ Before(m, other, deed)
<1>1. CASE \E line \in lines[m] : line.kind = "class" /\ deed = Deed("bind", line.target, line.of)
  <2>1. PICK line \in lines[m] : line.kind = "class" /\ deed = Deed("bind", line.target, line.of)
    BY <1>1
  <2>2. line.target \in Modules \ {m} /\ line.target \in Targets(m)
    BY <2>1, LinesTyped DEF Planned, Targets
  <2>3. deed.target = line.target /\ deed.does = "bind"
    BY <2>1 DEF Deed
  <2>4. line.target \in graph[m]
    BY <2>1, <2>2 DEF Planned, ImportGraph, Edges, OfLines
  <2> DEFINE other == Deed("import", line.target, line.target)
  <2>5. other \in Body(m) /\ other.does = "import" /\ other.of = line.target /\ other.target = line.target
    BY <2>2 DEF Body, Deed
  <2>6. Before(m, other, deed)
    BY <2>3, <2>5 DEF Before, Opens
  <2> QED BY <2>2, <2>3, <2>4, <2>5, <2>6
<1>2. CASE \E s \in reads[m] : deed = Deed("read", s, s)
  <2>1. PICK s \in reads[m] : deed = Deed("read", s, s)
    BY <1>2
  <2>2. PICK line \in lines[m] : line.kind = "module" /\ line.of = s
    BY <2>1 DEF Planned, Imported
  <2>3. s \in Modules \ {m} /\ s \in OfLines(m)
    BY <2>2, LinesTyped DEF Planned, OfLines, Imported
  <2>4. s \in graph[m]
    BY <2>3 DEF Planned, ImportGraph, Edges
  <2> DEFINE other == Deed("import", line.target, s)
  <2>5. other \in Body(m) /\ other.does = "import" /\ other.of = s
    BY <2>2 DEF Body, Deed
  <2>6. Before(m, other, deed)
    BY <2>1, <2>5 DEF Before, Deed
  <2> QED BY <2>1, <2>3, <2>4, <2>5, <2>6 DEF Deed
<1> QED BY <1>1, <1>2 DEF Body, Deed

-----------------------------------------------------------------------------
(* Steps of the walk. *)

LEMMA AtInit == ASSUME Init PROVE IInv
<1>1. \A m \in Modules : lines[m] \subseteq Lines(m)
  <2>1. PICK s \in [1..MaxLines -> UNION {{m} \X Lines(m) : m \in Modules}] :
          lines = [m \in Modules |-> {pair[2] : pair \in {q \in ToSet(s) : q[1] = m}}]
    BY DEF Init, Plans
  <2>2. \A q \in ToSet(s) : q \in UNION {{m} \X Lines(m) : m \in Modules}
    BY <2>1 DEF ToSet
  <2>3. \A q \in ToSet(s) : q[2] \in Lines(q[1])
    BY <2>2
  <2> QED BY <2>1, <2>3
<1>2. \A m \in Modules : reads[m] \subseteq Imported(m, "module")
  <2>1. PICK set \in SUBSET UNION {{m} \X Imported(m, "module") : m \in Modules} :
          reads = [m \in Modules |-> {n \in Modules : <<m, n>> \in set}]
    BY DEF Init
  <2>2. \A m, n : <<m, n>> \in set => n \in Imported(m, "module")
    BY <2>1
  <2> QED BY <2>1, <2>2
<1>3. Planned
  BY <1>1, <1>2 DEF Init, Planned
<1>4. walk = <<>> /\ done = {} /\ failure = <<>> /\ Started = {}
  BY DEF Init, Started, RunningNow
<1> QED BY <1>3, <1>4 DEF IInv

LEMMA Unsearched == ASSUME Found PROVE ~FindNext
BY DEF Found, FindNext, Start, Down, Ends, Visited, Nodes, ToSet

\* What is said of the plan and of the graph is said of them as long as they stay.
LEMMA Kept ==
  ASSUME UNCHANGED <<lines, reads, graph>>
  PROVE  /\ Planned' = Planned
         /\ Reach' = Reach /\ Bodies' = Bodies
<1>1. \A m : Imported(m, "module")' = Imported(m, "module")
  BY DEF Imported
<1>2. \A m : Targets(m)' = Targets(m)
  BY DEF Targets
<1>3. \A m : OfLines(m)' = OfLines(m)
  BY <1>1, <1>2 DEF OfLines
<1>4. ImportGraph' = ImportGraph
  BY <1>3 DEF ImportGraph, Edges
<1>5. Reach' = Reach
  BY DEF Reach, Reachable
<1>6. Bodies' = Bodies
  <2>1. \A m : Body(m)' = Body(m)
    BY <1>2 DEF Body
  <2> QED BY <2>1 DEF Bodies
<1> QED BY <1>1, <1>4, <1>5, <1>6 DEF Planned

LEMMA FindKeeps == ASSUME IInv, Find PROVE IInv'
<1>1. ~Found /\ walk = <<>> /\ failure = <<>>
  BY Unsearched DEF Find, IInv, Failed
<1>2. UNCHANGED <<lines, reads, graph, walk, done, failure>>
  BY DEF Find, FindNext, Start, Down, Ends, plan, run
<1>3. Started' = Started
  BY <1>2 DEF Started, RunningNow
<1> QED BY <1>1, <1>2, <1>3, Kept DEF IInv

\* The walk's frames as they are pushed and popped.
LEMMA Popped ==
  ASSUME walk \in Seq(Calls), walk # <<>>
  PROVE  /\ Front(walk) \in Seq(Calls) /\ Len(Front(walk)) = Len(walk) - 1 /\ Len(walk) \in Nat \ {0}
         /\ \A k \in 1..(Len(walk) - 1) : Front(walk)[k] = walk[k]
         /\ Last(walk) = walk[Len(walk)] /\ Last(walk) \in Calls
<1>1. Len(walk) \in Nat \ {0} /\ Len(walk) - 1 \in Nat
  OBVIOUS
<1>2. Front(walk) = SubSeq(walk, 1, Len(walk) - 1)
  BY DEF Front
<1>3. Last(walk) = walk[Len(walk)] /\ walk[Len(walk)] \in Calls
  BY <1>1 DEF Last
<1>4. Front(walk) \in Seq(Calls) /\ Len(Front(walk)) = Len(walk) - 1
  <2>1. 1..(Len(walk) - 1) \subseteq 1..Len(walk) /\ (Len(walk) - 1) - 1 + 1 = Len(walk) - 1
    BY <1>1
  <2> QED BY <1>1, <1>2, <2>1, SubSeqProperties
<1>5. \A k \in 1..(Len(walk) - 1) : Front(walk)[k] = walk[k]
  BY <1>1, <1>2
<1> QED BY <1>1, <1>3, <1>4, <1>5

LEMMA RunningAt ==
  ASSUME walk \in Seq(Calls)
  PROVE  /\ \A n \in 1..Len(walk) : walk[n].does = "run" => walk[n].of \in Started
         /\ \A m \in Started \ done : \E n \in 1..Len(walk) : walk[n].does = "run" /\ walk[n].of = m
BY DEF Started, RunningNow

\* A frame below which nothing moves is placed as it was.
LEMMA PlacedStill ==
  ASSUME UNCHANGED <<lines, reads, graph, entry>>, Started \subseteq Started',
         NEW n \in Nat \ {0}, Placed(n),
         \A k \in 1..n : walk'[k].does = walk[k].does /\ walk'[k].of = walk[k].of
  PROVE  Placed(n)'
<1>1. \A p : Led(n, p) => Led(n, p)'
  BY Kept DEF Led, Parts
<1>2. walk'[n].does = walk[n].does /\ walk'[n].of = walk[n].of
  OBVIOUS
<1> QED BY <1>1, <1>2 DEF Placed, Parts

\* So is what it imported, if the frame above it stays, or what that imported began to run.
LEMMA ImportsStill ==
  ASSUME UNCHANGED <<lines, reads, graph>>, Started \subseteq Started',
         NEW n \in Nat \ {0}, Imports(n), walk'[n] = walk[n],
         n < Len(walk) => \/ walk[n + 1].of \in Started'
                          \/ n < Len(walk') /\ walk'[n + 1].does = walk[n + 1].does
                                            /\ walk'[n + 1].of = walk[n + 1].of
  PROVE  Imports(n)'
<1>1. Bodies' = Bodies
  BY Kept
<1>2. walk[n].does = "run" =>
        /\ walk[n].left \subseteq Bodies[walk[n].of]
        /\ \A deed \in Bodies[walk[n].of] \ walk[n].left :
             deed.does = "import" =>
               \/ deed.of \in Started
               \/ n < Len(walk) /\ walk[n + 1].does = "import" /\ walk[n + 1].of = deed.of
  BY DEF Imports
<1>3. walk'[n].does = "run" =>
        /\ walk'[n].left \subseteq Bodies'[walk'[n].of]
        /\ \A deed \in Bodies'[walk'[n].of] \ walk'[n].left :
             deed.does = "import" =>
               \/ deed.of \in Started'
               \/ n < Len(walk') /\ walk'[n + 1].does = "import" /\ walk'[n + 1].of = deed.of
  <2> SUFFICES ASSUME walk[n].does = "run", NEW deed \in Bodies[walk[n].of] \ walk[n].left,
                      deed.does = "import"
               PROVE  \/ deed.of \in Started'
                      \/ n < Len(walk') /\ walk'[n + 1].does = "import" /\ walk'[n + 1].of = deed.of
    BY <1>1, <1>2
  <2>1. CASE deed.of \in Started
    BY <2>1
  <2>2. CASE n < Len(walk) /\ walk[n + 1].does = "import" /\ walk[n + 1].of = deed.of
    BY <2>2
  <2> QED BY <1>2, <2>1, <2>2
<1> QED BY <1>3 DEF Imports

LEMMA EnterKeeps == ASSUME IInv, Enter PROVE IInv'
<1>1. PICK m \in Modules : entry' = m /\ walk' = <<Importing(m)>>
  BY DEF Enter
<1>2. UNCHANGED <<lines, reads, graph, done, failure, index, frames>> /\ Found
  BY DEF Enter, plan, tarjan
<1>3. walk' \in Seq(Calls) /\ Len(walk') = 1 /\ walk'[1] = Importing(m)
  BY <1>1 DEF Calls, Importing
<1>4. walk = <<>> /\ failure = <<>>
  BY ComponentsAssumption DEF Enter, IInv, Failed, Modules
<1>5. Started' = Started
  BY <1>1, <1>2, <1>4 DEF Started, RunningNow, Importing
<1>6. Placed(1)'
  <2>1. \A p \in Parts(m) : p \in Modules /\ p \in Reach'[p]
    BY Ancestors, ReachSelf, <1>2, Kept
  <2> QED BY <1>1, <1>3, <2>1 DEF Placed, Led, Importing, Parts
<1>7. Imports(1)'
  BY <1>3 DEF Imports, Importing
<1>8. Planned' /\ Found'
  BY <1>2, Kept DEF IInv, Found, Visited
<1> QED BY <1>1, <1>2, <1>3, <1>4, <1>5, <1>6, <1>7, <1>8 DEF IInv

LEMMA ImportKeeps == ASSUME IInv, Import PROVE IInv'
<1> DEFINE top == Len(walk)
           x   == Last(walk).of
           parts == Append(Above[x], x)
           new == {n \in DOMAIN parts : parts[n] \notin Started}
<1>1. /\ walk \in Seq(Calls) /\ walk # <<>> /\ failure = <<>> /\ Last(walk).does = "import"
      /\ Found /\ entry \in Modules /\ done \subseteq Modules
  BY DEF IInv, Import, Top
<1>2. UNCHANGED <<lines, reads, graph, entry, done, failure, index, frames>>
  BY DEF Import, plan, tarjan
<1>3. Planned' /\ Found' /\ (failure' = <<>>) /\ entry' \in Modules /\ done' \subseteq Modules
  BY <1>1, <1>2, Kept DEF IInv, Found, Visited
<1>4. x \in Modules /\ top \in Nat \ {0} /\ walk[top] = Last(walk)
  BY <1>1, Popped DEF Calls
<1>5. /\ Above[x] \in Seq(Modules) /\ parts \in Seq(Modules) /\ Len(parts) = Len(Above[x]) + 1
      /\ \A k \in 1..Len(Above[x]) : parts[k] = Above[x][k]
      /\ parts[Len(parts)] = x
  BY <1>4, Ancestors
<1>6. \A p \in Parts(x) : \E k \in DOMAIN parts : parts[k] = p
  BY <1>5 DEF Parts, ToSet
<1>7. CASE new = {} /\ walk' = Front(walk)
  <2>1. /\ walk' \in Seq(Calls) /\ Len(walk') = top - 1
        /\ \A k \in 1..(top - 1) : walk'[k] = walk[k]
    BY <1>1, <1>7, Popped
  <2>2. Started' = Started
    <3>1. RunningNow' = RunningNow
      BY <1>1, <1>4, <2>1 DEF RunningNow
    <3> QED BY <3>1, <1>2 DEF Started
  <2>3. x \in Started
    BY <1>4, <1>6, <1>7, Ancestors
  <2>4. ASSUME NEW n \in 1..Len(walk') PROVE Placed(n)' /\ Imports(n)'
    <3>1. n \in Nat \ {0} /\ n \in 1..top /\ n < top /\ Placed(n) /\ Imports(n)
      BY <1>4, <2>1 DEF IInv
    <3>2. Placed(n)'
      BY <3>1, <1>2, <2>1, <2>2, PlacedStill
    <3>3. n = top - 1 \/ n + 1 \in 1..(top - 1)
      BY <3>1, <1>4
    <3>4. Imports(n)'
      BY <3>1, <3>3, <1>2, <1>4, <2>1, <2>2, <2>3, ImportsStill
    <3> QED BY <3>2, <3>4
  <2>5. \A m \in Started' : ToSet(Above[m]) \subseteq Started'
    BY <2>2 DEF IInv
  <2> QED BY <1>1, <1>3, <2>1, <2>4, <2>5 DEF IInv
<1>8. CASE \E n \in new : (\A k \in new : n <= k) /\ walk' = Append(walk, Running(parts[n]))
  <2>1. PICK n \in new : (\A k \in new : n <= k) /\ walk' = Append(walk, Running(parts[n]))
    BY <1>8
  <2>2. PICK p \in Modules : p = parts[n]
    BY <1>5, <2>1
  <2>9. p \in Parts(x) /\ p \notin Started /\ walk' = Append(walk, Running(p))
    BY <1>5, <2>1, <2>2 DEF Parts, ToSet
  <2>3. Running(p) \in Calls /\ Running(p).does = "run" /\ Running(p).of = p /\ Running(p).left = Body(p)
    BY BodyTyped DEF Calls, Running, IInv
  <2>4. /\ walk' \in Seq(Calls) /\ Len(walk') = top + 1 /\ walk'[top + 1] = Running(p)
        /\ \A k \in 1..top : walk'[k] = walk[k]
    BY <1>1, <2>9, <2>3
  <2>5. Started' = Started \cup {p}
    <3>1. RunningNow' = RunningNow \cup {p}
      BY <1>1, <1>4, <2>3, <2>4 DEF RunningNow
    <3> QED BY <3>1, <1>2 DEF Started
  <2>6. ToSet(Above[p]) \subseteq Started
    <3>1. ASSUME NEW k \in 1..(n - 1) PROVE parts[k] \in Started
      <4>1. n \in 1..Len(parts) /\ DOMAIN parts = 1..Len(parts) /\ Len(parts) \in Nat
        BY <1>5, <2>1
      <4>2. k \in DOMAIN parts /\ ~(n <= k)
        BY <4>1
      <4> QED BY <2>1, <4>2
    <3>2. \A q \in ToSet(Above[p]) : \E k \in 1..(n - 1) : q = parts[k]
      <4>1. CASE n \in 1..Len(Above[x])
        <5>1. p = Above[x][n]
          BY <1>5, <2>2, <4>1
        <5>2. n \in DOMAIN Above[x]
          BY <1>5, <4>1
        <5>3. \A q \in ToSet(Above[Above[x][n]]) : \E k \in 1..(n - 1) : q = Above[x][k]
          BY <1>4, <5>2, AboveAbove
        <5>4. \A k \in 1..(n - 1) : parts[k] = Above[x][k]
          BY <1>5, <4>1
        <5> QED BY <5>1, <5>3, <5>4
      <4>2. CASE n = Len(Above[x]) + 1
        <5>1. p = x /\ n - 1 = Len(Above[x])
          BY <1>5, <2>2, <4>2
        <5>2. \A q \in ToSet(Above[x]) : \E k \in 1..Len(Above[x]) : q = Above[x][k]
          BY <1>5 DEF ToSet
        <5> QED BY <1>5, <5>1, <5>2
      <4>3. n \in 1..(Len(Above[x]) + 1)
        BY <1>5, <2>1
      <4> QED BY <1>5, <4>1, <4>2, <4>3
    <3> QED BY <3>1, <3>2
  <2>7. ASSUME NEW k \in 1..Len(walk') PROVE Placed(k)' /\ Imports(k)'
    <3>1. CASE k \in 1..top
      <4>1. k \in Nat \ {0} /\ Placed(k) /\ Imports(k)
        BY <3>1 DEF IInv
      <4>2. Placed(k)'
        BY <3>1, <4>1, <1>2, <2>4, <2>5, PlacedStill
      <4>3. k < top => k + 1 \in 1..top
        BY <3>1, <1>4
      <4>4. Imports(k)'
        BY <3>1, <4>1, <4>3, <1>2, <1>4, <2>4, <2>5, ImportsStill
      <4> QED BY <4>2, <4>4
    <3>2. CASE k = top + 1
      <4>1. Placed(top) /\ walk[top].does = "import" /\ walk[top].of = x
        BY <1>1, <1>4 DEF IInv
      <4>2. Led(top, p)
        BY <2>9, <4>1 DEF Placed
      <4>3. Led(k, p)'
        <5>1. \E part \in Parts(entry) : p \in Reach'[part]
          BY <4>2, <1>2, Kept DEF Led
        <5>2. ASSUME NEW j \in 1..top, walk'[j].does = "run" PROVE p \in Reach'[walk'[j].of]
          <6>1. walk'[j] = walk[j] /\ j # top
            BY <5>2, <2>4, <4>1
          <6>2. j \in 1..(top - 1)
            BY <6>1, <1>4
          <6>3. p \in Reach[walk[j].of]
            BY <5>2, <6>1, <6>2, <4>2 DEF Led
          <6> QED BY <6>1, <6>3, <1>2, Kept
        <5>3. k - 1 = top
          BY <1>4, <3>2
        <5> QED BY <5>1, <5>2, <5>3, <1>2 DEF Led, Parts
      <4>4. Placed(k)'
        <5>1. walk'[k].does = "run" /\ walk'[k].of = p
          BY <3>2, <2>3, <2>4
        <5> QED BY <5>1, <4>3 DEF Placed, Led
      <4>5. Imports(k)'
        BY <3>2, <2>3, <2>4, <1>2, Kept DEF Imports, Bodies
      <4> QED BY <4>4, <4>5
    <3> QED BY <3>1, <3>2, <2>4, <1>4
  <2>8. \A m \in Started' : ToSet(Above[m]) \subseteq Started'
    BY <2>5, <2>6 DEF IInv
  <2> QED BY <1>1, <1>3, <2>4, <2>7, <2>8 DEF IInv
<1> QED BY <1>7, <1>8 DEF Import, Started

\* A deed that is behind changes nothing but what is left of the frame on top.
LEMMA PastIs ==
  ASSUME walk \in Seq(Calls), walk # <<>>, NEW deed
  PROVE  /\ Past(deed) \in Seq(Calls) /\ Len(Past(deed)) = Len(walk)
         /\ \A k \in 1..(Len(walk) - 1) : Past(deed)[k] = walk[k]
         /\ Past(deed)[Len(walk)].left = Last(walk).left \ {deed}
         /\ \A k \in 1..Len(walk) :
              Past(deed)[k].does = walk[k].does /\ Past(deed)[k].of = walk[k].of
<1> DEFINE below == Front(walk)
           frame == [Last(walk) EXCEPT !.left = @ \ {deed}]
<1>1. /\ below \in Seq(Calls) /\ Len(below) = Len(walk) - 1 /\ Len(walk) \in Nat \ {0}
      /\ \A k \in 1..(Len(walk) - 1) : below[k] = walk[k]
      /\ Last(walk) = walk[Len(walk)] /\ Last(walk) \in Calls
  BY Popped
<1>2. /\ frame \in Calls /\ frame.left = Last(walk).left \ {deed}
      /\ frame.does = Last(walk).does /\ frame.of = Last(walk).of
  BY <1>1 DEF Calls
<1>3. Past(deed) = Append(below, frame)
  BY DEF Past
<1> HIDE DEF below, frame
<1>4. /\ Past(deed) \in Seq(Calls) /\ Len(Past(deed)) = Len(walk)
      /\ \A k \in 1..(Len(walk) - 1) : Past(deed)[k] = walk[k]
      /\ Past(deed)[Len(walk)] = frame
  BY <1>1, <1>2, <1>3
<1>5. \A k \in 1..Len(walk) : k = Len(walk) \/ k \in 1..(Len(walk) - 1)
  BY <1>1
<1> QED BY <1>1, <1>2, <1>4, <1>5

LEMMA RunImportKeeps == ASSUME IInv, RunImport PROVE IInv'
<1>1. /\ walk \in Seq(Calls) /\ walk # <<>> /\ failure = <<>> /\ Last(walk).does = "run"
      /\ Found /\ entry \in Modules /\ done \subseteq Modules /\ Planned
  BY DEF IInv, RunImport, Top
<1>2. UNCHANGED <<lines, reads, graph, entry, done, failure, index, frames>>
  BY DEF RunImport, plan, tarjan
<1>3. Planned' /\ Found' /\ (failure' = <<>>) /\ entry' \in Modules /\ done' \subseteq Modules
  BY <1>1, <1>2, Kept DEF Found, Visited
<1>a. PICK top \in Nat \ {0} : top = Len(walk)
  BY <1>1, Popped
<1>4. Len(walk) = top /\ walk[top] = Last(walk) /\ walk[top] \in Calls
  BY <1>a, <1>1, Popped
<1>5. PICK m \in Modules : m = walk[top].of
  BY <1>4 DEF Calls
<1>6. PICK deed \in walk[top].left :
        deed.does = "import" /\ walk' = Append(Past(deed), Importing(deed.of))
  BY <1>4 DEF RunImport
<1>7. deed \in Deeds /\ deed.of \in Modules
  BY <1>4, <1>6 DEF Calls, Deeds
<1>8. PICK o \in Modules : o = deed.of
  BY <1>7
<1>9. /\ walk' \in Seq(Calls) /\ Len(walk') = top + 1 /\ walk'[top + 1] = Importing(o)
      /\ \A k \in 1..(top - 1) : walk'[k] = walk[k]
      /\ walk'[top].left = walk[top].left \ {deed}
      /\ \A k \in 1..top : walk'[k].does = walk[k].does /\ walk'[k].of = walk[k].of
  <2>1. Importing(o) \in Calls
    BY DEF Importing, Calls
  <2>2. walk' = Append(Past(deed), Importing(o))
    BY <1>6, <1>8
  <2>3. \A k \in 1..(top - 1) : k \in 1..top
    BY <1>4
  <2>4. /\ Past(deed) \in Seq(Calls) /\ Len(Past(deed)) = top
        /\ \A k \in 1..(top - 1) : Past(deed)[k] = walk[k]
        /\ Past(deed)[top].left = walk[top].left \ {deed}
        /\ \A k \in 1..top : Past(deed)[k].does = walk[k].does /\ Past(deed)[k].of = walk[k].of
    BY <1>1, <1>4, PastIs
  <2>5. /\ walk' \in Seq(Calls) /\ Len(walk') = top + 1 /\ walk'[top + 1] = Importing(o)
        /\ \A k \in 1..top : walk'[k] = Past(deed)[k]
    BY <2>1, <2>2, <2>4
  <2>6. top \in 1..top
    BY <1>4
  <2> QED BY <2>3, <2>4, <2>5, <2>6
<1>10. walk'[top + 1].does = "import" /\ walk'[top + 1].of = o
  BY <1>9 DEF Importing
<1>11. Started' = Started
  <2>1. RunningNow' = RunningNow
    BY <1>1, <1>4, <1>9, <1>10 DEF RunningNow
  <2> QED BY <2>1, <1>2 DEF Started
<1>12. Placed(top) /\ Imports(top) /\ m \in Started
  BY <1>1, <1>4, <1>5, RunningAt DEF IInv
<1>13. deed \in Body(m) /\ walk[top].left \subseteq Bodies[m]
  BY <1>1, <1>4, <1>5, <1>6, <1>12 DEF Imports, Bodies
<1>14. ASSUME NEW k \in 1..(top - 1) PROVE Placed(k)' /\ Imports(k)'
  <2>1. k \in Nat \ {0} /\ k \in 1..top /\ k + 1 \in 1..top /\ k < top /\ 1..k \subseteq 1..top
    BY <1>4
  <2>2. Placed(k) /\ Imports(k) /\ walk'[k] = walk[k]
    BY <2>1, <1>4, <1>9 DEF IInv
  <2>3. Placed(k)'
    BY <2>1, <2>2, <1>2, <1>9, <1>11, PlacedStill
  <2>4. k < Len(walk')
    BY <2>1, <1>4, <1>9
  <2>5. Imports(k)'
    BY <2>1, <2>2, <2>4, <1>2, <1>9, <1>11, ImportsStill
  <2> QED BY <2>3, <2>5
<1>15. Placed(top)'
  BY <1>2, <1>4, <1>9, <1>11, <1>12, PlacedStill
<1>16. Imports(top)'
  <2>1. walk'[top].left \subseteq Bodies'[m]
    BY <1>2, <1>9, <1>13, Kept
  <2>2. ASSUME NEW other \in Bodies'[m] \ walk'[top].left, other.does = "import"
        PROVE  other.of \in Started' \/ other.of = o
    <3>1. CASE other = deed
      BY <3>1, <1>8
    <3>2. CASE other # deed
      <4>1. other \in Bodies[m] \ walk[top].left
        BY <3>2, <1>2, <1>9, Kept
      <4>2. ~(top < Len(walk))
        BY <1>4
      <4> QED BY <4>1, <4>2, <2>2, <1>1, <1>4, <1>5, <1>11, <1>12 DEF Imports
    <3> QED BY <3>1, <3>2
  <2>3. walk'[top].of = m /\ top < Len(walk')
    BY <1>4, <1>5, <1>9
  <2> QED BY <2>1, <2>2, <2>3, <1>9, <1>10 DEF Imports
<1>17. ASSUME NEW p \in Parts(o) PROVE p \in Started \/ Led(top + 1, p)'
  <2>1. p \in Modules
    BY Ancestors
  <2>2. CASE p \in Started
    BY <2>2
  <2>3. CASE p \notin Started
    <3>1. ToSet(Above[m]) \subseteq Started
      BY <1>12 DEF IInv
    <3>2. o \notin ToSet(Above[m])
      <4>1. ASSUME o \in ToSet(Above[m]) PROVE FALSE
        <5>1. o \in Started
          BY <4>1, <3>1
        <5>2. Parts(o) \subseteq Started
          BY <5>1 DEF IInv, Parts
        <5> QED BY <5>2, <2>3
      <4> QED BY <4>1
    <3>3. p \in graph[m]
      BY <1>1, <1>6, <1>8, <1>12, <1>13, <2>3, <3>1, <3>2, ImportLeads
    <3>4. Led(top, m)
      BY <1>1, <1>4, <1>5, <1>12 DEF Placed
    <3>5. \E part \in Parts(entry) : p \in Reach'[part]
      BY <3>3, <3>4, <2>1, <1>1, <1>2, ReachEdge, Ancestors, Kept DEF Led
    <3>6. ASSUME NEW k \in 1..top, walk'[k].does = "run" PROVE p \in Reach'[walk'[k].of]
      <4>1. walk[k].does = "run" /\ walk'[k].of = walk[k].of /\ walk[k].of \in Modules
        <5>1. walk[k] \in Calls /\ walk'[k].does = walk[k].does /\ walk'[k].of = walk[k].of
          BY <1>1, <1>4, <1>9
        <5> QED BY <3>6, <5>1 DEF Calls
      <4>2. m \in Reach[walk[k].of]
        <5>1. CASE k = top
          BY <5>1, <1>5, ReachSelf
        <5>2. CASE k # top
          <6>1. k \in 1..(top - 1)
            BY <5>2
          <6> QED BY <6>1, <4>1, <3>4 DEF Led
        <5> QED BY <5>1, <5>2
      <4>3. p \in Reach[walk[k].of]
        BY <4>1, <4>2, <3>3, <2>1, ReachEdge
      <4> QED BY <4>1, <4>3, <1>2, Kept
    <3>7. (top + 1) - 1 = top
      OBVIOUS
    <3> QED BY <3>5, <3>6, <3>7, <1>2 DEF Led, Parts
  <2> QED BY <2>2, <2>3
<1>18. Placed(top + 1)'
  <2>1. \A p \in Parts(o) : p \in Started' \/ Led(top + 1, p)'
    BY <1>11, <1>17
  <2>2. walk'[top + 1].does # "run" /\ walk'[top + 1].of = o
    BY <1>10
  <2> QED BY <2>1, <2>2 DEF Placed, Parts
<1>19. Imports(top + 1)'
  BY <1>10 DEF Imports
<1>20. ASSUME NEW k \in 1..Len(walk') PROVE Placed(k)' /\ Imports(k)'
  <2>1. k \in 1..(top - 1) \/ k = top \/ k = top + 1
    BY <1>9
  <2> QED BY <2>1, <1>14, <1>15, <1>16, <1>18, <1>19
<1>21. \A k \in Started' : ToSet(Above[k]) \subseteq Started'
  BY <1>11 DEF IInv
<1> QED BY <1>3, <1>9, <1>20, <1>21 DEF IInv

LEMMA RunEndsKeeps == ASSUME IInv, RunEnds PROVE IInv'
<1>1. /\ walk \in Seq(Calls) /\ walk # <<>> /\ failure = <<>> /\ Last(walk).does = "run"
      /\ Found /\ entry \in Modules /\ done \subseteq Modules /\ Planned
  BY DEF IInv, RunEnds, Top
<1>2. /\ UNCHANGED <<lines, reads, graph, entry, failure, index, frames>>
      /\ walk' = Front(walk) /\ done' = done \cup {Last(walk).of}
  BY DEF RunEnds, plan, tarjan
<1>3. PICK top \in Nat \ {0} : top = Len(walk)
  BY <1>1, Popped
<1>4. /\ Len(walk) = top /\ walk[top] = Last(walk) /\ walk[top] \in Calls
      /\ walk' \in Seq(Calls) /\ Len(walk') = top - 1 /\ \A k \in 1..(top - 1) : walk'[k] = walk[k]
  BY <1>1, <1>2, <1>3, Popped
<1>5. PICK m \in Modules : m = walk[top].of
  BY <1>4 DEF Calls
<1>6. Planned' /\ Found' /\ (failure' = <<>>) /\ entry' \in Modules /\ done' = done \cup {m}
  BY <1>1, <1>2, <1>4, <1>5, Kept DEF Found, Visited
<1>7. Started' = Started
  <2>1. RunningNow = RunningNow' \cup {m}
    <3>1. \A n \in 1..top : n = top \/ n \in 1..(top - 1)
      OBVIOUS
    <3>2. DOMAIN walk = 1..top /\ DOMAIN walk' = 1..(top - 1)
      BY <1>1, <1>4
    <3>3. RunningNow \subseteq RunningNow' \cup {m}
      BY <3>1, <3>2, <1>4, <1>5 DEF RunningNow
    <3>4. m \in RunningNow
      BY <3>2, <1>1, <1>4, <1>5 DEF RunningNow
    <3>5. RunningNow' \subseteq RunningNow
      BY <3>2, <1>4 DEF RunningNow
    <3> QED BY <3>3, <3>4, <3>5
  <2> QED BY <2>1, <1>6 DEF Started
<1>8. m \in Started
  BY <1>1, <1>4, <1>5, RunningAt
<1>9. ASSUME NEW k \in 1..Len(walk') PROVE Placed(k)' /\ Imports(k)'
  <2>1. k \in Nat \ {0} /\ k \in 1..top /\ 1..k \subseteq 1..(top - 1) /\ k < Len(walk)
    BY <1>4
  <2>2. Placed(k) /\ Imports(k) /\ walk'[k] = walk[k]
    BY <2>1, <1>4 DEF IInv
  <2>3. Placed(k)'
    BY <2>1, <2>2, <1>2, <1>4, <1>7, PlacedStill
  <2>4. \/ k + 1 = top
        \/ k + 1 \in 1..(top - 1) /\ k < Len(walk')
    BY <1>4
  <2>5. \/ walk[k + 1].of \in Started'
        \/ k < Len(walk') /\ walk'[k + 1].does = walk[k + 1].does /\ walk'[k + 1].of = walk[k + 1].of
    BY <2>4, <1>4, <1>5, <1>7, <1>8
  <2>6. Imports(k)'
    BY <2>1, <2>2, <2>5, <1>2, <1>7, ImportsStill
  <2> QED BY <2>3, <2>6
<1>10. \A k \in Started' : ToSet(Above[k]) \subseteq Started'
  BY <1>7 DEF IInv
<1> QED BY <1>1, <1>4, <1>5, <1>6, <1>9, <1>10 DEF IInv

LEMMA RunNameKeeps == ASSUME IInv, RunName PROVE IInv'
<1>1. /\ walk \in Seq(Calls) /\ walk # <<>> /\ failure = <<>> /\ Last(walk).does = "run"
      /\ Found /\ entry \in Modules /\ done \subseteq Modules /\ Planned
  BY DEF IInv, RunName, Top
<1>2. UNCHANGED <<lines, reads, graph, entry, done, index, frames>>
  BY DEF RunName, plan, tarjan
<1>3. Planned' /\ Found' /\ entry' \in Modules /\ done' \subseteq Modules
  BY <1>1, <1>2, Kept DEF Found, Visited
<1>a. PICK top \in Nat \ {0} : top = Len(walk)
  BY <1>1, Popped
<1>4. Len(walk) = top /\ walk[top] = Last(walk) /\ walk[top] \in Calls
  BY <1>a, <1>1, Popped
<1>5. PICK m \in Modules : m = walk[top].of
  BY <1>4 DEF Calls
<1>6. PICK deed \in walk[top].left :
        /\ IsNext(deed) /\ deed.does \in {"bind", "read"}
        /\ \/ walk' = Past(deed) /\ failure' = failure
           \/ /\ deed.target \notin done
              /\ failure' = <<m, deed.target>> /\ walk' = walk
  BY <1>4, <1>5 DEF RunName
<1>7. Placed(top) /\ Imports(top)
  BY <1>4 DEF IInv
<1>8. deed \in Body(m) /\ walk[top].left \subseteq Bodies[m]
  BY <1>1, <1>4, <1>5, <1>6, <1>7 DEF Imports, Bodies
<1>9. CASE walk' = Past(deed) /\ failure' = failure
  <2>1. /\ walk' \in Seq(Calls) /\ Len(walk') = top
        /\ \A k \in 1..(top - 1) : walk'[k] = walk[k]
        /\ walk'[top].left = walk[top].left \ {deed}
        /\ \A k \in 1..top : walk'[k].does = walk[k].does /\ walk'[k].of = walk[k].of
    BY <1>1, <1>4, <1>9, PastIs
  <2>2. Started' = Started
    <3>1. RunningNow' = RunningNow
      BY <1>1, <1>4, <2>1 DEF RunningNow
    <3> QED BY <3>1, <1>2 DEF Started
  <2>3. ASSUME NEW k \in 1..(top - 1) PROVE Placed(k)' /\ Imports(k)'
    <3>1. k \in Nat \ {0} /\ k \in 1..top /\ k + 1 \in 1..top /\ k < top /\ 1..k \subseteq 1..top
      OBVIOUS
    <3>2. Placed(k) /\ Imports(k) /\ walk'[k] = walk[k]
      BY <3>1, <1>4, <2>1 DEF IInv
    <3>3. Placed(k)'
      BY <3>1, <3>2, <1>2, <2>1, <2>2, PlacedStill
    <3>4. k < Len(walk')
      BY <3>1, <2>1
    <3>5. Imports(k)'
      BY <3>1, <3>2, <3>4, <1>2, <2>1, <2>2, ImportsStill
    <3> QED BY <3>3, <3>5
  <2>4. Placed(top)'
    BY <1>2, <1>7, <2>1, <2>2, PlacedStill
  <2>5. Imports(top)'
    <3>1. walk'[top].left \subseteq Bodies'[m]
      BY <1>2, <1>8, <2>1, Kept
    <3>2. ASSUME NEW other \in Bodies'[m] \ walk'[top].left, other.does = "import"
          PROVE  other.of \in Started'
      <4>1. other \in Bodies[m] \ walk[top].left
        BY <3>2, <1>2, <1>6, <2>1, Kept
      <4>2. ~(top < Len(walk))
        BY <1>4
      <4> QED BY <4>1, <4>2, <3>2, <1>1, <1>4, <1>5, <1>7, <2>2 DEF Imports
    <3>3. walk'[top].of = m
      BY <1>5, <2>1
    <3> QED BY <3>1, <3>2, <3>3 DEF Imports
  <2>6. ASSUME NEW k \in 1..Len(walk') PROVE Placed(k)' /\ Imports(k)'
    <3>1. k \in 1..(top - 1) \/ k = top
      BY <2>1
    <3> QED BY <3>1, <2>3, <2>4, <2>5
  <2>7. \A k \in Started' : ToSet(Above[k]) \subseteq Started'
    BY <2>2 DEF IInv
  <2> QED BY <1>1, <1>3, <1>9, <2>1, <2>6, <2>7 DEF IInv
<1>10. CASE deed.target \notin done /\ failure' = <<m, deed.target>> /\ walk' = walk
  <2>1. PICK t \in Modules \ {m} : t = deed.target /\ t \in graph[m]
    BY <1>1, <1>6, <1>8, NameLeads
  <2>2. PICK other \in Body(m) : /\ other.does = "import" /\ other.of = t
                                 /\ Before(m, other, deed)
    BY <1>1, <1>6, <1>8, <2>1, NameLeads
  <2>3. other \notin walk[top].left
    <3>1. other # deed
      BY <1>6, <2>2
    <3> QED BY <3>1, <1>4, <1>5, <1>6, <2>2 DEF IsNext
  <2>4. t \in Started
    <3>1. other \in Bodies[m] \ walk[top].left
      BY <2>3 DEF Bodies
    <3>2. ~(top < Len(walk))
      BY <1>4
    <3> QED BY <3>1, <3>2, <1>1, <1>4, <1>5, <1>7, <2>2 DEF Imports
  <2>5. PICK k \in 1..top : walk[k].does = "run" /\ walk[k].of = t
    BY <1>1, <1>4, <1>10, <2>1, <2>4, RunningAt
  <2>6. k \in 1..(top - 1)
    BY <1>5, <2>1, <2>5
  <2>7. Led(top, m)
    BY <1>1, <1>4, <1>5, <1>7 DEF Placed
  <2>8. m \in Reach[t] /\ \E part \in Parts(entry) : m \in Reach[part]
    BY <2>5, <2>6, <2>7 DEF Led
  <2>9. t \in Reach[m]
    BY <2>1, ReachSelf, ReachEdge
  <2>10. Failed'
    <3>1. failure' = <<m, t>> /\ m # t
      BY <1>10, <2>1
    <3>2. t \in Reach'[m] /\ m \in Reach'[t] /\ \E part \in Parts(entry') : m \in Reach'[part]
      BY <1>2, <2>8, <2>9, Kept
    <3> QED BY <3>1, <3>2, <1>3 DEF Failed, Parts
  <2>11. Started' = Started
    BY <1>2, <1>10 DEF Started, RunningNow
  <2>12. ASSUME NEW n \in 1..Len(walk') PROVE Placed(n)' /\ Imports(n)'
    <3>1. n \in Nat \ {0} /\ Placed(n) /\ Imports(n)
      BY <1>4, <1>10 DEF IInv
    <3>2. Placed(n)'
      BY <3>1, <1>2, <1>10, <2>11, PlacedStill
    <3>3. Imports(n)'
      BY <3>1, <1>2, <1>10, <2>11, ImportsStill
    <3> QED BY <3>2, <3>3
  <2>13. \A n \in Started' : ToSet(Above[n]) \subseteq Started'
    BY <2>11 DEF IInv
  <2> QED BY <1>1, <1>3, <1>10, <2>10, <2>12, <2>13 DEF IInv
<1> QED BY <1>6, <1>9, <1>10

-----------------------------------------------------------------------------

LEMMA Invariance == Spec => []IInv
<1>1. Init => IInv
  BY AtInit
<1>2. IInv /\ [Next]_vars => IInv'
  <2> SUFFICES ASSUME IInv, [Next]_vars PROVE IInv'
    OBVIOUS
  <2>1. CASE Next
    BY <2>1, FindKeeps, EnterKeeps, ImportKeeps, RunImportKeeps, RunNameKeeps, RunEndsKeeps DEF Next
  <2>2. CASE UNCHANGED vars
    <3>1. UNCHANGED <<lines, reads, graph, entry, walk, done, failure, index, frames>>
      BY <2>2 DEF vars, plan, run, tarjan
    <3>2. Started' = Started
      BY <3>1 DEF Started, RunningNow
    <3>3. \A n \in 1..Len(walk) : Placed(n)' /\ Imports(n)'
      <4> SUFFICES ASSUME NEW n \in 1..Len(walk) PROVE Placed(n)' /\ Imports(n)'
        OBVIOUS
      <4>1. n \in Nat \ {0} /\ Placed(n) /\ Imports(n)
        BY DEF IInv
      <4>2. Placed(n)'
        BY <4>1, <3>1, <3>2, PlacedStill
      <4>3. Imports(n)'
        BY <4>1, <3>1, <3>2, ImportsStill
      <4> QED BY <4>2, <4>3
    <3>4. Reach' = Reach /\ Planned' = Planned /\ Found' = Found
      BY <3>1, Kept DEF Found, Visited
    <3>5. Failed' = Failed
      BY <3>1, <3>4 DEF Failed, Parts
    <3> QED BY <3>1, <3>2, <3>3, <3>4, <3>5 DEF IInv
  <2> QED BY <2>1, <2>2
<1> QED BY <1>1, <1>2, PTL DEF Spec

LEMMA TwoOfThem ==
  ASSUME NEW S, IsFiniteSet(S), NEW x \in S, NEW y \in S, x # y
  PROVE  Cardinality(S) > 1
<1> DEFINE T == S \ {x}
<1>1. IsFiniteSet(T) /\ Cardinality(T) = Cardinality(S) - 1
  BY FS_RemoveElement
<1>2. T # {}
  OBVIOUS
<1> HIDE DEF T
<1>3. Cardinality(T) \in Nat /\ Cardinality(T) # 0 /\ Cardinality(S) \in Nat
  BY <1>1, <1>2, FS_EmptySet, FS_CardinalityType
<1> QED BY <1>1, <1>3

LEMMA FailureFound == IInv /\ ComponentsFound => FailsInCycle
<1> SUFFICES ASSUME IInv, ComponentsFound, failure # <<>>
             PROVE  /\ Walked(entry)
                    /\ \E component \in ToSet(result) :
                         Circular(component) /\ ToSet(failure) \subseteq component
  BY DEF FailsInCycle
<1>1. Found /\ entry \in Modules
  BY DEF IInv, Failed
<1>2. PICK x, y \in Modules :
        /\ failure = <<x, y>> /\ x # y /\ y \in Reach[x] /\ x \in Reach[y]
        /\ \E part \in Parts(entry) : x \in Reach[part]
  BY DEF IInv, Failed
<1>3. PICK part \in Parts(entry) : x \in Reach[part]
  BY <1>2
<1>4. PICK n \in DOMAIN result : x \in result[n]
  BY <1>1 DEF ComponentsFound, Modules, ToSet
<1>5. result[n] = {z \in Reachable(x) : x \in Reachable(z)}
  BY <1>4 DEF ComponentsFound
<1>6. x \in result[n] /\ y \in result[n]
  BY <1>2, <1>4, <1>5 DEF Reach
<1>7. Circular(result[n])
  <2>1. result[n] \subseteq Nodes
    BY <1>5 DEF Reachable
  <2>2. IsFiniteSet(Nodes)
    BY NodesFinite
  <2>3. IsFiniteSet(result[n])
    BY <2>1, <2>2, FS_Subset
  <2> QED BY <1>2, <1>6, <2>3, TwoOfThem DEF Circular
<1>8. Walked(entry)
  <2>1. part \in Modules /\ x \in Reachable(part)
    BY <1>1, <1>3, Ancestors DEF Reach
  <2>2. result[n] \in ToSet(result)
    BY DEF ToSet
  <2>3. x \in UNION {component \in ToSet(result) : Circular(component)}
    BY <1>6, <1>7, <2>2
  <2> QED BY <1>3, <2>1, <2>3 DEF Walked, Parts
<1>9. ToSet(failure) \subseteq result[n]
  BY <1>2, <1>6 DEF ToSet
<1> QED BY <1>4, <1>7, <1>8, <1>9 DEF ToSet

LEMMA Searched == Spec => []TInv
<1>1. Init => TInv
  <2> SUFFICES ASSUME Init PROVE TInv
    OBVIOUS
  <2>1. graph \in [Nodes -> SUBSET Nodes]
    BY DEF Init, ImportGraph, Edges
  <2> QED BY <2>1, TarjanBegins DEF Init
<1>2. TInv /\ [Next]_vars => TInv'
  <2> SUFFICES ASSUME TInv, [Next]_vars PROVE FindNext \/ UNCHANGED <<tarjan, graph>>
    BY TarjanKeeps
  <2> QED BY DEF Next, Find, Enter, Import, RunImport, RunName, RunEnds, vars
<1> QED BY <1>1, <1>2, PTL DEF Spec

(* For every graph of what imports what: each component found is all the modules that lead to   *)
(* one another, its edges lead into it or to those found before it, and at the end each module  *)
(* is in one (strongly_connected_components).                                                   *)
THEOREM ComponentsAlwaysFound == Spec => []ComponentsFound
BY Searched, TarjanFinds, PTL

(* For every package, plan and entry: a read that fails is looked for, its entry being one that *)
(* is walked, and what failed and what it read are in one component on a cycle                  *)
(* (check_import_reads, failing_import_reads).                                                  *)
THEOREM FailuresAreInCycles == Spec => []FailsInCycle
<1>1. TInv /\ IInv => FailsInCycle
  BY TarjanFinds, FailureFound
<1> QED BY <1>1, Searched, Invariance, PTL
=============================================================================
