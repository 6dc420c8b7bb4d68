------------------------------- MODULE Imports -------------------------------
(***************************************************************************)
(* What check_import_reads asks of a generated package before it is        *)
(* written (parser/_passes/_import_edges.py): which of its modules, when   *)
(* Python imports it first, reads a name of a module that still runs.  It  *)
(* builds a graph of what runs what, finds the components of that graph on *)
(* a cycle (Components), and walks Python's import, from each module that  *)
(* runs into one, to its first failing read; the modules of the component  *)
(* are then merged.  The modules, what each imports and what its           *)
(* definitions read are any; the walk is one of the entries, any again,    *)
(* those the code leaves out among them.                                   *)
(***************************************************************************)
EXTENDS Components

CONSTANTS
  Above,     \* the packages above each module, the root package first: _packages_above
  MaxLines   \* bound: names imported in all

ASSUME ImportsAssumption ==
  /\ Above \in [Nodes -> Seq(Nodes)] /\ MaxLines \in Nat
  /\ \A m \in Nodes : \A n \in DOMAIN Above[m] : Above[Above[m][n]] = SubSeq(Above[m], 1, n - 1)

Modules == Nodes

VARIABLES
  lines,    \* ImportPlan.blocks: the names each module imports, of which module
  reads,    \* ImportPlan.reads: the submodules whose class each module's definitions read
  entry,    \* the module imported first, once it is
  walk,     \* the walk's stack
  bound,    \* what each running module has bound so far
  done,     \* the modules that ran
  failure   \* the first failing read, if one did: its reader and the module read

plan == <<lines, reads>>
run  == <<entry, walk, bound, done, failure>>
vars == <<tarjan, graph, plan, run>>

-----------------------------------------------------------------------------
(* The plan. *)

IsAbove(p, m) == p \in ToSet(Above[m])
IsPackage(m)  == \E n \in Modules : IsAbove(m, n)

\* A name a module imports of another: that of a class, or of a submodule of it.
Line(t, kind, of) == [target |-> t, kind |-> kind, of |-> of]

Lines(m) == {Line(t, "class", c) : t \in Modules \ {m}, c \in Modules \ {m}}
            \cup {Line(Last(Above[s]), "module", s) : s \in {n \in Modules \ {m} : Above[n] # <<>>}}

(* A class is imported of its module, or of one that imports it of there. *)
Written(plans) ==
  \A m \in Modules : \A line \in plans[m] :
    line.kind = "class" =>
      line.target = line.of \/ Line(line.of, "class", line.of) \in plans[line.target]

Plans ==
  LET sets == {ToSet(s) : s \in [1..MaxLines -> UNION {{m} \X Lines(m) : m \in Modules}]} IN
  {plans \in {[m \in Modules |-> {pair[2] : pair \in {q \in set : q[1] = m}}] : set \in sets} :
     Written(plans)}

Imported(m, kind) == {line.of : line \in {held \in lines[m] : held.kind = kind}}

(* The packages a module's relative imports start at: its own, then those above that *)
Starts(m) == ToSet(Above[m]) \cup (IF IsPackage(m) THEN {m} ELSE {})

(* How near the package is that a block of a module's starts at: its dots, from the most on *)
Nearness(m, t) == Cardinality({p \in Starts(m) : p = t \/ IsAbove(p, t)})

Place(m) == CHOOSE n \in DOMAIN Sorted : Sorted[n] = m

Targets(m) == {line.target : line \in lines[m]}

\* What a running module does: it imports a module, binds a class of one or reads a class of one.
Deed(does, t, of) == [does |-> does, target |-> t, of |-> of]

(* A module's blocks, each the import of the module it names and then its names, and what its *)
(* definitions read of submodules.                                                            *)
Body(m) ==
  {Deed("import", t, t) : t \in Targets(m)}
  \cup {Deed("bind", line.target, line.of) : line \in {held \in lines[m] : held.kind = "class"}}
  \cup {Deed("import", line.target, line.of) : line \in {held \in lines[m] : held.kind = "module"}}
  \cup {Deed("read", s, s) : s \in reads[m]}

\* The import of a block's own module
Opens(deed) == deed.does = "import" /\ deed.of = deed.target

(* The order a module is written in: its blocks, the furthest packages' first            *)
(* (written_import_blocks), in each its module and then its names, and then its reads.   *)
(* The names of a block, of classes and submodules, are sorted together: in any order    *)
(* here, where classes have no names.                                                    *)
Before(m, a, b) ==
  LET near == Nearness(m, a.target) - Nearness(m, b.target) IN
  \/ a.does # "read" /\ b.does = "read"
  \/ a.does = "read" /\ b.does = "read" /\ Place(a.of) < Place(b.of)
  \/ /\ a.does # "read" /\ b.does # "read"
     /\ \/ near < 0
        \/ near = 0 /\ Place(a.target) < Place(b.target)
        \/ a.target = b.target /\ Opens(a) /\ ~Opens(b)

\* What the lines of a module run or read themselves.  A module above it is left out when only
\* submodules of it are imported.
OfLines(m) ==
  Imported(m, "module")
  \cup {t \in Targets(m) : ~IsAbove(t, m) \/ \E line \in lines[m] : line.target = t /\ line.kind = "class"}

(* Mutant: the packages above what is imported are left out. *)
GraphOfNames == [m \in Modules |-> OfLines(m) \ {m}]

(* _import_graph: what each module runs or reads as it runs, with the packages above that *)
(* which are not above the module, and so ran before it.                                  *)
Edges(m) ==
  {p \in Modules \ {m} :
     \/ p \in OfLines(m)
     \/ ~IsAbove(p, m) /\ \E n \in OfLines(m) : IsAbove(p, n)}

ImportGraph == [m \in Modules |-> Edges(m)]

-----------------------------------------------------------------------------
(* _first_failing_read: the walk of Python's import. *)

\* A frame imports a module, the packages above it first, or runs one, with what it has left to do.
Importing(m) == [does |-> "import", of |-> m, left |-> {}]
Running(m)   == [does |-> "run", of |-> m, left |-> Body(m)]

RunningNow == {walk[n].of : n \in {k \in DOMAIN walk : walk[k].does = "run"}}

\* The walk may go on.
Top(does) == walk # <<>> /\ failure = <<>> /\ Last(walk).does = does

Enter ==
  /\ Found /\ entry = None
  /\ \E m \in Modules : entry' = m /\ walk' = <<Importing(m)>>
  /\ UNCHANGED <<tarjan, graph, plan, bound, done, failure>>

(* importing: the first of the packages and the module that has not begun to run, if there is one *)
Import ==
  /\ Top("import")
  /\ LET parts == Append(Above[Last(walk).of], Last(walk).of)
         new   == {n \in DOMAIN parts : parts[n] \notin RunningNow \cup done}
     IN \/ new = {} /\ walk' = Front(walk)
        \/ \E n \in new : (\A k \in new : n <= k) /\ walk' = Append(walk, Running(parts[n]))
  /\ UNCHANGED <<tarjan, graph, plan, entry, bound, done, failure>>

\* A deed that may be the running module's next, and the walk once it is behind.
IsNext(deed) == \A other \in Last(walk).left \ {deed} : ~Before(Last(walk).of, other, deed)

Past(deed) == Append(Front(walk), [Last(walk) EXCEPT !.left = @ \ {deed}])

RunImport ==
  /\ Top("run")
  /\ \E deed \in Last(walk).left :
       /\ IsNext(deed) /\ deed.does = "import"
       /\ walk' = Append(Past(deed), Importing(deed.of))
  /\ UNCHANGED <<tarjan, graph, plan, entry, bound, done, failure>>

(* A class is read of a module: one that ran has it, one that runs if it bound it already. *)
(* An import line binds it.                                                                *)
RunName ==
  /\ Top("run")
  /\ \E deed \in Last(walk).left :
       /\ IsNext(deed) /\ deed.does \in {"bind", "read"}
       /\ IF deed.target \in done \/ deed.of \in bound[deed.target]
          THEN /\ walk' = Past(deed) /\ UNCHANGED failure
               /\ bound' = IF deed.does = "read" THEN bound
                           ELSE [bound EXCEPT ![Last(walk).of] = @ \cup {deed.of}]
          ELSE /\ failure' = <<Last(walk).of, deed.target>>
               /\ UNCHANGED <<walk, bound>>
  /\ UNCHANGED <<tarjan, graph, plan, entry, done>>

RunEnds ==
  /\ Top("run") /\ Last(walk).left = {}
  /\ walk' = Front(walk) /\ done' = done \cup {Last(walk).of}
  /\ UNCHANGED <<tarjan, graph, plan, entry, bound, failure>>

-----------------------------------------------------------------------------

Init ==
  /\ lines \in Plans
  /\ \E set \in SUBSET UNION {{m} \X Imported(m, "module") : m \in Modules} :
       reads = [m \in Modules |-> {n \in Modules : <<m, n>> \in set}]
  /\ graph = ImportGraph /\ Begun
  /\ entry = None /\ walk = <<>> /\ failure = <<>>
  /\ bound = [m \in Modules |-> {}] /\ done = {}

Find == FindNext /\ UNCHANGED <<plan, run>>

Next == Find \/ Enter \/ Import \/ RunImport \/ RunName \/ RunEnds

Spec == Init /\ [][Next]_vars

-----------------------------------------------------------------------------
(* Properties. *)

(* The modules that are not walked: those that neither run into a cycle themselves nor below *)
(* a package that does.                                                                      *)
Walked(m) ==
  LET cyclic == UNION {component \in ToSet(result) : Circular(component)} IN
  \E part \in ToSet(Above[m]) \cup {m} : Reachable(part) \cap cyclic # {}

(* What the two halves must agree on.  A read that fails, from any entry, is found: the entry is *)
(* one of those walked (failing_import_reads).  And the module read and its reader are in one    *)
(* component on a cycle, so that merging the component of the one (import_cycle_seeds) takes the *)
(* other in.  The walk knows what runs above what, the graph only what each module imports: the  *)
(* packages run on the way to a submodule, and those above the importer that ran before it, are  *)
(* where they could differ.                                                                      *)
FailsInCycle ==
  failure # <<>> =>
    /\ Walked(entry)
    /\ \E component \in ToSet(result) :
         Circular(component) /\ ToSet(failure) \subseteq component
=============================================================================
