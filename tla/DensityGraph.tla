---------------------------- MODULE DensityGraph ----------------------------
(***************************************************************************)
(* Density functions: the compiler from a registry of expressions to a     *)
(* graph of nodes (core/src/df_compile.c), the cones and lazy programs     *)
(* that say which nodes an evaluation visits, and the evaluation itself    *)
(* (core/src/df_eval.c), with the tables and slices that a noise chunk     *)
(* fills through them (core/src/noise_chunk.c).                            *)
(*                                                                         *)
(* All evaluations of a chunk share one scratch array, which comes         *)
(* uninitialised from the arena and keeps what earlier evaluations left.   *)
(* Densities are integers; the functions of the code that only combine     *)
(* numbers are represented by "add", those that read the position by "x"   *)
(* (no y) and "y".                                                         *)
(***************************************************************************)
EXTENDS Integers, Sequences, FiniteSets, SequencesExt, FiniteSetsExt

CONSTANTS
  Names,        \* names of registered density functions
  Registries,   \* the registries the compiler meets, [Names -> expressions]
  Main,         \* the name the chunk evaluates
  Outside,      \* an x beyond the window of the flat caches
  MaxEvals      \* bound: evaluations of one behaviour

RegistryAssumption == Main \in Names /\ Outside \notin 0 .. 3

\* A chunk has one cell of 2 x 2 blocks with a corner beyond it on each axis;
\* a quart is two blocks wide and the flat caches hold the quarts 0 and 1.
CellX == 0 .. 1
CellY == 0 .. 1
Corner == {0, 2}
Quart(x) == x \div 2
InWindow(x) == Quart(x) \in 0 .. 1

VARIABLES
  registry,   \* the expressions by name
  graph,      \* the compiled nodes, or << >>
  root,       \* node of Main, 0 if the compiler has failed
  flat,       \* tables of the flat caches, node -> quart -> value
  slice,      \* corners of the interpolators, node -> corner -> value
  sc,         \* scratch
  last,       \* the last evaluation: [mode, at, value]
  phase,      \* "source", "graph", "tables", "slices", "failed"
  evals

vars == <<registry, graph, root, flat, slice, sc, last, phase, evals>>

None == [mode |-> "none", at |-> <<0, 0>>, value |-> 0]
Junk == -1000     \* whatever the arena held

Init ==
  /\ registry \in Registries
  /\ graph = << >> /\ root = 0
  /\ flat = << >> /\ slice = << >> /\ sc = << >>
  /\ last = None /\ phase = "source" /\ evals = 0
-----------------------------------------------------------------------------
(* The compiler. *)

\* What an evaluation of the node at index i can read: all operands.
Operands(g, i) == ToSet(g[i].args)

\* hc_df_mark_y_variant: the nodes that may change with y.
YVariant(g) ==
  LET v[i \in 1 .. Len(g)] ==
        \/ g[i].op \in {"y", "top"}
        \/ \E a \in Operands(g, i) : v[a]
  IN { i \in 1 .. Len(g) : v[i] }

\* mark_deps
Deps(g, i) ==
  LET on[j \in 1 .. Len(g)] ==
        j = i \/ \E k \in j + 1 .. i : j \in Operands(g, k) /\ on[k]
  IN { j \in 1 .. i : on[j] }

Ascending(S, n) == SelectSeq([i \in 1 .. n |-> i], LAMBDA i : i \in S)

\* build_cone: the nodes of a density, those without y first.
BuildCone(g, density) ==
  LET d == Deps(g, density)
  IN [inv |-> Ascending(d \ YVariant(g), Len(g)), var |-> Ascending(d \cap YVariant(g), Len(g))]

NoCone == [inv |-> << >>, var |-> << >>]

\* The compiler's state: nodes, node or state of every name, failed or not.
Unseen == 0
Compiling == -1
NewCompiler == [nodes |-> << >>, state |-> [n \in Names |-> Unseen], err |-> FALSE, at |-> 0]

Fail(c) == [c EXCEPT !.err = TRUE, !.at = 0]

\* emit
Emit(c, node) == [c EXCEPT !.nodes = Append(@, node), !.at = Len(c.nodes) + 1]

\* A density that holds another surface search is refused.
Nested(g, density) == \E j \in Deps(g, density) : g[j].op = "top"

\* is_const_arg: only a literal, never a reference to one.
IsConst(e) == e.op = "num"

RECURSIVE Compile(_, _, _), CompileArgs(_, _, _, _)

\* The arguments from left to right; ids are the nodes so far.
CompileArgs(reg, c, es, ids) ==
  IF es = << >> \/ c.err THEN [c |-> c, ids |-> ids]
  ELSE LET d == Compile(reg, c, Head(es))
       IN CompileArgs(reg, d, Tail(es), Append(ids, d.at))

\* compile_named: every name once, and no name inside itself.
Named(reg, c, n) ==
  CASE c.state[n] = Compiling -> Fail(c)
    [] c.state[n] > 0 -> [c EXCEPT !.at = c.state[n]]
    [] OTHER -> LET d == Compile(reg, [c EXCEPT !.state[n] = Compiling], reg[n])
                IN [d EXCEPT !.state[n] = d.at]

\* hc_df_compile_expr, with compile_ap2 for "add".
Compile(reg, c, e) ==
  LET const == { k \in DOMAIN e.args : e.op = "add" /\ IsConst(e.args[k]) }
      k == Min(const)
      rest == IF const = {} THEN e.args ELSE << e.args[3 - k] >>
      d == CompileArgs(reg, c, rest, << >>)
  IN IF c.err THEN c
     ELSE IF e.op = "ref" THEN Named(reg, c, e.name)
     ELSE IF d.c.err THEN d.c
     ELSE IF e.op = "top" /\ Nested(d.c.nodes, d.ids[1]) THEN Fail(d.c)
     ELSE Emit(d.c, [op   |-> IF const = {} THEN e.op ELSE "addk",
                     args |-> d.ids,
                     k    |-> IF const = {} THEN e.k ELSE e.args[k].k,
                     cone |-> IF e.op = "top" THEN BuildCone(d.c.nodes, d.ids[1])
                                              ELSE NoCone])
-----------------------------------------------------------------------------
(* Evaluation of one node.  cc is the cell context: the tables and slices. *)
Plus(a, b) == IF Junk \in {a, b} THEN Junk ELSE a + b

\* interp_lerp3 and the steps of updateForY, X, Z, times four.
Lerp(s, at) ==
  LET w(d, u) == IF u = 0 THEN 2 - d ELSE d
  IN w(at[1], 0) * w(at[2], 0) * s[<<0, 0>>] + w(at[1], 2) * w(at[2], 0) * s[<<2, 0>>]
     + w(at[1], 0) * w(at[2], 2) * s[<<0, 2>>] + w(at[1], 2) * w(at[2], 2) * s[<<2, 2>>]

\* The branch a choice takes for input d, as a position in its operands.
Branch(op, d) ==
  CASE op = "choice" -> IF d >= 1 THEN 2 ELSE 3
    [] op = "select" -> IF d < 1 THEN 2 ELSE IF d < 2 THEN 3 ELSE 4

RECURSIVE EvalNode(_, _, _, _, _, _), EvalList(_, _, _, _, _, _), TopFrom(_, _, _, _, _, _, _)

\* eval_node
EvalNode(g, cc, i, mode, at, s) ==
  LET nd == g[i]
      arg(j) == s[nd.args[j]]
  IN CASE nd.op = "num" -> nd.k
       [] nd.op = "x" -> at[1]
       [] nd.op = "y" -> 1 - at[2]
       [] nd.op = "add" -> Plus(arg(1), arg(2))
       [] nd.op = "addk" -> Plus(arg(1), nd.k)
       [] nd.op \in {"choice", "select"} ->
            IF arg(1) = Junk THEN Junk ELSE arg(Branch(nd.op, arg(1)))
       [] nd.op = "interp" ->
            IF mode = "SP" THEN arg(1) ELSE Lerp(cc.slice[i], at)
       [] nd.op = "flat" ->
            IF InWindow(at[1]) THEN cc.flat[i][Quart(at[1])] ELSE arg(1)
       [] nd.op = "top" ->
            IF arg(2) = Junk THEN Junk
            ELSE IF arg(2) <= 0 THEN 0
            ELSE TopFrom(g, cc, i, mode, at, arg(2),
                         EvalList(g, cc, nd.cone.inv, mode, <<at[1], arg(2)>>,
                                  [j \in DOMAIN s |-> Junk]))

\* The nodes of a list, in its order.
EvalList(g, cc, list, mode, at, s) ==
  IF list = << >> THEN s
  ELSE EvalList(g, cc, Tail(list), mode, at,
                [s EXCEPT ![Head(list)] = EvalNode(g, cc, Head(list), mode, at, s)])

\* The ladder of find_top_surface, from row y downwards: only the nodes with y
\* are evaluated again.
TopFrom(g, cc, i, mode, at, y, s2) ==
  LET s == EvalList(g, cc, g[i].cone.var, mode, <<at[1], y>>, s2)
      d == s[g[i].args[1]]
  IN CASE d = Junk -> Junk
       [] d > 0 -> y
       [] d # Junk /\ d <= 0 -> IF y = 0 THEN 0 ELSE TopFrom(g, cc, i, mode, at, y - 1, s)
-----------------------------------------------------------------------------
(* Cones and programs. *)

\* Mutant of Reads: a flat cache always finds its table.
ReadsTableOnly(g, i, mode, safe) ==
  CASE g[i].op \in {"interp", "flat"} -> IF mode = "SP" /\ g[i].op = "interp" THEN Operands(g, i) ELSE {}
    [] g[i].op = "top" -> {g[i].args[2]}
    [] OTHER -> Operands(g, i)

\* What the cone of a mode follows from node i; safe says that all points are
\* in the window.
Reads(g, i, mode, safe) ==
  CASE g[i].op = "interp" -> IF mode = "SP" THEN Operands(g, i) ELSE {}
    [] g[i].op = "flat" -> IF mode = "SP" /\ ~ safe THEN Operands(g, i) ELSE {}
    [] g[i].op = "top" -> {g[i].args[2]}
    [] OTHER -> Operands(g, i)

\* hc_df_cone_mark_ex
Cone(g, roots, mode, safe) ==
  LET on[j \in 1 .. Len(g)] ==
        j \in roots \/ \E k \in j + 1 .. Len(g) : j \in Reads(g, k, mode, safe) /\ on[k]
  IN { j \in 1 .. Len(g) : on[j] }

IsChoice(g, i) == g[i].op \in {"choice", "select"}

\* prog_reach: what the roots reach in the cone without the branch from ch to
\* to; the input of ch counts.
Reach(g, cone, roots, ch, to) ==
  LET on[j \in 1 .. Len(g)] ==
        j \in cone /\ \/ j \in roots
                      \/ \E k \in (cone \cap (j + 1 .. Len(g))) :
                           /\ \E n \in DOMAIN g[k].args :
                                g[k].args[n] = j /\ ~ (k = ch /\ n > 1 /\ j = to)
                           /\ on[k]
  IN { j \in 1 .. Len(g) : on[j] }

\* The branches that get a segment: of a choice whose branches differ.
Branches(g, cone) ==
  UNION { { <<ch, n>> : n \in 2 .. Len(g[ch].args) } :
          ch \in { i \in cone : /\ IsChoice(g, i)
                                /\ \A m, n \in 2 .. Len(g[i].args) :
                                     g[i].args[m] = g[i].args[n] => m = n } }

\* The nodes that only branch b reads.
Exclusive(g, cone, roots, b) == cone \ Reach(g, cone, roots, b[1], g[b[1]].args[b[2]])

NoBranch == <<0, 0>>

\* The branch a node belongs to: the innermost, and of equal ones the first.
Homes(g, cone, roots) ==
  LET excl == [b \in Branches(g, cone) |-> Exclusive(g, cone, roots, b)]
  IN [i \in cone |->
        LET own == { b \in DOMAIN excl : i \in excl[b] }
        IN IF own = {} THEN NoBranch
           ELSE CHOOSE b \in own : \A a \in own \ {b} :
                  \/ Cardinality(excl[b]) < Cardinality(excl[a])
                  \/ /\ Cardinality(excl[b]) = Cardinality(excl[a])
                     /\ b[1] < a[1] \/ (b[1] = a[1] /\ b[2] < a[2])]

RECURSIVE Segment(_, _, _, _)

\* prog_emit_ctx: the nodes at home in branch b, ascending, each choice with
\* the segments of its own branches.
Segment(g, cone, homes, b) ==
  LET here == Ascending({ i \in cone : homes[i] = b }, Len(g))
      hasSeg(i) == \E j \in cone : homes[j][1] = i
  IN [n \in 1 .. Len(here) |->
        [node |-> here[n],
         segs |-> IF ~ hasSeg(here[n]) THEN << >>
                  ELSE [k \in 1 .. Len(g[here[n]].args) |->
                          IF k = 1 THEN << >> ELSE Segment(g, cone, homes, <<here[n], k>>)]]]

\* hc_df_cone_program
Program(g, cone, roots) == Segment(g, cone, Homes(g, cone, roots), NoBranch)

RECURSIVE Run(_, _, _, _, _, _)

\* prog_run
Run(g, cc, prog, mode, at, s) ==
  IF prog = << >> THEN s
  ELSE LET it == Head(prog)
           d == s[g[it.node].args[1]]
           before == IF it.segs = << >> THEN s
                     ELSE Run(g, cc, it.segs[Branch(g[it.node].op, d)], mode, at, s)
       IN Run(g, cc, Tail(prog), mode, at,
              [before EXCEPT ![it.node] = EvalNode(g, cc, it.node, mode, at, before)])

\* nc_eval_cone: the scratch after an evaluation of node r.
EvalCone(g, cc, r, mode, safe, at, s) ==
  Run(g, cc, Program(g, Cone(g, {r}, mode, safe), {r}), mode, at, s)

Context == [flat |-> flat, slice |-> slice]
-----------------------------------------------------------------------------
(* The steps of a chunk. *)

\* hc_df_compile_expr of the registry's main entry.
CompileMain ==
  /\ phase = "source"
  /\ LET c == Named(registry, NewCompiler, Main)
     IN IF c.err THEN phase' = "failed" /\ UNCHANGED <<graph, root, sc>>
        ELSE /\ graph' = c.nodes /\ root' = c.at
             /\ sc' = [i \in DOMAIN c.nodes |-> Junk]
             /\ phase' = "graph"
  /\ UNCHANGED <<registry, flat, slice, last, evals>>

Markers(op) == { i \in DOMAIN graph : graph[i].op = op }

RECURSIVE FillTables(_, _, _)

\* The tables of the flat caches in todo, in node order, each at its quarts
\* and y = 0; their cones are cut at the caches built before.
FillTables(todo, tables, s) ==
  IF todo = << >> THEN [flat |-> tables, sc |-> s]
  ELSE LET f == Head(todo)
           child == graph[f].args[1]
           cc == [flat |-> tables, slice |-> << >>]
           s0 == EvalCone(graph, cc, child, "SP", TRUE, <<0, 0>>, s)
           s1 == EvalCone(graph, cc, child, "SP", TRUE, <<2, 0>>, s0)
       IN FillTables(Tail(todo),
                     [i \in DOMAIN tables \cup {f} |->
                        IF i = f THEN [q \in 0 .. 1 |-> IF q = 0 THEN s0[child] ELSE s1[child]]
                        ELSE tables[i]], s1)

\* hc_nc_init: the tables of the flat caches.
BuildTables ==
  /\ phase = "graph"
  /\ \E r \in { FillTables(Ascending(Markers("flat"), Len(graph)), << >>, sc) } :
        flat' = r.flat /\ sc' = r.sc
  /\ phase' = "tables"
  /\ UNCHANGED <<registry, graph, root, slice, last, evals>>

\* The children of the interpolators, their cone, and its parts with y.
SliceRoots == { graph[i].args[1] : i \in Markers("interp") }
SliceCone == Cone(graph, SliceRoots, "SP", TRUE)

\* A column of nc_fill_slice at x: the nodes without y once, the others per
\* corner.
Invariants(x, s) ==
  EvalList(graph, Context, Ascending(SliceCone \ YVariant(graph), Len(graph)), "SP", <<x, 0>>, s)
Variants(x, y, s) ==
  Run(graph, Context, Program(graph, SliceCone \cap YVariant(graph), SliceRoots), "SP", <<x, y>>, s)
Upper(x, low) == [low |-> low, high |-> Variants(x, 2, low)]
Column(x, s) == Upper(x, Variants(x, 0, Invariants(x, s)))

\* hc_nc_initialize_first_cell_x and hc_nc_advance_cell_x: both slices.
FillSlices ==
  /\ phase = "tables"
  /\ \E c0 \in { Column(0, sc) } : \E c2 \in { Column(2, c0.high) } :
       LET at(u, n) == (IF u[1] = 0 THEN c0 ELSE c2)[IF u[2] = 0 THEN "low" ELSE "high"][n]
       IN /\ slice' = [i \in Markers("interp") |->
                         [u \in Corner \X Corner |-> at(u, graph[i].args[1])]]
          /\ sc' = c2.high
  /\ phase' = "slices"
  /\ UNCHANGED <<registry, graph, root, flat, last, evals>>

\* find_top_surface is refused outside single point evaluations.
CanEval(mode) ==
  mode = "SP" \/ \A i \in Cone(graph, {root}, mode, FALSE) : graph[i].op # "top"

\* hc_nc_eval_sp, hc_nc_eval_block, or the fill of a cell, through cones: a
\* single point anywhere, or a block of the cell.
Eval(mode, at) ==
  /\ phase = "slices" /\ evals < MaxEvals
  /\ CanEval(mode)
  /\ sc' = EvalCone(graph, Context, root, mode, FALSE, at, sc)
  /\ last' = [mode |-> mode, at |-> at, value |-> sc'[root]]
  /\ evals' = evals + 1
  /\ UNCHANGED <<registry, graph, root, flat, slice, phase>>

\* nc_eval_prefix: every node up to the root.
EvalPrefix(mode, at) ==
  /\ phase = "slices" /\ evals < MaxEvals
  /\ CanEval(mode)
  /\ sc' = EvalList(graph, Context, [i \in 1 .. root |-> i], mode, at, sc)
  /\ last' = [mode |-> mode, at |-> at, value |-> sc'[root]]
  /\ evals' = evals + 1
  /\ UNCHANGED <<registry, graph, root, flat, slice, phase>>

Points == (CellX \cup {Outside}) \X CellY
CellPoints == CellX \X CellY

Next ==
  \/ CompileMain \/ BuildTables \/ FillSlices
  \/ \E at \in Points : Eval("SP", at) \/ EvalPrefix("SP", at)
  \/ \E at \in CellPoints, mode \in {"CELL", "BLOCK"} : Eval(mode, at) \/ EvalPrefix(mode, at)

Spec == Init /\ [][Next]_vars
-----------------------------------------------------------------------------
(* The reference: what an expression means, by the registry alone. *)
RECURSIVE Meaning(_, _, _, _)

Meaning(reg, e, mode, at) ==
  LET sub(j, u) == Meaning(reg, e.args[j], "SP", u)
      arg(j) == Meaning(reg, e.args[j], mode, at)
  IN CASE e.op = "num" -> e.k
       [] e.op = "ref" -> Meaning(reg, reg[e.name], mode, at)
       [] e.op = "x" -> at[1]
       [] e.op = "y" -> 1 - at[2]
       [] e.op = "add" -> arg(1) + arg(2)
       [] e.op \in {"choice", "select"} -> arg(Branch(e.op, arg(1)))
       [] e.op = "interp" ->
            IF mode = "SP" THEN arg(1)
            ELSE Lerp([u \in Corner \X Corner |-> sub(1, u)], at)
       [] e.op = "flat" ->
            IF InWindow(at[1]) THEN sub(1, <<2 * Quart(at[1]), 0>>) ELSE arg(1)
       [] e.op = "top" ->
            Max({0} \cup { y \in 1 .. arg(2) : sub(1, <<at[1], y>>) > 0 })

\* Every evaluation of a chunk, whatever was evaluated before it, gives what
\* the expression means: no skipped node is ever read, no value of another
\* point is, and the nodes evaluated once per column do not change with y.
RightValue ==
  last # None => last.value = Meaning(registry, registry[Main], last.mode, last.at)

\* The names an expression refers to.
RECURSIVE Refs(_)
Refs(e) == IF e.op = "ref" THEN {e.name} ELSE UNION { Refs(e.args[k]) : k \in DOMAIN e.args }

\* The names reached from n in one step or more.
Reached(reg, n) ==
  LET r[k \in 0 .. Cardinality(Names)] ==
        IF k = 0 THEN Refs(reg[n]) ELSE r[k - 1] \cup UNION { Refs(reg[m]) : m \in r[k - 1] }
  IN r[Cardinality(Names)]

\* Cyclic references are refused, and every node reads earlier nodes only,
\* those of its cone included.
GraphIsSound ==
  /\ phase # "source" =>
       ((\E n \in {Main} \cup Reached(registry, Main) : n \in Reached(registry, n))
          => phase = "failed")
  /\ \A i \in DOMAIN graph :
       /\ \A j \in Operands(graph, i) : j < i
       /\ \A j \in ToSet(graph[i].cone.inv) :
            Operands(graph, j) \subseteq ToSet(graph[i].cone.inv)

\* A graph is refused if it has a cycle; any other one is evaluated as it reads.
EvaluatesRight == RightValue /\ GraphIsSound
=============================================================================
