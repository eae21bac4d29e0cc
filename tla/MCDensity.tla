----------------------------- MODULE MCDensity -----------------------------
(***************************************************************************)
(* Densities: what a graph means and how a chunk evaluates it, and what    *)
(* the vector back ends make of its programs.  A behaviour is one of the   *)
(* two, named by part; the other stands still.                             *)
(***************************************************************************)
EXTENDS DensityGraph

CONSTANTS
  IntMax, LongMax, Period, Span, W, Guard, LongGuard,
  Graphs, Noises, Blends, RowCounts, Requests

VARIABLES
  part,     \* "graph" or "lanes"
  g, isa, rows, scratch, vscA, vscB, filled, cell, z, i, stage

L == INSTANCE Lanes WITH slice <- filled, phase <- stage

ASSUME RegistryAssumption /\ L!NoiseAssumption /\ L!LaneAssumption

allVars == <<part, vars, g, isa, rows, scratch, vscA, vscB, filled, cell, z, i, stage>>

Idle == "idle"
GraphInit ==
  /\ part = "graph" /\ Init
  /\ g = Idle /\ isa = Idle /\ rows = Idle /\ scratch = Idle /\ vscA = Idle /\ vscB = Idle
  /\ filled = Idle /\ cell = Idle /\ z = Idle /\ i = Idle /\ stage = Idle
LanesInit ==
  /\ part = "lanes" /\ L!Init
  /\ registry = Idle /\ graph = << >> /\ root = 0
  /\ flat = << >> /\ slice = << >> /\ sc = << >>
  /\ last = None /\ phase = "source" /\ evals = 0
MCInit == GraphInit \/ LanesInit

InGraph == part = "graph" /\ UNCHANGED <<part, g, isa, rows, scratch, vscA, vscB, filled, cell, z, i, stage>>
InLanes == part = "lanes" /\ UNCHANGED <<part, vars>>

MCNext ==
  \/ InGraph /\ CompileMain
  \/ InGraph /\ BuildTables
  \/ InGraph /\ FillSlices
  \/ \E at \in Points : InGraph /\ (Eval("SP", at) \/ EvalPrefix("SP", at))
  \/ \E at \in CellPoints, mode \in {"CELL", "BLOCK"} : InGraph /\ (Eval(mode, at) \/ EvalPrefix(mode, at))
  \/ InLanes /\ L!StartColumn
  \/ InLanes /\ L!FillTwoGroups
  \/ InLanes /\ L!FillGroup
  \/ InLanes /\ L!FillNarrow
  \/ InLanes /\ L!FillRow
  \/ InLanes /\ L!EndColumn
  \/ InLanes /\ L!FillCellTwo
  \/ InLanes /\ L!FillCellNarrow
  \/ InLanes /\ L!FillCellBlocks
  \/ InLanes /\ L!Finish

MCSpec == MCInit /\ [][MCNext]_allVars

\* Every corner of the slice and every block of the cell is what the scalar
\* evaluation of its point gives, whichever lanes shared its vector, whatever
\* segments ran for them, and whatever the scratches held.
LanesAreScalar == part = "lanes" => L!LanesAreScalar
-----------------------------------------------------------------------------
(* Registries: a, which b may share, and main, which may share both. *)
Node(op, args) == [op |-> op, args |-> args, k |-> 0, name |-> ""]
Num(k) == [op |-> "num", args |-> << >>, k |-> k, name |-> ""]
Ref(n) == [op |-> "ref", args |-> << >>, k |-> 0, name |-> n]
X == Node("x", << >>)
Y == Node("y", << >>)
A == Ref("a")
B == Ref("b")

\* named "a": positions, markers and a choice
SetA == { Node("add", <<X, Y>>), Node("flat", << Node("add", <<X, Y>>) >>),
          Node("choice", <<X, Y, Num(3)>>), Node("interp", << Node("add", <<Y, Num(2)>>) >>) }
\* named "b": may share a
SetB == { Node("add", <<A, Num(1)>>), Node("flat", << A >>), Node("interp", << Node("add", <<A, X>>) >>),
          Node("choice", <<Y, A, X>>), Node("choice", <<X, A, Node("add", <<A, Y>>)>>),
          Node("select", <<X, Y, A, Num(2)>>), Node("choice", <<A, X, A>>),
          Node("top", <<A, Node("add", <<X, Num(1)>>)>>) }
\* the main function
SetM == { Node("choice", <<A, B, X>>), Node("choice", <<X, B, Node("choice", <<Y, B, A>>)>>),
          Node("add", << Node("choice", <<Y, B, A>>), Node("flat", << B >>) >>),
          Node("select", <<Y, B, Node("choice", <<X, A, B>>), B>>),
          Node("interp", << Node("choice", <<X, B, A>>) >>),
          Node("top", << B, A >>), Node("choice", <<B, A, A>>),
          Node("flat", << Node("interp", << B >>) >>),
          Node("choice", << A, Node("choice", <<B, X, Y>>), Node("flat", << B >>) >>), Node("choice", <<X, Ref("main"), A>>) }
MCRegistries ==
  { [n \in Names |-> CASE n = "a" -> ea [] n = "b" -> eb [] n = "main" -> em] :
      ea \in SetA, eb \in SetB, em \in SetM }
-----------------------------------------------------------------------------
(* Graphs for the back ends. *)
Nd(op, args, k) == [op |-> op, args |-> args, k |-> k]
\* Missing, Tiny, NegZero and NaN of Lanes.
NoOctave == [origin |-> <<0, 0, 0>>, perm |-> << >>]
TinyScale == -1
MinusZero == 10000001
NotNumber == 10000000

PosX == Nd("x", << >>, 0)
PosY == Nd("y", << >>, 0)
PosZ == Nd("z", << >>, 0)
Cst(k) == Nd("const", << >>, k)

PermA == [v \in 0 .. 7 |-> << 3, 6, 0, 5, 1, 7, 2, 4 >>[v + 1]]
PermB == [v \in 0 .. 7 |-> << 7, 2, 4, 1, 6, 0, 5, 3 >>[v + 1]]
Oct(x, y, zz, p) == [origin |-> <<x, y, zz>>, perm |-> p]
MCRequests == {-1, 0, 1}
MCNoises == << [first |-> << Oct(3, 1, 6, PermA), NoOctave, Oct(0, 5, 2, PermB) >>,
                second |-> << Oct(7, 2, 1, PermB) >>] >>
MCBlends == << [main |-> << Oct(1, 2, 3, PermB), Oct(2, 7, 5, PermA) >>,
                lo |-> << Oct(5, 0, 1, PermA), Oct(4, 3, 2, PermB) >>,
                hi |-> << NoOctave, Oct(6, 1, 1, PermB) >>,
                xz |-> 5, y |-> 2, factor |-> 2, smear |-> 1],
               [main |-> << Oct(3, 2, 3, PermA) >>,
                lo |-> << Oct(5, 0, 1, PermB) >>, hi |-> << Oct(6, 1, 1, PermA) >>,
                xz |-> 1, y |-> 8, factor |-> 1, smear |-> TinyScale] >>

MCGraphs ==
  { \* two branches of their own by y
    << PosX, PosY, Nd("noise", << >>, 1), Nd("add", <<1, 2>>, 0), Nd("choice", <<2, 3, 4>>, <<-8, 20>>) >>,
    \* a choice in a branch of a select
    << PosX, PosY, Nd("noise", << >>, 1), Nd("blended", << >>, 1), Nd("choice", <<1, 3, 2>>, <<0, 33>>),
       Nd("select", <<2, 5, 4, 1>>, <<8, 30>>), Nd("interp", <<6>>, 0), Nd("add", <<6, 7>>, 0) >>,
    << PosY, Nd("blended", << >>, 2), Nd("mulk", <<2>>, -1), Nd("flat", <<1>>, 0), Nd("min", <<3, 4>>, 0),
       Nd("max", <<5, 1>>, 0), Nd("clamp", <<6>>, <<-3000, 5000>>), Nd("negative", <<7>>, 0) >>,
    << PosY, Nd("blended", << >>, 1), Nd("choice", <<1, 2, 1>>, <<0, 70>>) >>,
    << Nd("blended", << >>, 2) >>,
    \* zeros of both signs and what is not a number
    << PosY, Cst(0), Cst(MinusZero), Cst(NotNumber), Nd("choice", <<1, 2, 3>>, <<0, 17>>), Nd("choice", <<1, 4, 5>>, <<10, 24>>),
       Nd("min", <<5, 2>>, 0), Nd("min", <<2, 5>>, 0), Nd("max", <<7, 6>>, 0), Nd("mul", <<8, 9>>, 0),
       Nd("max", <<6, 10>>, 0), Nd("clamp", <<11>>, <<MinusZero, 0>>), Nd("add", <<9, 12>>, 0),
       Nd("min", <<13, 7>>, 0), Nd("max", <<14, 8>>, 0) >>,
    << PosY, Cst(MinusZero), Nd("choice", <<1, 2, 1>>, <<0, 17>>), Cst(0), Nd("min", <<3, 4>>, 0), Nd("max", <<4, 3>>, 0), Nd("min", <<6, 5>>, 0) >>,
    \* tables of what is not evaluated itself, one of them in a branch
    << PosZ, PosY, Nd("noise", << >>, 1), Nd("flat", <<3>>, 0), Nd("flat", <<1>>, 0), Nd("mul", <<4, 2>>, 0),
       Nd("choice", <<2, 6, 5>>, <<0, 20>>) >>,
    \* an operation that vectors do not have
    << PosZ, Nd("shift", << >>, 1), PosY, Nd("gradient", << >>, <<0, 30, 4, -7>>), Nd("mul", <<2, 4>>, 0), Nd("choice", <<3, 5, 1>>, <<0, 20>>) >> }
=============================================================================
