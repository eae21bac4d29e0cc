----------------------------- MODULE LazyTables -----------------------------
(***************************************************************************)
(* What workers of unrelated events work out on first use and keep: the    *)
(* palettes of the templates (core/src/structures_template.c), shared and  *)
(* filled under a spin lock through scratch arrays that are shared too,    *)
(* and the cells of the biome zoomer (core/src/biome_zoom.c), kept in      *)
(* tables each of which is handed out to one thread.                       *)
(***************************************************************************)
EXTENDS Integers, Sequences, FiniteSets

CONSTANTS
  Worker,      \* the threads
  Palette,     \* Palette[p]: the name of each state; palettes of all templates
  Raw,         \* Raw[p]: the blocks of p's template: <<y, x, z>>, a state, nbt
  MaxBlocks,   \* MAXB, the length of the scratch arrays
  Listed,      \* the names the registry knows
  FullCube,    \* the names of blocks with a full collision shape
  Query,       \* what a biome is asked for: a seed and a block position
  Offset(_, _),\* the fiddle of a seed and a corner in sixteenths: corner_fiddle
  Slot(_),     \* the hash of a cell, cut to a slot of a table
  Pool,        \* tables there are
  MaxCalls     \* bound: calls one worker makes

VARIABLES
  pc, calls,
  ask,         \* ask[w]: the palette or the query of the call in progress
  lock,        \* g_pal_mu
  resolved,    \* pal_resolved
  blocks,      \* blocks[p]: what has been copied of palette p
  scratch,     \* the arrays full, other and bes
  count,       \* count[w]: nf, no and ne
  handed,      \* g_zc_next
  tab,         \* tab[w]: the table of w, Unset, or NoTable when there was none left
  cells        \* g_zc_pool: Empty, or the tag of a cell and the offsets of its corners

paletteVars == <<lock, resolved, blocks, scratch, count>>
zoomVars == <<handed, tab, cells>>
vars == <<pc, calls, ask, paletteVars, zoomVars>>

Class == {"full", "other", "bes"}
Unset == -1
NoTable == -2
Empty == [tag |-> << >>, f |-> << >>]
Nothing == [at |-> << >>, name |-> "", nbt |-> FALSE]

\* The cell of a query: its seed and the quart corner at or below it, and
\* where the block is in it.
Shifted(q) == [c \in 1 .. 3 |-> q.at[c] - 2]
Tag(q) == <<q.seed, [c \in 1 .. 3 |-> Shifted(q)[c] \div 4]>>
Slots == { Slot(Tag(q)) : q \in Query }

\* Corner i of eight: bit 4 is one step of x, bit 2 of y, bit 1 of z.
High(i) == <<(i \div 4) % 2, (i \div 2) % 2, i % 2>>
CornerAt(tag, i) == [c \in 1 .. 3 |-> tag[2][c] + High(i)[c]]

\* A template has one block at a position, so that qsort has one outcome, and
\* fits the scratch arrays; queries and fiddles are numbers.
TablesAssumption ==
  /\ \A p \in DOMAIN Palette :
       /\ Raw[p] \in Seq([at : [1 .. 3 -> Int], state : DOMAIN Palette[p], nbt : BOOLEAN])
       /\ Len(Raw[p]) \in 1 .. MaxBlocks
       /\ \A i, j \in DOMAIN Raw[p] : i # j => Raw[p][i].at # Raw[p][j].at
  /\ MaxBlocks \in Nat /\ Pool \in Nat
  /\ Query \subseteq [seed : Int, at : [1 .. 3 -> Int]]
  /\ \A q \in Query : \A i \in 0 .. 7 : Offset(q.seed, CornerAt(Tag(q), i)) \in [1 .. 3 -> Int]

Init ==
  /\ pc = [w \in Worker |-> "out"] /\ calls = [w \in Worker |-> 0] /\ ask = [w \in Worker |-> 0]
  /\ lock = FALSE /\ resolved = [p \in DOMAIN Palette |-> FALSE]
  /\ blocks = [p \in DOMAIN Palette |-> [i \in DOMAIN Raw[p] |-> Nothing]]
  /\ scratch = [k \in Class |-> [i \in 1 .. MaxBlocks |-> Nothing]]
  /\ count = [w \in Worker |-> [k \in Class |-> 0]]
  \* threads of the chain phase have taken tables before
  /\ handed \in 0 .. Pool /\ tab = [w \in Worker |-> Unset]
  /\ cells = [n \in 0 .. Pool - 1 |-> [s \in Slots |-> Empty]]

Goto(w, there) == pc' = [pc EXCEPT ![w] = there]

Call(w) ==
  /\ pc[w] = "out" /\ calls[w] < MaxCalls
  /\ calls' = [calls EXCEPT ![w] = @ + 1]
  /\ \/ /\ \E p \in DOMAIN Palette : ask' = [ask EXCEPT ![w] = p]
        /\ Goto(w, "try")
     \/ /\ \E q \in Query : ask' = [ask EXCEPT ![w] = q]
        /\ Goto(w, IF tab[w] = Unset THEN "table" ELSE "look")
  /\ UNCHANGED <<paletteVars, zoomVars>>

\* The caller has read what it was given.
Return(w) == /\ pc[w] \in {"placing", "asking"} /\ Goto(w, "out")
             /\ UNCHANGED <<calls, ask, paletteVars, zoomVars>>
-----------------------------------------------------------------------------
(* ensure_palette *)

\* The exchange of the lock, and the load that sees it free.
Try(w) == /\ pc[w] = "try" /\ lock' = TRUE
          /\ Goto(w, IF lock THEN "watch" ELSE "test")
          /\ UNCHANGED <<calls, ask, resolved, blocks, scratch, count, zoomVars>>
Watch(w) == /\ pc[w] = "watch" /\ ~ lock /\ Goto(w, "try")
            /\ UNCHANGED <<calls, ask, paletteVars, zoomVars>>

\* A palette that was filled is given out; a name the registry does not know
\* ends the process, so only palettes that are chosen are looked up.
Test(w) ==
  /\ pc[w] = "test"
  /\ Goto(w, IF resolved[ask[w]] THEN "unlock"
             ELSE IF \A s \in DOMAIN Palette[ask[w]] : Palette[ask[w]][s] \in Listed THEN "sort" ELSE "dead")
  /\ count' = [count EXCEPT ![w] = [k \in Class |-> 0]]
  /\ UNCHANGED <<calls, ask, lock, resolved, blocks, scratch, zoomVars>>

\* A block with the name of its state in palette p.
Named(p, b) == [at |-> b.at, name |-> Palette[p][b.state], nbt |-> b.nbt]
Sorted(w) == count[w]["full"] + count[w]["other"] + count[w]["bes"]
ClassOf(e) == IF e.nbt THEN "bes" ELSE IF e.name \in FullCube THEN "full" ELSE "other"

\* The next block goes to the end of its scratch array.
Sort(w) ==
  LET i == Sorted(w) + 1
      e == Named(ask[w], Raw[ask[w]][i])
      k == ClassOf(e)
  IN /\ pc[w] = "sort"
     /\ scratch' = [scratch EXCEPT ![k][count[w][k] + 1] = e]
     /\ count' = [count EXCEPT ![w][k] = @ + 1]
     /\ Goto(w, IF i = Len(Raw[ask[w]]) THEN "order" ELSE "sort")
     /\ UNCHANGED <<calls, ask, lock, resolved, blocks, zoomVars>>

\* cmp_yxz
Before(a, b) == \/ a[1] < b[1]
                \/ a[1] = b[1] /\ a[2] < b[2]
                \/ a[1] = b[1] /\ a[2] = b[2] /\ a[3] < b[3]

\* What the first n places of array a hold, and the entry of S that n others
\* are before; where S is no set of entries at different places, none is.
Front(a, n) == { a[i] : i \in 1 .. n }
One(S) == IF S = {} THEN Nothing ELSE CHOOSE e \in S : TRUE
Nth(S, n) == One({ e \in S : Cardinality({ f \in S : Before(f.at, e.at) }) = n })

\* qsort of the filled part of each array.
Ordered(w) ==
  [k \in Class |-> [i \in 1 .. MaxBlocks |->
     IF i > count[w][k] THEN scratch[k][i] ELSE Nth(Front(scratch[k], count[w][k]), i - 1)]]

\* Mutant of Order: the lock is given up once the scratch arrays are filled.
OrderUnlocks(w) ==
  /\ pc[w] = "order"
  /\ scratch' = Ordered(w) /\ lock' = FALSE
  /\ Goto(w, "full")
  /\ UNCHANGED <<calls, ask, resolved, blocks, count, zoomVars>>

Order(w) ==
  /\ pc[w] = "order"
  /\ scratch' = Ordered(w)
  /\ Goto(w, "full")
  /\ UNCHANGED <<calls, ask, lock, resolved, blocks, count, zoomVars>>

\* The three copies, one behind the other.
Copy(w) ==
  LET k == pc[w]
      n == count[w]
      start == [full |-> 0, other |-> n["full"], bes |-> n["full"] + n["other"]][k]
  IN /\ k \in Class
     /\ blocks' = [blocks EXCEPT ![ask[w]] =
          [i \in DOMAIN @ |-> IF i - start \in 1 .. n[k] THEN scratch[k][i - start] ELSE @[i]]]
     /\ Goto(w, [full |-> "other", other |-> "bes", bes |-> "publish"][k])
     /\ UNCHANGED <<calls, ask, lock, resolved, scratch, count, zoomVars>>

Publish(w) == /\ pc[w] = "publish"
              /\ resolved' = [resolved EXCEPT ![ask[w]] = TRUE]
              /\ Goto(w, "unlock")
              /\ UNCHANGED <<calls, ask, lock, blocks, scratch, count, zoomVars>>
Unlock(w) == /\ pc[w] = "unlock" /\ lock' = FALSE /\ Goto(w, "placing")
             /\ UNCHANGED <<calls, ask, resolved, blocks, scratch, count, zoomVars>>
-----------------------------------------------------------------------------
(* hc_biome_zoom *)

\* The first query of a thread takes a table, or finds that none is left.
TakeTable(w) ==
  /\ pc[w] = "table" /\ Goto(w, "look")
  /\ handed' = handed + 1
  /\ tab' = [tab EXCEPT ![w] = IF handed < Pool THEN handed ELSE NoTable]
  /\ UNCHANGED <<calls, ask, paletteVars, cells>>

Filled(tag) == [tag |-> tag, f |-> [i \in 0 .. 7 |-> Offset(tag[1], CornerAt(tag, i))]]

\* zoom_cell: a slot that holds another cell is filled anew; without a table
\* the cell is worked out aside.
Look(w) ==
  LET tag == Tag(ask[w])
  IN /\ pc[w] = "look" /\ Goto(w, "asking")
     /\ cells' = IF tab[w] = NoTable \/ cells[tab[w]][Slot(tag)].tag = tag THEN cells
                 ELSE [cells EXCEPT ![tab[w]][Slot(tag)] = Filled(tag)]
     /\ UNCHANGED <<calls, ask, paletteVars, handed, tab>>

\* The cell a worker looks at.
Seen(w) == LET tag == Tag(ask[w]) IN IF tab[w] = NoTable THEN Filled(tag) ELSE cells[tab[w]][Slot(tag)]

\* The distance of a block from a corner, in sixteenths, squared.
Distance(q, f, i) ==
  LET d == [c \in 1 .. 3 |-> 4 * (Shifted(q)[c] % 4) - 16 * High(i)[c] + f[i][c]]
  IN d[3] * d[3] + d[2] * d[2] + d[1] * d[1]

\* The loop over the corners: a later one must be nearer.
Nearer(q, f, best, i) == IF Distance(q, f, best) > Distance(q, f, i) THEN i ELSE best
Nearest(q, f) ==
  LET Both(best, i, j) == Nearer(q, f, Nearer(q, f, best, i), j)
  IN Nearer(q, f, Both(Both(Both(0, 1, 2), 3, 4), 5, 6), 7)
Zoomed(q, f) == CornerAt(Tag(q), Nearest(q, f))
-----------------------------------------------------------------------------
Step(w) == Try(w) \/ Watch(w) \/ Test(w) \/ Sort(w) \/ Order(w) \/ Copy(w) \/ Publish(w) \/ Unlock(w)
           \/ TakeTable(w) \/ Look(w) \/ Return(w)

\* die() ends every thread.
Alive == \A w \in Worker : pc[w] # "dead"

Next == Alive /\ \E w \in Worker : Call(w) \/ Step(w)
Spec == Init /\ [][Next]_vars
-----------------------------------------------------------------------------
(* References: a palette sorted at once, and the quart a block belongs to. *)
Rank(e) == [full |-> 1, other |-> 2, bes |-> 3][ClassOf(e)]
Lower(a, b) == Rank(a) < Rank(b) \/ (Rank(a) = Rank(b) /\ Before(a.at, b.at))
Entries(p) == { Named(p, Raw[p][i]) : i \in DOMAIN Raw[p] }
Placed(p) ==
  [i \in DOMAIN Raw[p] |->
     One({ e \in Entries(p) : Cardinality({ f \in Entries(p) : Lower(f, e) }) = i - 1 })]

Quart(q) ==
  LET f == Filled(Tag(q)).f
      i == CHOOSE i \in 0 .. 7 : \A j \in 0 .. 7 : IF j < i THEN Distance(q, f, j) > Distance(q, f, i)
                                                            ELSE Distance(q, f, j) >= Distance(q, f, i)
  IN CornerAt(Tag(q), i)

\* Whoever holds an answer holds the one its question has by itself, as long
\* as it reads it: whichever worker was first, whatever the others fill in,
\* from a table of its own or without one
\* (structures_template.c:304, biome_zoom.c:50).
AnswersPure ==
  \A w \in Worker : /\ pc[w] = "placing" => blocks[ask[w]] = Placed(ask[w])
                    /\ pc[w] = "asking" => Zoomed(ask[w], Seen(w).f) = Quart(ask[w])
-----------------------------------------------------------------------------
(* The inductive invariant behind AnswersPure.                             *)
Holding == {"test", "sort", "order", "publish", "unlock", "dead"} \cup Class
InPalette == Holding \cup {"try", "watch", "placing"}
InZoom == {"table", "look", "asking"}
Entry == {Nothing} \cup UNION { Entries(p) : p \in DOMAIN Palette }

TypeOK ==
  /\ pc \in [Worker -> InPalette \cup InZoom \cup {"out"}] /\ DOMAIN ask = Worker
  /\ \A w \in Worker : /\ pc[w] \in InPalette => ask[w] \in DOMAIN Palette
                       /\ pc[w] \in InZoom => ask[w] \in Query
  /\ lock \in BOOLEAN /\ resolved \in [DOMAIN Palette -> BOOLEAN]
  /\ DOMAIN blocks = DOMAIN Palette
  /\ \A p \in DOMAIN Palette : blocks[p] \in [DOMAIN Raw[p] -> Entry]
  /\ scratch \in [Class -> [1 .. MaxBlocks -> Entry]]
  /\ count \in [Worker -> [Class -> Nat]]
  /\ handed \in Nat /\ tab \in [Worker -> {Unset, NoTable} \cup (0 .. Pool - 1)]
  /\ cells \in [0 .. Pool - 1 -> [Slots -> {Empty} \cup { Filled(Tag(q)) : q \in Query }]]

\* One worker at a time is between the lock and the unlock.
Excluded ==
  /\ \A w \in Worker : pc[w] \in Holding => lock
  /\ \A v, w \in Worker : pc[v] \in Holding /\ pc[w] \in Holding => v = w

\* The entries of class k among the first n blocks of palette p.
Classed(p, n, k) == { e \in { Named(p, Raw[p][i]) : i \in 1 .. n } : ClassOf(e) = k }
Copied(p, n) == \A i \in 1 .. n : blocks[p][i] = Placed(p)[i]

\* How far the worker that resolves a palette has come.
Resolving(w) ==
  LET p == ask[w]
      all == Len(Raw[p])
  IN /\ pc[w] \in {"sort", "order", "publish"} \cup Class =>
          /\ ~ resolved[p] /\ Sorted(w) \in 0 .. all
          /\ \A k \in Class : count[w][k] = Cardinality(Classed(p, Sorted(w), k))
     /\ pc[w] \in {"sort", "order"} =>
          \A k \in Class : Front(scratch[k], count[w][k]) = Classed(p, Sorted(w), k)
     /\ pc[w] = "sort" => Sorted(w) < all
     /\ pc[w] \in {"order", "publish"} \cup Class => Sorted(w) = all
     /\ pc[w] \in Class =>
          \A k \in Class : \A i \in 1 .. count[w][k] : scratch[k][i] = Nth(Classed(p, all, k), i - 1)
     /\ pc[w] = "other" => Copied(p, count[w]["full"])
     /\ pc[w] = "bes" => Copied(p, count[w]["full"] + count[w]["other"])
     /\ pc[w] = "publish" => Copied(p, all)
     /\ pc[w] \in {"unlock", "placing"} => resolved[p]

\* No table is handed out twice, and who looks has been to get one.
OwnTables ==
  /\ \A w \in Worker : tab[w] < handed
  /\ \A v, w \in Worker : tab[v] = tab[w] /\ tab[w] \in 0 .. Pool - 1 => v = w
  /\ \A w \in Worker : pc[w] \in {"look", "asking"} => tab[w] # Unset
  /\ \A w \in Worker : pc[w] = "asking" => Seen(w) = Filled(Tag(ask[w]))

TablesInv ==
  /\ TypeOK /\ Excluded /\ OwnTables
  /\ \A w \in Worker : Resolving(w)
  /\ \A p \in DOMAIN Palette : resolved[p] => Copied(p, Len(Raw[p]))
=============================================================================
