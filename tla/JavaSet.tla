------------------------------ MODULE JavaSet ------------------------------
(***************************************************************************)
(* java.util.HashSet as core/src/jset.c rebuilds it: chains that become    *)
(* red-black trees when they grow long, and a table that doubles.  The     *)
(* generator consumes random numbers in the iteration order of such sets,  *)
(* so a lost link is as bad as a lost element.                             *)
(*                                                                         *)
(* Elements are opaque keys with a hash of Width bits.  The thresholds of  *)
(* the code (16, 64, 8, 6, 8192, 16384) are constants.  A tree bin is a    *)
(* chain as well: next and prev link its nodes in iteration order.         *)
(***************************************************************************)
EXTENDS Integers, Sequences, FiniteSets, SequencesExt

CONSTANTS
  Scripts,            \* the keys that are added, in order, some of them twice
  Keys, Hash, Width,  \* elements and their spread hash, in 0 .. 2^Width - 1
  InitCap,            \* 16: buckets of a new set, a power of two
  MinTreeCap,         \* 64: below it a long chain doubles the table instead
  TreeifyAt,          \* 8: a chain this long becomes a tree with the next key
  UntreeifyAt,        \* 6: a half of a split tree this short becomes a chain
  MaxEntries, MaxCap  \* 8192, 16384: the sizes of the arrays

JavaSetAssumption ==
  /\ Hash \in [Keys -> 0 .. 2 ^ Width - 1]
  /\ {InitCap, MinTreeCap, TreeifyAt, UntreeifyAt, MaxEntries, MaxCap} \subseteq Nat \ {0}

VARIABLES
  todo,     \* keys still to be added
  set,      \* [ent, bucket, tree, cap, size, died]: entries are never reused
  members   \* history: what a java.util.Set would hold

vars == <<todo, set, members>>

Nil == 0
Dead == -1   \* in place of a root: equal hashes met while a tree grows
Signed(h) == IF h >= 2 ^ (Width - 1) THEN h - 2 ^ Width ELSE h
HashOf(ent, i) == Signed(Hash[ent[i].key])
Home(s, i) == Hash[s.ent[i].key] % s.cap
Threshold(cap) == (3 * cap) \div 4

\* hc_jset_init
Init ==
  /\ set = [ent |-> << >>, bucket |-> [b \in 0 .. InitCap - 1 |-> Nil],
            tree |-> [b \in 0 .. InitCap - 1 |-> FALSE], cap |-> InitCap, size |-> 0,
            died |-> FALSE]
  /\ members = {} /\ todo \in Scripts
-----------------------------------------------------------------------------
(* The tree algorithms change entries and the root only; they work on a    *)
(* record w = [ent, root].                                                 *)

Other(side) == IF side = "left" THEN "right" ELSE "left"
Get(w, i, f) == IF i = Nil THEN Nil ELSE w.ent[i][f]
Set(w, i, f, v) == [w EXCEPT !.ent = IF i = Nil THEN @ ELSE [@ EXCEPT ![i][f] = v]]
Paint(w, i, red) == Set(w, i, "red", red)
Red(w, i) == i # Nil /\ w.ent[i].red
SideOf(w, i, p) == IF w.ent[p].left = i THEN "left" ELSE "right"

\* pp, the parent of old, gets new in its place; without one new is the root.
Hang(w, pp, old, new) ==
  IF pp = Nil THEN [w EXCEPT !.root = new] ELSE Set(w, pp, SideOf(w, old, pp), new)

\* rotate_left and rotate_right: p goes down on the given side, and r, its child
\* on the other, comes up to pp.
Turn(w, p, r, pp, side) ==
  LET inner == Get(w, r, side)
      hung == Set(Hang(Set(Set(w, p, Other(side), inner), inner, "parent", p), pp, p, r), r, "parent", pp)
  IN Set(Set(Paint(hung, IF pp = Nil THEN r ELSE Nil, FALSE), r, side, p), p, "parent", r)
Rotate(w, p, side) ==
  IF Get(w, p, Other(side)) = Nil THEN w
  ELSE Turn(w, p, w.ent[p][Other(side)], w.ent[p].parent, side)

RECURSIVE AfterInsertion(_, _), AfterDeletion(_, _)

\* balance_insertion; x is red and has no children of its own, xp is its parent
\* and lies on a side of xpp.  A red uncle: both are black now, and it goes on
\* above.  Else the outer one of the two comes up.
ComeUp(w, low, up, xpp, side) ==
  AfterInsertion(Rotate(Paint(Paint(w, up, FALSE), xpp, TRUE), xpp, Other(side)), low)
TwoReds(w, x, xp, xpp, side) ==
  LET uncle == w.ent[xpp][Other(side)]
  IN IF Red(w, uncle)
     THEN AfterInsertion(Paint(Paint(Paint(w, uncle, FALSE), xp, FALSE), xpp, TRUE), xpp)
     ELSE IF x = w.ent[xp][Other(side)] THEN ComeUp(Rotate(w, xp, side), xp, x, xpp, side)
     ELSE ComeUp(w, x, xp, xpp, side)
AfterInsertion(w, x) ==
  LET xp == Get(w, x, "parent")
      xpp == Get(w, xp, "parent")
  IN IF xp = Nil THEN [Paint(w, x, FALSE) EXCEPT !.root = x]
     ELSE IF ~ Red(w, xp) \/ xpp = Nil THEN w
     ELSE TwoReds(w, x, xp, xpp, SideOf(w, xp, xpp))

\* balance_deletion; x is where one black node is missing, on a side of xp.
\* The sibling, black by now, turns red if it has no red child; else its outer
\* child is made red, and it comes up in the place of xp.
Fill(w, xp, sib, side) ==
  Rotate(Paint(Paint(Paint(w, sib, Red(w, xp)), w.ent[sib][Other(side)], FALSE), xp, FALSE), xp, side)
BlackSibling(w, xp, sib, side) ==
  LET inner == Get(w, sib, side)
      outer == Get(w, sib, Other(side))
  IN IF sib = Nil \/ (~ Red(w, outer) /\ ~ Red(w, inner)) THEN AfterDeletion(Paint(w, sib, TRUE), xp)
     ELSE IF Red(w, outer) THEN Fill(w, xp, sib, side)
     ELSE Fill(Rotate(Paint(Paint(w, inner, FALSE), sib, TRUE), sib, Other(side)), xp, inner, side)
OneMissing(w, xp, sib, side) ==
  IF ~ Red(w, sib) THEN BlackSibling(w, xp, sib, side)
  ELSE BlackSibling(Rotate(Paint(Paint(w, sib, FALSE), xp, TRUE), xp, side), xp, w.ent[sib][side], side)
AfterDeletion(w, x) ==
  LET xp == Get(w, x, "parent") IN
  IF x = Nil \/ x = w.root THEN w
  ELSE IF xp = Nil THEN [Paint(w, x, FALSE) EXCEPT !.root = x]
  ELSE IF Red(w, x) THEN Paint(w, x, FALSE)
  ELSE OneMissing(w, xp, w.ent[xp][Other(SideOf(w, x, xp))], SideOf(w, x, xp))

\* root_of
RECURSIVE RootOf(_, _)
RootOf(ent, i) == IF ent[i].parent = Nil THEN i ELSE RootOf(ent, ent[i].parent)

\* Where a key of hash h belongs below p, or the node that has its hash.
RECURSIVE Descend(_, _, _)
Descend(ent, p, h) ==
  LET side == IF HashOf(ent, p) > h THEN "left" ELSE "right" IN
  IF HashOf(ent, p) = h THEN [at |-> p, side |-> "equal"]
  ELSE IF ent[p][side] = Nil THEN [at |-> p, side |-> side]
  ELSE Descend(ent, ent[p][side], h)

\* A red leaf at the place found, and the tree balanced again.
Attach(w, i, place) ==
  AfterInsertion(Set(Set(Set(w, i, "parent", place.at), place.at, place.side, i),
                     i, "red", TRUE), i)
-----------------------------------------------------------------------------
(* Chains. *)

RECURSIVE Chain(_, _)
Chain(ent, e) == IF e = Nil THEN << >> ELSE << e >> \o Chain(ent, ent[e].next)

HeadOf(c) == IF c = << >> THEN Nil ELSE c[1]
Before(c, k) == IF k = 1 THEN Nil ELSE c[k - 1]
After(c, k) == IF k = Len(c) THEN Nil ELSE c[k + 1]
Place(c, i) == CHOOSE k \in DOMAIN c : c[k] = i

\* The next links of the chain c, and the prev links too where it is a tree.
Relink(ent, c, prevs) ==
  [i \in DOMAIN ent |->
     IF i \notin ToSet(c) THEN ent[i]
     ELSE [ent[i] EXCEPT !.next = After(c, Place(c, i)),
                         !.prev = IF prevs THEN Before(c, Place(c, i)) ELSE @]]

\* move_root_to_front
MoveRootToFront(s, root) ==
  LET b == Home(s, root)
      first == s.bucket[b]
      rn == s.ent[root].next
      rp == s.ent[root].prev
      w == [ent |-> s.ent, root |-> root]
      w1 == Set(Set(Set(w, rn, "prev", rp), rp, "next", rn), first, "prev", root)
  IN IF root = Nil \/ root = first THEN s
     ELSE [s EXCEPT !.bucket[b] = root,
                    !.ent = Set(Set(w1, root, "next", first), root, "prev", Nil).ent]

\* The tree w of a bin of s.
Rooted(s, w) == MoveRootToFront([s EXCEPT !.ent = w.ent], w.root)

RECURSIVE Grow(_, _)

\* The nodes of a chain enter the tree one by one; equal hashes would need
\* the identity hash of Java objects, and end the program.
Grow(w, chain) ==
  IF chain = << >> \/ w.root = Dead THEN w
  ELSE LET x == Head(chain)
           bare == Set(Set(w, x, "left", Nil), x, "right", Nil)
           place == Descend(bare.ent, w.root, HashOf(w.ent, x))
       IN IF w.root = Nil
          THEN Grow([Set(Set(bare, x, "parent", Nil), x, "red", FALSE) EXCEPT !.root = x], Tail(chain))
          ELSE IF place.side = "equal" THEN [w EXCEPT !.root = Dead]
          ELSE Grow(Attach(bare, x, place), Tail(chain))

Die(s) == [s EXCEPT !.died = TRUE]

\* treeify
Planted(s, b, w) ==
  IF s.died \/ w.root = Dead THEN Die(s) ELSE Rooted([s EXCEPT !.tree[b] = TRUE], w)
Treeify(s, b) == Planted(s, b, Grow([ent |-> s.ent, root |-> Nil], Chain(s.ent, s.bucket[b])))

\* One half of a split bin: its chain, and a tree where the bin was one and
\* the half is long enough; rebuilt only if the other half took nodes away.
Rebuilt(s, b, rest) == IF s.tree[b] /\ rest # << >> THEN Treeify(s, b) ELSE s
PutHalf(s, b, half, rest, wasTree) ==
  Rebuilt([s EXCEPT !.bucket[b] = HeadOf(half), !.tree[b] = wasTree /\ Len(half) > UntreeifyAt], b, rest)

\* Mutant of PutHalves: the upper half keeps the tree it was cut from.
PutHalvesStaleTree(s, b, bit, lo, hi, wasTree) ==
  PutHalf(PutHalf([s EXCEPT !.ent = Relink(Relink(@, lo, wasTree), hi, wasTree)], b, lo, << >>, wasTree),
          b + bit, hi, << >>, wasTree)

\* split_tree, and the loop of jset_resize over a plain chain: the nodes stay
\* or move up by bit buckets, in the order they had.
PutHalves(s, b, bit, lo, hi, wasTree) ==
  PutHalf(PutHalf([s EXCEPT !.ent = Relink(Relink(@, lo, wasTree), hi, wasTree)], b, lo, hi, wasTree),
          b + bit, hi, lo, wasTree)
SplitBin(s, b, bit) ==
  LET chain == Chain(s.ent, s.bucket[b])
      low(i) == (Hash[s.ent[i].key] \div bit) % 2 = 0
  IN PutHalves(s, b, bit, SelectSeq(chain, low), SelectSeq(chain, LAMBDA i : ~ low(i)), s.tree[b])

RECURSIVE SplitFrom(_, _, _)
SplitFrom(s, b, bit) == IF b = bit THEN s ELSE SplitFrom(SplitBin(s, b, bit), b + 1, bit)

\* jset_resize
Resize(s) ==
  LET n == s.cap
      wide == [s EXCEPT !.cap = 2 * n,
                        !.bucket = [b \in 0 .. 2 * n - 1 |-> IF b < n THEN @[b] ELSE Nil],
                        !.tree = [b \in 0 .. 2 * n - 1 |-> IF b < n THEN @[b] ELSE FALSE]]
  IN IF 2 * n > MaxCap THEN Die(s) ELSE SplitFrom(wide, 0, n)

\* treeify_bin
TreeifyBin(s, b) ==
  IF s.cap < MinTreeCap THEN Resize(s)
  ELSE Treeify([s EXCEPT !.ent = Relink(@, Chain(@, s.bucket[b]), TRUE)], b)

\* new_entry, with id Len(s.ent) + 1
NewId(s) == Len(s.ent) + 1
Blank(k) == [key |-> k, next |-> Nil, prev |-> Nil, parent |-> Nil,
             left |-> Nil, right |-> Nil, red |-> FALSE]
NewEntry(s, k) ==
  [s EXCEPT !.ent = Append(@, Blank(k)),
            !.died = @ \/ Len(s.ent) >= MaxEntries]
-----------------------------------------------------------------------------
(* The operations. *)

\* put_tree_val: the new node follows its tree parent in the chain.
AddLeaf(s, root, k, place) ==
  LET i == NewId(s)
      xpn == s.ent[place.at].next
      w == [ent |-> NewEntry(s, k).ent, root |-> root]
      linked == Set(Set(Set(Set(w, i, "next", xpn), place.at, "next", i), i, "prev", place.at), xpn, "prev", i)
  IN IF place.side = "equal" THEN Die(s) ELSE Rooted(NewEntry(s, k), Attach(linked, i, place))
PutTreeVal(s, b, k) ==
  LET root == RootOf(s.ent, s.bucket[b])
  IN AddLeaf(s, root, k, Descend(s.ent, root, Signed(Hash[k])))

\* hc_jset_add: an empty bucket or a chain; the new key goes to the end.
PutChain(s, b, k) ==
  LET chain == Chain(s.ent, s.bucket[b])
      s1 == NewEntry(s, k)
      s2 == [s1 EXCEPT !.ent[Last(chain)].next = NewId(s)]
  IN IF chain = << >> THEN [s1 EXCEPT !.bucket[b] = NewId(s), !.tree[b] = FALSE]
     ELSE IF Len(chain) >= TreeifyAt THEN TreeifyBin(s2, b)
     ELSE s2

\* Is k there already?  A tree is searched by hash, a chain from its head.
Found(s, b, k) ==
  IF s.bucket[b] # Nil /\ s.tree[b]
  THEN LET place == Descend(s.ent, RootOf(s.ent, s.bucket[b]), Signed(Hash[k]))
       IN place.side = "equal" /\ s.ent[place.at].key = k
  ELSE \E i \in ToSet(Chain(s.ent, s.bucket[b])) : s.ent[i].key = k

\* hc_jset_add
Put(s, b, k) == IF s.bucket[b] # Nil /\ s.tree[b] THEN PutTreeVal(s, b, k) ELSE PutChain(s, b, k)
Widened(s) == IF ~ s.died /\ s.size > Threshold(s.cap) THEN Resize(s) ELSE s
Add ==
  LET k == Head(todo)
      b == Hash[k] % set.cap
  IN /\ ~ set.died /\ todo # << >> /\ todo' = Tail(todo)
     /\ set' = IF Found(set, b, k) THEN set ELSE Widened([Put(set, b, k) EXCEPT !.size = @ + 1])
     /\ members' = members \cup {k}

\* remove_tree_node, relinking: nd has two children and changes places with
\* its successor in hash order.
SwapWithSuccessor(w, nd) ==
  LET e == w.ent
      pr == e[nd].right
      pl == e[nd].left
      RECURSIVE Leftmost(_)
      Leftmost(i) == IF e[i].left = Nil THEN i ELSE Leftmost(e[i].left)
      sn == Leftmost(pr)
      sp == e[sn].parent
      w1 == Set(Set(w, sn, "red", e[nd].red), nd, "red", e[sn].red)
      w2 == IF sn = pr THEN Set(Set(w1, nd, "parent", sn), sn, "right", nd)
            ELSE Set(Set(Set(Set(w1, nd, "parent", sp), sp, SideOf(w1, sn, sp), nd),
                         sn, "right", pr), pr, "parent", sn)
      w3 == Set(Set(Set(w2, nd, "left", Nil), nd, "right", e[sn].right), e[sn].right, "parent", nd)
      w4 == Set(Set(Set(w3, sn, "left", pl), pl, "parent", sn), sn, "parent", e[nd].parent)
  IN Hang(w4, e[nd].parent, nd, sn)

\* remove_tree_node: nd, which has one child at most, leaves the tree; its
\* child takes its place first, and a leaf goes only after the balancing.
Balanced(w, nd, x) == IF w.ent[nd].red THEN w ELSE AfterDeletion(w, x)
CutLeaf(w, nd) ==
  LET last == w.ent[nd].parent
      gone == Set(w, nd, "parent", Nil)
  IN IF last = Nil THEN gone
     ELSE IF w.ent[last].left = nd THEN Set(gone, last, "left", Nil)
     ELSE IF w.ent[last].right = nd THEN Set(gone, last, "right", Nil)
     ELSE gone
ChildUp(w, nd, child, pp) ==
  LET up == Hang(Set(w, child, "parent", pp), pp, nd, child)
  IN Set(Set(Set(Paint(up, IF pp = Nil THEN child ELSE Nil, FALSE), nd, "left", Nil), nd, "right", Nil), nd, "parent", Nil)
CutNode(w, nd) ==
  LET child == IF w.ent[nd].left # Nil THEN w.ent[nd].left ELSE w.ent[nd].right
  IN IF child = Nil THEN CutLeaf(Balanced(w, nd, nd), nd)
     ELSE Balanced(ChildUp(w, nd, child, w.ent[nd].parent), nd, child)

\* nd is taken out of the chain and then out of the tree.
Unlinked(s, b, nd) ==
  LET succ == s.ent[nd].next
      pred == s.ent[nd].prev
  IN Set(Set([ent |-> s.ent, root |-> RootOf(s.ent, s.bucket[b])], pred, "next", succ), succ, "prev", pred)
WithoutNode(s, b, nd, first) ==
  [s EXCEPT !.bucket[b] = first, !.tree[b] = @ /\ first # Nil,
            !.ent = IF first = Nil THEN @
                    ELSE CutNode(IF s.ent[nd].left # Nil /\ s.ent[nd].right # Nil
                                 THEN SwapWithSuccessor(Unlinked(s, b, nd), nd) ELSE Unlinked(s, b, nd), nd).ent]

\* Mutant of RemoveTreeNode: the root moves to the front, as in Map.remove.
MovedToFront(s, first) == IF first = Nil THEN s ELSE MoveRootToFront(s, RootOf(s.ent, first))
RemoveTreeNodeMovable(s, b, nd) ==
  LET first == IF s.ent[nd].prev = Nil THEN s.ent[nd].next ELSE s.bucket[b]
  IN MovedToFront(WithoutNode(s, b, nd, first), first)

\* remove_tree_node as an iterator calls it (movable = 0): the bin stays a
\* tree, however small, and its root stays where it is in the chain.
RemoveTreeNode(s, b, nd) ==
  LET first == IF s.ent[nd].prev = Nil THEN s.ent[nd].next ELSE s.bucket[b]
  IN WithoutNode(s, b, nd, first)

\* hc_jset_poll_first; what is left in a dead entry is never read again.
Poll ==
  /\ ~ set.died /\ \E c \in DOMAIN set.bucket : set.bucket[c] # Nil
  /\ LET b == CHOOSE b \in DOMAIN set.bucket :
                set.bucket[b] # Nil /\ \A c \in 0 .. b - 1 : set.bucket[c] = Nil
         e == set.bucket[b]
         s1 == IF set.tree[b] THEN RemoveTreeNode(set, b, e)
               ELSE [set EXCEPT !.bucket[b] = set.ent[e].next]
     IN /\ set' = [s1 EXCEPT !.size = @ - 1, !.ent[e] = Blank(set.ent[e].key)]
        /\ members' = members \ {set.ent[e].key} /\ UNCHANGED todo

Next == Poll \/ Add

Spec == Init /\ [][Next]_vars
-----------------------------------------------------------------------------
(* hc_jit_begin, hc_jit_next, hc_jit_pos *)

\* The first entry of the buckets from b on.
From(s, b) ==
  LET full == { c \in b .. s.cap - 1 : s.bucket[c] # Nil }
      c == CHOOSE c \in full : \A d \in full : c <= d
  IN IF full = {} THEN [b |-> s.cap, e |-> Nil] ELSE [b |-> c, e |-> s.bucket[c]]

Step(s, it) ==
  IF s.ent[it.e].next # Nil THEN [it EXCEPT !.e = s.ent[it.e].next] ELSE From(s, it.b + 1)

RECURSIVE Walk(_, _, _)
Walk(s, it, fuel) ==
  IF it.e = Nil \/ fuel = 0 THEN << >>
  ELSE << s.ent[it.e].key >> \o Walk(s, Step(s, it), fuel - 1)

\* The keys in iteration order.
Iteration(s) == Walk(s, From(s, 0), 2 * MaxEntries)
-----------------------------------------------------------------------------
(* An iteration visits every member once and nothing else, whatever chains *)
(* were turned into trees, split and rotated before, and the size is their *)
(* number.                                                                 *)
SetExact ==
  set.died \/ LET it == Iteration(set) IN
                /\ ToSet(it) = members
                /\ Len(it) = Cardinality(members) /\ Len(it) = set.size

\* The nodes of the tree below i, and the number of black nodes on its paths
\* (0: the paths differ, or a red node has a red child).
RECURSIVE Below(_, _), BlackHeight(_, _)
Below(ent, i) ==
  IF i = Nil THEN {} ELSE {i} \cup Below(ent, ent[i].left) \cup Below(ent, ent[i].right)
BlackHeight(ent, i) ==
  IF i = Nil THEN 1
  ELSE LET l == BlackHeight(ent, ent[i].left)
           r == BlackHeight(ent, ent[i].right)
           clash == ent[i].red /\ \E c \in {ent[i].left, ent[i].right} \ {Nil} : ent[c].red
       IN IF l = 0 \/ r = 0 \/ l # r \/ clash THEN 0 ELSE IF ent[i].red THEN l ELSE l + 1

\* A tree bin is a red-black search tree over exactly the nodes of its chain,
\* with its links both ways: a search cannot miss a key that is there.
BinsAreTrees ==
  set.died \/
    \A b \in { c \in DOMAIN set.bucket : set.bucket[c] # Nil /\ set.tree[c] } :
      LET ent == set.ent
          chain == Chain(ent, set.bucket[b])
          root == RootOf(ent, set.bucket[b])
      IN /\ Below(ent, root) = ToSet(chain)
         /\ ~ ent[root].red /\ BlackHeight(ent, root) > 0
         /\ \A i \in ToSet(chain) :
              /\ \A l \in Below(ent, ent[i].left) : HashOf(ent, l) < HashOf(ent, i)
              /\ \A r \in Below(ent, ent[i].right) : HashOf(ent, r) > HashOf(ent, i)
              /\ \A c \in {ent[i].left, ent[i].right} \ {Nil} : ent[c].parent = i
         /\ \A k \in DOMAIN chain : ent[chain[k]].prev = Before(chain, k)

\* The set of the code is a java.util.HashSet: its members are right and so is
\* every bin they hang in, on which what later calls find depends.
SetSound == SetExact /\ BinsAreTrees

\* Polling takes the first key of the iteration order and leaves the order of
\* the others alone, also where it takes a node out of a tree.
KeepsOrder ==
  set'.size < set.size =>
    /\ Iteration(set') = Tail(Iteration(set))
    /\ members' = members \ {Head(Iteration(set))}
=============================================================================
