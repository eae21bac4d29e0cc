-------------------------------- MODULE Nbt --------------------------------
(***************************************************************************)
(* One document: entries are put into a compound one by one, it is written, *)
(* read, and written again.                                                 *)
(***************************************************************************)
EXTENDS NbtTree

CONSTANTS Plan     \* sequences of << key, value >>

VARIABLES plan, tree, died, bytes, back, again, phase
vars == <<plan, tree, died, bytes, back, again, phase>>
Roomy == 100000

Init == /\ plan \in Plan
        /\ tree = Node(Compound) /\ died = FALSE
        /\ bytes = <<>> /\ back = Null /\ again = <<>> /\ phase = "put"

\* hc_nbt_put by a client.
PutNext == /\ phase = "put" /\ Len(tree.keys) < Len(plan) /\ ~ died
           /\ LET e == plan[Len(tree.keys) + 1]
                  p == Put(tree, e[1], e[2])
              IN tree' = p.t /\ died' = ~ p.ok
           /\ UNCHANGED <<plan, bytes, back, again, phase>>

WriteAll == /\ phase = "put" /\ ~ died
            /\ IF Asserted(tree)
               THEN /\ bytes' = Write(tree, Roomy).out /\ phase' = "written"
                    /\ UNCHANGED died
               ELSE died' = TRUE /\ UNCHANGED <<bytes, phase>>
            /\ UNCHANGED <<plan, tree, back, again>>

Read == /\ phase = "written" /\ phase' = "read"
        /\ back' = Parse(bytes) /\ died' = (back' = Dead)
        /\ UNCHANGED <<plan, tree, bytes, again>>

WriteAgain == /\ phase = "read" /\ back \notin {Null, Dead} /\ Asserted(back) /\ phase' = "again"
              /\ again' = Write(back, Len(bytes)).out
              /\ UNCHANGED <<plan, tree, died, bytes, back>>

Next == PutNext \/ WriteAll \/ Read \/ WriteAgain
Spec == Init /\ [][Next]_vars
-----------------------------------------------------------------------------
(* A java.util.HashMap: chains in a table that is doubled when three quarters *)
(* are exceeded, and when a chain of a small table grows beyond eight.        *)

Doubled(m) ==
  [cap |-> 2 * m.cap, n |-> m.n,
   bins |-> [b \in 0 .. 2 * m.cap - 1 |-> SelectSeq(m.bins[b % m.cap], LAMBDA k : Bucket(k, 2 * m.cap) = b)]]
Small(m, b) == IF Len(m.bins[b]) > 8 THEN Doubled(m) ELSE m
Roomier(m) == IF m.n * 4 > m.cap * 3 THEN Doubled(m) ELSE m
Inserted(m, key) ==
  LET b == Bucket(key, m.cap)
  IN Roomier(Small([m EXCEPT !.bins[b] = Append(@, key), !.n = @ + 1], b))
Walked(m) == FlattenSeq([b \in 1 .. m.cap |-> m.bins[b - 1]])
HashMap(keys) ==
  Walked(FoldLeft(Inserted, [cap |-> 16, n |-> 0, bins |-> [b \in 0 .. 15 |-> <<>>]], keys))

\* The order of the file is the order of a HashMap that grew key by key: only
\* its last size matters, as nbt.c:47 has it, unless a chain is too long.
AsHashMap == phase = "read" => back \notin {Null, Dead} /\ back.keys = HashMap(tree.keys)

\* The same tree, whatever the order of its entries.
RECURSIVE Alike(_, _)
Alike(t, u) ==
  IF t.tag = Compound
  THEN /\ u.tag = Compound /\ ToSet(t.keys) = ToSet(u.keys) /\ Len(t.keys) = Len(u.keys)
       /\ \A i \in DOMAIN t.keys : \E j \in DOMAIN u.keys : t.keys[i] = u.keys[j] /\ Alike(t.kids[i], u.kids[j])
  ELSE /\ t.tag = u.tag /\ t.num = u.num /\ t.etag = u.etag /\ Len(t.kids) = Len(u.kids)
       /\ \A i \in DOMAIN t.kids : Alike(t.kids[i], u.kids[i])

\* What was written is read back and, written again, has the same bytes
\* (nbt.h:83); anything cut off or with bytes behind it is refused, and a
\* buffer that is too small gets nothing beyond its end.
RoundTrip ==
  phase = "again" =>
    /\ Alike(tree, back) /\ again = bytes
    /\ \A n \in 0 .. Len(bytes) - 1 :
         Parse(SubSeq(bytes, 1, n)) = Null /\ ~ Write(tree, n).ok /\ Len(Write(tree, n).out) <= n
    /\ Parse(Append(bytes, 0)) = Null

\* Both halves of what a document promises.
DocumentSound == AsHashMap /\ RoundTrip
=============================================================================
