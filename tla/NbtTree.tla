------------------------------ MODULE NbtTree ------------------------------
(***************************************************************************)
(* Trees of tags and their bytes (core/src/nbt.c).  A compound keeps its    *)
(* entries in the order they were put; it is written in the order a Java    *)
(* HashMap with these keys would be walked, which is computed when it is    *)
(* written.  The reader puts entries in the order of the file.              *)
(*                                                                          *)
(* A string is a sequence of bytes.  A long has LongBytes bytes, of 8 in    *)
(* the code, and a compound MaxKeys keys, of 64.  Assertions are those of   *)
(* the default build.  The memory of the arena suffices.                    *)
(***************************************************************************)
EXTENDS Integers, SequencesExt, Bitwise

CONSTANTS LongBytes, MaxKeys

End == 0
Byte == 1
Short == 2
Int32 == 3
Long == 4
Float == 5
Double == 6
ByteArray == 7
String == 8
List == 9
Compound == 10
IntArray == 11
LongArray == 12

\* node: num holds a number, or the elements of an array or string; a list has
\* kids of type etag, a compound has keys and kids.
Node(tag) == [tag |-> tag, etag |-> End, num |-> <<>>, keys |-> <<>>, kids |-> <<>>]
Null == Node(-1)
\* No tree, because an assertion of hc_nbt_put failed in the reader.
Dead == Node(-2)

\* The bytes of a number.
Width(tag) == CASE tag \in {Byte, ByteArray, String} -> 1 [] tag = Short -> 2 [] tag \in {Int32, Float, IntArray} -> 4
                [] tag \in {Long, Double, LongArray} -> LongBytes

\* hc_nbt_byte and hc_nbt_short keep the low bits.
Narrow(v, w) == IF w > 2 THEN v ELSE ((v + 128 * 256^(w - 1)) % 256^w) - 128 * 256^(w - 1)
Number(tag, v) == [Node(tag) EXCEPT !.num = <<Narrow(v, Width(tag))>>]
Array(tag, seq) == [Node(tag) EXCEPT !.num = seq]

\* hc_nbt_put: FALSE in ok is a failed assertion.
Put(comp, key, v) ==
  [t |-> [comp EXCEPT !.keys = Append(@, key), !.kids = Append(@, v)],
   ok |-> (\A i \in DOMAIN comp.keys : comp.keys[i] # key) /\ Len(comp.keys) < MaxKeys]

\* hc_nbt_add
Add(list, v) ==
  [t |-> [list EXCEPT !.kids = Append(@, v), !.etag = v.tag], ok |-> list.etag \in {End, v.tag}]
-----------------------------------------------------------------------------
(* The order of a HashMap. *)

\* java_str_hash, as two halves of 16 bits.
StrHash(s) ==
  FoldLeft(LAMBDA h, c : LET lo == h[2] * 31 + c
                         IN <<(h[1] * 31 + lo \div 65536) % 65536, lo % 65536>>, <<0, 0>>, s)

Caps == {16, 32, 64, 128}
Least(S) == CHOOSE c \in S : \A d \in S : c <= d

\* hc_nbt_java_map_order: the table of n keys, three quarters full at most.
Capacity(n) == Least({ c \in Caps : n <= (c \div 4) * 3 })
Bucket(key, cap) == LET h == StrHash(key) IN (h[1] % cap) ^^ (h[2] % cap)

\* Indices of keys, bucket by bucket.
MapOrder(keys) ==
  LET cap == Capacity(Len(keys))
      of == [i \in DOMAIN keys |-> Bucket(keys[i], cap)] \o <<>>
      chain(b) == SelectSeq([i \in DOMAIN keys |-> i], LAMBDA i : of[i] = b)
  IN FoldLeft(LAMBDA perm, b : perm \o chain(b), <<>>, [b \in 1 .. cap |-> b - 1])

\* Its assertion: no chain that Java would make a tree of.
ChainsShort(keys) ==
  \A i \in DOMAIN keys :
    Len(SelectSeq(keys, LAMBDA k : Bucket(k, Capacity(Len(keys))) = Bucket(keys[i], Capacity(Len(keys))))) < 8
-----------------------------------------------------------------------------
(* Writing.  w: the bytes so far, their limit, and overflow. *)

\* Mutant of PutBytes: one byte more than there is room for.
PutBytesOver(w, d) ==
  IF w.overflow \/ w.cap - Len(w.out) + 1 < Len(d) THEN [w EXCEPT !.overflow = TRUE]
  ELSE [w EXCEPT !.out = @ \o d]

\* put_bytes
PutBytes(w, d) ==
  IF w.overflow \/ w.cap - Len(w.out) < Len(d) THEN [w EXCEPT !.overflow = TRUE]
  ELSE [w EXCEPT !.out = @ \o d]

\* put_u8, put_u16, put_i32, put_i64: the high byte first.
BigEndian(v, n) == [k \in 1 .. n |-> (v \div 256^(n - k)) % 256]
PutNum(w, v, n) == PutBytes(w, BigEndian(v, n))
PutUtf(w, s) == PutBytes(PutNum(w, Len(s), 2), s)
PutAll(w, seq, n) == FoldLeft(LAMBDA u, v : PutNum(u, v, n), w, seq)

\* put_utf asserts characters of ASCII other than NUL; Asserted(t) is what writing
\* t asserts of it and of all below it.
Ascii(s) == Len(s) < 65536 /\ \A i \in DOMAIN s : s[i] \in 1 .. 127
RECURSIVE Asserted(_)
Asserted(t) ==
  /\ t.tag = String => Ascii(t.num)
  /\ t.tag = Compound => ChainsShort(t.keys) /\ \A i \in DOMAIN t.keys : Ascii(t.keys[i])
  /\ \A i \in DOMAIN t.kids : Asserted(t.kids[i])

\* write_payload, write_compound_payload, and an entry of a compound.
RECURSIVE WritePayload(_, _), WriteKids(_, _), WriteEntries(_, _, _)
WritePayload(w, t) ==
  CASE t.tag \in {Byte, Short, Int32, Long, Float, Double} -> PutNum(w, t.num[1], Width(t.tag))
    [] t.tag = String -> PutUtf(w, t.num)
    [] t.tag = ByteArray -> PutBytes(PutNum(w, Len(t.num), 4), t.num)
    [] t.tag \in {IntArray, LongArray} -> PutAll(PutNum(w, Len(t.num), 4), t.num, Width(t.tag))
    [] t.tag = List -> WriteKids(PutNum(PutNum(w, t.etag, 1), Len(t.kids), 4), t.kids)
    [] t.tag = Compound -> WriteEntries(w, t, MapOrder(t.keys))
WriteKids(w, kids) == IF kids = <<>> \/ w.overflow THEN w ELSE WriteKids(WritePayload(w, Head(kids)), Tail(kids))
WriteEntries(w, t, perm) ==
  IF w.overflow THEN w
  ELSE IF perm = <<>> THEN PutNum(w, End, 1)
  ELSE LET i == Head(perm)
       IN WriteEntries(WritePayload(PutUtf(PutNum(w, t.kids[i].tag, 1), t.keys[i]), t.kids[i]), t, Tail(perm))

\* hc_nbt_write: an unnamed root, of which Asserted holds.
Write(root, cap) ==
  LET w == WriteEntries(PutNum(PutNum([out |-> <<>>, cap |-> cap, overflow |-> FALSE], Compound, 1), 0, 2),
                        root, MapOrder(root.keys))
  IN [out |-> w.out, ok |-> ~ w.overflow]
-----------------------------------------------------------------------------
(* Reading.  r: the next place p, and bad. *)

Broken(r) == [r EXCEPT !.bad = TRUE]
Left(b, r) == Len(b) - r.p + 1

\* rd_u8, rd_u16, rd_i32, rd_i64
Unsigned(s) == FoldLeft(LAMBDA v, d : 256 * v + d, 0, s)
Signed(s) == Unsigned(<<IF s[1] >= 128 THEN s[1] - 256 ELSE s[1]>> \o Tail(s))
Rd(b, r, n, signed) ==
  LET s == SubSeq(b, r.p, r.p + n - 1)
  IN IF r.bad \/ Left(b, r) < n THEN [r |-> Broken(r), v |-> 0]
     ELSE [r |-> [r EXCEPT !.p = @ + n], v |-> IF signed THEN Signed(s) ELSE Unsigned(s)]
No(r, v) == [r |-> Broken(r), v |-> v]

\* What a char * is good for.
UpToNul(s) == SubSeq(s, 1, Least({ i \in DOMAIN s : s[i] = 0 } \cup { Len(s) + 1 }) - 1)

\* rd_str; n is its length and the reader behind it.
StrOf(b, n) ==
  IF n.r.bad \/ Left(b, n.r) < n.v THEN No(n.r, <<>>)
  ELSE [r |-> [n.r EXCEPT !.p = @ + n.v], v |-> UpToNul(SubSeq(b, n.r.p, n.r.p + n.v - 1))]
RdStr(b, r) == StrOf(b, Rd(b, r, 2, FALSE))

\* rd_payload: an array whose elements are all there.
Fits(b, r, n, width) == n >= 0 /\ Left(b, r) >= n * width
ArrayOf(b, n, tag, w) ==
  LET part(i) == SubSeq(b, n.r.p + (i - 1) * w, n.r.p + i * w - 1)
  IN IF n.r.bad \/ ~ Fits(b, n.r, n.v, w) THEN No(n.r, Null)
     ELSE [r |-> [n.r EXCEPT !.p = @ + n.v * w],
           v |-> Array(tag, [i \in 1 .. n.v |-> IF tag = ByteArray THEN part(i)[1] ELSE Signed(part(i))])]
Made(got, tag) ==
  [r |-> got.r, v |-> IF got.r.bad /\ tag = String THEN Null
                      ELSE IF tag = String THEN Array(tag, got.v) ELSE Number(tag, got.v)]

\* Each takes what was read before it: the number of kids left, the tag and the
\* key of an entry, a kid.
RECURSIVE RdPayload(_, _, _), RdKids(_, _, _, _, _), RdEntries(_, _, _)
RdList(b, e, n) ==
  IF n.r.bad \/ n.v < 0 THEN No(n.r, Null) ELSE RdKids(b, n.r, e.v, n.v, Node(List))
RdPayload(b, r, tag) ==
  IF r.bad THEN [r |-> r, v |-> Null]
  ELSE CASE tag \in {Byte, Short, Int32, Long, Float, Double} -> Made(Rd(b, r, Width(tag), tag # Float), tag)
         [] tag = String -> Made(RdStr(b, r), tag)
         [] tag \in {ByteArray, IntArray, LongArray} -> ArrayOf(b, Rd(b, r, 4, TRUE), tag, Width(tag))
         [] tag = List -> LET e == Rd(b, r, 1, FALSE) IN RdList(b, e, Rd(b, e.r, 4, TRUE))
         [] tag = Compound -> RdEntries(b, r, Node(Compound))
         [] OTHER -> No(r, Null)
NextKid(b, k, etag, left, list) ==
  IF k.v \in {Null, Dead} THEN No(k.r, k.v) ELSE RdKids(b, k.r, etag, left - 1, Add(list, k.v).t)
RdKids(b, r, etag, left, list) ==
  IF left = 0 THEN [r |-> r, v |-> list] ELSE NextKid(b, RdPayload(b, r, etag), etag, left, list)
NextEntry(b, key, k, comp) ==
  IF k.v \in {Null, Dead} THEN No(k.r, k.v)
  ELSE IF ~ Put(comp, key.v, k.v).ok THEN No(k.r, Dead)
  ELSE RdEntries(b, k.r, Put(comp, key.v, k.v).t)
KeyOf(b, t, key, comp) ==
  IF key.r.bad THEN [r |-> key.r, v |-> Null] ELSE NextEntry(b, key, RdPayload(b, key.r, t.v), comp)
EntryOf(b, t, comp) ==
  IF t.r.bad THEN [r |-> t.r, v |-> Null]
  ELSE IF t.v = End THEN [r |-> t.r, v |-> comp]
  ELSE KeyOf(b, t, RdStr(b, t.r), comp)
RdEntries(b, r, comp) == EntryOf(b, Rd(b, r, 1, FALSE), comp)

\* hc_nbt_parse: an unnamed root, and nothing behind it.
Whole(b, root) ==
  IF root.v = Dead THEN Dead
  ELSE IF root.v = Null \/ root.r.bad \/ root.r.p # Len(b) + 1 THEN Null ELSE root.v
RootOf(b, t, n) == IF t.v # Compound \/ n.v # 0 THEN Null ELSE Whole(b, RdPayload(b, n.r, Compound))
Parse(b) ==
  LET t == Rd(b, [p |-> 1, bad |-> FALSE], 1, FALSE) IN RootOf(b, t, Rd(b, t.r, 2, FALSE))
-----------------------------------------------------------------------------
(* Access. *)

\* hc_nbt_get: the entry of a key, if there is one.
Get(comp, key) == { comp.kids[i] : i \in { i \in DOMAIN comp.keys : comp.keys[i] = key } }
=============================================================================
