------------------------------ MODULE LuaTable -------------------------------
(***************************************************************************)
(* Lua tables (ltable.c): an array part for the keys 1..#array, and a hash   *)
(* part of 2^n nodes whose chains are threaded through the nodes ("chained   *)
(* scatter table with Brent's variation").  A table t is a record: array     *)
(* (a sequence), node ([0..2^n - 1 -> key, val, next]), dummy (the shared    *)
(* empty node stands for the hash part) and lastfree (the nodes from there   *)
(* on have been handed out).  The garbage collector marks the keys of empty  *)
(* fields as dead (lgc.c).  Hash values are given, and memory is enough.     *)
(***************************************************************************)
EXTENDS Integers, Sequences, FiniteSetsExt

CONSTANTS Numbers,             \* the integer keys
          Strings,             \* keys hashed by masking
          Objects,             \* keys hashed by a modulus
          Hash,                \* [key -> natural number]
          Values,
          Nil,
          Presizes,            \* array sizes that list constructors ask for
          MAXBITS,             \* no part of a table has more than 2^MAXBITS slots
          MAX_INT              \* from there on doubling an index would overflow

Keys == Numbers \cup Strings \cup Objects
ASSUME HashAssumption == /\ Numbers \subseteq Int /\ Nil \notin Keys \cup Values
                         /\ Hash \in [Keys -> Nat]

\* memory is enough: luaG_runerror's "table overflow" is not reached
ASSUME SizeAssumption == /\ MAXBITS \in Nat \ {0}
                         /\ IsFiniteSet(Keys) /\ Cardinality(Keys) <= 2 ^ MAXBITS
                         /\ Presizes \subseteq 1 .. 2 ^ MAXBITS
\* LUAI_BITSINT - 2 and INT_MAX - 2 for an int of any width
ASSUME IntAssumption == MAX_INT \in Nat /\ 2 ^ MAXBITS < MAX_INT

VARIABLES t,                   \* the table
          traversing,
          cursor,              \* the key the traversal is at, Nil at its start
          seen                 \* the keys it has returned

vars == <<t, traversing, cursor, seen>>

NoKey == <<"nil">>
LiveKey(k) == <<"key", k>>
DeadKey(k) == <<"dead", k>>
NULL == -1
FreeNode == [key |-> NoKey, val |-> Nil, next |-> NULL]

sizenode(x) == Cardinality(DOMAIN x.node)
Used(x) == {i \in DOMAIN x.array : x.array[i] # Nil}
UsedNodes(x) == {n \in DOMAIN x.node : x.node[n].val # Nil}

hashpow2(x, k) == Hash[k] % sizenode(x)
hashmod(x, k) == Hash[k] % (IF sizenode(x) = 1 THEN 1 ELSE sizenode(x) - 1)
mainposition(x, k) == IF k \in Strings THEN hashpow2(x, k) ELSE hashmod(x, k)
IsIndex(k) == k \in Numbers /\ k > 0                       \* arrayindex

----------------------------------------------------------------------------
\* Search

\* From each node the first one of its chain that is in stop, or NULL.
Walk(x, stop) ==
  LET walk[n \in DOMAIN x.node \cup {NULL}] ==
        IF n \in stop \cup {NULL} THEN n ELSE walk[x.node[n].next]
  IN walk

\* the node of the chain of k that holds one of keys, or NULL
Matching(x, k, keys) ==
  Walk(x, {n \in DOMAIN x.node : x.node[n].key \in keys})[mainposition(x, k)]
InArray(x, k) == IsIndex(k) /\ k <= Len(x.array)
NodeOf(x, k) == Matching(x, k, {LiveKey(k)})

luaH_get(x, k) ==
  IF InArray(x, k) THEN x.array[k]
  ELSE IF NodeOf(x, k) = NULL THEN Nil ELSE x.node[NodeOf(x, k)].val

Present(x, i) == i \in Numbers /\ luaH_get(x, i) # Nil

\* f, n times
Rounds(f, n, p) == LET round[m \in 0..n] == IF m = 0 THEN p ELSE f[round[m - 1]] IN round[n]

\* the binary search between i and j for an index whose successor is not in full
Halve(full) ==
  [p \in Nat \X Nat |->
     LET m == (p[1] + p[2]) \div 2
     IN IF p[2] - p[1] <= 1 THEN p ELSE IF m \in full THEN <<m, p[2]>> ELSE <<p[1], m>>]
Bisect(i, j, full) == Rounds(Halve(full), j - i, <<i, j>>)[1]

\* from an index that is present, or 0; linear where j overflows
Double(x) ==
  [p \in Nat \X Nat |->
     IF p[2] <= MAX_INT /\ Present(x, p[2]) THEN <<p[2], 2 * p[2]>> ELSE p]
unbound_search(x, from) ==
  LET p == Rounds(Double(x), MAX_INT, <<from, from + 1>>)
  IN IF p[2] > MAX_INT
     THEN Min({i \in 1 .. Cardinality(Numbers) + 1 : ~Present(x, i)}) - 1
     ELSE Bisect(p[1], p[2], {i \in p[1] .. p[2] : Present(x, i)})
\* Mutant: the hash part is not searched.
luaH_getn_Array(x) ==
  LET j == Len(x.array) IN IF j > 0 /\ x.array[j] = Nil THEN Bisect(0, j, Used(x)) ELSE j
luaH_getn(x) ==
  LET j == Len(x.array)
  IN IF j > 0 /\ x.array[j] = Nil THEN Bisect(0, j, Used(x))
     ELSE IF x.dummy THEN j ELSE unbound_search(x, j)

----------------------------------------------------------------------------
\* Insertion

ceillog2(n) == CHOOSE i \in 0..MAXBITS : 2 ^ i >= n /\ (i = 0 \/ 2 ^ (i - 1) < n)

setnodevector(x, size) ==
  LET n == IF size = 0 THEN 1 ELSE 2 ^ ceillog2(size)
  IN [x EXCEPT !.node = [i \in 0 .. n - 1 |-> FreeNode], !.dummy = size = 0,
               !.lastfree = IF size = 0 THEN 0 ELSE n]
setarrayvector(x, size) ==
  [x EXCEPT !.array = [i \in 1..size |-> IF i <= Len(x.array) THEN x.array[i] ELSE Nil]]
luaH_new(narray, nhash) ==
  setnodevector(setarrayvector([array |-> <<>>, node |-> <<>>, dummy |-> TRUE, lastfree |-> 0],
                               narray), nhash)

\* the highest free node below lastfree, or NULL
getfreepos(x) ==
  LET free == {n \in DOMAIN x.node : n < x.lastfree /\ x.node[n].key = NoKey}
  IN IF free = {} THEN NULL ELSE Max(free)

\* The node of k goes to its main position mp: an element that is there and does
\* not belong there is moved to the free node n, otherwise the new one goes to n.
\* Mutant: the element in the way stays, wherever it belongs.
Behind(x, k, mp, n) ==
  [x.node EXCEPT ![n] = [key |-> LiveKey(k), val |-> Nil, next |-> x.node[mp].next],
                 ![mp] = [x.node[mp] EXCEPT !.next = n]]
Moved(x, k, mp, n) ==
  LET home == mainposition(x, x.node[mp].key[2])
      previous == Walk(x, {p \in DOMAIN x.node : x.node[p].next = mp})[home]
  IN [x.node EXCEPT ![previous] = [x.node[previous] EXCEPT !.next = n], ![n] = x.node[mp],
                    ![mp] = [FreeNode EXCEPT !.key = LiveKey(k)]]
Collide_Stays(x, k, mp, n) == [x EXCEPT !.node = Behind(x, k, mp, n), !.lastfree = n]
Collide(x, k, mp, n) ==
  [x EXCEPT !.lastfree = n,
            !.node = IF mainposition(x, x.node[mp].key[2]) = mp THEN Behind(x, k, mp, n)
                     ELSE Moved(x, k, mp, n)]

NoRoom(x, k) == /\ x.dummy \/ x.node[mainposition(x, k)].val # Nil
                /\ getfreepos(x) = NULL
newkey(x, k) ==                \* x has room for it
  LET mp == mainposition(x, k)
  IN IF ~x.dummy /\ x.node[mp].val = Nil
     THEN [x EXCEPT !.node[mp] = [x.node[mp] EXCEPT !.key = LiveKey(k)]]
     ELSE Collide(x, k, mp, getfreepos(x))
\* k has a node, which gets the value
Stored(x, k, v) ==
  LET n == NodeOf(x, k) IN [x EXCEPT !.node[n] = [x.node[n] EXCEPT !.val = v]]
\* k := v, where grown is the table to give when there is no room for k
Assigned(x, k, v, grown) ==
  IF InArray(x, k) THEN [x EXCEPT !.array[k] = v]
  ELSE IF NodeOf(x, k) # NULL THEN Stored(x, k, v)
  ELSE IF NoRoom(x, k) THEN grown ELSE Stored(newkey(x, k), k, v)

----------------------------------------------------------------------------
\* Rehash

\* how many keys there are in each slice (2^(i-1), 2^i], k included
Counted(k) == IsIndex(k) /\ k <= 2 ^ MAXBITS
numusearray(x, i) == Cardinality({j \in Used(x) : ceillog2(j) = i})
numusehash(x, i) ==
  Cardinality({n \in UsedNodes(x) : Counted(x.node[n].key[2]) /\ ceillog2(x.node[n].key[2]) = i})
countint(k, i) == IF Counted(k) /\ ceillog2(k) = i THEN 1 ELSE 0
nums(x, k) == [i \in 0..MAXBITS |-> numusearray(x, i) + numusehash(x, i) + countint(k, i)]

\* <<the size of the array part, the number of keys that go there>>
\* Mutant: half of the slots are enough.
computesizes_Half(count) ==
  LET upto[i \in DOMAIN count] == count[i] + (IF i = 0 THEN 0 ELSE upto[i - 1])
      full == {i \in DOMAIN count : count[i] > 0 /\ upto[i] >= 2 ^ i \div 2}
  IN IF full = {} THEN <<0, 0>> ELSE <<2 ^ Max(full), upto[Max(full)]>>
computesizes(count) ==
  LET upto[i \in DOMAIN count] == count[i] + (IF i = 0 THEN 0 ELSE upto[i - 1])
      full == {i \in DOMAIN count : count[i] > 0 /\ upto[i] > 2 ^ i \div 2}
  IN IF full = {} THEN <<0, 0>> ELSE <<2 ^ Max(full), upto[Max(full)]>>

\* a table that has no room during its own reorganisation would start another
Overfull == [array |-> <<>>, node |-> << >>, dummy |-> TRUE, lastfree |-> NULL]
Reinsert(x, k, v) == IF x = Overfull THEN x ELSE Assigned(x, k, v, Overfull)

\* What leaves its place: the end of the array part, then the hash part backwards.
Displaced(x, nasize) ==
  LET cut == IF nasize < Len(x.array) THEN Len(x.array) - nasize ELSE 0
      Node(i) == x.node[sizenode(x) - i]
  IN [i \in 1 .. cut + sizenode(x) |->
        IF i <= cut THEN [key |-> nasize + i, val |-> x.array[nasize + i]]
        ELSE [key |-> IF Node(i - cut).val = Nil THEN Nil ELSE Node(i - cut).key[2],
              val |-> Node(i - cut).val]]
resize(x, nasize, nhsize) ==
  LET e == Displaced(x, nasize)
      built[i \in 0 .. Len(e)] ==
        IF i = 0 THEN setnodevector(setarrayvector(x, nasize), nhsize)
        ELSE IF e[i].val = Nil THEN built[i - 1] ELSE Reinsert(built[i - 1], e[i].key, e[i].val)
  IN built[Len(e)]

\* <<the size of the array part, the size of the hash part>>
\* Mutant: the new key is not counted.
Sizes_Short(x, k) ==
  LET c == computesizes(nums(x, k))
  IN <<c[1], Cardinality(Used(x)) + Cardinality(UsedNodes(x)) - c[2]>>
Sizes(x, k) ==
  LET c == computesizes(nums(x, k))
  IN <<c[1], Cardinality(Used(x)) + Cardinality(UsedNodes(x)) + 1 - c[2]>>
rehash(x, k) == resize(x, Sizes(x, k)[1], Sizes(x, k)[2])

luaH_resizearray(x, nasize) == resize(x, nasize, IF x.dummy THEN 0 ELSE sizenode(x))

luaH_set(x, k, v) == Assigned(x, k, v, Assigned(rehash(x, k), k, v, Overfull))

----------------------------------------------------------------------------
\* Traversal: positions 0..#array-1 are the array's, the nodes follow

findindex(x, k) ==             \* the position of k; NULL at the start, or -2
  LET n == Matching(x, k, {LiveKey(k), DeadKey(k)})
  IN IF k = Nil THEN -1 ELSE IF InArray(x, k) THEN k - 1
     ELSE IF n = NULL THEN -2 ELSE Len(x.array) + n
\* Mutant: a key the collector has marked is not recognised.
luaH_next_Live(x, k) ==
  LET n == NodeOf(x, k)
      i == IF k = Nil THEN -1 ELSE IF InArray(x, k) THEN k - 1
           ELSE IF n = NULL THEN -2 ELSE Len(x.array) + n
      left == {j \in i + 1 .. Len(x.array) + sizenode(x) - 1 :
                 IF j < Len(x.array) THEN x.array[j + 1] # Nil ELSE x.node[j - Len(x.array)].val # Nil}
  IN IF i = -2 \/ left = {} THEN Nil
     ELSE IF Min(left) < Len(x.array) THEN Min(left) + 1
     ELSE x.node[Min(left) - Len(x.array)].key[2]
luaH_next(x, k) ==             \* the next key, or Nil
  LET i == findindex(x, k)
      left == {j \in i + 1 .. Len(x.array) + sizenode(x) - 1 :
                 IF j < Len(x.array) THEN x.array[j + 1] # Nil ELSE x.node[j - Len(x.array)].val # Nil}
  IN IF i = -2 \/ left = {} THEN Nil       \* -2: "invalid key to 'next'"
     ELSE IF Min(left) < Len(x.array) THEN Min(left) + 1
     ELSE x.node[Min(left) - Len(x.array)].key[2]

----------------------------------------------------------------------------
Init ==
  /\ \E narray \in 0..2, nhash \in 0..2 : t = luaH_new(narray, nhash)
  /\ traversing = FALSE /\ cursor = Nil /\ seen = {}

\* t[k] = v; no field is added during a traversal (manual, lua_next)
SetField(k, v) ==
  /\ traversing => luaH_get(t, k) # Nil
  /\ t' = luaH_set(t, k, v)
  /\ UNCHANGED <<traversing, cursor, seen>>

\* OP_SETLIST enlarges the array part before it stores a list
Presize(n) ==
  /\ ~traversing /\ n > Len(t.array)
  /\ t' = luaH_resizearray(t, n)
  /\ UNCHANGED <<traversing, cursor, seen>>

Begin ==
  /\ ~traversing
  /\ traversing' = TRUE /\ cursor' = Nil /\ seen' = {}
  /\ UNCHANGED t

NextField ==
  /\ traversing
  /\ LET k == luaH_next(t, cursor)
     IN IF k = Nil THEN traversing' = FALSE /\ cursor' = Nil /\ seen' = {}
        ELSE cursor' = k /\ seen' = seen \cup {k} /\ UNCHANGED traversing
  /\ UNCHANGED t

\* traversetable: the keys of empty fields that the collector owns become dead
removeentries ==
  /\ t' = [t EXCEPT !.node = [n \in DOMAIN t.node |->
             IF t.node[n].val = Nil /\ t.node[n].key[1] = "key" /\ t.node[n].key[2] \notin Numbers
             THEN [t.node[n] EXCEPT !.key = DeadKey(t.node[n].key[2])] ELSE t.node[n]]]
  /\ UNCHANGED <<traversing, cursor, seen>>

Next ==
  \/ \E k \in Keys, v \in Values \cup {Nil} : SetField(k, v)
  \/ \E n \in Presizes : Presize(n)
  \/ Begin \/ NextField \/ removeentries
Spec == Init /\ [][Next]_vars

----------------------------------------------------------------------------
\* A table is a map, whatever collides, moves, is marked dead or reorganised,
\* and a traversal meets every field once, also when fields it has met or will
\* meet are changed or cleared and the collector runs in between.
Map == INSTANCE LuaMap WITH dict <- [k \in Keys |-> luaH_get(t, k)]
Refines == Map!Spec

\* The length of a table is a border: a field that is there and whose successor
\* is not, or 0, in whichever part the field and its successor are.
LengthIsBorder ==
  LET n == luaH_getn(t) IN (n = 0 \/ Present(t, n)) /\ ~Present(t, n + 1)

\* "A main invariant of these tables is that, if an element is not in its main
\* position, then the colliding element is in its own" (ltable.c:15): chains
\* stay short, and the walk from the colliding element's position finds it.
MainPosition ==
  \A n \in UsedNodes(t) :
    LET mp == mainposition(t, t.node[n].key[2])
        other == t.node[mp].key
    IN /\ mp # n /\ other[1] = "key" => mainposition(t, other[2]) = mp
       /\ Walk(t, {n})[mp] = n

\* No field is in both parts, where the array part would hide what the hash
\* part has; no node is out of reach of getfreepos; and a reorganised table had
\* room for everything it held.
PartsAgree ==
  /\ t # Overfull
  /\ \A n \in UsedNodes(t) : ~InArray(t, t.node[n].key[2])
  /\ \A n \in DOMAIN t.node : n >= t.lastfree /\ ~t.dummy => t.node[n].key # NoKey

\* Whenever a key finds no room and the table is reorganised, for the array part,
\* the hash part or both: more than half of the new array part is in use, the
\* key's slot included, and no greater power of two has more than half of its
\* slots in use.  (ltable.c:11 says "the largest n such that at least half the
\* slots between 0 and n are in use"; computesizes takes powers of two only, and
\* exactly half is not enough for it: the keys 1 and 2 get two slots, not four.)
IndexesOf(x) == {k \in Keys : IsIndex(k) /\ luaH_get(x, k) # Nil}
Reorganises(k, v) ==
  SetField(k, v) /\ ~InArray(t, k) /\ NodeOf(t, k) = NULL /\ NoRoom(t, k)
HalfUsed ==
  [][\A k \in Keys, v \in Values \cup {Nil} :
       Reorganises(k, v) =>
         LET I == IndexesOf(t) \cup ({k} \cap {i \in Numbers : i > 0})
             Half(n) == 2 * Cardinality({i \in I : i <= n}) > n
             n == Len(t'.array)
         IN (n > 0 => Half(n)) /\ \A i \in 0..MAXBITS : 2 ^ i > n => ~Half(2 ^ i)]_vars

=============================================================================
