--------------------------- MODULE LuaTableProofs ---------------------------
(***************************************************************************)
(* Proofs about LuaTable, for any keys, hash values and array sizes.       *)
(*                                                                         *)
(* AtHome is the key: whatever node a used one's key hashes to holds a key *)
(* that is at home there, and its chain leads to the used one.  With it a  *)
(* search finds each key from its main position, so an insertion, which    *)
(* may move a node to a free place, changes one field of the map only.     *)
(* Leads says "the chain from here passes there" as a least fixed point,   *)
(* so no step speaks of paths; ranks (Linked) make the chains end.         *)
(*                                                                         *)
(* A reorganised table is filled field by field.  That it never lacks room *)
(* again is a count: Sizes makes the hash part at least as large as what   *)
(* does not go to the array part, and a free node is found while there are *)
(* fewer used ones than nodes.                                             *)
(*                                                                         *)
(* A traversal is a place in the order of slots (TraversalInv): what it    *)
(* has returned lies before, what it has not lies behind, and the key it   *)
(* is at keeps its place, dead or alive, as no field is added meanwhile.   *)
(***************************************************************************)
EXTENDS LuaTable, FiniteSetTheorems, WellFoundedInduction, TLAPS

Cells == {NoKey} \cup {LiveKey(k) : k \in Keys} \cup {DeadKey(k) : k \in Keys}
Slots == [key : Cells, val : Values \cup {Nil}, next : Int]
Homes(x) == [k \in Keys |-> mainposition(x, k)]
Taken(f, p) == f[p].key # NoKey
Of(f, p) == f[p].key[2]

Closed(f, S) == \A p \in S : f[p].next \in S \cup {NULL}
Leads(f, p, q) == \A S \in SUBSET DOMAIN f : p \in S /\ Closed(f, S) => q \in S

Linked(f) ==
  /\ \A p \in DOMAIN f : f[p].next \in DOMAIN f \cup {NULL}
  /\ \A p \in DOMAIN f : f[p].next # NULL => Taken(f, f[p].next)
  /\ \A p, q \in DOMAIN f : f[p].next = f[q].next /\ f[p].next # NULL => p = q
  /\ \E rank \in [DOMAIN f -> Nat] :
       \A p \in DOMAIN f : f[p].next # NULL => rank[f[p].next] < rank[p]
AtHome(f, H) ==
  \A p \in DOMAIN f : Taken(f, p) =>
    LET m == H[Of(f, p)] IN Taken(f, m) /\ H[Of(f, m)] = m /\ Leads(f, m, p)
Unique(f) ==
  /\ \A p, q \in DOMAIN f : f[p].key = f[q].key /\ f[p].key[1] = "key" => p = q
  /\ \A p, q \in DOMAIN f : f[p].key[1] = "key" /\ f[q].key = DeadKey(Of(f, p)) => Leads(f, p, q)
NodesInv(f, H) ==
  /\ f \in [DOMAIN f -> Slots] /\ H \in [Keys -> DOMAIN f]
  /\ DOMAIN f \subseteq Nat /\ NULL \notin DOMAIN f
  /\ \A p \in DOMAIN f : ~Taken(f, p) => f[p] = FreeNode
  /\ \A p \in DOMAIN f : f[p].val # Nil => f[p].key[1] = "key"
  /\ Linked(f) /\ AtHome(f, H) /\ Unique(f)
Tab(x) ==
  /\ x = [array |-> x.array, node |-> x.node, dummy |-> x.dummy, lastfree |-> x.lastfree]
  /\ x.array \in Seq(Values \cup {Nil}) /\ Len(x.array) <= 2 ^ MAXBITS
  /\ \A j \in 1 .. Len(x.array) : x.array[j] # Nil => j \in Numbers
  /\ sizenode(x) \in 1 .. 2 ^ MAXBITS
  /\ DOMAIN x.node = 0 .. sizenode(x) - 1
  /\ NodesInv(x.node, Homes(x))
  /\ \A p \in DOMAIN x.node : Taken(x.node, p) => ~InArray(x, Of(x.node, p))
  /\ IF x.dummy THEN x.node = [p \in {0} |-> FreeNode] /\ x.lastfree = 0
     ELSE x.lastfree \in 0 .. sizenode(x) /\ \A p \in DOMAIN x.node : p >= x.lastfree => Taken(x.node, p)
Pow(x) == \E i \in 0 .. MAXBITS : sizenode(x) = 2 ^ i

(* The positions of the fields. *)
Has(x, j) == IF j < Len(x.array) THEN x.array[j + 1] # Nil ELSE x.node[j - Len(x.array)].val # Nil
KeyAt(x, j) == IF j < Len(x.array) THEN j + 1 ELSE x.node[j - Len(x.array)].key[2]
Places(x) == 0 .. Len(x.array) + sizenode(x) - 1

TraversalInv ==
  IF traversing
  THEN LET i == findindex(t, cursor)
       IN /\ cursor \in Keys \cup {Nil} /\ i \in Nat \cup {-1} /\ seen \subseteq Keys
          /\ \A j \in Places(t) : Has(t, j) => (KeyAt(t, j) \in seen <=> j <= i)
  ELSE seen = {}
IInv == Tab(t) /\ Pow(t) /\ TraversalInv

-----------------------------------------------------------------------------
(* A set of numbers has a least element. *)
LEMMA Least ==
  ASSUME NEW T, T \subseteq Nat, T # {}
  PROVE  \E x \in T : \A y \in T : x <= y
<1>1. PICK R : R = OpToRel(<, Nat)  OBVIOUS
<1>2. IsWellFoundedOn(R, Nat)  BY <1>1, NatLessThanWellFounded
<1>3. PICK x \in T : \A y \in T : ~(<<y, x>> \in R)  BY <1>2, WFMin
<1>4. \A y \in T : x <= y
  <2>1. SUFFICES ASSUME NEW y \in T, ~(x <= y) PROVE FALSE  OBVIOUS
  <2>2. x \in Nat /\ y \in Nat /\ y < x  BY <2>1
  <2>3. <<y, x>> \in R  BY <2>2, <1>1 DEF OpToRel
  <2> QED  BY <2>3, <1>3
<1> QED  BY <1>4

(* Chains end: no set of nodes leads only to itself. *)
LEMMA ChainsEnd ==
  ASSUME NEW f, Linked(f), NEW B, B \subseteq DOMAIN f, \A p \in B : f[p].next # NULL /\ f[p].next \in B
  PROVE  B = {}
<1>1. PICK rank \in [DOMAIN f -> Nat] :
        \A p \in DOMAIN f : f[p].next # NULL => rank[f[p].next] < rank[p]
  BY DEF Linked
<1>2. SUFFICES ASSUME B # {} PROVE FALSE  OBVIOUS
<1>3. PICK T : T = {rank[p] : p \in B}  OBVIOUS
<1>4. T \subseteq Nat /\ T # {}  BY <1>1, <1>2, <1>3
<1>5. PICK m \in T : \A y \in T : m <= y  BY <1>4, Least
<1>6. PICK p \in B : m = rank[p]  BY <1>3, <1>5
<1>7. PICK q \in B : q = f[p].next /\ q # NULL  BY <1>6
<1>8. rank[q] < rank[p] /\ m <= rank[q]  BY <1>1, <1>3, <1>5, <1>6, <1>7
<1>9. rank[q] \in Nat /\ rank[p] \in Nat  BY <1>1, <1>6, <1>7
<1> QED  BY <1>6, <1>8, <1>9

(* The walk along a chain is well defined: it comes to an end. *)
Walked(f, stop, w) ==
  w = [n \in DOMAIN f \cup {NULL} |-> IF n \in stop \cup {NULL} THEN n ELSE w[f[n].next]]

LEMMA WalkExists ==
  ASSUME NEW f, NEW stop, Linked(f), NULL \notin DOMAIN f
  PROVE  \E w : Walked(f, stop, w)
<1> DEFINE D == DOMAIN f \cup {NULL}
           End == stop \cup {NULL}
           Along(S) == \A a \in S : a \notin End => f[a].next \in S
           First(p, q) == q \in End /\ \A S \in SUBSET D : p \in S /\ Along(S) => q \in S
<1>1. \A p \in DOMAIN f : f[p].next \in D  BY DEF Linked
<1>2. ASSUME NEW p \in D, p \in End, NEW q PROVE First(p, q) <=> q = p
  <2>1. {p} \in SUBSET D /\ p \in {p} /\ Along({p})  BY <1>2
  <2> QED  BY <2>1, <1>2
<1>3. ASSUME NEW p \in D, p \notin End, NEW q PROVE First(p, q) <=> First(f[p].next, q)
  <2>1. ASSUME First(p, q) PROVE First(f[p].next, q)
    <3>1. ASSUME NEW S \in SUBSET D, f[p].next \in S, Along(S) PROVE q \in S
      <4>1. S \cup {p} \in SUBSET D /\ Along(S \cup {p})  BY <3>1
      <4>2. q \in S \cup {p}  BY <4>1, <2>1
      <4> QED  BY <4>2, <2>1, <1>3
    <3> QED  BY <3>1, <2>1
  <2>2. ASSUME First(f[p].next, q) PROVE First(p, q)
    <3>1. ASSUME NEW S \in SUBSET D, p \in S, Along(S) PROVE q \in S
      <4>1. f[p].next \in S  BY <3>1, <1>3
      <4> QED  BY <4>1, <3>1, <2>2
    <3> QED  BY <3>1, <2>2
  <2> QED  BY <2>1, <2>2
<1> DEFINE Sure(p) == \E q : First(p, q) /\ \A r : First(p, r) => r = q
<1> HIDE DEF First
<1>4. \A p \in D : Sure(p)
  <2>1. \A p \in D : p \in End => Sure(p)  BY <1>2
  <2> DEFINE Bad == {p \in DOMAIN f : ~Sure(p)}
  <2>2. ASSUME NEW p \in Bad PROVE f[p].next # NULL /\ f[p].next \in Bad
    <3>1. p \in DOMAIN f /\ p \notin End  BY <2>1, <2>2
    <3>2. ~Sure(f[p].next)  BY <1>3, <2>2, <3>1
    <3> QED  BY <1>1, <2>1, <3>1, <3>2
  <2>3. Bad = {}  BY <2>2, ChainsEnd
  <2> QED  BY <2>1, <2>3
<1> DEFINE w == [p \in D |-> CHOOSE q : First(p, q)]
<1>5. \A p \in D : First(p, w[p]) /\ \A r : First(p, r) => r = w[p]  BY <1>4
<1>6. ASSUME NEW p \in D PROVE w[p] = IF p \in End THEN p ELSE w[f[p].next]
  <2>1. CASE p \in End  BY <2>1, <1>2, <1>5
  <2>2. CASE p \notin End
    <3>1. p \in DOMAIN f /\ f[p].next \in D  BY <2>2, <1>1
    <3>2. First(f[p].next, w[p])  BY <2>2, <1>3, <1>5
    <3> QED  BY <2>2, <3>1, <3>2, <1>5
  <2> QED  BY <2>1, <2>2
<1> HIDE DEF w
<1>7. w = [p \in D |-> w[p]]  BY DEF w
<1>8. Walked(f, stop, w)  BY <1>6, <1>7 DEF Walked
<1> QED  BY <1>8

LEMMA WalkIs ==
  ASSUME NEW x, NEW stop, Linked(x.node), NULL \notin DOMAIN x.node
  PROVE  Walked(x.node, stop, Walk(x, stop))
<1>1. PICK f : f = x.node  OBVIOUS
<1>2. \E w : Walked(f, stop, w)  BY <1>1, WalkExists
<1>3. Walk(x, stop) = CHOOSE w : Walked(f, stop, w)
  BY <1>1, Zenon DEF Walk, Walked
<1> QED  BY <1>1, <1>2, <1>3

(* What a walk finds. *)
LEMMA WalkEnds ==
  ASSUME NEW f, NEW stop, NEW w, Linked(f), Walked(f, stop, w), stop \subseteq DOMAIN f
  PROVE  /\ \A p \in DOMAIN f \cup {NULL} : w[p] \in stop \cup {NULL}
         /\ \A p \in stop : w[p] = p
<1> DEFINE D == DOMAIN f \cup {NULL}
<1>1. \A n \in D : w[n] = IF n \in stop \cup {NULL} THEN n ELSE w[f[n].next]
  <2>1. PICK v : v = w  OBVIOUS
  <2>2. v = [n \in D |-> IF n \in stop \cup {NULL} THEN n ELSE w[f[n].next]]
    BY <2>1 DEF Walked
  <2> QED  BY <2>1, <2>2
<1> DEFINE Bad == {p \in DOMAIN f : w[p] \notin stop \cup {NULL}}
<1>2. ASSUME NEW p \in Bad PROVE f[p].next # NULL /\ f[p].next \in Bad
  <2>1. p \notin stop \cup {NULL} /\ w[p] = w[f[p].next]  BY <1>1, <1>2
  <2>2. f[p].next \in D  BY <1>2 DEF Linked
  <2>3. w[NULL] = NULL  BY <1>1
  <2> QED  BY <1>2, <2>1, <2>2, <2>3
<1>3. Bad = {}  BY <1>2, ChainsEnd
<1> QED  BY <1>1, <1>3

LEMMA LeadsFacts ==
  ASSUME NEW f, Linked(f)
  PROVE  /\ \A p \in DOMAIN f : Leads(f, p, p)
         /\ \A p, q \in DOMAIN f : Leads(f, p, q) /\ f[q].next # NULL => Leads(f, p, f[q].next)
         /\ \A p, q, r \in DOMAIN f : Leads(f, p, q) /\ Leads(f, q, r) => Leads(f, p, r)
         /\ \A p, q \in DOMAIN f : Leads(f, p, q) /\ Leads(f, q, p) => p = q
<1>1. \A p \in DOMAIN f : Leads(f, p, p)  BY DEF Leads
<1>2. \A p, q \in DOMAIN f : Leads(f, p, q) /\ f[q].next # NULL => Leads(f, p, f[q].next)
  BY DEF Leads, Closed
<1>3. \A p, q, r \in DOMAIN f : Leads(f, p, q) /\ Leads(f, q, r) => Leads(f, p, r)
  BY DEF Leads
<1>4. ASSUME NEW p \in DOMAIN f, NEW q \in DOMAIN f, Leads(f, p, q), Leads(f, q, p)
      PROVE  p = q
  <2>1. PICK rank \in [DOMAIN f -> Nat] :
          \A a \in DOMAIN f : f[a].next # NULL => rank[f[a].next] < rank[a]
    BY DEF Linked
  <2>2. ASSUME NEW a \in DOMAIN f, NEW b \in DOMAIN f, Leads(f, a, b) PROVE b = a \/ rank[b] < rank[a]
    <3> DEFINE S == {c \in DOMAIN f : c = a \/ rank[c] < rank[a]}
    <3>1. Closed(f, S)
      <4>1. ASSUME NEW c \in S, f[c].next # NULL PROVE f[c].next \in S
        <5>1. PICK d \in DOMAIN f : d = f[c].next  BY <4>1 DEF Linked
        <5>2. rank[d] < rank[c]  BY <2>1, <4>1, <5>1
        <5>3. rank[c] <= rank[a] /\ rank[c] \in Nat /\ rank[a] \in Nat /\ rank[d] \in Nat
          BY <2>1, <4>1, <5>1
        <5> QED  BY <5>1, <5>2, <5>3
      <4> QED  BY <4>1 DEF Closed
    <3>2. S \in SUBSET DOMAIN f /\ a \in S  OBVIOUS
    <3>3. b \in S  BY <2>2, <3>1, <3>2 DEF Leads
    <3> QED  BY <3>3
  <2>3. q = p \/ rank[q] < rank[p]  BY <1>4, <2>2
  <2>4. p = q \/ rank[p] < rank[q]  BY <1>4, <2>2
  <2>5. rank[p] \in Nat /\ rank[q] \in Nat  BY <2>1
  <2> QED  BY <2>3, <2>4, <2>5
<1> QED  BY <1>1, <1>2, <1>3, <1>4

LEMMA WalkFinds ==
  ASSUME NEW f, NEW stop, NEW w, Linked(f), NULL \notin DOMAIN f, Walked(f, stop, w),
         stop \subseteq DOMAIN f,
         NEW h \in DOMAIN f, NEW p \in stop, Leads(f, h, p), \A q \in stop : Leads(f, p, q)
  PROVE  w[h] = p
<1> DEFINE D == DOMAIN f \cup {NULL}
           S == {q \in DOMAIN f : w[q] = w[h]}
<1>1. \A n \in D : w[n] = IF n \in stop \cup {NULL} THEN n ELSE w[f[n].next]
  <2>1. PICK v : v = w  OBVIOUS
  <2>2. v = [n \in D |-> IF n \in stop \cup {NULL} THEN n ELSE w[f[n].next]]
    BY <2>1 DEF Walked
  <2> QED  BY <2>1, <2>2
<1>2. w[h] \in stop \cup {NULL} /\ p \in DOMAIN f  BY WalkEnds
<1>3. ASSUME NEW q \in S, q \notin stop, f[q].next # NULL PROVE f[q].next \in S
  <2>1. f[q].next \in DOMAIN f  BY <1>3 DEF Linked
  <2>2. w[q] = w[f[q].next]  BY <1>1, <1>3
  <2> QED  BY <1>3, <2>1, <2>2
<1>4. SUFFICES ASSUME w[h] # p PROVE FALSE  OBVIOUS
<1>5. p \notin S  BY <1>1, <1>2, <1>4
<1>6. h \in S  OBVIOUS
<1>7. CASE w[h] = NULL
  <2>1. \A q \in S : q \notin stop  BY <1>1, <1>7
  <2>2. Closed(f, S)  BY <2>1, <1>3 DEF Closed
  <2>3. S \in SUBSET DOMAIN f  OBVIOUS
  <2> QED  BY <2>2, <2>3, <1>5, <1>6 DEF Leads
<1>8. CASE w[h] # NULL
  <2>1. PICK d \in stop : d = w[h]  BY <1>2, <1>8
  <2> DEFINE R == {q \in DOMAIN f : Leads(f, d, q)}
  <2>2. d \in DOMAIN f /\ Leads(f, d, d)  BY <2>1, LeadsFacts
  <2>3. ASSUME NEW q \in S \cup R, f[q].next # NULL PROVE f[q].next \in S \cup R
    <3>1. q \in DOMAIN f /\ f[q].next \in DOMAIN f  BY <2>3 DEF Linked
    <3>2. CASE q \in R  BY <3>1, <3>2, <2>2, <2>3, LeadsFacts
    <3>3. CASE q \in S /\ q \in stop
      <4>1. q = d  BY <1>1, <2>1, <3>1, <3>3
      <4> QED  BY <4>1, <3>1, <2>2, <2>3, LeadsFacts
    <3>4. CASE q \in S /\ q \notin stop  BY <3>4, <1>3, <2>3
    <3> QED  BY <2>3, <3>2, <3>3, <3>4
  <2>4. Closed(f, S \cup R) /\ (S \cup R) \in SUBSET DOMAIN f
    <3>1. Closed(f, S \cup R)  BY <2>3 DEF Closed
    <3> QED  BY <3>1
  <2>5. p \in S \cup R  BY <2>4, <1>6 DEF Leads
  <2>6. Leads(f, d, p) /\ Leads(f, p, d)  BY <2>1, <2>5, <1>5
  <2>7. d = p  BY <2>2, <2>6, <1>2, LeadsFacts
  <2> QED  BY <2>1, <2>7, <1>4
<1> QED  BY <1>7, <1>8

-----------------------------------------------------------------------------
(* Search *)
LEMMA KeyFacts ==
  /\ \A k, j : LiveKey(k) = LiveKey(j) <=> k = j
  /\ \A k, j : DeadKey(k) = DeadKey(j) <=> k = j
  /\ \A k, j : LiveKey(k) # NoKey /\ DeadKey(k) # NoKey /\ LiveKey(k) # DeadKey(j)
  /\ \A k : LiveKey(k)[1] = "key" /\ DeadKey(k)[1] = "dead" /\ NoKey[1] = "nil"
  /\ \A k : LiveKey(k)[2] = k /\ DeadKey(k)[2] = k
  /\ \A c \in Cells : c[1] = "key" => c[2] \in Keys /\ c = LiveKey(c[2])
  /\ \A c \in Cells : c # NoKey => c[2] \in Keys
<1>1. \A k, j : LiveKey(k) = LiveKey(j) <=> k = j  BY DEF LiveKey
<1>2. \A k, j : DeadKey(k) = DeadKey(j) <=> k = j  BY DEF DeadKey
<1>3. \A k : LiveKey(k)[1] = "key" /\ DeadKey(k)[1] = "dead" /\ NoKey[1] = "nil"
  BY DEF LiveKey, DeadKey, NoKey
<1>4. \A k : LiveKey(k)[2] = k /\ DeadKey(k)[2] = k  BY DEF LiveKey, DeadKey
<1>5. \A k, j : LiveKey(k) # NoKey /\ DeadKey(k) # NoKey /\ LiveKey(k) # DeadKey(j)
  BY <1>3
<1>6. ASSUME NEW c \in Cells, c[1] = "key" PROVE c[2] \in Keys /\ c = LiveKey(c[2])
  BY <1>3, <1>4, <1>6 DEF Cells
<1>7. ASSUME NEW c \in Cells, c # NoKey PROVE c[2] \in Keys
  BY <1>4, <1>7 DEF Cells
<1> QED  BY <1>1, <1>2, <1>3, <1>4, <1>5, <1>6, <1>7

LEMMA MatchingIs ==
  ASSUME NEW x, NodesInv(x.node, Homes(x)), NEW k \in Keys, NEW cells,
         NEW stop, stop = {n \in DOMAIN x.node : x.node[n].key \in cells}
  PROVE  /\ Matching(x, k, cells) \in stop \cup {NULL}
         /\ \A p \in stop : /\ Of(x.node, p) = k /\ x.node[p].key # NoKey
                            /\ \A q \in stop : Leads(x.node, p, q)
                            => Matching(x, k, cells) = p
<1>1. PICK f, w, h : f = x.node /\ w = Walk(x, stop) /\ h = mainposition(x, k)  OBVIOUS
<1>2. Linked(f) /\ NULL \notin DOMAIN f /\ stop \subseteq DOMAIN f  BY <1>1 DEF NodesInv
<1>3. Walked(f, stop, w)  BY <1>1, <1>2, WalkIs
<1>4. Matching(x, k, cells) = w[h]  BY <1>1 DEF Matching
<1>5. Homes(x)[k] = h  BY <1>1 DEF Homes
<1>6. h \in DOMAIN f  BY <1>1, <1>5 DEF NodesInv
<1>7. w[h] \in stop \cup {NULL}  BY <1>2, <1>3, <1>6, WalkEnds
<1>8. ASSUME NEW p \in stop, Of(f, p) = k, f[p].key # NoKey, \A q \in stop : Leads(f, p, q)
      PROVE  w[h] = p
  <2>1. Leads(f, h, p)  BY <1>1, <1>2, <1>5, <1>8 DEF NodesInv, AtHome, Taken
  <2> QED  BY <1>2, <1>3, <1>6, <1>8, <2>1, WalkFinds
<1> QED  BY <1>1, <1>4, <1>7, <1>8

LEMMA NodeOfIs ==
  ASSUME NEW x, NodesInv(x.node, Homes(x)), NEW k \in Keys
  PROVE  /\ NodeOf(x, k) \in DOMAIN x.node \cup {NULL}
         /\ NodeOf(x, k) # NULL => x.node[NodeOf(x, k)].key = LiveKey(k)
         /\ \A p \in DOMAIN x.node : x.node[p].key = LiveKey(k) => NodeOf(x, k) = p
<1>1. PICK stop : stop = {n \in DOMAIN x.node : x.node[n].key \in {LiveKey(k)}}  OBVIOUS
<1>2. Linked(x.node) /\ Unique(x.node)  BY DEF NodesInv
<1>3. Matching(x, k, {LiveKey(k)}) \in stop \cup {NULL}  BY <1>1, MatchingIs
<1>4. ASSUME NEW p \in DOMAIN x.node, x.node[p].key = LiveKey(k)
      PROVE  Matching(x, k, {LiveKey(k)}) = p
  <2>1. p \in stop /\ Of(x.node, p) = k /\ x.node[p].key # NoKey
    BY <1>1, <1>4, KeyFacts DEF Of
  <2>2. \A q \in stop : q = p  BY <1>1, <1>2, <1>4, KeyFacts DEF Unique
  <2>3. \A q \in stop : Leads(x.node, p, q)  BY <1>2, <1>4, <2>2, LeadsFacts
  <2> QED  BY <1>1, <2>1, <2>3, MatchingIs
<1> QED  BY <1>1, <1>3, <1>4 DEF NodeOf

LEMMA FindIs ==
  ASSUME NEW x, NodesInv(x.node, Homes(x)), NEW k \in Keys,
         NEW p \in DOMAIN x.node, x.node[p].key = LiveKey(k)
  PROVE  Matching(x, k, {LiveKey(k), DeadKey(k)}) = p
<1>1. PICK stop : stop = {n \in DOMAIN x.node : x.node[n].key \in {LiveKey(k), DeadKey(k)}}
  OBVIOUS
<1>2. Linked(x.node) /\ Unique(x.node)  BY DEF NodesInv
<1>3. p \in stop /\ Of(x.node, p) = k /\ x.node[p].key # NoKey /\ x.node[p].key[1] = "key"
  BY <1>1, KeyFacts DEF Of
<1>4. ASSUME NEW q \in stop PROVE Leads(x.node, p, q)
  <2>1. CASE x.node[q].key = LiveKey(k)
    <3>1. q = p  BY <1>1, <1>2, <1>3, <2>1 DEF Unique
    <3> QED  BY <1>2, <3>1, LeadsFacts
  <2>2. CASE x.node[q].key = DeadKey(k)
    BY <1>1, <1>2, <1>3, <2>2 DEF Unique
  <2> QED  BY <1>1, <2>1, <2>2
<1> QED  BY <1>1, <1>3, <1>4, MatchingIs

(* The hash part gives v # nil for k. *)
Binds(f, k, v) == \E p \in DOMAIN f : f[p].key = LiveKey(k) /\ f[p].val = v

LEMMA GetIs ==
  ASSUME NEW x, NodesInv(x.node, Homes(x)), NEW k \in Keys
  PROVE  /\ InArray(x, k) => luaH_get(x, k) = x.array[k]
         /\ ~InArray(x, k) /\ luaH_get(x, k) # Nil => Binds(x.node, k, luaH_get(x, k))
         /\ \A v : ~InArray(x, k) /\ Binds(x.node, k, v) => luaH_get(x, k) = v
<1>1. InArray(x, k) => luaH_get(x, k) = x.array[k]  BY DEF luaH_get
<1>2. ASSUME ~InArray(x, k), luaH_get(x, k) # Nil PROVE Binds(x.node, k, luaH_get(x, k))
  BY <1>2, NodeOfIs DEF luaH_get, Binds
<1>3. ASSUME NEW v, ~InArray(x, k), Binds(x.node, k, v) PROVE luaH_get(x, k) = v
  <2>1. PICK p \in DOMAIN x.node : x.node[p].key = LiveKey(k) /\ x.node[p].val = v
    BY <1>3 DEF Binds
  <2>2. NodeOf(x, k) = p  BY <2>1, NodeOfIs
  <2>3. p # NULL  BY DEF NodesInv
  <2> QED  BY <1>3, <2>1, <2>2, <2>3 DEF luaH_get
<1> QED  BY <1>1, <1>2, <1>3

-----------------------------------------------------------------------------
(* What insertion does to the nodes *)

LEMMA Relabel ==
  ASSUME NEW f, NEW g, DOMAIN g = DOMAIN f, Linked(f),
         \A p \in DOMAIN f : g[p].next = f[p].next /\ (Taken(f, p) => Taken(g, p))
  PROVE  Linked(g) /\ \A p, q \in DOMAIN f : Leads(g, p, q) <=> Leads(f, p, q)
<1>1. \A S \in SUBSET DOMAIN f : Closed(g, S) <=> Closed(f, S)  BY DEF Closed
<1>2. \A p, q \in DOMAIN f : Leads(g, p, q) <=> Leads(f, p, q)  BY <1>1 DEF Leads
<1>3. \E rank \in [DOMAIN g -> Nat] :
        \A p \in DOMAIN g : g[p].next # NULL => rank[g[p].next] < rank[p]
  <2>1. PICK rank \in [DOMAIN f -> Nat] :
          \A p \in DOMAIN f : f[p].next # NULL => rank[f[p].next] < rank[p]
    BY DEF Linked
  <2>2. rank \in [DOMAIN g -> Nat]  BY <2>1
  <2>3. \A p \in DOMAIN g : g[p].next # NULL => rank[g[p].next] < rank[p]  BY <2>1
  <2> QED  BY <2>2, <2>3
<1>4. \A p \in DOMAIN g : g[p].next \in DOMAIN g \cup {NULL}  BY DEF Linked
<1>5. \A p \in DOMAIN g : g[p].next # NULL => Taken(g, g[p].next)  BY DEF Linked
<1>6. \A p, q \in DOMAIN g : g[p].next = g[q].next /\ g[p].next # NULL => p = q  BY DEF Linked
<1> QED  BY <1>2, <1>3, <1>4, <1>5, <1>6 DEF Linked

(* The value of a field is set. *)
LEMMA ValueSet ==
  ASSUME NEW f, NEW H, NodesInv(f, H), NEW p \in DOMAIN f, f[p].key[1] = "key",
         NEW v \in Values \cup {Nil}, NEW g, g = [f EXCEPT ![p] = [f[p] EXCEPT !.val = v]]
  PROVE  /\ NodesInv(g, H) /\ DOMAIN g = DOMAIN f
         /\ \A q \in DOMAIN f : g[q].key = f[q].key /\ g[q].next = f[q].next
                                /\ g[q].val = IF q = p THEN v ELSE f[q].val
<1>1. f \in [DOMAIN f -> Slots]  BY DEF NodesInv
<1>2. DOMAIN g = DOMAIN f /\ g \in [DOMAIN g -> Slots]
      /\ \A q \in DOMAIN f : g[q].key = f[q].key /\ g[q].next = f[q].next
                             /\ g[q].val = IF q = p THEN v ELSE f[q].val
  BY <1>1 DEF Slots
<1>3. Linked(f) /\ AtHome(f, H) /\ Unique(f) /\ H \in [Keys -> DOMAIN f]  BY DEF NodesInv
<1>10. \A q \in DOMAIN f : /\ g[q].next = f[q].next /\ Of(g, q) = Of(f, q)
                           /\ Taken(g, q) <=> Taken(f, q)
  BY <1>2 DEF Taken, Of
<1>11. Linked(g) /\ \A a, b \in DOMAIN f : Leads(g, a, b) <=> Leads(f, a, b)
  BY <1>2, <1>3, <1>10, Relabel, ZenonT(60)
<1>4. AtHome(g, H)
  <2>1. ASSUME NEW q \in DOMAIN g, Taken(g, q)
        PROVE  LET m == H[Of(g, q)] IN Taken(g, m) /\ H[Of(g, m)] = m /\ Leads(g, m, q)
    <3>1. PICK m : m = H[Of(f, q)]  OBVIOUS
    <3>2. q \in DOMAIN f /\ Taken(f, q)  BY <1>2, <1>10, <2>1
    <3>3. Taken(f, m) /\ H[Of(f, m)] = m /\ Leads(f, m, q)  BY <1>3, <3>1, <3>2 DEF AtHome
    <3>4. Of(f, q) \in Keys
      <4>1. f[q].key \in Cells  BY <1>1, <3>2 DEF Slots
      <4> QED  BY <4>1, <3>2, KeyFacts DEF Taken, Of
    <3>5. m \in DOMAIN f  BY <1>3, <3>1, <3>4
    <3> QED  BY <1>10, <1>11, <3>1, <3>2, <3>3, <3>5
  <2> QED  BY <2>1 DEF AtHome
<1>5. Unique(g)
  <2>1. \A q \in DOMAIN f : g[q].key = f[q].key /\ Of(g, q) = Of(f, q)  BY <1>2, <1>10
  <2>2. \A a, b \in DOMAIN f : f[a].key = f[b].key /\ f[a].key[1] = "key" => a = b
    BY <1>3, Zenon DEF Unique
  <2>3. \A a, b \in DOMAIN f : f[a].key[1] = "key" /\ f[b].key = DeadKey(Of(f, a)) => Leads(f, a, b)
    BY <1>3, Zenon DEF Unique
  <2>4. \A a, b \in DOMAIN g : g[a].key = g[b].key /\ g[a].key[1] = "key" => a = b
    BY <1>2, <2>1, <2>2
  <2>5. \A a, b \in DOMAIN g : g[a].key[1] = "key" /\ g[b].key = DeadKey(Of(g, a)) => Leads(g, a, b)
    <3>1. ASSUME NEW a \in DOMAIN g, NEW b \in DOMAIN g, g[a].key[1] = "key", g[b].key = DeadKey(Of(g, a))
          PROVE  Leads(g, a, b)
      <4>1. a \in DOMAIN f /\ b \in DOMAIN f  BY <1>2
      <4>2. f[a].key[1] = "key" /\ f[b].key = DeadKey(Of(f, a))  BY <2>1, <3>1, <4>1
      <4>3. Leads(f, a, b)  BY <2>3, <4>1, <4>2
      <4> QED  BY <1>11, <4>1, <4>3
    <3> QED  BY <3>1, Zenon
  <2> QED  BY <2>4, <2>5, Zenon DEF Unique
<1>6. \A q \in DOMAIN g : ~Taken(g, q) => g[q] = FreeNode
  <2>1. f[p].key # NoKey  BY KeyFacts
  <2> QED  BY <1>2, <2>1 DEF NodesInv, Taken
<1>7. \A q \in DOMAIN g : g[q].val # Nil => g[q].key[1] = "key"  BY <1>2 DEF NodesInv
<1>8. NULL \notin DOMAIN g /\ DOMAIN g \subseteq Nat  BY <1>2 DEF NodesInv
<1> QED  BY <1>2, <1>3, <1>4, <1>5, <1>6, <1>7, <1>8, <1>11 DEF NodesInv

(* A taken node's key is a key, whose chain leads there. *)
LEMMA TakenFacts ==
  ASSUME NEW f, NEW H, NodesInv(f, H)
  PROVE  /\ \A p \in DOMAIN f : f[p] \in Slots /\ f[p].key \in Cells /\ f[p].next \in DOMAIN f \cup {NULL}
         /\ \A p \in DOMAIN f : Taken(f, p) =>
              LET m == H[Of(f, p)]
              IN Of(f, p) \in Keys /\ m \in DOMAIN f /\ Taken(f, m) /\ H[Of(f, m)] = m /\ Leads(f, m, p)
         /\ \A p \in DOMAIN f : f[p].key[1] = "key" => Taken(f, p) /\ f[p].key = LiveKey(Of(f, p))
         /\ \A p \in DOMAIN f : f[p].val # Nil => f[p].key[1] = "key"
         /\ \A p \in DOMAIN f : \A k : f[p].key = LiveKey(k) => f[p].key[1] = "key" /\ Of(f, p) = k
         /\ \A p \in DOMAIN f : \A k : f[p].key = DeadKey(k) => Taken(f, p) /\ Of(f, p) = k
<1>1. f \in [DOMAIN f -> Slots] /\ H \in [Keys -> DOMAIN f] /\ Linked(f) /\ AtHome(f, H)
  BY DEF NodesInv
<1>2. \A p \in DOMAIN f : f[p] \in Slots /\ f[p].key \in Cells /\ f[p].next \in DOMAIN f \cup {NULL}
  <2>1. \A p \in DOMAIN f : f[p] \in Slots  BY <1>1
  <2>2. \A p \in DOMAIN f : f[p].key \in Cells  BY <2>1 DEF Slots
  <2>3. \A p \in DOMAIN f : f[p].next \in DOMAIN f \cup {NULL}  BY <1>1 DEF Linked
  <2> QED  BY <2>1, <2>2, <2>3
<1>3. ASSUME NEW p \in DOMAIN f, Taken(f, p)
      PROVE  LET m == H[Of(f, p)]
             IN Of(f, p) \in Keys /\ m \in DOMAIN f /\ Taken(f, m) /\ H[Of(f, m)] = m /\ Leads(f, m, p)
  <2>1. PICK c \in Cells : c = f[p].key  BY <1>2
  <2>2. c[2] \in Keys  BY <1>3, <2>1, KeyFacts DEF Taken
  <2>3. Of(f, p) \in Keys  BY <2>1, <2>2 DEF Of
  <2>4. H[Of(f, p)] \in DOMAIN f  BY <1>1, <2>3
  <2> QED  BY <1>1, <1>3, <2>3, <2>4 DEF AtHome
<1>4. ASSUME NEW p \in DOMAIN f, f[p].key[1] = "key"
      PROVE  Taken(f, p) /\ f[p].key = LiveKey(Of(f, p))
  BY <1>2, <1>4, KeyFacts DEF Taken, Of
<1>5. \A p \in DOMAIN f : f[p].val # Nil => f[p].key[1] = "key"  BY DEF NodesInv
<1>6. \A p \in DOMAIN f : \A k : f[p].key = LiveKey(k) => f[p].key[1] = "key" /\ Of(f, p) = k
  BY KeyFacts DEF Of
<1>7. \A p \in DOMAIN f : \A k : f[p].key = DeadKey(k) => Taken(f, p) /\ Of(f, p) = k
  BY KeyFacts DEF Of, Taken
<1> QED  BY <1>2, <1>3, <1>4, <1>5, <1>6, <1>7

LEMMA UniqueFacts ==
  ASSUME NEW f, NEW H, NodesInv(f, H)
  PROVE  /\ \A a, b \in DOMAIN f : f[a].key = f[b].key /\ f[a].key[1] = "key" => a = b
         /\ \A a, b \in DOMAIN f : f[a].key[1] = "key" /\ f[b].key = DeadKey(Of(f, a)) => Leads(f, a, b)
BY Zenon DEF NodesInv, Unique

(* g is f with the key k added, to a node without a value. *)
Added(f, g, k) ==
  /\ DOMAIN g = DOMAIN f /\ Binds(g, k, Nil)
  /\ \A j, v : j # k /\ v # Nil => (Binds(g, j, v) <=> Binds(f, j, v))
  /\ \A p \in DOMAIN f : Taken(f, p) => Taken(g, p)
  /\ \A p \in DOMAIN f : Taken(g, p) =>
       g[p].key = LiveKey(k) \/ \E q \in DOMAIN f : Taken(f, q) /\ g[p].key = f[q].key
  /\ \E n \in DOMAIN f : \A p \in DOMAIN f : Taken(g, p) => p = n \/ Taken(f, p)

(* The key k goes to a node whose value is nil, its main position. *)
LEMMA FillKept ==
  ASSUME NEW f, NEW H, NodesInv(f, H), NEW k \in Keys, NEW m \in DOMAIN f, m = H[k],
         f[m].val = Nil, \A p \in DOMAIN f : f[p].key # LiveKey(k),
         NEW g, g = [f EXCEPT ![m] = [f[m] EXCEPT !.key = LiveKey(k)]]
  PROVE  NodesInv(g, H) /\ Added(f, g, k)
<1>1. f \in [DOMAIN f -> Slots] /\ LiveKey(k) \in Cells  BY DEF NodesInv, Cells
<1>2. DOMAIN g = DOMAIN f /\ g \in [DOMAIN g -> Slots] /\ g[m].key = LiveKey(k)
      /\ \A q \in DOMAIN f : g[q].next = f[q].next /\ g[q].val = f[q].val
                             /\ (q # m => g[q] = f[q])
  BY <1>1 DEF Slots
<1>3. Linked(f) /\ H \in [Keys -> DOMAIN f]  BY DEF NodesInv
<1>4. \A q \in DOMAIN f : (Taken(g, q) <=> q = m \/ Taken(f, q)) /\ (q # m => Of(g, q) = Of(f, q))
  BY <1>2, KeyFacts DEF Taken, Of
<1>5. Linked(g) /\ \A a, b \in DOMAIN f : Leads(g, a, b) <=> Leads(f, a, b)
  <2>1. DOMAIN g = DOMAIN f  BY <1>2
  <2>2. \A q \in DOMAIN f : g[q].next = f[q].next  BY <1>2
  <2>3. \A q \in DOMAIN f : Taken(f, q) => Taken(g, q)  BY <1>4
  <2> QED  BY <1>3, <2>1, <2>2, <2>3, Relabel, ZenonT(60)
<1>6. Of(g, m) = k  BY <1>2, KeyFacts DEF Of
<1>7. AtHome(g, H)
  <2>1. ASSUME NEW q \in DOMAIN g, Taken(g, q)
        PROVE  LET h == H[Of(g, q)] IN Taken(g, h) /\ H[Of(g, h)] = h /\ Leads(g, h, q)
    <3>1. CASE q = m
      <4>1. Leads(g, m, m)  BY <1>2, <1>5, LeadsFacts
      <4> QED  BY <3>1, <4>1, <1>2, <1>4, <1>6
    <3>2. CASE q # m
      <4>1. PICK h : h = H[Of(f, q)]  OBVIOUS
      <4>2. q \in DOMAIN f /\ Taken(f, q)  BY <1>2, <1>4, <2>1, <3>2
      <4>3. h \in DOMAIN f /\ Taken(f, h) /\ H[Of(f, h)] = h /\ Leads(f, h, q)
        BY <4>1, <4>2, TakenFacts
      <4>4. Taken(g, h) /\ Leads(g, h, q)  BY <1>4, <1>5, <4>2, <4>3
      <4>5. H[Of(g, h)] = h  BY <1>4, <1>6, <4>3
      <4> QED  BY <1>4, <3>2, <4>1, <4>2, <4>4, <4>5
    <3> QED  BY <3>1, <3>2
  <2> QED  BY <2>1 DEF AtHome
<1>8. Unique(g)
  <2>1. ASSUME NEW a \in DOMAIN g, NEW b \in DOMAIN g, g[a].key = g[b].key, g[a].key[1] = "key"
        PROVE  a = b
    <3>1. CASE a # m /\ b # m  BY <1>2, <2>1, <3>1, UniqueFacts
    <3>2. CASE a = m \/ b = m  BY <1>2, <2>1, <3>2
    <3> QED  BY <3>1, <3>2
  <2>2. ASSUME NEW a \in DOMAIN g, NEW b \in DOMAIN g, g[a].key[1] = "key", g[b].key = DeadKey(Of(g, a))
        PROVE  Leads(g, a, b)
    <3>1. b # m  BY <1>2, <2>2, KeyFacts
    <3>2. a \in DOMAIN f /\ b \in DOMAIN f /\ f[b].key = DeadKey(Of(g, a))  BY <1>2, <2>2, <3>1
    <3>3. CASE a = m
      <4>1. f[b].key = DeadKey(k)  BY <1>6, <3>2, <3>3
      <4>2. Taken(f, b) /\ Of(f, b) = k  BY <3>2, <4>1, TakenFacts
      <4>3. Leads(f, m, b)  BY <3>2, <4>2, TakenFacts
      <4> QED  BY <1>5, <3>2, <3>3, <4>3
    <3>4. CASE a # m
      <4>1. f[a].key[1] = "key" /\ f[b].key = DeadKey(Of(f, a))  BY <1>2, <1>4, <2>2, <3>2, <3>4
      <4>2. Leads(f, a, b)  BY <3>2, <4>1, UniqueFacts
      <4> QED  BY <1>5, <3>2, <4>2
    <3> QED  BY <3>3, <3>4
  <2> QED  BY <2>1, <2>2, Zenon DEF Unique
<1>9. \A q \in DOMAIN g : ~Taken(g, q) => g[q] = FreeNode
  BY <1>2, <1>4 DEF NodesInv
<1>10. \A q \in DOMAIN g : g[q].val # Nil => g[q].key[1] = "key"
  BY <1>2 DEF NodesInv
<1>11. NULL \notin DOMAIN g /\ DOMAIN g \subseteq Nat  BY <1>2 DEF NodesInv
<1>12. NodesInv(g, H)  BY <1>2, <1>3, <1>5, <1>7, <1>8, <1>9, <1>10, <1>11 DEF NodesInv
<1>13. Added(f, g, k)
  <2>1. Binds(g, k, Nil)  BY <1>2 DEF Binds
  <2>2. ASSUME NEW j, NEW v, j # k, v # Nil PROVE Binds(g, j, v) <=> Binds(f, j, v)
    BY <1>2, <2>2, KeyFacts DEF Binds
  <2>3. \A q \in DOMAIN f : Taken(g, q) =>
          g[q].key = LiveKey(k) \/ \E r \in DOMAIN f : Taken(f, r) /\ g[q].key = f[r].key
    BY <1>2, <1>4
  <2>4. \A q \in DOMAIN f : Taken(g, q) => q = m \/ Taken(f, q)  BY <1>4
  <2> QED  BY <1>2, <1>4, <2>1, <2>2, <2>3, <2>4 DEF Added
<1> QED  BY <1>12, <1>13

(* The key k goes to a free node n behind the node m at its main position,     *)
(* which is at home there.                                                     *)
LEMMA BehindKept ==
  ASSUME NEW f, NEW H, NodesInv(f, H), NEW k \in Keys, NEW m \in DOMAIN f, m = H[k],
         f[m].val # Nil, H[Of(f, m)] = m, \A p \in DOMAIN f : f[p].key # LiveKey(k),
         NEW n \in DOMAIN f, ~Taken(f, n),
         NEW g, g = [f EXCEPT ![n] = [key |-> LiveKey(k), val |-> Nil, next |-> f[m].next],
                              ![m] = [f[m] EXCEPT !.next = n]]
  PROVE  NodesInv(g, H) /\ Added(f, g, k) /\ Taken(g, n)
<1>1. f \in [DOMAIN f -> Slots] /\ LiveKey(k) \in Cells /\ H \in [Keys -> DOMAIN f]
  BY DEF NodesInv, Cells
<1>2. Taken(f, m) /\ f[m].key[1] = "key" /\ m # n  BY TakenFacts
<1>3. f[n].key = NoKey /\ f[n].val = Nil /\ f[n].next = NULL
  BY DEF NodesInv, Taken, FreeNode
<1>4. NULL \notin DOMAIN f /\ Linked(f)  BY DEF NodesInv
<1>5. DOMAIN g = DOMAIN f /\ g[n] = [key |-> LiveKey(k), val |-> Nil, next |-> f[m].next]
      /\ g[m] = [f[m] EXCEPT !.next = n] /\ \A q \in DOMAIN f : q # n /\ q # m => g[q] = f[q]
  BY <1>2
<1>6. f[m] \in Slots /\ f[m].next \in DOMAIN f \cup {NULL} /\ n \in Int /\ f[m].next \in Int
  <2>1. f[m] \in Slots /\ f[m].next \in DOMAIN f \cup {NULL}  BY TakenFacts
  <2>2. n \in Int  BY DEF NodesInv
  <2>3. f[m].next \in Int  BY <2>1 DEF Slots
  <2> QED  BY <2>1, <2>2, <2>3
<1>7. g[m].key = f[m].key /\ g[m].val = f[m].val /\ g[m].next = n /\ g[m] \in Slots
  BY <1>5, <1>6 DEF Slots
<1>8. g[n] \in Slots  BY <1>1, <1>5, <1>6 DEF Slots
<1>9. g \in [DOMAIN g -> Slots]
  <2>1. \A q \in DOMAIN f : g[q] \in Slots  BY <1>1, <1>5, <1>7, <1>8
  <2>2. g = [q \in DOMAIN f |-> g[q]]  OBVIOUS
  <2> QED  BY <2>1, <2>2, <1>5
<1>10. \A q \in DOMAIN f : q # n => g[q].key = f[q].key /\ g[q].val = f[q].val
                                   /\ Of(g, q) = Of(f, q) /\ (Taken(g, q) <=> Taken(f, q))
  BY <1>5, <1>7 DEF Of, Taken
<1>11. Taken(g, n) /\ Of(g, n) = k /\ g[n].key = LiveKey(k) /\ g[n].next = f[m].next
  BY <1>5, KeyFacts DEF Taken, Of
<1>12. \A q \in DOMAIN f : q # n /\ q # m => g[q].next = f[q].next  BY <1>5
<1>13. \A q \in DOMAIN f : f[q].next # n
  BY <1>3, <1>4, Zenon DEF Linked, Taken
<1>14. Linked(g)
  <2>1. \A q \in DOMAIN g : g[q].next \in DOMAIN g \cup {NULL}
    BY <1>4, <1>5, <1>6, <1>7, <1>11, <1>12 DEF Linked
  <2>2. \A q \in DOMAIN g : g[q].next # NULL => Taken(g, g[q].next)
    <3>1. \A q \in DOMAIN f : f[q].next # NULL => f[q].next \in DOMAIN f /\ Taken(f, f[q].next)
      BY <1>4 DEF Linked
    <3>2. \A q \in DOMAIN f : f[q].next # NULL => Taken(g, f[q].next)
      BY <3>1, <1>10, <1>13
    <3> QED  BY <3>2, <1>5, <1>7, <1>11, <1>12
  <2>3. \A p, q \in DOMAIN g : g[p].next = g[q].next /\ g[p].next # NULL => p = q
    <3>1. \A p, q \in DOMAIN f : f[p].next = f[q].next /\ f[p].next # NULL => p = q
      BY <1>4, Zenon DEF Linked
    <3> QED  BY <3>1, <1>5, <1>7, <1>11, <1>12, <1>13
  <2>4. \E rank \in [DOMAIN g -> Nat] :
          \A p \in DOMAIN g : g[p].next # NULL => rank[g[p].next] < rank[p]
    <3>1. PICK r \in [DOMAIN f -> Nat] :
            \A p \in DOMAIN f : f[p].next # NULL => r[f[p].next] < r[p]
      BY <1>4 DEF Linked
    <3> DEFINE rank == [p \in DOMAIN f |-> IF p = n THEN 2 * r[m] + 1 ELSE 2 * r[p] + 2]
    <3>2. rank \in [DOMAIN g -> Nat]  BY <3>1, <1>5
    <3>3. ASSUME NEW p \in DOMAIN g, g[p].next # NULL PROVE rank[g[p].next] < rank[p]
      <4>1. \A q \in DOMAIN f : r[q] \in Nat  BY <3>1
      <4>2. CASE p = m
        <5>1. rank[p] = 2 * r[m] + 2 /\ rank[g[p].next] = 2 * r[m] + 1
          BY <1>2, <1>7, <4>2
        <5> QED  BY <5>1, <4>1
      <4>3. CASE p = n
        <5>1. PICK s \in DOMAIN f : s = f[m].next  BY <1>6, <1>11, <3>3, <4>3
        <5>2. s # n /\ s # NULL /\ g[p].next = s  BY <5>1, <1>13, <1>11, <1>4, <4>3
        <5>3. r[s] < r[m]  BY <3>1, <5>1, <5>2
        <5>4. rank[s] = 2 * r[s] + 2 /\ rank[p] = 2 * r[m] + 1  BY <5>2, <4>3
        <5>5. r[s] \in Nat /\ r[m] \in Nat  BY <4>1
        <5> HIDE DEF rank
        <5> QED  BY <5>2, <5>3, <5>4, <5>5
      <4>4. CASE p # m /\ p # n
        <5>1. PICK s \in DOMAIN f : s = f[p].next /\ s = g[p].next
          BY <1>4, <1>5, <1>12, <3>3, <4>4 DEF Linked
        <5>2. p \in DOMAIN f /\ s # n /\ s # NULL  BY <5>1, <1>13, <1>5, <1>4
        <5>3. r[s] < r[p]  BY <3>1, <5>1, <5>2
        <5>4. rank[s] = 2 * r[s] + 2 /\ rank[p] = 2 * r[p] + 2  BY <5>2, <4>4
        <5>5. r[s] \in Nat /\ r[p] \in Nat  BY <4>1, <5>2
        <5> HIDE DEF rank
        <5> QED  BY <5>1, <5>3, <5>4, <5>5
      <4> QED  BY <4>2, <4>3, <4>4
    <3> QED  BY <3>2, <3>3
  <2> QED  BY <2>1, <2>2, <2>3, <2>4 DEF Linked
<1>15. ASSUME NEW p \in DOMAIN f, NEW q \in DOMAIN f, p # n, q # n, Leads(f, p, q)
       PROVE  Leads(g, p, q)
  <2>1. ASSUME NEW S \in SUBSET DOMAIN g, p \in S, Closed(g, S) PROVE q \in S
    <3>1. \A a \in S : g[a].next \in S \cup {NULL}  BY <2>1 DEF Closed
    <3>2. ASSUME NEW a \in S \ {n} PROVE f[a].next \in (S \ {n}) \cup {NULL}
      <4>1. a \in DOMAIN f /\ f[a].next # n  BY <1>5, <1>13
      <4>2. CASE a = m
        <5>1. n \in S  BY <3>1, <4>2, <1>7, <1>6, <1>4
        <5>2. f[m].next \in S \cup {NULL}  BY <5>1, <3>1, <1>11
        <5> QED  BY <4>1, <4>2, <5>2
      <4>3. CASE a # m
        <5>1. g[a].next = f[a].next  BY <4>1, <4>3, <1>12, <3>2
        <5>2. g[a].next \in S \cup {NULL}  BY <3>1, <3>2
        <5> QED  BY <4>1, <5>1, <5>2
      <4> QED  BY <4>2, <4>3
    <3>3. Closed(f, S \ {n})  BY <3>2 DEF Closed
    <3>4. (S \ {n}) \in SUBSET DOMAIN f /\ p \in S \ {n}  BY <1>5, <1>15, <2>1
    <3>5. q \in S \ {n}  BY <3>3, <3>4, <1>15 DEF Leads
    <3> QED  BY <3>5
  <2> QED  BY <2>1 DEF Leads
<1>16. AtHome(g, H)
  <2>1. ASSUME NEW q \in DOMAIN g, Taken(g, q)
        PROVE  LET h == H[Of(g, q)] IN Taken(g, h) /\ H[Of(g, h)] = h /\ Leads(g, h, q)
    <3>1. CASE q = n
      <4>1. Taken(g, m) /\ H[Of(g, m)] = m  BY <1>2, <1>10
      <4>2. n # NULL  BY <1>4
      <4>3. ASSUME NEW S \in SUBSET DOMAIN g, m \in S, Closed(g, S) PROVE n \in S
        BY <4>2, <4>3, <1>7 DEF Closed
      <4>4. Leads(g, m, n)  BY <4>3 DEF Leads
      <4> QED  BY <3>1, <4>1, <4>4, <1>11
    <3>2. CASE q # n
      <4>1. PICK h : h = H[Of(f, q)]  OBVIOUS
      <4>2. q \in DOMAIN f /\ Taken(f, q)  BY <1>5, <1>10, <2>1, <3>2
      <4>3. h \in DOMAIN f /\ Taken(f, h) /\ H[Of(f, h)] = h /\ Leads(f, h, q)
        BY <4>1, <4>2, TakenFacts
      <4>4. h # n  BY <4>3
      <4>5. Taken(g, h) /\ Leads(g, h, q) /\ H[Of(g, h)] = h  BY <1>10, <1>15, <3>2, <4>2, <4>3, <4>4
      <4> QED  BY <1>10, <3>2, <4>1, <4>2, <4>5
    <3> QED  BY <3>1, <3>2
  <2> QED  BY <2>1 DEF AtHome
<1>17. Unique(g)
  <2>1. ASSUME NEW a \in DOMAIN g, NEW b \in DOMAIN g, g[a].key = g[b].key, g[a].key[1] = "key"
        PROVE  a = b
    <3>1. CASE a # n /\ b # n  BY <1>5, <1>10, <2>1, <3>1, UniqueFacts
    <3>2. CASE a = n \/ b = n  BY <1>5, <1>10, <1>11, <2>1, <3>2
    <3> QED  BY <3>1, <3>2
  <2>2. ASSUME NEW a \in DOMAIN g, NEW b \in DOMAIN g, g[a].key[1] = "key", g[b].key = DeadKey(Of(g, a))
        PROVE  Leads(g, a, b)
    <3>1. b # n  BY <1>11, <2>2, KeyFacts
    <3>2. a \in DOMAIN f /\ b \in DOMAIN f /\ f[b].key = DeadKey(Of(g, a))  BY <1>5, <1>10, <2>2, <3>1
    <3>3. CASE a = n
      <4>1. f[b].key = DeadKey(k)  BY <1>11, <3>2, <3>3
      <4>2. Taken(f, b) /\ Of(f, b) = k  BY <3>2, <4>1, TakenFacts
      <4>3. Leads(f, m, b) /\ b # m
        <5>1. Leads(f, m, b)  BY <3>2, <4>2, TakenFacts
        <5>2. b # m  BY <1>2, <4>1, KeyFacts
        <5> QED  BY <5>1, <5>2
      <4>4. Leads(g, m, b)  BY <1>15, <1>2, <3>1, <3>2, <4>3
      <4>5. ASSUME NEW S \in SUBSET DOMAIN g, n \in S, Closed(g, S) PROVE b \in S
        <5>1. \A c \in S : g[c].next \in S \cup {NULL}  BY <4>5 DEF Closed
        <5>2. \A c \in S \cup {m} : g[c].next \in S \cup {m} \cup {NULL}  BY <5>1, <1>7, <4>5
        <5>3. Closed(g, S \cup {m})  BY <5>2 DEF Closed
        <5>4. (S \cup {m}) \in SUBSET DOMAIN g /\ m \in S \cup {m}  BY <1>5
        <5>5. b \in S \cup {m}  BY <5>3, <5>4, <4>4 DEF Leads
        <5> QED  BY <5>5, <4>3
      <4> QED  BY <3>3, <4>5 DEF Leads
    <3>4. CASE a # n
      <4>1. f[a].key[1] = "key" /\ f[b].key = DeadKey(Of(f, a))  BY <1>10, <2>2, <3>2, <3>4
      <4>2. Leads(f, a, b)  BY <3>2, <4>1, UniqueFacts
      <4> QED  BY <1>15, <3>1, <3>2, <3>4, <4>2
    <3> QED  BY <3>3, <3>4
  <2> QED  BY <2>1, <2>2, ZenonT(60) DEF Unique
<1>18. \A q \in DOMAIN g : ~Taken(g, q) => g[q] = FreeNode
  <2>1. ASSUME NEW q \in DOMAIN g, ~Taken(g, q) PROVE g[q] = FreeNode
    <3>1. q # n /\ q # m /\ q \in DOMAIN f  BY <1>2, <1>5, <1>10, <1>11, <2>1
    <3>2. ~Taken(f, q)  BY <1>10, <2>1, <3>1
    <3> QED  BY <1>5, <3>1, <3>2 DEF NodesInv
  <2> QED  BY <2>1
<1>19. \A q \in DOMAIN g : g[q].val # Nil => g[q].key[1] = "key"
  <2>1. g[n].val = Nil  BY <1>5
  <2> QED  BY <2>1, <1>5, <1>10 DEF NodesInv
<1>20. NULL \notin DOMAIN g /\ DOMAIN g \subseteq Nat /\ H \in [Keys -> DOMAIN g]
  BY <1>1, <1>5 DEF NodesInv
<1>21. NodesInv(g, H)  BY <1>9, <1>14, <1>16, <1>17, <1>18, <1>19, <1>20 DEF NodesInv
<1>22. Added(f, g, k)
  <2>1. Binds(g, k, Nil)  BY <1>5 DEF Binds
  <2>2. ASSUME NEW j, NEW v, j # k, v # Nil PROVE Binds(g, j, v) <=> Binds(f, j, v)
    BY <1>3, <1>5, <1>10, <1>11, <2>2, KeyFacts DEF Binds
  <2>3. \A q \in DOMAIN f : Taken(g, q) =>
          g[q].key = LiveKey(k) \/ \E r \in DOMAIN f : Taken(f, r) /\ g[q].key = f[r].key
    BY <1>10, <1>11
  <2>4. \A q \in DOMAIN f : Taken(g, q) => q = n \/ Taken(f, q)  BY <1>10
  <2>5. \A q \in DOMAIN f : Taken(f, q) => Taken(g, q)  BY <1>10
  <2> QED  BY <1>5, <2>1, <2>2, <2>3, <2>4, <2>5 DEF Added
<1> QED  BY <1>11, <1>21, <1>22

(* Before a node that is not at its main position there is one in its chain,    *)
(* and the walk from the main position finds it.                                *)
Before(x, m) == {p \in DOMAIN x.node : x.node[p].next = m}
LEMMA PreviousIs ==
  ASSUME NEW x, NodesInv(x.node, Homes(x)), NEW m \in DOMAIN x.node, NEW h \in DOMAIN x.node,
         Leads(x.node, h, m), h # m
  PROVE  \E p \in DOMAIN x.node : Walk(x, Before(x, m))[h] = p /\ x.node[p].next = m
<1> DEFINE stop == {p \in DOMAIN x.node : x.node[p].next = m}
<1>1. PICK f, w : f = x.node /\ w = Walk(x, stop)  OBVIOUS
<1>2. Linked(f) /\ NULL \notin DOMAIN f /\ stop \subseteq DOMAIN f  BY <1>1 DEF NodesInv
<1>3. Walked(f, stop, w)  BY <1>1, <1>2, WalkIs
<1>4. \E p \in stop : Leads(f, h, p)
  <2> DEFINE S == {q \in DOMAIN f : Leads(f, h, q) /\ q # m}
  <2>1. SUFFICES ASSUME \A p \in stop : ~Leads(f, h, p) PROVE FALSE  OBVIOUS
  <2>2. ASSUME NEW q \in S, f[q].next # NULL PROVE f[q].next \in S
    <3>1. f[q].next \in DOMAIN f  BY <1>2, <2>2 DEF Linked
    <3>2. Leads(f, h, f[q].next)  BY <1>1, <1>2, <2>2, LeadsFacts
    <3>3. f[q].next # m  BY <1>1, <2>1, <2>2
    <3> QED  BY <3>1, <3>2, <3>3
  <2>3. Closed(f, S)  BY <2>2 DEF Closed
  <2>4. S \in SUBSET DOMAIN f /\ h \in S  BY <1>1, <1>2, LeadsFacts
  <2>5. m \in S  BY <1>1, <2>3, <2>4 DEF Leads
  <2> QED  BY <2>5
<1>5. PICK p \in stop : Leads(f, h, p)  BY <1>4
<1>6. \A q \in stop : q = p
  <2>1. \A q, r \in DOMAIN f : f[q].next = f[r].next /\ f[q].next # NULL => q = r
    BY <1>2, Zenon DEF Linked
  <2>2. m # NULL  BY <1>1, <1>2
  <2> QED  BY <1>1, <1>5, <2>1, <2>2
<1>7. \A q \in stop : Leads(f, p, q)  BY <1>1, <1>2, <1>5, <1>6, LeadsFacts
<1>8. w[h] = p  BY <1>1, <1>2, <1>3, <1>5, <1>7, WalkFinds
<1> QED  BY <1>1, <1>5, <1>8 DEF Before

(* The node m at the main position of k, which does not belong there, goes to a *)
(* free node n, and the node p before it follows it.                           *)
LEMMA MovedKept ==
  ASSUME NEW f, NEW H, NodesInv(f, H), NEW k \in Keys, NEW m \in DOMAIN f, m = H[k],
         f[m].val # Nil, H[Of(f, m)] # m, \A p \in DOMAIN f : f[p].key # LiveKey(k),
         NEW n \in DOMAIN f, ~Taken(f, n), NEW p \in DOMAIN f, f[p].next = m,
         NEW g, g = [f EXCEPT ![p] = [f[p] EXCEPT !.next = n], ![n] = f[m],
                              ![m] = [FreeNode EXCEPT !.key = LiveKey(k)]]
  PROVE  NodesInv(g, H) /\ Added(f, g, k) /\ Taken(g, n)
<1>1. f \in [DOMAIN f -> Slots] /\ LiveKey(k) \in Cells /\ H \in [Keys -> DOMAIN f]
  BY DEF NodesInv, Cells
<1>2. Taken(f, m) /\ f[m].key[1] = "key" /\ m # n  BY TakenFacts
<1>3. f[n].key = NoKey /\ f[n].val = Nil /\ f[n].next = NULL
  BY DEF NodesInv, Taken, FreeNode
<1>4. NULL \notin DOMAIN f /\ Linked(f)  BY DEF NodesInv
<1>5. p # n /\ p # m
  <2>1. PICK rank \in [DOMAIN f -> Nat] : \A q \in DOMAIN f : f[q].next # NULL => rank[f[q].next] < rank[q]
    BY <1>4 DEF Linked
  <2>2. rank[m] < rank[p] /\ rank[m] \in Nat  BY <1>4, <2>1
  <2>3. p # m  BY <2>2
  <2> QED  BY <1>3, <1>4, <2>3
<1>6. DOMAIN g = DOMAIN f /\ g[n] = f[m] /\ g[p] = [f[p] EXCEPT !.next = n]
      /\ g[m] = [key |-> LiveKey(k), val |-> Nil, next |-> NULL]
      /\ \A q \in DOMAIN f : q # n /\ q # m /\ q # p => g[q] = f[q]
  BY <1>2, <1>5 DEF FreeNode
<1>7. g \in [DOMAIN g -> Slots] /\ g[p].key = f[p].key /\ g[p].val = f[p].val /\ g[p].next = n
  <2>1. f[p] \in Slots /\ f[m] \in Slots  BY TakenFacts
  <2>2. n \in Int  BY DEF NodesInv
  <2>3. g[p] \in Slots /\ g[p].key = f[p].key /\ g[p].val = f[p].val /\ g[p].next = n
    BY <1>6, <2>1, <2>2 DEF Slots
  <2>4. g[m] \in Slots  BY <1>1, <1>6 DEF Slots, NULL
  <2>5. \A q \in DOMAIN f : g[q] \in Slots  BY <1>1, <1>6, <2>1, <2>3, <2>4
  <2>6. g = [q \in DOMAIN f |-> g[q]]  OBVIOUS
  <2> QED  BY <2>3, <2>5, <2>6, <1>6
<1>8. \A q \in DOMAIN f : q # n /\ q # m => g[q].key = f[q].key /\ g[q].val = f[q].val
                                   /\ Of(g, q) = Of(f, q) /\ (Taken(g, q) <=> Taken(f, q))
  BY <1>6, <1>7 DEF Of, Taken
<1>9. Taken(g, n) /\ Of(g, n) = Of(f, m) /\ g[n].key = f[m].key /\ g[n].next = f[m].next
      /\ g[n].val = f[m].val
  BY <1>2, <1>6 DEF Taken, Of
<1>10. Taken(g, m) /\ Of(g, m) = k /\ g[m].key = LiveKey(k) /\ g[m].next = NULL /\ g[m].val = Nil
  BY <1>6, KeyFacts DEF Taken, Of
<1>11. \A q \in DOMAIN f : q # n /\ q # m /\ q # p => g[q].next = f[q].next  BY <1>6
<1>12. \A q \in DOMAIN f : f[q].next # n
  BY <1>3, <1>4, Zenon DEF Linked, Taken
<1>13. \A q \in DOMAIN f : f[q].next = m => q = p
  BY <1>4, Zenon DEF Linked
<1>14. Linked(g)
  <2>1. \A q \in DOMAIN g : g[q].next \in DOMAIN g \cup {NULL}
    <3>1. \A q \in DOMAIN f : f[q].next \in DOMAIN f \cup {NULL}  BY <1>4 DEF Linked
    <3> QED  BY <3>1, <1>6, <1>7, <1>9, <1>10, <1>11
  <2>2. \A q \in DOMAIN g : g[q].next # NULL => Taken(g, g[q].next)
    <3>1. \A q \in DOMAIN f : f[q].next # NULL => f[q].next \in DOMAIN f /\ Taken(f, f[q].next)
      BY <1>4 DEF Linked
    <3>2. \A q \in DOMAIN f : f[q].next # NULL => Taken(g, f[q].next)
      BY <3>1, <1>8, <1>10, <1>12
    <3> QED  BY <3>2, <1>6, <1>7, <1>9, <1>10, <1>11
  <2>3. \A a, b \in DOMAIN g : g[a].next = g[b].next /\ g[a].next # NULL => a = b
    <3>1. \A a, b \in DOMAIN f : f[a].next = f[b].next /\ f[a].next # NULL => a = b
      BY <1>4, Zenon DEF Linked
    <3> QED  BY <3>1, <1>6, <1>7, <1>9, <1>10, <1>11, <1>12
  <2>4. \E rank \in [DOMAIN g -> Nat] :
          \A a \in DOMAIN g : g[a].next # NULL => rank[g[a].next] < rank[a]
    <3>1. PICK r \in [DOMAIN f -> Nat] :
            \A a \in DOMAIN f : f[a].next # NULL => r[f[a].next] < r[a]
      BY <1>4 DEF Linked
    <3> DEFINE rank == [a \in DOMAIN f |-> IF a = n THEN r[m] ELSE r[a]]
    <3>2. rank \in [DOMAIN g -> Nat]  BY <3>1, <1>6
    <3>3. ASSUME NEW a \in DOMAIN g, g[a].next # NULL PROVE rank[g[a].next] < rank[a]
      <4>1. CASE a = p
        <5>1. r[m] < r[p]  BY <3>1, <1>4
        <5> QED  BY <5>1, <4>1, <1>5, <1>7
      <4>2. CASE a = n
        <5>1. PICK s : s = f[m].next /\ s = g[a].next  BY <4>2, <1>9
        <5>2. s # NULL /\ s \in DOMAIN f /\ s # n  BY <5>1, <3>3, <1>4, <1>12 DEF Linked
        <5>3. r[s] < r[m]  BY <3>1, <5>1, <5>2
        <5> QED  BY <5>1, <5>2, <5>3, <4>2
      <4>3. CASE a # m /\ a # n /\ a # p
        <5>1. PICK s : s = f[a].next /\ s = g[a].next  BY <4>3, <1>6, <1>11
        <5>2. s # NULL /\ s \in DOMAIN f /\ s # n /\ a \in DOMAIN f
          BY <5>1, <3>3, <1>4, <1>6, <1>12 DEF Linked
        <5>3. r[s] < r[a]  BY <3>1, <5>1, <5>2
        <5> QED  BY <5>1, <5>2, <5>3, <4>3
      <4>4. a # m  BY <3>3, <1>10
      <4> QED  BY <4>1, <4>2, <4>3, <4>4
    <3> QED  BY <3>2, <3>3
  <2> QED  BY <2>1, <2>2, <2>3, <2>4 DEF Linked
<1> DEFINE to(q) == IF q = m THEN n ELSE q
<1>15. ASSUME NEW a \in DOMAIN f, NEW b \in DOMAIN f, a # n, b # n, Leads(f, a, b)
       PROVE  Leads(g, to(a), to(b))
  <2>1. ASSUME NEW S \in SUBSET DOMAIN g, to(a) \in S, Closed(g, S) PROVE to(b) \in S
    <3> DEFINE R == {c \in DOMAIN f : c # n /\ to(c) \in S}
    <3>1. \A c \in S : g[c].next \in S \cup {NULL}  BY <2>1 DEF Closed
    <3>2. ASSUME NEW c \in R PROVE f[c].next \in R \cup {NULL}
      <4>1. c \in DOMAIN f /\ c # n /\ f[c].next # n  BY <1>12
      <4>2. f[c].next \in DOMAIN f \cup {NULL}  BY <1>4 DEF Linked
      <4>3. CASE c = p
        <5>1. n \in S  BY <3>1, <4>3, <1>4, <1>5, <1>7
        <5>2. m \in R  BY <5>1, <1>2
        <5> QED  BY <4>3, <5>2
      <4>4. CASE c = m
        <5>1. n \in S  BY <4>4
        <5>2. g[n].next \in S \cup {NULL}  BY <5>1, <3>1
        <5>3. f[m].next \in S \cup {NULL} /\ f[m].next # m  BY <5>2, <1>5, <1>9, <1>13
        <5> QED  BY <4>1, <4>2, <4>4, <5>3
      <4>5. CASE c # m /\ c # p
        <5>1. c \in S /\ f[c].next # m  BY <4>1, <4>5, <1>13
        <5>2. g[c].next = f[c].next  BY <4>1, <4>5, <1>11
        <5>3. g[c].next \in S \cup {NULL}  BY <5>1, <3>1
        <5> QED  BY <4>1, <4>2, <5>1, <5>2, <5>3
      <4> QED  BY <4>3, <4>4, <4>5
    <3>3. Closed(f, R)  BY <3>2 DEF Closed
    <3>4. R \in SUBSET DOMAIN f /\ a \in R  BY <1>15, <2>1
    <3>5. b \in R  BY <3>3, <3>4, <1>15 DEF Leads
    <3> QED  BY <3>5
  <2> QED  BY <2>1 DEF Leads
<1>16. \A q \in DOMAIN f : Taken(f, q) => H[Of(f, q)] # m
  <2>1. ASSUME NEW q \in DOMAIN f, Taken(f, q), H[Of(f, q)] = m PROVE FALSE
    <3>1. H[Of(f, m)] = m  BY <2>1, TakenFacts
    <3> QED  BY <3>1
  <2> QED  BY <2>1
<1>17. AtHome(g, H)
  <2>1. ASSUME NEW q \in DOMAIN g, Taken(g, q)
        PROVE  LET h == H[Of(g, q)] IN Taken(g, h) /\ H[Of(g, h)] = h /\ Leads(g, h, q)
    <3>1. CASE q = m
      <4>1. Leads(g, m, m)  BY DEF Leads
      <4> QED  BY <3>1, <4>1, <1>10
    <3>2. CASE q # m
      <4>1. PICK c \in DOMAIN f : c # n /\ to(c) = q /\ Of(g, q) = Of(f, c) /\ Taken(f, c)
        <5>1. CASE q = n  BY <5>1, <1>2, <1>9
        <5>2. CASE q # n  BY <5>2, <3>2, <2>1, <1>6, <1>8
        <5> QED  BY <5>1, <5>2
      <4>2. PICK h : h = H[Of(f, c)]  OBVIOUS
      <4>3. h \in DOMAIN f /\ Taken(f, h) /\ H[Of(f, h)] = h /\ Leads(f, h, c)
        BY <4>1, <4>2, TakenFacts
      <4>4. h # n /\ h # m  BY <1>16, <4>1, <4>2, <4>3
      <4>5. Leads(g, h, q)
        <5>1. Leads(g, to(h), to(c))  BY <1>15, <4>1, <4>3, <4>4
        <5> QED  BY <5>1, <4>1, <4>4
      <4>6. Taken(g, h) /\ H[Of(g, h)] = h  BY <1>8, <4>3, <4>4
      <4> QED  BY <4>1, <4>2, <4>5, <4>6
    <3> QED  BY <3>1, <3>2
  <2> QED  BY <2>1 DEF AtHome
<1>18. Unique(g)
  <2>1. ASSUME NEW q \in DOMAIN g, q # m, Taken(g, q)
        PROVE  \E c \in DOMAIN f : c # n /\ to(c) = q /\ g[q].key = f[c].key
    <3>1. CASE q = n  BY <3>1, <1>2, <1>9
    <3>2. CASE q # n  BY <3>2, <2>1, <1>6, <1>8
    <3> QED  BY <3>1, <3>2
  <2>2. \A q \in DOMAIN g : g[q].key[1] = "key" \/ (\E j : g[q].key = DeadKey(j)) => Taken(g, q)
    BY KeyFacts DEF Taken
  <2>3. ASSUME NEW a \in DOMAIN g, NEW b \in DOMAIN g, g[a].key = g[b].key, g[a].key[1] = "key"
        PROVE  a = b
    <3>1. CASE a # m /\ b # m
      <4>1. PICK c \in DOMAIN f : c # n /\ to(c) = a /\ g[a].key = f[c].key
        BY <2>1, <2>2, <2>3, <3>1, ZenonT(60)
      <4>2. PICK d \in DOMAIN f : d # n /\ to(d) = b /\ g[b].key = f[d].key
        BY <2>1, <2>2, <2>3, <3>1, ZenonT(60)
      <4>3. c = d  BY <2>3, <4>1, <4>2, UniqueFacts
      <4> QED  BY <4>1, <4>2, <4>3
    <3>2. CASE a = m \/ b = m
      <4>1. \A q \in DOMAIN g : q # m => g[q].key # LiveKey(k)  BY <1>6, <1>8, <1>9
      <4> QED  BY <3>2, <4>1, <2>3, <1>10
    <3> QED  BY <3>1, <3>2
  <2>4. ASSUME NEW a \in DOMAIN g, NEW b \in DOMAIN g, g[a].key[1] = "key", g[b].key = DeadKey(Of(g, a))
        PROVE  Leads(g, a, b)
    <3>1. b # m  BY <1>10, <2>4, KeyFacts
    <3>2. PICK d \in DOMAIN f : d # n /\ to(d) = b /\ f[d].key = DeadKey(Of(g, a))
      BY <2>1, <2>2, <2>4, <3>1
    <3>3. Taken(f, d) /\ Of(f, d) = Of(g, a)  BY <3>2, TakenFacts
    <3>4. a # m  BY <1>10, <1>16, <3>3
    <3>5. PICK c \in DOMAIN f : c # n /\ to(c) = a /\ g[a].key = f[c].key
      BY <2>1, <2>2, <2>4, <3>4
    <3>6. f[c].key[1] = "key" /\ Of(f, c) = Of(g, a)  BY <3>5, <2>4 DEF Of
    <3>7. Leads(f, c, d)  BY <3>2, <3>5, <3>6, UniqueFacts
    <3>8. Leads(g, to(c), to(d))  BY <3>2, <3>5, <3>7, <1>15
    <3> QED  BY <3>2, <3>5, <3>8
  <2> QED  BY <2>3, <2>4, ZenonT(60) DEF Unique
<1>19. \A q \in DOMAIN g : ~Taken(g, q) => g[q] = FreeNode
  <2>1. ASSUME NEW q \in DOMAIN g, ~Taken(g, q) PROVE g[q] = FreeNode
    <3>1. q # n /\ q # m /\ q \in DOMAIN f  BY <1>6, <1>9, <1>10, <2>1
    <3>2. ~Taken(f, q)  BY <1>8, <2>1, <3>1
    <3>3. f[q] = FreeNode  BY <3>1, <3>2 DEF NodesInv
    <3>4. q # p  BY <3>3, <1>4 DEF FreeNode
    <3> QED  BY <1>6, <3>1, <3>3, <3>4
  <2> QED  BY <2>1
<1>20. \A q \in DOMAIN g : g[q].val # Nil => g[q].key[1] = "key"
  BY <1>2, <1>6, <1>8, <1>9, <1>10 DEF NodesInv
<1>21. NULL \notin DOMAIN g /\ DOMAIN g \subseteq Nat /\ H \in [Keys -> DOMAIN g]
  BY <1>1, <1>6 DEF NodesInv
<1>22. NodesInv(g, H)  BY <1>7, <1>14, <1>17, <1>18, <1>19, <1>20, <1>21 DEF NodesInv
<1>23. Added(f, g, k)
  <2>1. Binds(g, k, Nil)  BY <1>10 DEF Binds
  <2>2. ASSUME NEW j, NEW v, j # k, v # Nil PROVE Binds(g, j, v) <=> Binds(f, j, v)
    <3>1. ASSUME Binds(g, j, v) PROVE Binds(f, j, v)
      <4>1. PICK q \in DOMAIN f : g[q].key = LiveKey(j) /\ g[q].val = v  BY <1>6, <3>1 DEF Binds
      <4>2. q # m  BY <1>10, <2>2, <4>1
      <4>3. CASE q = n  BY <1>9, <4>1, <4>3 DEF Binds
      <4>4. CASE q # n  BY <1>8, <4>1, <4>2, <4>4 DEF Binds
      <4> QED  BY <4>3, <4>4
    <3>2. ASSUME Binds(f, j, v) PROVE Binds(g, j, v)
      <4>1. PICK q \in DOMAIN f : f[q].key = LiveKey(j) /\ f[q].val = v  BY <3>2 DEF Binds
      <4>2. q # n  BY <1>3, <2>2, <4>1
      <4>3. CASE q = m  BY <1>6, <1>9, <4>1, <4>3 DEF Binds
      <4>4. CASE q # m  BY <1>6, <1>8, <4>1, <4>2, <4>4 DEF Binds
      <4> QED  BY <4>3, <4>4
    <3> QED  BY <3>1, <3>2
  <2>3. \A q \in DOMAIN f : Taken(g, q) =>
          g[q].key = LiveKey(k) \/ \E r \in DOMAIN f : Taken(f, r) /\ g[q].key = f[r].key
    BY <1>2, <1>8, <1>9, <1>10
  <2>4. \A q \in DOMAIN f : Taken(g, q) => q = n \/ Taken(f, q)  BY <1>2, <1>8
  <2>5. \A q \in DOMAIN f : Taken(f, q) => Taken(g, q)  BY <1>8, <1>9, <1>10
  <2> QED  BY <1>6, <2>1, <2>2, <2>3, <2>4, <2>5 DEF Added
<1> QED  BY <1>9, <1>22, <1>23

-----------------------------------------------------------------------------
(* Tables *)
TakenNodes(x) == {p \in DOMAIN x.node : Taken(x.node, p)}

LEMMA SameNodes ==
  ASSUME NEW x, NEW y, DOMAIN y.node = DOMAIN x.node
  PROVE  /\ Homes(y) = Homes(x) /\ sizenode(y) = sizenode(x)
         /\ \A k : mainposition(y, k) = mainposition(x, k)
<1>1. sizenode(y) = sizenode(x)  BY DEF sizenode
<1>2. \A k : mainposition(y, k) = mainposition(x, k)
  BY <1>1 DEF mainposition, hashpow2, hashmod
<1>3. Homes(y) = Homes(x)  BY <1>2 DEF Homes
<1> QED  BY <1>1, <1>2, <1>3

(* A node that getfreepos finds is free, and all behind it are taken. *)
LEMMA FreeIs ==
  ASSUME NEW x, Tab(x), NEW n, n = getfreepos(x)
  PROVE  /\ n # NULL => /\ n \in DOMAIN x.node /\ ~Taken(x.node, n) /\ ~x.dummy
                        /\ \A p \in DOMAIN x.node : p > n => Taken(x.node, p)
         /\ n = NULL /\ ~x.dummy => \A p \in DOMAIN x.node : Taken(x.node, p)
<1> DEFINE free == {p \in DOMAIN x.node : p < x.lastfree /\ x.node[p].key = NoKey}
<1>1. n = IF free = {} THEN NULL ELSE Max(free)  BY DEF getfreepos
<1>2. DOMAIN x.node = 0 .. sizenode(x) - 1 /\ sizenode(x) \in Nat
  BY DEF Tab
<1>3. CASE free = {}
  <2>1. n = NULL  BY <1>1, <1>3
  <2>2. ASSUME ~x.dummy, NEW p \in DOMAIN x.node PROVE Taken(x.node, p)
    <3>1. x.lastfree \in 0 .. sizenode(x) /\ (p >= x.lastfree => Taken(x.node, p))
      BY <2>2 DEF Tab
    <3>2. p \in Int /\ x.lastfree \in Int  BY <1>2, <3>1
    <3>3. p < x.lastfree \/ p >= x.lastfree  BY <3>2
    <3> QED  BY <1>3, <3>1, <3>3 DEF Taken
  <2> QED  BY <2>1, <2>2
<1>4. CASE free # {}
  <2>1. ~x.dummy
    <3>1. SUFFICES ASSUME x.dummy PROVE FALSE  OBVIOUS
    <3>2. x.lastfree = 0  BY <3>1 DEF Tab
    <3>3. \A p \in DOMAIN x.node : ~(p < 0)  BY <1>2
    <3> QED  BY <1>4, <3>2, <3>3
  <2>2. x.lastfree \in 0 .. sizenode(x) /\ \A p \in DOMAIN x.node : p >= x.lastfree => Taken(x.node, p)
    BY <2>1 DEF Tab
  <2>3. free \subseteq Int /\ \A p \in free : p <= sizenode(x)  BY <1>2
  <2>4. n = CHOOSE m \in free : \A p \in free : m >= p  BY <1>1, <1>4, Zenon DEF Max
  <2>5. \E m \in free : \A p \in free : m >= p
    <3> DEFINE T == {sizenode(x) - p : p \in free}
    <3>1. T \subseteq Nat /\ T # {}  BY <1>2, <1>4, <2>3
    <3>2. PICK a \in T : \A b \in T : a <= b  BY <3>1, Least
    <3>3. PICK m \in free : a = sizenode(x) - m  BY <3>2
    <3>4. ASSUME NEW p \in free PROVE m >= p
      <4>1. a <= sizenode(x) - p  BY <3>2
      <4>2. m \in Int /\ p \in Int /\ sizenode(x) \in Int  BY <1>2, <2>3
      <4> QED  BY <3>3, <4>1, <4>2
    <3> QED  BY <3>4
  <2>6. n \in free /\ \A p \in free : n >= p  BY <2>4, <2>5
  <2>7. n # NULL  BY <2>6 DEF Tab, NodesInv
  <2>8. ASSUME NEW p \in DOMAIN x.node, p > n PROVE Taken(x.node, p)
    <3>1. p \notin free  BY <1>2, <2>3, <2>6, <2>8
    <3>2. p \in Int /\ x.lastfree \in Int  BY <1>2, <2>2
    <3>3. p < x.lastfree \/ p >= x.lastfree  BY <3>2
    <3> QED  BY <2>2, <3>1, <3>3 DEF Taken
  <2> QED  BY <2>1, <2>6, <2>7, <2>8 DEF Taken
<1> QED  BY <1>3, <1>4

(* A new table's nodes in the place of the old ones. *)
LEMMA AddedKept ==
  ASSUME NEW x, Tab(x), ~x.dummy, NEW k \in Keys, ~InArray(x, k), NEW y, NEW g,
         Added(x.node, g, k), NodesInv(g, Homes(x)),
         NEW last \in 0 .. sizenode(x), \A p \in DOMAIN x.node : p >= last => Taken(g, p),
         y = [array |-> x.array, node |-> g, dummy |-> x.dummy, lastfree |-> last]
  PROVE  Tab(y)
<1>1. DOMAIN y.node = DOMAIN x.node  BY DEF Added
<1>2. Homes(y) = Homes(x) /\ sizenode(y) = sizenode(x)  BY <1>1, SameNodes
<1>3. y.array = x.array /\ y.node = g /\ y.dummy = x.dummy /\ y.lastfree = last  OBVIOUS
<1>4. \A p \in DOMAIN g : Taken(g, p) => ~InArray(y, Of(g, p))
  <2>1. ASSUME NEW p \in DOMAIN g, Taken(g, p) PROVE ~InArray(x, Of(g, p))
    <3>1. CASE g[p].key = LiveKey(k)  BY <3>1, KeyFacts DEF Of
    <3>2. CASE \E q \in DOMAIN x.node : Taken(x.node, q) /\ g[p].key = x.node[q].key
      <4>1. PICK q \in DOMAIN x.node : Taken(x.node, q) /\ g[p].key = x.node[q].key  BY <3>2
      <4>2. ~InArray(x, Of(x.node, q))  BY <4>1 DEF Tab
      <4> QED  BY <4>1, <4>2 DEF Of
    <3> QED  BY <1>1, <2>1, <3>1, <3>2 DEF Added
  <2> QED  BY <2>1, <1>3 DEF InArray
<1> QED  BY <1>1, <1>2, <1>3, <1>4 DEF Tab

LEMMA NewKeyIs ==
  ASSUME NEW x, Tab(x), NEW k \in Keys, ~InArray(x, k), NodeOf(x, k) = NULL, ~NoRoom(x, k),
         NEW y, y = newkey(x, k)
  PROVE  /\ Tab(y) /\ y.array = x.array /\ y.dummy = x.dummy
         /\ Added(x.node, y.node, k)
<1> DEFINE m == mainposition(x, k)
<1>1. NodesInv(x.node, Homes(x)) /\ m = Homes(x)[k] /\ m \in DOMAIN x.node
  <2>1. NodesInv(x.node, Homes(x))  BY DEF Tab
  <2>2. m = Homes(x)[k]  BY DEF Homes
  <2>3. Homes(x)[k] \in DOMAIN x.node  BY <2>1 DEF NodesInv
  <2> QED  BY <2>1, <2>2, <2>3
<1>2. \A p \in DOMAIN x.node : x.node[p].key # LiveKey(k)
  <2>1. NULL \notin DOMAIN x.node  BY <1>1 DEF NodesInv
  <2> QED  BY <1>1, <2>1, NodeOfIs
<1>3. ~x.dummy
  <2>1. SUFFICES ASSUME x.dummy, getfreepos(x) # NULL PROVE FALSE  BY DEF NoRoom
  <2> QED  BY <2>1, FreeIs
<1>4. x = [array |-> x.array, node |-> x.node, dummy |-> x.dummy, lastfree |-> x.lastfree]
  BY DEF Tab
<1>5. x.lastfree \in 0 .. sizenode(x) /\ \A p \in DOMAIN x.node : p >= x.lastfree => Taken(x.node, p)
  BY <1>3 DEF Tab
<1>6. CASE x.node[m].val = Nil
  <2>1. PICK g : g = [x.node EXCEPT ![m] = [x.node[m] EXCEPT !.key = LiveKey(k)]]  OBVIOUS
  <2>2. y = [x EXCEPT !.node[m] = [x.node[m] EXCEPT !.key = LiveKey(k)]]
    BY <1>3, <1>6, Zenon DEF newkey
  <2>3. y = [array |-> x.array, node |-> g, dummy |-> x.dummy, lastfree |-> x.lastfree]
    BY <1>4, <2>1, <2>2
  <2>4. NodesInv(g, Homes(x)) /\ Added(x.node, g, k)
    BY <1>1, <1>2, <1>6, <2>1, FillKept
  <2>5. \A p \in DOMAIN x.node : p >= x.lastfree => Taken(g, p)  BY <1>5, <2>4 DEF Added
  <2>6. Tab(y)  BY <1>3, <1>5, <2>3, <2>4, <2>5, AddedKept
  <2> QED  BY <2>3, <2>4, <2>6
<1>7. CASE x.node[m].val # Nil
  <2>1. PICK n : n = getfreepos(x)  OBVIOUS
  <2>2. n # NULL  BY <1>7, <2>1 DEF NoRoom
  <2>3. n \in DOMAIN x.node /\ ~Taken(x.node, n) /\ \A p \in DOMAIN x.node : p > n => Taken(x.node, p)
    BY <2>1, <2>2, FreeIs
  <2>4. y = Collide(x, k, m, n)  BY <1>7, <2>1, Zenon DEF newkey
  <2>5. PICK g : g = IF mainposition(x, x.node[m].key[2]) = m THEN Behind(x, k, m, n) ELSE Moved(x, k, m, n)
    OBVIOUS
  <2>6. y = [array |-> x.array, node |-> g, dummy |-> x.dummy, lastfree |-> n]
    <3>1. y = [x EXCEPT !.lastfree = n, !.node = g]  BY <2>4, <2>5, Zenon DEF Collide
    <3> QED  BY <1>4, <3>1
  <2>7. Taken(x.node, m) /\ Of(x.node, m) \in Keys  BY <1>1, <1>7, TakenFacts
  <2>8. mainposition(x, x.node[m].key[2]) = Homes(x)[Of(x.node, m)]  BY <2>7 DEF Homes, Of
  <2>9. NodesInv(g, Homes(x)) /\ Added(x.node, g, k) /\ Taken(g, n)
    <3>1. CASE Homes(x)[Of(x.node, m)] = m
      <4>1. g = Behind(x, k, m, n)  BY <2>5, <2>8, <3>1
      <4>2. g = [x.node EXCEPT ![n] = [key |-> LiveKey(k), val |-> Nil, next |-> x.node[m].next],
                               ![m] = [x.node[m] EXCEPT !.next = n]]
        BY <4>1 DEF Behind
      <4> QED  BY <1>1, <1>2, <1>7, <2>3, <3>1, <4>2, BehindKept
    <3>2. CASE Homes(x)[Of(x.node, m)] # m
      <4>1. PICK h : h = Homes(x)[Of(x.node, m)]  OBVIOUS
      <4>2. h \in DOMAIN x.node /\ Leads(x.node, h, m) /\ h # m
        BY <1>1, <2>7, <3>2, <4>1, TakenFacts
      <4>3. PICK stop : stop = {p \in DOMAIN x.node : x.node[p].next = m}  OBVIOUS
      <4>4. PICK p \in DOMAIN x.node : Walk(x, stop)[h] = p /\ x.node[p].next = m
        <5>1. PICK c \in DOMAIN x.node : c = m  BY <1>1
        <5>2. Leads(x.node, h, c) /\ h # c /\ stop = {p \in DOMAIN x.node : x.node[p].next = c}
          BY <4>2, <4>3, <5>1
        <5>3. \E p \in DOMAIN x.node : Walk(x, Before(x, c))[h] = p /\ x.node[p].next = c
          BY <1>1, <4>2, <5>2, PreviousIs
        <5> QED  BY <5>1, <5>2, <5>3 DEF Before
      <4>5. g = Moved(x, k, m, n)  BY <2>5, <2>8, <3>2
      <4>6. g = [x.node EXCEPT ![p] = [x.node[p] EXCEPT !.next = n], ![n] = x.node[m],
                               ![m] = [FreeNode EXCEPT !.key = LiveKey(k)]]
        BY <4>1, <4>3, <4>4, <4>5, <2>8, Zenon DEF Moved
      <4> QED  BY <1>1, <1>2, <1>7, <2>3, <3>2, <4>4, <4>6, MovedKept
    <3> QED  BY <3>1, <3>2
  <2>10. \A p \in DOMAIN x.node : p >= n => Taken(g, p)
    <3>1. n \in Int /\ DOMAIN x.node \subseteq Int  BY <2>3, <1>1 DEF NodesInv
    <3>2. \A p \in DOMAIN x.node : p >= n => p = n \/ p > n  BY <3>1
    <3> QED  BY <2>3, <2>9, <3>2 DEF Added
  <2>11. n \in 0 .. sizenode(x)  BY <2>3 DEF Tab
  <2>12. Tab(y)  BY <1>3, <2>6, <2>9, <2>10, <2>11, AddedKept
  <2> QED  BY <2>6, <2>9, <2>12
<1> QED  BY <1>6, <1>7

LEMMA SameGet ==
  ASSUME NEW x, NEW y, NodesInv(x.node, Homes(x)), NodesInv(y.node, Homes(y)), NEW j \in Keys,
         InArray(y, j) <=> InArray(x, j), InArray(x, j) => y.array[j] = x.array[j],
         \A v : v # Nil => (Binds(y.node, j, v) <=> Binds(x.node, j, v))
  PROVE  luaH_get(y, j) = luaH_get(x, j)
<1>1. CASE InArray(x, j)  BY <1>1, GetIs
<1>2. CASE ~InArray(x, j)
  <2>1. CASE luaH_get(x, j) # Nil
    <3>1. Binds(x.node, j, luaH_get(x, j))  BY <1>2, <2>1, GetIs
    <3>2. Binds(y.node, j, luaH_get(x, j))  BY <2>1, <3>1
    <3> QED  BY <1>2, <3>2, GetIs
  <2>2. CASE luaH_get(y, j) # Nil
    <3>1. Binds(y.node, j, luaH_get(y, j))  BY <1>2, <2>2, GetIs
    <3>2. Binds(x.node, j, luaH_get(y, j))  BY <2>2, <3>1
    <3> QED  BY <1>2, <3>2, GetIs
  <2> QED  BY <2>1, <2>2
<1> QED  BY <1>1, <1>2

LEMMA StoredIs ==
  ASSUME NEW x, Tab(x), NEW k \in Keys, ~InArray(x, k), NodeOf(x, k) # NULL,
         NEW v \in Values \cup {Nil}, NEW y, y = Stored(x, k, v)
  PROVE  /\ Tab(y) /\ y.array = x.array /\ y.dummy = x.dummy /\ DOMAIN y.node = DOMAIN x.node
         /\ TakenNodes(y) = TakenNodes(x)
         /\ \A p \in DOMAIN x.node : y.node[p].key = x.node[p].key /\ y.node[p].next = x.node[p].next
         /\ \A p \in DOMAIN x.node : x.node[p].key # LiveKey(k) => y.node[p].val = x.node[p].val
         /\ \A j \in Keys : luaH_get(y, j) = IF j = k THEN v ELSE luaH_get(x, j)
<1>1. NodesInv(x.node, Homes(x))  BY DEF Tab
<1>2. PICK n : n = NodeOf(x, k)  OBVIOUS
<1>3. n \in DOMAIN x.node /\ x.node[n].key = LiveKey(k)  BY <1>1, <1>2, NodeOfIs
<1>4. PICK g : g = [x.node EXCEPT ![n] = [x.node[n] EXCEPT !.val = v]]  OBVIOUS
<1>5. y = [x EXCEPT !.node[n] = [x.node[n] EXCEPT !.val = v]]  BY <1>2, Zenon DEF Stored
<1>6. y = [array |-> x.array, node |-> g, dummy |-> x.dummy, lastfree |-> x.lastfree]
  <2>1. x = [array |-> x.array, node |-> x.node, dummy |-> x.dummy, lastfree |-> x.lastfree]
    BY DEF Tab
  <2> QED  BY <1>4, <1>5, <2>1
<1>7. x.node[n].key[1] = "key"  BY <1>3, KeyFacts
<1>8. /\ NodesInv(g, Homes(x)) /\ DOMAIN g = DOMAIN x.node
      /\ \A q \in DOMAIN x.node : g[q].key = x.node[q].key /\ g[q].next = x.node[q].next
                                  /\ g[q].val = IF q = n THEN v ELSE x.node[q].val
  BY <1>1, <1>3, <1>4, <1>7, ValueSet, SMTT(60)
<1>9. y.array = x.array /\ y.node = g /\ y.dummy = x.dummy /\ y.lastfree = x.lastfree  BY <1>6
<1>10. Homes(y) = Homes(x) /\ sizenode(y) = sizenode(x)  BY <1>8, <1>9, SameNodes
<1>11. \A q \in DOMAIN x.node : (Taken(g, q) <=> Taken(x.node, q)) /\ Of(g, q) = Of(x.node, q)
  BY <1>8 DEF Taken, Of
<1>12. \A p \in DOMAIN g : Taken(g, p) => ~InArray(y, Of(g, p))
  BY <1>8, <1>9, <1>11 DEF Tab, InArray
<1>13. ~x.dummy
  <2>1. SUFFICES ASSUME x.dummy PROVE FALSE  OBVIOUS
  <2>2. x.node = [p \in {0} |-> FreeNode]  BY <2>1 DEF Tab
  <2>3. x.node[n].key = NoKey  BY <1>3, <2>2 DEF FreeNode
  <2> QED  BY <1>3, <2>3, KeyFacts
<1>14. Tab(y)
  <2>1. x.lastfree \in 0 .. sizenode(x) /\ \A p \in DOMAIN x.node : p >= x.lastfree => Taken(x.node, p)
    BY <1>13 DEF Tab
  <2>2. y.lastfree \in 0 .. sizenode(y) /\ \A p \in DOMAIN y.node : p >= y.lastfree => Taken(y.node, p)
    BY <1>8, <1>9, <1>10, <1>11, <2>1
  <2>3. DOMAIN x.node = 0 .. sizenode(x) - 1 /\ sizenode(x) \in 1 .. 2 ^ MAXBITS  BY DEF Tab
  <2>4. x.array \in Seq(Values \cup {Nil}) /\ Len(x.array) <= 2 ^ MAXBITS
        /\ \A j \in 1 .. Len(x.array) : x.array[j] # Nil => j \in Numbers  BY DEF Tab
  <2>5. y = [array |-> y.array, node |-> y.node, dummy |-> y.dummy, lastfree |-> y.lastfree]
    BY <1>6, <1>9
  <2>6. NodesInv(y.node, Homes(y))  BY <1>8, <1>9, <1>10
  <2> QED  BY <1>8, <1>9, <1>10, <1>12, <1>13, <2>2, <2>3, <2>4, <2>5, <2>6, Zenon DEF Tab
<1>15. \A j \in Keys : luaH_get(y, j) = IF j = k THEN v ELSE luaH_get(x, j)
  <2>1. NodesInv(y.node, Homes(y))  BY <1>14 DEF Tab
  <2>2. \A j \in Keys : InArray(y, j) <=> InArray(x, j)  BY <1>9 DEF InArray
  <2>3. luaH_get(y, k) = v
    <3>1. g[n].key = LiveKey(k) /\ g[n].val = v /\ n \in DOMAIN g  BY <1>3, <1>8
    <3>2. Binds(y.node, k, v)  BY <1>9, <3>1 DEF Binds
    <3> QED  BY <2>1, <2>2, <3>2, GetIs
  <2>4. ASSUME NEW j \in Keys, j # k PROVE luaH_get(y, j) = luaH_get(x, j)
    <3>1. \A w : Binds(g, j, w) <=> Binds(x.node, j, w)
      BY <1>3, <1>8, <2>4, KeyFacts DEF Binds
    <3> QED  BY <1>1, <1>9, <2>1, <2>2, <3>1, SameGet
  <2> QED  BY <2>3, <2>4
<1>16. \A p \in DOMAIN x.node : x.node[p].key # LiveKey(k) => y.node[p].val = x.node[p].val
  BY <1>3, <1>8, <1>9
<1>17. TakenNodes(y) = TakenNodes(x)  BY <1>8, <1>9, <1>11 DEF TakenNodes
<1> QED  BY <1>8, <1>9, <1>14, <1>15, <1>16, <1>17

(* The array part gets a value. *)
LEMMA PlacedIs ==
  ASSUME NEW x, Tab(x), NEW k \in Keys, InArray(x, k),
         NEW v \in Values \cup {Nil}, NEW y, y = [x EXCEPT !.array[k] = v]
  PROVE  /\ Tab(y) /\ Len(y.array) = Len(x.array) /\ y.dummy = x.dummy /\ y.node = x.node
         /\ \A j \in 1 .. Len(x.array) : y.array[j] = IF j = k THEN v ELSE x.array[j]
         /\ \A j \in Keys : luaH_get(y, j) = IF j = k THEN v ELSE luaH_get(x, j)
<1>1. NodesInv(x.node, Homes(x)) /\ x.array \in Seq(Values \cup {Nil})  BY DEF Tab
<1>2. k \in 1 .. Len(x.array) /\ k \in Numbers
  <2>1. k \in Numbers /\ k > 0 /\ k <= Len(x.array)  BY DEF InArray, IsIndex
  <2>2. k \in Int /\ Len(x.array) \in Nat  BY <1>1, <2>1, HashAssumption
  <2> QED  BY <2>1, <2>2
<1>3. PICK s : s = [x.array EXCEPT ![k] = v]  OBVIOUS
<1>4. y = [array |-> s, node |-> x.node, dummy |-> x.dummy, lastfree |-> x.lastfree]
  <2>1. x = [array |-> x.array, node |-> x.node, dummy |-> x.dummy, lastfree |-> x.lastfree]
    BY DEF Tab
  <2> QED  BY <1>3, <2>1
<1>5. y.array = s /\ y.node = x.node /\ y.dummy = x.dummy /\ y.lastfree = x.lastfree  BY <1>4
<1>6. s \in Seq(Values \cup {Nil}) /\ Len(s) = Len(x.array)
      /\ \A j \in 1 .. Len(x.array) : s[j] = IF j = k THEN v ELSE x.array[j]
  BY <1>1, <1>2, <1>3
<1>7. Homes(y) = Homes(x) /\ sizenode(y) = sizenode(x)  BY <1>5, SameNodes
<1>8. \A j : InArray(y, j) <=> InArray(x, j)  BY <1>5, <1>6 DEF InArray
<1>9. Tab(y)
  <2>1. y = [array |-> y.array, node |-> y.node, dummy |-> y.dummy, lastfree |-> y.lastfree]
    BY <1>4, <1>5
  <2>2. y.array \in Seq(Values \cup {Nil}) /\ Len(y.array) <= 2 ^ MAXBITS
        /\ \A j \in 1 .. Len(y.array) : y.array[j] # Nil => j \in Numbers
    BY <1>2, <1>5, <1>6 DEF Tab
  <2> QED  BY <1>5, <1>7, <1>8, <2>1, <2>2, Zenon DEF Tab
<1>10. ASSUME NEW j \in Keys PROVE luaH_get(y, j) = IF j = k THEN v ELSE luaH_get(x, j)
  <2>1. NodesInv(y.node, Homes(y))  BY <1>9 DEF Tab
  <2>2. CASE j = k  BY <1>1, <1>2, <1>5, <1>6, <1>8, <2>1, <2>2, GetIs
  <2>3. CASE j # k
    <3>1. InArray(x, j) => y.array[j] = x.array[j]
      <4>1. InArray(x, j) => j \in Numbers /\ j > 0 /\ j <= Len(x.array)  BY DEF InArray, IsIndex
      <4>2. j \in Numbers => j \in Int  BY HashAssumption
      <4> QED  BY <1>1, <1>5, <1>6, <2>3, <4>1, <4>2
    <3> QED  BY <1>1, <1>5, <1>8, <2>1, <2>3, <3>1, SameGet
  <2> QED  BY <2>2, <2>3
<1> QED  BY <1>5, <1>6, <1>9, <1>10

(* What an assignment does, when there is a place for the key. *)
LEMMA AssignedIs ==
  ASSUME NEW x, Tab(x), NEW k \in Keys, NEW v \in Values \cup {Nil}, NEW grown,
         InArray(x, k) \/ NodeOf(x, k) # NULL \/ ~NoRoom(x, k),
         NEW y, y = Assigned(x, k, v, grown)
  PROVE  /\ Tab(y) /\ Len(y.array) = Len(x.array) /\ y.dummy = x.dummy
         /\ DOMAIN y.node = DOMAIN x.node
         /\ InArray(x, k) => TakenNodes(y) = TakenNodes(x)
         /\ \E n \in DOMAIN x.node : TakenNodes(y) \subseteq TakenNodes(x) \cup {n}
         /\ \A j \in Keys : luaH_get(y, j) = IF j = k THEN v ELSE luaH_get(x, j)
<1>1. NodesInv(x.node, Homes(x)) /\ \E n : n \in DOMAIN x.node
  <2>1. sizenode(x) \in 1 .. 2 ^ MAXBITS /\ DOMAIN x.node = 0 .. sizenode(x) - 1  BY DEF Tab
  <2>2. 0 \in 0 .. sizenode(x) - 1  BY <2>1
  <2> QED  BY <2>1, <2>2 DEF Tab
<1>2. CASE InArray(x, k)
  <2>1. y = [x EXCEPT !.array[k] = v]  BY <1>2, Zenon DEF Assigned
  <2>2. y.node = x.node  BY <1>2, <2>1, PlacedIs
  <2>3. TakenNodes(y) = TakenNodes(x)  BY <2>2 DEF TakenNodes
  <2> QED  BY <1>1, <1>2, <2>1, <2>2, <2>3, PlacedIs
<1>3. CASE ~InArray(x, k) /\ NodeOf(x, k) # NULL
  <2>1. y = Stored(x, k, v)  BY <1>3, Zenon DEF Assigned
  <2> QED  BY <1>1, <1>3, <2>1, StoredIs
<1>4. CASE ~InArray(x, k) /\ NodeOf(x, k) = NULL /\ ~NoRoom(x, k)
  <2>1. PICK z : z = newkey(x, k)  OBVIOUS
  <2>2. y = Stored(z, k, v)  BY <1>4, <2>1, Zenon DEF Assigned
  <2>3. Tab(z) /\ z.array = x.array /\ z.dummy = x.dummy /\ Added(x.node, z.node, k)
    BY <1>4, <2>1, NewKeyIs
  <2>4. NodesInv(z.node, Homes(z)) /\ ~InArray(z, k)  BY <1>4, <2>3 DEF Tab, InArray
  <2>5. NodeOf(z, k) # NULL
    <3>1. PICK p \in DOMAIN z.node : z.node[p].key = LiveKey(k)  BY <2>3 DEF Added, Binds
    <3>2. NodeOf(z, k) = p  BY <2>4, <3>1, NodeOfIs
    <3> QED  BY <2>4, <3>2 DEF NodesInv
  <2>6. /\ Tab(y) /\ y.array = z.array /\ y.dummy = z.dummy /\ DOMAIN y.node = DOMAIN z.node
        /\ TakenNodes(y) = TakenNodes(z)
        /\ \A j \in Keys : luaH_get(y, j) = IF j = k THEN v ELSE luaH_get(z, j)
    BY <2>2, <2>3, <2>4, <2>5, StoredIs
  <2>7. \A j \in Keys : j # k => luaH_get(z, j) = luaH_get(x, j)
    <3>1. ASSUME NEW j \in Keys, j # k PROVE luaH_get(z, j) = luaH_get(x, j)
      <4>1. \A w : w # Nil => (Binds(z.node, j, w) <=> Binds(x.node, j, w))
        BY <2>3, <3>1, Zenon DEF Added
      <4>2. (InArray(z, j) <=> InArray(x, j)) /\ z.array[j] = x.array[j]  BY <2>3 DEF InArray
      <4> QED  BY <1>1, <2>4, <4>1, <4>2, SameGet
    <3> QED  BY <3>1
  <2>8. DOMAIN z.node = DOMAIN x.node /\ \E n \in DOMAIN x.node : TakenNodes(z) \subseteq TakenNodes(x) \cup {n}
    BY <2>3 DEF Added, TakenNodes
  <2> QED  BY <1>4, <2>3, <2>6, <2>7, <2>8
<1> QED  BY <1>2, <1>3, <1>4

-----------------------------------------------------------------------------
(* Sizes *)

(* Powers of two, counted as the subsets of an interval. *)
LEMMA PowerIs ==
  /\ 2 ^ 0 = 1
  /\ \A i \in Nat : 2 ^ i \in Nat
  /\ \A i, j \in Nat : i <= j => 2 ^ i <= 2 ^ j
<1>1. \A i \in Nat : /\ IsFiniteSet(1 .. i) /\ Cardinality(1 .. i) = i
                     /\ IsFiniteSet(SUBSET (1 .. i)) /\ Cardinality(SUBSET (1 .. i)) = 2 ^ i
  <2>1. ASSUME NEW i \in Nat PROVE IsFiniteSet(1 .. i) /\ Cardinality(1 .. i) = i
    BY FS_Interval
  <2>2. ASSUME NEW i \in Nat
        PROVE  IsFiniteSet(SUBSET (1 .. i)) /\ Cardinality(SUBSET (1 .. i)) = 2 ^ i
    BY <2>1, FS_SUBSET
  <2> QED  BY <2>1, <2>2
<1>2. \A i \in Nat : 2 ^ i \in Nat  BY <1>1, FS_CardinalityType
<1>3. ASSUME NEW i \in Nat, NEW j \in Nat, i <= j PROVE 2 ^ i <= 2 ^ j
  <2>1. SUBSET (1 .. i) \in SUBSET (SUBSET (1 .. j))  BY <1>3
  <2>2. Cardinality(SUBSET (1 .. i)) <= Cardinality(SUBSET (1 .. j))  BY <1>1, <2>1, FS_Subset
  <2> QED  BY <1>1, <2>2
<1> QED  BY <1>2, <1>3

LEMMA Doubles ==
  ASSUME NEW i \in Nat
  PROVE  2 ^ (i + 1) = 2 * 2 ^ i
<1>1. PICK S : S = SUBSET (1 .. i)  OBVIOUS
<1>2. PICK f : f = [s \in S |-> s \cup {i + 1}]  OBVIOUS
<1>3. PICK T : T = {f[s] : s \in S}  OBVIOUS
<1>4. IsFiniteSet(S) /\ Cardinality(S) = 2 ^ i
  <2>1. IsFiniteSet(1 .. i) /\ Cardinality(1 .. i) = i  BY FS_Interval
  <2> QED  BY <1>1, <2>1, FS_SUBSET
<1>5. Cardinality(SUBSET (1 .. (i + 1))) = 2 ^ (i + 1)
  <2>1. i + 1 \in Nat  OBVIOUS
  <2>2. IsFiniteSet(1 .. (i + 1)) /\ Cardinality(1 .. (i + 1)) = i + 1  BY <2>1, FS_Interval
  <2> QED  BY <2>2, FS_SUBSET
<1>6. i + 1 \notin 1 .. i /\ 1 .. (i + 1) = (1 .. i) \cup {i + 1}  OBVIOUS
<1>7. SUBSET (1 .. (i + 1)) = S \cup T
  <2>1. ASSUME NEW s \in SUBSET (1 .. (i + 1)), i + 1 \in s PROVE s \in T
    <3>1. s \ {i + 1} \in S  BY <1>1, <1>6
    <3>2. s = f[s \ {i + 1}]  BY <1>2, <2>1, <3>1
    <3> QED  BY <1>3, <3>1, <3>2
  <2>2. ASSUME NEW s \in SUBSET (1 .. (i + 1)), i + 1 \notin s PROVE s \in S  BY <1>1, <1>6, <2>2
  <2>3. \A s \in S : s \in SUBSET (1 .. (i + 1)) /\ f[s] \in SUBSET (1 .. (i + 1))  BY <1>1, <1>2, <1>6
  <2> QED  BY <1>3, <2>1, <2>2, <2>3
<1>8. S \cap T = {}  BY <1>1, <1>2, <1>3, <1>6
<1>9. IsFiniteSet(T) /\ Cardinality(T) = Cardinality(S)
  <2>1. f \in [S -> T] /\ \A y \in T : \E s \in S : f[s] = y  BY <1>2, <1>3
  <2>2. \A a, b \in S : f[a] = f[b] => a = b
    <3>1. \A a \in S : a = f[a] \ {i + 1}  BY <1>1, <1>2, <1>6
    <3> QED  BY <3>1
  <2>3. f \in Bijection(S, T)  BY <2>1, <2>2 DEF Bijection, Injection, IsInjective, Surjection
  <2>4. ExistsBijection(S, T)  BY <2>3 DEF ExistsBijection
  <2> QED  BY <1>4, <2>4, FS_Bijection
<1>10. Cardinality(S \cup T) = Cardinality(S) + Cardinality(T) - Cardinality(S \cap T)
  BY <1>4, <1>9, FS_Union
<1>11. Cardinality(S \cap T) = 0  BY <1>8, FS_EmptySet
<1>12. PICK a, b : a = 2 ^ i /\ b = 2 ^ (i + 1)  OBVIOUS
<1>13. a \in Nat  BY <1>12, PowerIs
<1>14. b = a + a - 0  BY <1>4, <1>5, <1>7, <1>9, <1>10, <1>11, <1>12
<1>15. b = 2 * a  BY <1>13, <1>14
<1> QED  BY <1>12, <1>15

LEMMA LogIs ==
  ASSUME NEW n \in 0 .. 2 ^ MAXBITS
  PROVE  /\ ceillog2(n) \in 0 .. MAXBITS /\ n <= 2 ^ ceillog2(n)
         /\ \A i \in Nat : ceillog2(n) <= i <=> n <= 2 ^ i
<1>1. MAXBITS \in Nat /\ n \in Nat /\ n <= 2 ^ MAXBITS
  <2>1. MAXBITS \in Nat  BY SizeAssumption
  <2>2. 2 ^ MAXBITS \in Nat  BY <2>1, PowerIs
  <2> QED  BY <2>1, <2>2
<1>2. \E i \in 0 .. MAXBITS : 2 ^ i >= n /\ (i = 0 \/ 2 ^ (i - 1) < n)
  <2>1. PICK T : T = {i \in 0 .. MAXBITS : 2 ^ i >= n}  OBVIOUS
  <2>2. MAXBITS \in T /\ T \subseteq Nat
    <3>1. 2 ^ MAXBITS \in Nat  BY <1>1, PowerIs
    <3>2. 2 ^ MAXBITS >= n  BY <1>1, <3>1
    <3> QED  BY <1>1, <2>1, <3>2
  <2>3. PICK i \in T : \A j \in T : i <= j  BY <2>2, Least
  <2>4. i \in 0 .. MAXBITS /\ 2 ^ i >= n  BY <2>1, <2>3
  <2>5. ASSUME i # 0 PROVE 2 ^ (i - 1) < n
    <3>1. PICK j : j = i - 1  OBVIOUS
    <3>2. j \in 0 .. MAXBITS /\ j < i /\ j \in Nat  BY <1>1, <2>4, <2>5, <3>1
    <3>3. ~(2 ^ j >= n)  BY <2>1, <2>3, <2>4, <3>2
    <3>4. 2 ^ j \in Nat  BY <3>2, PowerIs
    <3>5. 2 ^ j < n  BY <1>1, <3>3, <3>4
    <3> QED  BY <3>1, <3>5
  <2> QED  BY <2>4, <2>5
<1>3. PICK c \in 0 .. MAXBITS : c = ceillog2(n) /\ 2 ^ c >= n /\ (c = 0 \/ 2 ^ (c - 1) < n)
  <2>1. ceillog2(n) = CHOOSE i \in 0 .. MAXBITS : 2 ^ i >= n /\ (i = 0 \/ 2 ^ (i - 1) < n)
    BY DEF ceillog2
  <2>2. PICK c : c = ceillog2(n)  OBVIOUS
  <2>3. c \in 0 .. MAXBITS /\ 2 ^ c >= n /\ (c = 0 \/ 2 ^ (c - 1) < n)  BY <1>2, <2>1, <2>2, Zenon
  <2> QED  BY <2>2, <2>3
<1>4. c \in Nat /\ 2 ^ c \in Nat  BY <1>1, <1>3, PowerIs
<1>5. ASSUME NEW i \in Nat PROVE c <= i <=> n <= 2 ^ i
  <2>1. ASSUME c <= i PROVE n <= 2 ^ i
    <3>1. 2 ^ c <= 2 ^ i /\ 2 ^ i \in Nat  BY <1>4, <2>1, PowerIs
    <3> QED  BY <1>1, <1>3, <1>4, <3>1
  <2>2. ASSUME c > i PROVE ~(n <= 2 ^ i)
    <3>1. PICK d : d = c - 1  OBVIOUS
    <3>2. d \in Nat /\ i <= d /\ c # 0  BY <1>4, <2>2, <3>1
    <3>3. 2 ^ i <= 2 ^ d /\ 2 ^ i \in Nat /\ 2 ^ d \in Nat  BY <3>2, PowerIs
    <3>4. 2 ^ d < n  BY <1>3, <3>1, <3>2
    <3> QED  BY <1>1, <3>3, <3>4
  <2> QED  BY <1>4, <2>1, <2>2
<1> QED  BY <1>1, <1>3, <1>4, <1>5

(* A new hash part is empty, and large enough. *)
LEMMA FreshNodes ==
  ASSUME NEW n \in Nat \ {0}, NEW y, y.node = [i \in 0 .. n - 1 |-> FreeNode]
  PROVE  /\ NodesInv(y.node, Homes(y)) /\ sizenode(y) = n /\ DOMAIN y.node = 0 .. n - 1
         /\ \A p \in DOMAIN y.node : ~Taken(y.node, p)
<1>1. DOMAIN y.node = 0 .. n - 1 /\ \A p \in DOMAIN y.node : y.node[p] = FreeNode  OBVIOUS
<1>2. sizenode(y) = n  BY <1>1, FS_Interval DEF sizenode
<1>3. \A p \in DOMAIN y.node : ~Taken(y.node, p) /\ y.node[p].next = NULL
        /\ y.node[p].val = Nil /\ y.node[p].key = NoKey /\ y.node[p] = FreeNode
  BY <1>1 DEF Taken, FreeNode
<1>4. y.node \in [DOMAIN y.node -> Slots]
  <2>1. FreeNode \in Slots  BY DEF FreeNode, Slots, NULL, Cells
  <2> QED  BY <1>1, <2>1
<1>5. Homes(y) \in [Keys -> DOMAIN y.node]
  <2>1. ASSUME NEW k \in Keys PROVE mainposition(y, k) \in 0 .. n - 1
    <3>1. Hash[k] \in Nat  BY HashAssumption
    <3>2. hashpow2(y, k) \in 0 .. n - 1  BY <1>2, <3>1 DEF hashpow2
    <3>3. hashmod(y, k) \in 0 .. n - 1
      <4>1. PICK d \in Nat \ {0} : d = (IF n = 1 THEN 1 ELSE n - 1)  OBVIOUS
      <4>2. hashmod(y, k) = Hash[k] % d  BY <1>2, <4>1 DEF hashmod
      <4>3. Hash[k] % d \in 0 .. d - 1  BY <3>1
      <4>4. d <= n  BY <4>1
      <4> QED  BY <4>2, <4>3, <4>4
    <3> QED  BY <3>2, <3>3 DEF mainposition
  <2> QED  BY <1>1, <2>1 DEF Homes
<1>6. NULL \notin DOMAIN y.node /\ DOMAIN y.node \subseteq Nat  BY <1>1 DEF NULL
<1>7. Linked(y.node)
  <2>1. \E rank \in [DOMAIN y.node -> Nat] :
          \A p \in DOMAIN y.node : y.node[p].next # NULL => rank[y.node[p].next] < rank[p]
    <3>1. PICK rank : rank = [p \in DOMAIN y.node |-> 0]  OBVIOUS
    <3>2. rank \in [DOMAIN y.node -> Nat]  BY <3>1
    <3> QED  BY <1>3, <3>2
  <2>2. \A p \in DOMAIN y.node : y.node[p].next \in DOMAIN y.node \cup {NULL}  BY <1>3
  <2>3. \A p \in DOMAIN y.node : y.node[p].next # NULL => Taken(y.node, y.node[p].next)  BY <1>3
  <2>4. \A p, q \in DOMAIN y.node : y.node[p].next = y.node[q].next /\ y.node[p].next # NULL => p = q
    BY <1>3
  <2> QED  BY <2>1, <2>2, <2>3, <2>4 DEF Linked
<1>8. AtHome(y.node, Homes(y))  BY <1>3, Zenon DEF AtHome
<1>9. Unique(y.node)
  <2>1. \A p \in DOMAIN y.node : y.node[p].key[1] # "key"  BY <1>3, KeyFacts
  <2> QED  BY <2>1, Zenon DEF Unique
<1>10. \A p \in DOMAIN y.node : y.node[p].val # Nil => y.node[p].key[1] = "key"  BY <1>3
<1> QED  BY <1>1, <1>2, <1>3, <1>4, <1>5, <1>6, <1>7, <1>8, <1>9, <1>10 DEF NodesInv

(* The size of a hash part for nh keys, a power of two. *)
NodeSize(nh) == IF nh = 0 THEN 1 ELSE 2 ^ ceillog2(nh)

LEMMA NodeSizeIs ==
  /\ \A nh \in 0 .. 2 ^ MAXBITS : \E i \in 0 .. MAXBITS : NodeSize(nh) = 2 ^ i
  /\ \A i \in 0 .. MAXBITS : NodeSize(2 ^ i) = 2 ^ i
<1>1. MAXBITS \in Nat  BY SizeAssumption
<1>2. ASSUME NEW nh \in 0 .. 2 ^ MAXBITS PROVE \E i \in 0 .. MAXBITS : NodeSize(nh) = 2 ^ i
  <2>1. CASE nh = 0
    <3>1. 0 \in 0 .. MAXBITS /\ 2 ^ 0 = 1  BY <1>1, PowerIs
    <3> QED  BY <2>1, <3>1 DEF NodeSize
  <2>2. CASE nh # 0
    <3>1. ceillog2(nh) \in 0 .. MAXBITS  BY LogIs
    <3> QED  BY <2>2, <3>1 DEF NodeSize
  <2> QED  BY <2>1, <2>2
<1>3. ASSUME NEW i \in 0 .. MAXBITS PROVE NodeSize(2 ^ i) = 2 ^ i
  <2>1. PICK n : n = 2 ^ i  OBVIOUS
  <2>2. i \in Nat /\ 0 \in Nat /\ 0 <= i /\ i <= MAXBITS  BY <1>1
  <2>3. n \in Nat /\ 1 <= n /\ n <= 2 ^ MAXBITS /\ 2 ^ MAXBITS \in Nat
    <3>1. 2 ^ 0 <= 2 ^ i /\ 2 ^ i <= 2 ^ MAXBITS /\ 2 ^ 0 = 1  BY <1>1, <2>2, PowerIs
    <3> QED  BY <1>1, <2>1, <2>2, <3>1, PowerIs
  <2>4. n \in 0 .. 2 ^ MAXBITS  BY <2>3
  <2>5. PICK c \in 0 .. MAXBITS : c = ceillog2(n) /\ n <= 2 ^ c /\ c <= i
    <3>1. ceillog2(n) \in 0 .. MAXBITS /\ n <= 2 ^ ceillog2(n) /\ (ceillog2(n) <= i <=> n <= 2 ^ i)
      BY <2>2, <2>4, LogIs
    <3>2. n <= 2 ^ i  BY <2>1, <2>3
    <3> QED  BY <3>1, <3>2
  <2>6. 2 ^ c <= 2 ^ i /\ 2 ^ c \in Nat  BY <1>1, <2>2, <2>5, PowerIs
  <2>7. NodeSize(n) = 2 ^ c  BY <2>3, <2>5 DEF NodeSize
  <2>8. 2 ^ c = n  BY <2>1, <2>3, <2>5, <2>6
  <2> QED  BY <2>1, <2>7, <2>8
<1> QED  BY <1>2, <1>3

LEMMA FreshIs ==
  ASSUME NEW x, x = [array |-> x.array, node |-> x.node, dummy |-> x.dummy, lastfree |-> x.lastfree],
         x.array \in Seq(Values \cup {Nil}), \A j \in 1 .. Len(x.array) : x.array[j] # Nil => j \in Numbers,
         NEW na \in 0 .. 2 ^ MAXBITS, NEW nh \in 0 .. 2 ^ MAXBITS,
         NEW y, y = setnodevector(setarrayvector(x, na), nh)
  PROVE  /\ Tab(y) /\ Len(y.array) = na /\ sizenode(y) >= nh /\ sizenode(y) = NodeSize(nh)
         /\ nh # 0 => ~y.dummy
         /\ TakenNodes(y) = {}
         /\ \A j \in Keys : luaH_get(y, j) = IF InArray(x, j) /\ j <= na THEN x.array[j] ELSE Nil
<1>1. MAXBITS \in Nat /\ 2 ^ MAXBITS \in Nat /\ 1 <= 2 ^ MAXBITS /\ na \in Nat /\ nh \in Nat
      /\ na <= 2 ^ MAXBITS /\ nh <= 2 ^ MAXBITS
  <2>1. MAXBITS \in Nat  BY SizeAssumption
  <2>2. 2 ^ MAXBITS \in Nat /\ 2 ^ 0 <= 2 ^ MAXBITS /\ 2 ^ 0 = 1
    <3>1. 0 \in Nat /\ 0 <= MAXBITS  BY <2>1
    <3>2. 2 ^ 0 <= 2 ^ MAXBITS  BY <2>1, <3>1, PowerIs
    <3> QED  BY <2>1, <3>2, PowerIs
  <2> QED  BY <2>1, <2>2
<1>2. PICK n : n = IF nh = 0 THEN 1 ELSE 2 ^ ceillog2(nh)  OBVIOUS
<1>3. n \in 1 .. 2 ^ MAXBITS /\ n >= nh
  <2>1. CASE nh = 0  BY <1>1, <1>2, <2>1
  <2>2. CASE nh # 0
    <3>1. PICK c \in 0 .. MAXBITS : c = ceillog2(nh) /\ nh <= 2 ^ c  BY LogIs
    <3>2. c \in Nat /\ 2 ^ c \in Nat /\ 2 ^ c <= 2 ^ MAXBITS  BY <1>1, <3>1, PowerIs
    <3> QED  BY <1>1, <1>2, <2>2, <3>1, <3>2
  <2> QED  BY <2>1, <2>2
<1>4. PICK a : a = [i \in 1 .. na |-> IF i <= Len(x.array) THEN x.array[i] ELSE Nil]  OBVIOUS
<1>5. y = [array |-> a, node |-> [i \in 0 .. n - 1 |-> FreeNode], dummy |-> nh = 0,
           lastfree |-> IF nh = 0 THEN 0 ELSE n]
  <2>1. PICK z : z = setarrayvector(x, na)  OBVIOUS
  <2>2. z = [x EXCEPT !.array = a]  BY <1>4, <2>1, Zenon DEF setarrayvector
  <2>3. z = [array |-> a, node |-> x.node, dummy |-> x.dummy, lastfree |-> x.lastfree]  BY <2>2
  <2>4. PICK nodes : nodes = [i \in 0 .. n - 1 |-> FreeNode]  OBVIOUS
  <2>5. y = [z EXCEPT !.node = nodes, !.dummy = (nh = 0), !.lastfree = IF nh = 0 THEN 0 ELSE n]
    BY <1>2, <2>1, <2>4, Zenon DEF setnodevector
  <2> QED  BY <2>3, <2>4, <2>5
<1>6. y.array = a /\ y.node = [i \in 0 .. n - 1 |-> FreeNode] /\ y.dummy = (nh = 0)
      /\ y.lastfree = IF nh = 0 THEN 0 ELSE n
  BY <1>5
<1>7. n \in Nat \ {0}  BY <1>1, <1>3
<1>8. NodesInv(y.node, Homes(y)) /\ sizenode(y) = n /\ DOMAIN y.node = 0 .. n - 1
      /\ \A p \in DOMAIN y.node : ~Taken(y.node, p)
  BY <1>6, <1>7, FreshNodes
<1>9. a \in Seq(Values \cup {Nil}) /\ Len(a) = na
      /\ \A j \in 1 .. na : a[j] = IF j <= Len(x.array) THEN x.array[j] ELSE Nil
  <2>1. \A j \in 1 .. na : a[j] = IF j <= Len(x.array) THEN x.array[j] ELSE Nil  BY <1>4
  <2>2. \A j \in 1 .. na : a[j] \in Values \cup {Nil}
    <3>1. ASSUME NEW j \in 1 .. na, j <= Len(x.array) PROVE x.array[j] \in Values \cup {Nil}
      <4>1. j \in 1 .. Len(x.array)  BY <1>1, <3>1
      <4> QED  BY <4>1
    <3> QED  BY <2>1, <3>1
  <2>3. DOMAIN a = 1 .. na  BY <1>4
  <2>4. a \in [1 .. na -> Values \cup {Nil}]  BY <1>4, <2>2, <2>3
  <2>5. a \in Seq(Values \cup {Nil})  BY <1>1, <2>4
  <2> QED  BY <1>1, <2>1, <2>3, <2>5
<1>10. Tab(y)
  <2>1. y = [array |-> y.array, node |-> y.node, dummy |-> y.dummy, lastfree |-> y.lastfree]
    BY <1>5, <1>6
  <2>2. \A j \in 1 .. Len(y.array) : y.array[j] # Nil => j \in Numbers
    <3>1. ASSUME NEW j \in 1 .. na, a[j] # Nil PROVE j \in Numbers
      <4>1. j <= Len(x.array) /\ x.array[j] # Nil  BY <1>9, <3>1
      <4>2. j \in 1 .. Len(x.array)  BY <1>1, <4>1
      <4> QED  BY <4>1, <4>2
    <3> QED  BY <1>6, <1>9, <3>1
  <2>3. IF y.dummy THEN y.node = [p \in {0} |-> FreeNode] /\ y.lastfree = 0
        ELSE y.lastfree \in 0 .. sizenode(y) /\ \A p \in DOMAIN y.node : p >= y.lastfree => Taken(y.node, p)
    <3>1. CASE nh = 0
      <4>1. n = 1 /\ 0 .. n - 1 = {0}  BY <1>2, <3>1
      <4> QED  BY <1>6, <3>1, <4>1
    <3>2. CASE nh # 0
      <4>1. y.lastfree = n /\ n \in 0 .. n /\ \A p \in 0 .. n - 1 : ~(p >= n)  BY <1>6, <1>7, <3>2
      <4> QED  BY <1>6, <1>8, <3>2, <4>1
    <3> QED  BY <3>1, <3>2
  <2> QED  BY <1>1, <1>3, <1>6, <1>8, <1>9, <2>1, <2>2, <2>3 DEF Tab
<1>11. TakenNodes(y) = {}  BY <1>8 DEF TakenNodes
<1>12. ASSUME NEW j \in Keys
       PROVE  luaH_get(y, j) = IF InArray(x, j) /\ j <= na THEN x.array[j] ELSE Nil
  <2>1. InArray(y, j) <=> IsIndex(j) /\ j <= na  BY <1>6, <1>9 DEF InArray
  <2>2. CASE InArray(y, j)
    <3>1. j \in Numbers /\ j > 0 /\ j <= na  BY <2>1, <2>2 DEF IsIndex
    <3>2. j \in 1 .. na  BY <1>1, <3>1, HashAssumption
    <3>3. luaH_get(y, j) = a[j]  BY <1>6, <1>8, <2>2, GetIs
    <3>4. InArray(x, j) <=> j <= Len(x.array)  BY <2>1, <2>2 DEF InArray
    <3> QED  BY <1>9, <3>1, <3>2, <3>3, <3>4
  <2>3. CASE ~InArray(y, j)
    <3>1. ~(InArray(x, j) /\ j <= na)  BY <2>1, <2>3 DEF InArray
    <3>2. ~Binds(y.node, j, luaH_get(y, j))
      <4>1. \A p \in DOMAIN y.node : y.node[p].key # LiveKey(j)  BY <1>8, KeyFacts DEF Taken
      <4> QED  BY <4>1 DEF Binds
    <3>3. luaH_get(y, j) = Nil  BY <1>8, <2>3, <3>2, GetIs
    <3> QED  BY <3>1, <3>3
  <2> QED  BY <2>2, <2>3
<1>13. n = NodeSize(nh)  BY <1>2 DEF NodeSize
<1> QED  BY <1>3, <1>6, <1>8, <1>9, <1>10, <1>11, <1>12, <1>13

-----------------------------------------------------------------------------
(* Reorganisation *)

(* The entries one after the other: the table that they make is defined. *)
Filling(e, first, m, b) ==
  b = [i \in 0 .. m |-> IF i = 0 THEN first
                        ELSE IF e[i].val = Nil THEN b[i - 1]
                        ELSE Reinsert(b[i - 1], e[i].key, e[i].val)]

LEMMA FillingExists ==
  ASSUME NEW e, NEW first, NEW m \in Nat
  PROVE  \E b : Filling(e, first, m, b)
<1> DEFINE Bad == {i \in Nat : ~ \E b : Filling(e, first, i, b)}
<1>1. SUFFICES ASSUME Bad # {} PROVE FALSE  OBVIOUS
<1>2. PICK i \in Bad : \A j \in Bad : i <= j  BY <1>1, Least
<1>3. i # 0
  <2>1. PICK b : b = [j \in 0 .. 0 |-> first]  OBVIOUS
  <2>2. Filling(e, first, 0, b)  BY <2>1 DEF Filling
  <2> QED  BY <1>2, <2>2
<1>4. PICK h : h = i - 1  OBVIOUS
<1>5. h \in Nat /\ h \notin Bad  BY <1>2, <1>3, <1>4
<1>6. PICK b : Filling(e, first, h, b)  BY <1>5
<1>7. \A j \in 0 .. h : b[j] = IF j = 0 THEN first ELSE IF e[j].val = Nil THEN b[j - 1]
                               ELSE Reinsert(b[j - 1], e[j].key, e[j].val)
  <2>1. PICK c : c = b  OBVIOUS
  <2>2. c = [j \in 0 .. h |-> IF j = 0 THEN first ELSE IF e[j].val = Nil THEN b[j - 1]
                               ELSE Reinsert(b[j - 1], e[j].key, e[j].val)]
    BY <1>6, <2>1 DEF Filling
  <2> QED  BY <2>1, <2>2
<1>8. PICK last : last = IF e[i].val = Nil THEN b[h] ELSE Reinsert(b[h], e[i].key, e[i].val)
  OBVIOUS
<1>9. PICK c : c = [j \in 0 .. i |-> IF j = i THEN last ELSE b[j]]  OBVIOUS
<1>10. \A j \in 0 .. i : c[j] = IF j = 0 THEN first ELSE IF e[j].val = Nil THEN c[j - 1]
                               ELSE Reinsert(c[j - 1], e[j].key, e[j].val)
  <2>1. ASSUME NEW j \in 0 .. i
        PROVE  c[j] = IF j = 0 THEN first ELSE IF e[j].val = Nil THEN c[j - 1]
                      ELSE Reinsert(c[j - 1], e[j].key, e[j].val)
    <3>1. CASE j = 0  BY <1>3, <1>5, <1>7, <1>9, <3>1
    <3>2. CASE j = i
      <4>1. c[i] = last /\ c[i - 1] = b[h]  BY <1>2, <1>4, <1>5, <1>9
      <4> QED  BY <1>3, <1>8, <3>2, <4>1
    <3>3. CASE j # 0 /\ j # i
      <4>1. j \in 0 .. h /\ j - 1 \in 0 .. i /\ j - 1 # i  BY <1>2, <1>4, <2>1, <3>3
      <4>2. c[j] = b[j] /\ c[j - 1] = b[j - 1]  BY <1>9, <3>3, <4>1
      <4> QED  BY <1>7, <3>3, <4>1, <4>2
    <3> QED  BY <3>1, <3>2, <3>3
  <2> QED  BY <2>1
<1>11. Filling(e, first, i, c)
  <2>1. c = [j \in 0 .. i |-> c[j]]  BY <1>9
  <2> QED  BY <1>10, <2>1 DEF Filling
<1> QED  BY <1>2, <1>11

LEMMA ResizeIs ==
  ASSUME NEW x, NEW na, NEW nh, NEW e, e = Displaced(x, na), Len(e) \in Nat
  PROVE  \E b : /\ resize(x, na, nh) = b[Len(e)]
                /\ b[0] = setnodevector(setarrayvector(x, na), nh)
                /\ \A i \in 1 .. Len(e) :
                     b[i] = IF e[i].val = Nil THEN b[i - 1] ELSE Reinsert(b[i - 1], e[i].key, e[i].val)
<1>1. PICK first, m : first = setnodevector(setarrayvector(x, na), nh) /\ m = Len(e)  OBVIOUS
<1>2. PICK b : b = CHOOSE c : Filling(e, first, m, c)  OBVIOUS
<1>3. Filling(e, first, m, b)
  <2>1. \E c : Filling(e, first, m, c)  BY <1>1, FillingExists
  <2> QED  BY <1>2, <2>1, Zenon
<1>4. \A i \in 0 .. m : b[i] = IF i = 0 THEN first ELSE IF e[i].val = Nil THEN b[i - 1]
                               ELSE Reinsert(b[i - 1], e[i].key, e[i].val)
  <2>1. PICK c : c = b  OBVIOUS
  <2>2. c = [i \in 0 .. m |-> IF i = 0 THEN first ELSE IF e[i].val = Nil THEN b[i - 1]
                               ELSE Reinsert(b[i - 1], e[i].key, e[i].val)]
    BY <1>3, <2>1 DEF Filling
  <2> QED  BY <2>1, <2>2
<1>5. resize(x, na, nh) = b[m]
  BY <1>1, <1>2, Zenon DEF resize, Filling
<1>6. b[0] = first /\ \A i \in 1 .. m :
        b[i] = IF e[i].val = Nil THEN b[i - 1] ELSE Reinsert(b[i - 1], e[i].key, e[i].val)
  BY <1>1, <1>4
<1> QED  BY <1>1, <1>5, <1>6

(* What has to leave its place is what the new array part does not keep. *)
Kept(x, na, j) == InArray(x, j) /\ j <= na
LEMMA DisplacedIs ==
  ASSUME NEW x, Tab(x), NEW na \in 0 .. 2 ^ MAXBITS, NEW e, e = Displaced(x, na),
         NEW cut, cut = IF na < Len(x.array) THEN Len(x.array) - na ELSE 0
  PROVE  /\ cut \in Nat /\ Len(e) = cut + sizenode(x) /\ Len(e) \in Nat
         /\ \A i \in 1 .. Len(e) : i <= cut =>
              e[i].key = na + i /\ e[i].val = x.array[na + i] /\ na + i \in 1 .. Len(x.array)
         /\ \A i \in 1 .. Len(e) : i > cut =>
              LET p == sizenode(x) - (i - cut)
              IN p \in DOMAIN x.node /\ e[i].val = x.node[p].val
                 /\ e[i].key = (IF x.node[p].val = Nil THEN Nil ELSE x.node[p].key[2])
<1>1. na \in Nat /\ Len(x.array) \in Nat /\ sizenode(x) \in Nat /\ DOMAIN x.node = 0 .. sizenode(x) - 1
  <2>1. 2 ^ MAXBITS \in Nat  BY SizeAssumption, PowerIs
  <2> QED  BY <2>1 DEF Tab
<1>2. cut \in Nat  BY <1>1
<1> DEFINE Node(i) == x.node[sizenode(x) - i]
<1>3. e = [i \in 1 .. cut + sizenode(x) |->
        IF i <= cut THEN [key |-> na + i, val |-> x.array[na + i]]
        ELSE [key |-> IF Node(i - cut).val = Nil THEN Nil ELSE Node(i - cut).key[2],
              val |-> Node(i - cut).val]]
  BY Zenon DEF Displaced
<1>4. Len(e) = cut + sizenode(x) /\ Len(e) \in Nat
  <2>1. PICK m \in Nat : m = cut + sizenode(x)  BY <1>1, <1>2
  <2>2. DOMAIN e = 1 .. m  BY <1>3, <2>1
  <2>3. e \in [1 .. m -> {e[i] : i \in 1 .. m}]  BY <1>3, <2>1, <2>2
  <2>4. e \in Seq({e[i] : i \in 1 .. m})  BY <2>1, <2>3
  <2>5. Len(e) = m  BY <2>1, <2>2, <2>4
  <2> QED  BY <2>1, <2>5
<1>5. ASSUME NEW i \in 1 .. Len(e), i <= cut
      PROVE  e[i].key = na + i /\ e[i].val = x.array[na + i] /\ na + i \in 1 .. Len(x.array)
  <2>1. i \in 1 .. cut + sizenode(x) /\ cut = Len(x.array) - na  BY <1>1, <1>4, <1>5
  <2>2. e[i] = [key |-> na + i, val |-> x.array[na + i]]  BY <1>3, <1>5, <2>1
  <2>3. na + i \in 1 .. Len(x.array)  BY <1>1, <1>5, <2>1
  <2> QED  BY <2>2, <2>3
<1>6. ASSUME NEW i \in 1 .. Len(e), i > cut
      PROVE  LET p == sizenode(x) - (i - cut)
              IN p \in DOMAIN x.node /\ e[i].val = x.node[p].val
                 /\ e[i].key = (IF x.node[p].val = Nil THEN Nil ELSE x.node[p].key[2])
  <2>1. i \in 1 .. cut + sizenode(x) /\ ~(i <= cut)  BY <1>1, <1>2, <1>4, <1>6
  <2>2. e[i] = [key |-> IF Node(i - cut).val = Nil THEN Nil ELSE Node(i - cut).key[2],
                val |-> Node(i - cut).val]
    BY <1>3, <2>1
  <2>3. sizenode(x) - (i - cut) \in DOMAIN x.node  BY <1>1, <1>2, <2>1
  <2> QED  BY <2>2, <2>3
<1> QED  BY <1>2, <1>4, <1>5, <1>6

LEMMA EntriesAre ==
  ASSUME NEW x, Tab(x), NEW na \in 0 .. 2 ^ MAXBITS, NEW e, e = Displaced(x, na)
  PROVE  /\ \A i \in 1 .. Len(e) : e[i].val # Nil =>
              /\ e[i].key \in Keys /\ e[i].val \in Values
              /\ luaH_get(x, e[i].key) = e[i].val /\ ~Kept(x, na, e[i].key)
         /\ \A j \in Keys : luaH_get(x, j) # Nil /\ ~Kept(x, na, j) =>
              \E i \in 1 .. Len(e) : e[i].key = j /\ e[i].val # Nil
<1>1. PICK cut : cut = IF na < Len(x.array) THEN Len(x.array) - na ELSE 0  OBVIOUS
<1>2. /\ cut \in Nat /\ Len(e) = cut + sizenode(x) /\ Len(e) \in Nat
      /\ \A i \in 1 .. Len(e) : i <= cut =>
           e[i].key = na + i /\ e[i].val = x.array[na + i] /\ na + i \in 1 .. Len(x.array)
      /\ \A i \in 1 .. Len(e) : i > cut =>
           LET p == sizenode(x) - (i - cut)
           IN p \in DOMAIN x.node /\ e[i].val = x.node[p].val
              /\ e[i].key = (IF x.node[p].val = Nil THEN Nil ELSE x.node[p].key[2])
  BY <1>1, DisplacedIs, SMTT(60)
<1>3. na \in Nat /\ Len(x.array) \in Nat /\ sizenode(x) \in Nat /\ DOMAIN x.node = 0 .. sizenode(x) - 1
      /\ NodesInv(x.node, Homes(x))
  <2>1. 2 ^ MAXBITS \in Nat  BY SizeAssumption, PowerIs
  <2> QED  BY <2>1 DEF Tab
<1>4. ASSUME NEW i \in 1 .. Len(e), e[i].val # Nil
      PROVE  /\ e[i].key \in Keys /\ e[i].val \in Values
             /\ luaH_get(x, e[i].key) = e[i].val /\ ~Kept(x, na, e[i].key)
  <2>1. CASE i <= cut
    <3>1. PICK j \in 1 .. Len(x.array) : j = na + i /\ e[i].key = j /\ e[i].val = x.array[j]
      BY <1>2, <2>1
    <3>2. j \in Numbers /\ x.array[j] \in Values \cup {Nil}  BY <1>4, <3>1 DEF Tab
    <3>3. InArray(x, j) /\ j > na  BY <1>3, <3>1, <3>2 DEF InArray, IsIndex
    <3>4. luaH_get(x, j) = x.array[j]  BY <3>3 DEF luaH_get
    <3>5. ~Kept(x, na, j)  BY <1>3, <3>1, <3>3 DEF Kept
    <3> QED  BY <1>4, <3>1, <3>2, <3>4, <3>5 DEF Keys
  <2>2. CASE i > cut
    <3>1. PICK p : p = sizenode(x) - (i - cut)  OBVIOUS
    <3>2. p \in DOMAIN x.node /\ e[i].val = x.node[p].val /\ e[i].key = Of(x.node, p)
      BY <1>2, <1>4, <2>2, <3>1 DEF Of
    <3>3. x.node[p].key[1] = "key" /\ Taken(x.node, p) /\ x.node[p].key = LiveKey(Of(x.node, p))
          /\ Of(x.node, p) \in Keys /\ x.node[p] \in Slots
      BY <1>3, <1>4, <3>2, TakenFacts
    <3>4. ~InArray(x, Of(x.node, p))  BY <3>2, <3>3 DEF Tab
    <3>5. luaH_get(x, e[i].key) = e[i].val  BY <1>3, <3>2, <3>3, <3>4, GetIs DEF Binds
    <3>6. e[i].val \in Values  BY <1>4, <3>2, <3>3 DEF Slots
    <3> QED  BY <3>2, <3>3, <3>4, <3>5, <3>6 DEF Kept
  <2>3. i \in Int /\ cut \in Int  BY <1>2
  <2> QED  BY <2>1, <2>2, <2>3
<1>5. ASSUME NEW j \in Keys, luaH_get(x, j) # Nil, ~Kept(x, na, j)
      PROVE  \E i \in 1 .. Len(e) : e[i].key = j /\ e[i].val # Nil
  <2>1. CASE InArray(x, j)
    <3>1. j \in Int /\ j > 0 /\ j <= Len(x.array)
      BY <2>1, HashAssumption DEF InArray, IsIndex
    <3>2. ~(j <= na)  BY <1>5, <2>1 DEF Kept
    <3>3. PICK i : i = j - na  OBVIOUS
    <3>4. i \in 1 .. cut /\ na + i = j  BY <1>1, <1>3, <3>1, <3>2, <3>3
    <3>5. i \in 1 .. Len(e) /\ i <= cut  BY <1>2, <1>3, <3>4
    <3>6. e[i].key = j /\ e[i].val = x.array[j]  BY <1>2, <3>4, <3>5
    <3>7. luaH_get(x, j) = x.array[j]  BY <2>1 DEF luaH_get
    <3> QED  BY <1>5, <3>5, <3>6, <3>7
  <2>2. CASE ~InArray(x, j)
    <3>1. PICK p \in DOMAIN x.node : x.node[p].key = LiveKey(j) /\ x.node[p].val = luaH_get(x, j)
      BY <1>3, <1>5, <2>2, GetIs DEF Binds
    <3>2. x.node[p].key[2] = j  BY <3>1, KeyFacts
    <3>3. PICK i : i = cut + sizenode(x) - p  OBVIOUS
    <3>4. i \in 1 .. Len(e) /\ i > cut /\ sizenode(x) - (i - cut) = p  BY <1>2, <1>3, <3>3
    <3>5. e[i].val = x.node[p].val /\ e[i].key = x.node[p].key[2]
      BY <1>2, <1>5, <3>1, <3>4
    <3> QED  BY <1>5, <3>1, <3>2, <3>4, <3>5
  <2> QED  BY <2>1, <2>2
<1> QED  BY <1>4, <1>5

(* A hash part with a free node has room for a key. *)
LEMMA HasRoom ==
  ASSUME NEW x, Tab(x), ~x.dummy, Cardinality(TakenNodes(x)) < sizenode(x), NEW k
  PROVE  ~NoRoom(x, k)
<1>1. SUFFICES ASSUME getfreepos(x) = NULL PROVE FALSE  BY DEF NoRoom
<1>2. \A p \in DOMAIN x.node : Taken(x.node, p)  BY <1>1, FreeIs
<1>3. TakenNodes(x) = DOMAIN x.node  BY <1>2 DEF TakenNodes
<1>4. Cardinality(TakenNodes(x)) = sizenode(x)  BY <1>3 DEF sizenode
<1>5. sizenode(x) \in Nat
  <2>1. 2 ^ MAXBITS \in Nat  BY SizeAssumption, PowerIs
  <2> QED  BY <2>1 DEF Tab
<1> QED  BY <1>4, <1>5

(* The entries that go to the hash part. *)
ToHash(x, na) ==
  LET e == Displaced(x, na)
  IN {i \in 1 .. Len(e) : e[i].val # Nil /\ ~(IsIndex(e[i].key) /\ e[i].key <= na)}

(* The reorganised table has the fields of the old one. *)
Refilled(x, y, na, nh, e, i) ==
  /\ Tab(y) /\ Len(y.array) = na /\ sizenode(y) >= nh /\ sizenode(y) = NodeSize(nh) /\ (nh # 0 => ~y.dummy)
  /\ Cardinality(TakenNodes(y)) <= Cardinality(ToHash(x, na) \cap 1 .. i)
  /\ \A j \in Keys : luaH_get(y, j) =
       IF Kept(x, na, j) \/ \E a \in 1 .. i : e[a].key = j /\ e[a].val # Nil
       THEN luaH_get(x, j) ELSE Nil
LEMMA RefilledStep ==
  ASSUME NEW x, Tab(x), NEW na \in 0 .. 2 ^ MAXBITS, NEW nh \in 0 .. 2 ^ MAXBITS,
         NEW e, e = Displaced(x, na), Cardinality(ToHash(x, na)) <= nh,
         NEW i \in 1 .. Len(e), NEW b, Refilled(x, b, na, nh, e, i - 1),
         NEW y, y = IF e[i].val = Nil THEN b ELSE Reinsert(b, e[i].key, e[i].val)
  PROVE  Refilled(x, y, na, nh, e, i)
<1>1. Len(e) \in Nat
  <2>1. PICK cut : cut = IF na < Len(x.array) THEN Len(x.array) - na ELSE 0  OBVIOUS
  <2> QED  BY <2>1, DisplacedIs
<1>2. na \in Nat /\ nh \in Nat
  <2>1. 2 ^ MAXBITS \in Nat  BY SizeAssumption, PowerIs
  <2> QED  BY <2>1
<1>3. i \in Nat /\ i - 1 \in Nat /\ 1 .. i = (1 .. (i - 1)) \cup {i} /\ i \notin 1 .. (i - 1)
      /\ 1 .. i \subseteq 1 .. Len(e)
  BY <1>1
<1>4. /\ IsFiniteSet(ToHash(x, na))
      /\ IsFiniteSet(ToHash(x, na) \cap 1 .. (i - 1)) /\ IsFiniteSet(ToHash(x, na) \cap 1 .. i)
      /\ Cardinality(ToHash(x, na) \cap 1 .. i) <= Cardinality(ToHash(x, na))
      /\ Cardinality(ToHash(x, na)) \in Nat
      /\ Cardinality(ToHash(x, na) \cap 1 .. i) \in Nat
      /\ Cardinality(ToHash(x, na) \cap 1 .. (i - 1)) \in Nat
  <2>1. IsFiniteSet(1 .. Len(e))  BY <1>1, FS_Interval
  <2>2. ToHash(x, na) \in SUBSET (1 .. Len(e))  BY DEF ToHash
  <2>3. IsFiniteSet(ToHash(x, na))  BY <2>1, <2>2, FS_Subset
  <2> QED  BY <2>3, FS_Intersection, FS_CardinalityType
<1>5. Cardinality(ToHash(x, na) \cap 1 .. i) =
        IF i \in ToHash(x, na) THEN Cardinality(ToHash(x, na) \cap 1 .. (i - 1)) + 1
        ELSE Cardinality(ToHash(x, na) \cap 1 .. (i - 1))
  <2>1. CASE i \in ToHash(x, na)
    <3>1. ToHash(x, na) \cap 1 .. i = (ToHash(x, na) \cap 1 .. (i - 1)) \cup {i}  BY <1>3, <2>1
    <3>2. i \notin ToHash(x, na) \cap 1 .. (i - 1)  BY <1>3
    <3> QED  BY <1>4, <2>1, <3>1, <3>2, FS_AddElement
  <2>2. CASE i \notin ToHash(x, na)
    <3>1. ToHash(x, na) \cap 1 .. i = ToHash(x, na) \cap 1 .. (i - 1)  BY <1>3, <2>2
    <3> QED  BY <2>2, <3>1
  <2> QED  BY <2>1, <2>2
<1>6. /\ Tab(b) /\ Len(b.array) = na /\ sizenode(b) >= nh /\ sizenode(b) = NodeSize(nh) /\ (nh # 0 => ~b.dummy)
      /\ Cardinality(TakenNodes(b)) <= Cardinality(ToHash(x, na) \cap 1 .. (i - 1))
  BY DEF Refilled
<1>7. \A j \in Keys : luaH_get(b, j) =
       IF Kept(x, na, j) \/ \E a \in 1 .. (i - 1) : e[a].key = j /\ e[a].val # Nil
       THEN luaH_get(x, j) ELSE Nil
  BY DEF Refilled
<1>8. CASE e[i].val = Nil
  <2>1. y = b  BY <1>8
  <2>2. i \notin ToHash(x, na)  BY <1>8 DEF ToHash
  <2>3. \A j : (\E a \in 1 .. i : e[a].key = j /\ e[a].val # Nil)
               <=> (\E a \in 1 .. (i - 1) : e[a].key = j /\ e[a].val # Nil)
    BY <1>3, <1>8
  <2>4. \A j \in Keys : luaH_get(y, j) =
          IF Kept(x, na, j) \/ \E a \in 1 .. i : e[a].key = j /\ e[a].val # Nil
          THEN luaH_get(x, j) ELSE Nil
    BY <1>7, <2>1, <2>3
  <2> QED  BY <1>5, <1>6, <2>1, <2>2, <2>4 DEF Refilled
<1>9. CASE e[i].val # Nil
  <2>1. PICK k, v : k = e[i].key /\ v = e[i].val  OBVIOUS
  <2>2. k \in Keys /\ v \in Values /\ v # Nil /\ luaH_get(x, k) = v  BY <1>9, <2>1, EntriesAre
  <2>3. b # Overfull
    <3>1. SUFFICES ASSUME b = Overfull PROVE FALSE  OBVIOUS
    <3>2. b.dummy /\ b.lastfree = NULL  BY <3>1 DEF Overfull
    <3>3. b.lastfree = 0  BY <1>6, <3>2 DEF Tab
    <3> QED  BY <3>2, <3>3 DEF NULL
  <2>4. y = Assigned(b, k, v, Overfull)  BY <1>9, <2>1, <2>3, Zenon DEF Reinsert
  <2>5. InArray(b, k) <=> i \notin ToHash(x, na)
    BY <1>6, <1>9, <2>1 DEF ToHash, InArray
  <2>6. sizenode(b) \in Nat /\ IsFiniteSet(TakenNodes(b)) /\ Cardinality(TakenNodes(b)) \in Nat
    <3>1. 2 ^ MAXBITS \in Nat  BY SizeAssumption, PowerIs
    <3>2. sizenode(b) \in Nat /\ DOMAIN b.node = 0 .. sizenode(b) - 1  BY <1>6, <3>1 DEF Tab
    <3>3. IsFiniteSet(DOMAIN b.node)
      <4>1. PICK last \in Int : last = sizenode(b) - 1  BY <3>2
      <4>2. IsFiniteSet(0 .. last)  BY <4>1, FS_Interval
      <4> QED  BY <3>2, <4>1, <4>2
    <3>4. TakenNodes(b) \in SUBSET DOMAIN b.node  BY DEF TakenNodes
    <3>5. IsFiniteSet(TakenNodes(b))  BY <3>3, <3>4, FS_Subset
    <3> QED  BY <3>2, <3>5, FS_CardinalityType
  <2>7. ~InArray(b, k) => ~NoRoom(b, k)
    <3>1. SUFFICES ASSUME ~InArray(b, k) PROVE ~NoRoom(b, k)  OBVIOUS
    <3>2. Cardinality(TakenNodes(b)) < nh  BY <1>2, <1>4, <1>5, <1>6, <2>5, <2>6, <3>1
    <3>3. ~b.dummy /\ Cardinality(TakenNodes(b)) < sizenode(b)  BY <1>2, <1>6, <2>6, <3>2
    <3> QED  BY <1>6, <3>3, HasRoom
  <2>8. /\ Tab(y) /\ Len(y.array) = Len(b.array) /\ y.dummy = b.dummy
        /\ DOMAIN y.node = DOMAIN b.node
        /\ InArray(b, k) => TakenNodes(y) = TakenNodes(b)
        /\ \E n \in DOMAIN b.node : TakenNodes(y) \subseteq TakenNodes(b) \cup {n}
        /\ \A j \in Keys : luaH_get(y, j) = IF j = k THEN v ELSE luaH_get(b, j)
    BY <1>6, <2>2, <2>4, <2>7, AssignedIs
  <2>9. sizenode(y) = sizenode(b)  BY <2>8, SameNodes
  <2>10. Cardinality(TakenNodes(y)) <= Cardinality(ToHash(x, na) \cap 1 .. i)
    <3>1. CASE InArray(b, k)  BY <1>5, <1>6, <2>5, <2>8, <3>1
    <3>2. CASE ~InArray(b, k)
      <4>1. PICK n : TakenNodes(y) \subseteq TakenNodes(b) \cup {n}  BY <2>8
      <4>2. IsFiniteSet(TakenNodes(b) \cup {n}) /\ Cardinality(TakenNodes(b) \cup {n}) <= Cardinality(TakenNodes(b)) + 1
        <5>1. IsFiniteSet(TakenNodes(b) \cup {n})  BY <2>6, FS_AddElement
        <5>2. Cardinality(TakenNodes(b) \cup {n}) =
                IF n \in TakenNodes(b) THEN Cardinality(TakenNodes(b)) ELSE Cardinality(TakenNodes(b)) + 1
          BY <2>6, FS_AddElement
        <5> QED  BY <2>6, <5>1, <5>2
      <4>3. TakenNodes(y) \in SUBSET (TakenNodes(b) \cup {n})  BY <4>1
      <4>4. Cardinality(TakenNodes(y)) <= Cardinality(TakenNodes(b) \cup {n})
            /\ Cardinality(TakenNodes(y)) \in Nat /\ Cardinality(TakenNodes(b) \cup {n}) \in Nat
        BY <4>2, <4>3, FS_Subset, FS_CardinalityType
      <4> QED  BY <1>4, <1>5, <1>6, <2>5, <2>6, <3>2, <4>2, <4>4
    <3> QED  BY <3>1, <3>2
  <2>11. ASSUME NEW j \in Keys
         PROVE  luaH_get(y, j) =
                  IF Kept(x, na, j) \/ \E a \in 1 .. i : e[a].key = j /\ e[a].val # Nil
                  THEN luaH_get(x, j) ELSE Nil
    <3>1. CASE j = k
      <4>1. \E a \in 1 .. i : e[a].key = j /\ e[a].val # Nil  BY <1>3, <1>9, <2>1, <3>1
      <4> QED  BY <2>2, <2>8, <3>1, <4>1
    <3>2. CASE j # k
      <4>1. (\E a \in 1 .. i : e[a].key = j /\ e[a].val # Nil)
               <=> (\E a \in 1 .. (i - 1) : e[a].key = j /\ e[a].val # Nil)
        BY <1>3, <2>1, <3>2
      <4> QED  BY <1>7, <2>8, <3>2, <4>1
    <3> QED  BY <3>1, <3>2
  <2> QED  BY <1>6, <2>8, <2>9, <2>10, <2>11 DEF Refilled
<1> QED  BY <1>8, <1>9

LEMMA ResizeKeeps ==
  ASSUME NEW x, Tab(x), NEW na \in 0 .. 2 ^ MAXBITS, NEW nh \in 0 .. 2 ^ MAXBITS,
         Cardinality(ToHash(x, na)) <= nh, NEW y, y = resize(x, na, nh)
  PROVE  /\ Tab(y) /\ Len(y.array) = na /\ sizenode(y) >= nh /\ sizenode(y) = NodeSize(nh) /\ (nh # 0 => ~y.dummy)
         /\ Cardinality(TakenNodes(y)) <= Cardinality(ToHash(x, na))
         /\ \A j \in Keys : luaH_get(y, j) = luaH_get(x, j)
<1>1. PICK e : e = Displaced(x, na)  OBVIOUS
<1>2. Len(e) \in Nat
  <2>1. PICK cut : cut = IF na < Len(x.array) THEN Len(x.array) - na ELSE 0  OBVIOUS
  <2> QED  BY <1>1, <2>1, DisplacedIs
<1>3. PICK b : /\ y = b[Len(e)]
               /\ b[0] = setnodevector(setarrayvector(x, na), nh)
               /\ \A i \in 1 .. Len(e) :
                    b[i] = IF e[i].val = Nil THEN b[i - 1] ELSE Reinsert(b[i - 1], e[i].key, e[i].val)
  BY <1>1, <1>2, ResizeIs
<1>4. Refilled(x, b[0], na, nh, e, 0)
  <2>1. x = [array |-> x.array, node |-> x.node, dummy |-> x.dummy, lastfree |-> x.lastfree]
        /\ x.array \in Seq(Values \cup {Nil}) /\ \A j \in 1 .. Len(x.array) : x.array[j] # Nil => j \in Numbers
    BY DEF Tab
  <2>2. PICK z : z = b[0]  OBVIOUS
  <2>3. z = setnodevector(setarrayvector(x, na), nh)  BY <1>3, <2>2
  <2>4. /\ Tab(z) /\ Len(z.array) = na /\ sizenode(z) >= nh /\ sizenode(z) = NodeSize(nh)
        /\ nh # 0 => ~z.dummy
        /\ TakenNodes(z) = {}
        /\ \A j \in Keys : luaH_get(z, j) = IF InArray(x, j) /\ j <= na THEN x.array[j] ELSE Nil
    BY <2>1, <2>3, FreshIs
  <2>5. \A j \in Keys : luaH_get(z, j) =
          IF Kept(x, na, j) \/ \E a \in 1 .. 0 : e[a].key = j /\ e[a].val # Nil THEN luaH_get(x, j) ELSE Nil
    BY <2>4 DEF Kept, luaH_get
  <2>6. Cardinality(TakenNodes(z)) <= Cardinality(ToHash(x, na) \cap 1 .. 0)
    <3>1. ToHash(x, na) \cap 1 .. 0 = {}  OBVIOUS
    <3> QED  BY <2>4, <3>1, FS_EmptySet
  <2> QED  BY <2>2, <2>4, <2>5, <2>6 DEF Refilled
<1> DEFINE Bad == {i \in 0 .. Len(e) : ~Refilled(x, b[i], na, nh, e, i)}
<1>5. Bad = {}
  <2>1. SUFFICES ASSUME Bad # {} PROVE FALSE  OBVIOUS
  <2>2. Bad \subseteq Nat  BY <1>2
  <2>3. PICK i \in Bad : \A j \in Bad : i <= j  BY <2>1, <2>2, Least
  <2>4. i # 0  BY <1>4, <2>3
  <2>5. PICK h, c, z : h = i - 1 /\ c = b[h] /\ z = b[i]  OBVIOUS
  <2>6. h \in 0 .. Len(e) /\ ~(i <= h) /\ i \in 1 .. Len(e)  BY <1>2, <2>3, <2>4, <2>5
  <2>7. Refilled(x, c, na, nh, e, h)  BY <2>3, <2>5, <2>6
  <2>8. z = IF e[i].val = Nil THEN c ELSE Reinsert(c, e[i].key, e[i].val)  BY <1>3, <2>5, <2>6
  <2>9. Refilled(x, c, na, nh, e, i - 1)  BY <2>5, <2>7
  <2>10. Refilled(x, z, na, nh, e, i)  BY <1>1, <2>6, <2>8, <2>9, RefilledStep
  <2> QED  BY <2>3, <2>5, <2>10
<1>6. Refilled(x, y, na, nh, e, Len(e))
  <2>1. Len(e) \in 0 .. Len(e)  BY <1>2
  <2> QED  BY <1>3, <1>5, <2>1
<1>7. /\ Tab(y) /\ Len(y.array) = na /\ sizenode(y) >= nh /\ sizenode(y) = NodeSize(nh) /\ (nh # 0 => ~y.dummy)
      /\ Cardinality(TakenNodes(y)) <= Cardinality(ToHash(x, na) \cap 1 .. Len(e))
      /\ \A j \in Keys : luaH_get(y, j) =
           IF Kept(x, na, j) \/ \E a \in 1 .. Len(e) : e[a].key = j /\ e[a].val # Nil
           THEN luaH_get(x, j) ELSE Nil
  BY <1>6 DEF Refilled
<1>8. ToHash(x, na) \cap 1 .. Len(e) = ToHash(x, na)  BY <1>1 DEF ToHash
<1>9. \A j \in Keys : luaH_get(y, j) = luaH_get(x, j)
  <2>1. ASSUME NEW j \in Keys PROVE luaH_get(y, j) = luaH_get(x, j)
    <3>1. CASE luaH_get(x, j) = Nil  BY <1>7, <3>1
    <3>2. CASE luaH_get(x, j) # Nil /\ Kept(x, na, j)  BY <1>7, <3>2
    <3>3. CASE luaH_get(x, j) # Nil /\ ~Kept(x, na, j)
      <4>1. \E i \in 1 .. Len(e) : e[i].key = j /\ e[i].val # Nil  BY <1>1, <3>3, EntriesAre
      <4> QED  BY <1>7, <4>1
    <3> QED  BY <3>1, <3>2, <3>3
  <2> QED  BY <2>1
<1> QED  BY <1>7, <1>8, <1>9

-----------------------------------------------------------------------------
(* How many go where *)
LEMMA Greatest ==
  ASSUME NEW T, T \subseteq Nat, T # {}, NEW m \in Nat, \A y \in T : y <= m
  PROVE  Max(T) \in T /\ \A y \in T : y <= Max(T)
<1>1. PICK B : B = {m - y : y \in T}  OBVIOUS
<1>2. B \subseteq Nat /\ B # {}
  <2>1. \A y \in T : m - y \in Nat  OBVIOUS
  <2> QED  BY <1>1, <2>1
<1>3. PICK b \in B : \A c \in B : b <= c  BY <1>2, Least
<1>4. PICK x \in T : b = m - x  BY <1>1, <1>3
<1>5. \A y \in T : x >= y
  <2>1. ASSUME NEW y \in T PROVE x >= y
    <3>1. b <= m - y  BY <1>1, <1>3
    <3> QED  BY <1>4, <3>1
  <2> QED  BY <2>1
<1>6. Max(T) = CHOOSE a \in T : \A y \in T : a >= y  BY DEF Max
<1>7. PICK a : a = Max(T)  OBVIOUS
<1>8. a \in T /\ \A y \in T : a >= y  BY <1>5, <1>6, <1>7, Zenon
<1> QED  BY <1>7, <1>8

Summing(count, u) == u = [i \in DOMAIN count |-> count[i] + (IF i = 0 THEN 0 ELSE u[i - 1])]

(* A slice that has a key, and up to which more than half of the slots are used. *)
Full(count, F, i) == count[i] > 0 /\ F[i] > 2 ^ i \div 2

LEMMA ComputedIs ==
  ASSUME NEW m \in Nat, NEW count, DOMAIN count = 0 .. m, NEW F, Summing(count, F),
         NEW c, c = computesizes(count)
  PROVE  \/ c = <<0, 0>> /\ \A j \in 0 .. m : ~Full(count, F, j)
         \/ \E i \in 0 .. m : /\ c = <<2 ^ i, F[i]>> /\ Full(count, F, i)
                              /\ \A j \in 0 .. m : Full(count, F, j) => j <= i
<1>1. \A v : Summing(count, v) => \A i \in 0 .. m : v[i] = count[i] + (IF i = 0 THEN 0 ELSE v[i - 1])
  <2>1. ASSUME NEW v, Summing(count, v)
        PROVE  \A i \in 0 .. m : v[i] = count[i] + (IF i = 0 THEN 0 ELSE v[i - 1])
    <3>1. PICK w : w = v  OBVIOUS
    <3>2. w = [i \in 0 .. m |-> count[i] + (IF i = 0 THEN 0 ELSE v[i - 1])]
      BY <2>1, <3>1 DEF Summing
    <3> QED  BY <3>1, <3>2
  <2> QED  BY <2>1
<1> DEFINE u == CHOOSE v : Summing(count, v)
           full == {i \in DOMAIN count : count[i] > 0 /\ u[i] > 2 ^ i \div 2}
<1>6. c = IF full = {} THEN <<0, 0>> ELSE <<2 ^ Max(full), u[Max(full)]>>
  BY DEF computesizes, Summing
<1>3. Summing(count, u)  BY Zenon
<1> HIDE DEF u
<1>4. \A i \in 0 .. m : u[i] = F[i]
  <2> DEFINE Bad == {i \in 0 .. m : u[i] # F[i]}
  <2>1. SUFFICES ASSUME Bad # {} PROVE FALSE  OBVIOUS
  <2>2. PICK i \in Bad : \A j \in Bad : i <= j
    <3>1. Bad \subseteq Nat  OBVIOUS
    <3> QED  BY <2>1, <3>1, Least
  <2>3. u[i] = count[i] + (IF i = 0 THEN 0 ELSE u[i - 1]) /\ F[i] = count[i] + (IF i = 0 THEN 0 ELSE F[i - 1])
    BY <1>1, <1>3, <2>2
  <2>4. i # 0  BY <2>2, <2>3
  <2>5. i - 1 \in 0 .. m /\ ~(i <= i - 1)  BY <2>2, <2>4
  <2>6. u[i - 1] = F[i - 1]  BY <2>2, <2>5
  <2> QED  BY <2>2, <2>3, <2>4, <2>6
<1>7. \A j \in 0 .. m : j \in full <=> Full(count, F, j)  BY <1>4 DEF Full
<1> HIDE DEF full
<1>8. full \subseteq 0 .. m  BY DEF full
<1>9. CASE full # {}
  <2>1. full \subseteq Nat /\ \A i \in full : i <= m  BY <1>8
  <2>2. Max(full) \in full /\ \A j \in full : j <= Max(full)  BY <1>9, <2>1, Greatest
  <2>3. PICK i : i = Max(full)  OBVIOUS
  <2>4. i \in 0 .. m /\ c = <<2 ^ i, F[i]>>  BY <1>4, <1>6, <1>8, <1>9, <2>2, <2>3
  <2> QED  BY <1>7, <2>2, <2>3, <2>4
<1>10. CASE full = {}  BY <1>6, <1>7, <1>10
<1> QED  BY <1>9, <1>10

(* One more slice. *)
AtMost(S, log, i) == {s \in S : log[s] <= i}
Exactly(S, log, i) == {s \in S : log[s] = i}
LEMMA SliceIs ==
  ASSUME NEW S, IsFiniteSet(S), NEW log \in [S -> Int], NEW i \in Int
  PROVE  Cardinality(AtMost(S, log, i)) =
           Cardinality(AtMost(S, log, i - 1)) + Cardinality(Exactly(S, log, i))
<1>1. PICK A, B, C : A = AtMost(S, log, i) /\ B = AtMost(S, log, i - 1) /\ C = Exactly(S, log, i)
  OBVIOUS
<1>2. A = B \cup C /\ B \cap C = {} /\ B \in SUBSET S /\ C \in SUBSET S
  <2>1. \A s \in S : log[s] \in Int  OBVIOUS
  <2>2. \A s \in S : log[s] <= i <=> log[s] <= i - 1 \/ log[s] = i  BY <2>1
  <2>3. \A s \in S : ~(log[s] <= i - 1 /\ log[s] = i)  BY <2>1
  <2>4. A = B \cup C  BY <1>1, <2>2 DEF AtMost, Exactly
  <2>5. B \cap C = {}  BY <1>1, <2>3 DEF AtMost, Exactly
  <2> QED  BY <1>1, <2>4, <2>5 DEF AtMost, Exactly
<1>3. IsFiniteSet(B) /\ IsFiniteSet(C)  BY <1>2, FS_Subset
<1>4. Cardinality(B) \in Nat /\ Cardinality(C) \in Nat  BY <1>3, FS_CardinalityType
<1>5. Cardinality(A) = Cardinality(B) + Cardinality(C) - Cardinality(B \cap C)
  BY <1>2, <1>3, FS_Union
<1>6. Cardinality(B \cap C) = 0  BY <1>2, FS_EmptySet
<1>7. Cardinality(A) = Cardinality(B) + Cardinality(C)  BY <1>4, <1>5, <1>6
<1> QED  BY <1>1, <1>7

(* The keys that the array part keeps, of the array, of the nodes, and k. *)
Low(x, na) == {j \in Used(x) : j <= na}
LowNodes(x, na) == {n \in UsedNodes(x) : IsIndex(x.node[n].key[2]) /\ x.node[n].key[2] <= na}
LowKey(k, na) == IF IsIndex(k) /\ k <= na THEN 1 ELSE 0

LEMMA UsedFinite ==
  ASSUME NEW x, Tab(x)
  PROVE  /\ IsFiniteSet(Used(x)) /\ IsFiniteSet(UsedNodes(x))
         /\ Used(x) \subseteq 1 .. 2 ^ MAXBITS /\ Used(x) \subseteq Numbers
         /\ \A n \in UsedNodes(x) : x.node[n].key[2] \in Keys
<1>1. 2 ^ MAXBITS \in Nat  BY SizeAssumption, PowerIs
<1>2. x.array \in Seq(Values \cup {Nil}) /\ Len(x.array) \in Nat /\ Len(x.array) <= 2 ^ MAXBITS
      /\ DOMAIN x.array = 1 .. Len(x.array)
  BY DEF Tab
<1>3. Used(x) \in SUBSET (1 .. 2 ^ MAXBITS) /\ Used(x) \subseteq Numbers
  BY <1>1, <1>2 DEF Used, Tab
<1>4. IsFiniteSet(1 .. 2 ^ MAXBITS)  BY <1>1, FS_Interval
<1>5. IsFiniteSet(Used(x))  BY <1>3, <1>4, FS_Subset
<1>6. IsFiniteSet(DOMAIN x.node)
  <2>1. DOMAIN x.node = 0 .. sizenode(x) - 1 /\ sizenode(x) \in Nat  BY <1>1 DEF Tab
  <2> QED  BY <2>1, FS_Interval
<1>7. UsedNodes(x) \in SUBSET DOMAIN x.node  BY DEF UsedNodes
<1>8. IsFiniteSet(UsedNodes(x))  BY <1>6, <1>7, FS_Subset
<1>9. ASSUME NEW n \in UsedNodes(x) PROVE x.node[n].key[2] \in Keys
  <2>1. n \in DOMAIN x.node /\ x.node[n].val # Nil  BY DEF UsedNodes
  <2>2. NodesInv(x.node, Homes(x))  BY DEF Tab
  <2>3. Of(x.node, n) \in Keys  BY <2>1, <2>2, TakenFacts
  <2> QED  BY <2>3 DEF Of
<1> QED  BY <1>3, <1>5, <1>8, <1>9

LEMMA SumsAre ==
  ASSUME NEW x, Tab(x), NEW k \in Keys,
         NEW F, F = [i \in 0 .. MAXBITS |-> Cardinality(Low(x, 2 ^ i)) + Cardinality(LowNodes(x, 2 ^ i))
                                            + LowKey(k, 2 ^ i)]
  PROVE  Summing(nums(x, k), F) /\ DOMAIN nums(x, k) = 0 .. MAXBITS
<1>1. MAXBITS \in Nat /\ 2 ^ MAXBITS \in Nat  BY SizeAssumption, PowerIs
<1>2. PICK S : S = {n \in UsedNodes(x) : Counted(x.node[n].key[2])}  OBVIOUS
<1>3. PICK logA, logN : logA = [j \in Used(x) |-> ceillog2(j)] /\ logN = [n \in S |-> ceillog2(x.node[n].key[2])]
  OBVIOUS
<1>4. \A j : Counted(j) => j \in 0 .. 2 ^ MAXBITS
  <2>1. \A j \in Numbers : j \in Int  BY HashAssumption
  <2> QED  BY <1>1, <2>1 DEF Counted, IsIndex
<1>5. \A j \in 0 .. 2 ^ MAXBITS : ceillog2(j) \in 0 .. MAXBITS /\ \A i \in Nat : ceillog2(j) <= i <=> j <= 2 ^ i
  <2>1. ASSUME NEW j \in 0 .. 2 ^ MAXBITS
        PROVE  ceillog2(j) \in 0 .. MAXBITS /\ \A i \in Nat : ceillog2(j) <= i <=> j <= 2 ^ i
    BY LogIs
  <2> QED  BY <2>1
<1>6. IsFiniteSet(Used(x)) /\ IsFiniteSet(S) /\ Used(x) \subseteq 0 .. 2 ^ MAXBITS
      /\ \A n \in S : x.node[n].key[2] \in 0 .. 2 ^ MAXBITS
  <2>1. S \in SUBSET UsedNodes(x)  BY <1>2
  <2>2. IsFiniteSet(S)  BY <2>1, UsedFinite, FS_Subset
  <2>3. Used(x) \subseteq 0 .. 2 ^ MAXBITS  BY <1>1, UsedFinite
  <2> QED  BY <1>2, <1>4, <2>2, <2>3, UsedFinite
<1>7. logA \in [Used(x) -> Int] /\ logN \in [S -> Int]  BY <1>1, <1>3, <1>5, <1>6
<1>8. ASSUME NEW i \in 0 .. MAXBITS
      PROVE  /\ Low(x, 2 ^ i) = AtMost(Used(x), logA, i)
             /\ LowNodes(x, 2 ^ i) = AtMost(S, logN, i)
             /\ i # 0 => /\ Low(x, 2 ^ (i - 1)) = AtMost(Used(x), logA, i - 1)
                         /\ LowNodes(x, 2 ^ (i - 1)) = AtMost(S, logN, i - 1)
             /\ i = 0 => AtMost(Used(x), logA, i - 1) = {} /\ AtMost(S, logN, i - 1) = {}
  <2>1. ASSUME NEW h \in Nat, h <= MAXBITS
        PROVE  Low(x, 2 ^ h) = AtMost(Used(x), logA, h)
    <3>1. \A j \in Used(x) : logA[j] <= h <=> j <= 2 ^ h  BY <1>3, <1>5, <1>6
    <3> QED  BY <3>1 DEF Low, AtMost
  <2>2. ASSUME NEW h \in Nat, h <= MAXBITS
        PROVE  LowNodes(x, 2 ^ h) = AtMost(S, logN, h)
    <3>1. \A n \in S : logN[n] <= h <=> x.node[n].key[2] <= 2 ^ h  BY <1>3, <1>5, <1>6
    <3>2. 2 ^ h <= 2 ^ MAXBITS /\ 2 ^ h \in Nat  BY <1>1, <2>2, PowerIs
    <3>3. \A n \in UsedNodes(x) :
            IsIndex(x.node[n].key[2]) /\ x.node[n].key[2] <= 2 ^ h => Counted(x.node[n].key[2])
      <4>1. \A j \in Numbers : j \in Int  BY HashAssumption
      <4> QED  BY <1>1, <3>2, <4>1 DEF Counted, IsIndex
    <3>4. \A n \in UsedNodes(x) : Counted(x.node[n].key[2]) => IsIndex(x.node[n].key[2])  BY DEF Counted
    <3>5. \A n : n \in LowNodes(x, 2 ^ h) <=> n \in S /\ x.node[n].key[2] <= 2 ^ h
      BY <1>2, <3>3, <3>4 DEF LowNodes
    <3>6. \A n : n \in LowNodes(x, 2 ^ h) <=> n \in AtMost(S, logN, h)  BY <3>1, <3>5 DEF AtMost
    <3> QED  BY <3>6
  <2>3. i \in Nat /\ i <= MAXBITS  BY <1>1
  <2>4. ASSUME i # 0
        PROVE  Low(x, 2 ^ (i - 1)) = AtMost(Used(x), logA, i - 1)
               /\ LowNodes(x, 2 ^ (i - 1)) = AtMost(S, logN, i - 1)
    <3>1. PICK h : h = i - 1  OBVIOUS
    <3>2. h \in Nat /\ h <= MAXBITS  BY <1>1, <2>3, <2>4, <3>1
    <3> QED  BY <2>1, <2>2, <3>1, <3>2
  <2>5. ASSUME i = 0
        PROVE  AtMost(Used(x), logA, i - 1) = {} /\ AtMost(S, logN, i - 1) = {}
    <3>1. \A j \in Used(x) : logA[j] \in Nat  BY <1>1, <1>3, <1>5, <1>6
    <3>2. \A n \in S : logN[n] \in Nat  BY <1>1, <1>3, <1>5, <1>6
    <3> QED  BY <2>5, <3>1, <3>2 DEF AtMost
  <2> QED  BY <2>1, <2>2, <2>3, <2>4, <2>5
<1>9. ASSUME NEW i \in 0 .. MAXBITS
      PROVE  nums(x, k)[i] + (IF i = 0 THEN 0 ELSE F[i - 1]) = F[i]
  <2>1. nums(x, k)[i] = numusearray(x, i) + numusehash(x, i) + countint(k, i)  BY DEF nums
  <2>2. {j \in Used(x) : ceillog2(j) = i} = Exactly(Used(x), logA, i)  BY <1>3 DEF Exactly
  <2>3. \A n : n \in {m \in UsedNodes(x) : Counted(x.node[m].key[2]) /\ ceillog2(x.node[m].key[2]) = i}
               <=> n \in Exactly(S, logN, i)
    BY <1>2, <1>3 DEF Exactly
  <2>4. {n \in UsedNodes(x) : Counted(x.node[n].key[2]) /\ ceillog2(x.node[n].key[2]) = i}
        = Exactly(S, logN, i)
    BY <2>3
  <2>5. PICK A, N, a, n, a1, n1 :
          /\ A = Cardinality(AtMost(Used(x), logA, i)) /\ N = Cardinality(AtMost(S, logN, i))
          /\ a = Cardinality(Exactly(Used(x), logA, i)) /\ n = Cardinality(Exactly(S, logN, i))
          /\ a1 = Cardinality(AtMost(Used(x), logA, i - 1)) /\ n1 = Cardinality(AtMost(S, logN, i - 1))
    OBVIOUS
  <2>6. i \in Int /\ A = a1 + a /\ N = n1 + n
    <3>1. i \in Int  OBVIOUS
    <3>2. A = a1 + a  BY <1>6, <1>7, <2>5, <3>1, SliceIs
    <3>3. N = n1 + n  BY <1>6, <1>7, <2>5, <3>1, SliceIs
    <3> QED  BY <3>1, <3>2, <3>3
  <2>7. {a1, n1, a, n} \subseteq Nat
    <3>1. \A T : T \subseteq Used(x) => Cardinality(T) \in Nat  BY <1>6, FS_Subset, FS_CardinalityType
    <3>2. \A T : T \subseteq S => Cardinality(T) \in Nat  BY <1>6, FS_Subset, FS_CardinalityType
    <3>3. a1 \in Nat /\ a \in Nat  BY <2>5, <3>1 DEF AtMost, Exactly
    <3>4. n1 \in Nat /\ n \in Nat  BY <2>5, <3>2 DEF AtMost, Exactly
    <3> QED  BY <3>3, <3>4
  <2>8. nums(x, k)[i] = a + n + countint(k, i)
    BY <2>1, <2>2, <2>4, <2>5 DEF numusearray, numusehash
  <2>9. F[i] = A + N + LowKey(k, 2 ^ i)  BY <1>8, <2>5
  <2>10. LowKey(k, 2 ^ i) = countint(k, i) + (IF i = 0 THEN 0 ELSE LowKey(k, 2 ^ (i - 1)))
    <3>1. PICK l : l = ceillog2(k)  OBVIOUS
    <3>2. i \in Nat /\ 2 ^ i <= 2 ^ MAXBITS /\ 2 ^ i \in Nat  BY <1>1, PowerIs
    <3>3. CASE ~Counted(k)
      <4>1. \A j \in Numbers : j \in Int  BY HashAssumption
      <4>3. ASSUME NEW h \in Nat, h <= MAXBITS PROVE LowKey(k, 2 ^ h) = 0
        <5>1. PICK w \in Nat : w = 2 ^ h /\ w <= 2 ^ MAXBITS  BY <1>1, <4>3, PowerIs
        <5>2. ~(IsIndex(k) /\ k <= w)
          BY <1>1, <3>3, <4>1, <5>1 DEF Counted, IsIndex
        <5> QED  BY <5>1, <5>2 DEF LowKey
      <4>4. countint(k, i) = 0  BY <3>3 DEF countint
      <4>5. i # 0 => i - 1 \in Nat /\ i - 1 <= MAXBITS  BY <1>1
      <4>6. LowKey(k, 2 ^ i) = 0  BY <1>1, <3>2, <4>3
      <4>7. i # 0 => LowKey(k, 2 ^ (i - 1)) = 0  BY <4>3, <4>5
      <4> QED  BY <4>4, <4>6, <4>7
    <3>4. CASE Counted(k)
      <4>1. l \in 0 .. MAXBITS /\ \A h \in Nat : l <= h <=> k <= 2 ^ h  BY <1>4, <1>5, <3>1, <3>4
      <4>2. IsIndex(k)  BY <3>4 DEF Counted
      <4>3. \A h \in Nat : LowKey(k, 2 ^ h) = IF l <= h THEN 1 ELSE 0  BY <4>1, <4>2 DEF LowKey
      <4>4. countint(k, i) = IF l = i THEN 1 ELSE 0  BY <3>1, <3>4 DEF countint
      <4>5. LowKey(k, 2 ^ i) = IF l <= i THEN 1 ELSE 0  BY <3>2, <4>3
      <4>6. CASE i = 0  BY <4>1, <4>4, <4>5, <4>6
      <4>7. CASE i # 0
        <5>1. i - 1 \in Nat  BY <3>2, <4>7
        <5>2. LowKey(k, 2 ^ (i - 1)) = IF l <= i - 1 THEN 1 ELSE 0  BY <4>3, <5>1
        <5>3. l \in Nat  BY <4>1
        <5> QED  BY <3>2, <4>4, <4>5, <4>7, <5>2, <5>3
      <4> QED  BY <4>6, <4>7
    <3> QED  BY <3>3, <3>4
  <2>11. countint(k, i) \in Nat /\ LowKey(k, 2 ^ (i - 1)) \in Nat /\ LowKey(k, 2 ^ i) \in Nat  BY DEF countint, LowKey
  <2>12. CASE i = 0
    <3>1. a1 = 0 /\ n1 = 0  BY <1>8, <2>5, <2>12, FS_EmptySet
    <3> QED  BY <2>6, <2>7, <2>8, <2>9, <2>10, <2>11, <2>12, <3>1
  <2>13. CASE i # 0
    <3>1. F[i - 1] = a1 + n1 + LowKey(k, 2 ^ (i - 1))
      <4>1. i - 1 \in 0 .. MAXBITS  BY <1>1, <2>13
      <4> QED  BY <1>8, <2>5, <2>13, <4>1
    <3>2. PICK c, low, lower, f, before, m :
            /\ c = countint(k, i) /\ low = LowKey(k, 2 ^ i) /\ lower = LowKey(k, 2 ^ (i - 1))
            /\ f = F[i] /\ before = F[i - 1] /\ m = nums(x, k)[i]
      OBVIOUS
    <3>3. {c, low, lower} \subseteq Nat  BY <2>11, <3>2
    <3>4. /\ f = A + N + low /\ before = a1 + n1 + lower /\ m = a + n + c
          /\ low = c + lower
      BY <2>8, <2>9, <2>10, <2>13, <3>1, <3>2
    <3>5. /\ a \in Nat /\ a1 \in Nat /\ n \in Nat /\ n1 \in Nat
          /\ c \in Nat /\ lower \in Nat
      BY <2>7, <3>3
    <3>6. f = m + before
      <4>1. f = (a1 + a) + (n1 + n) + (c + lower)  BY <2>6, <3>4
      <4> QED  BY <3>4, <3>5, <4>1
    <3> QED  BY <2>13, <3>2, <3>6
  <2> QED  BY <2>12, <2>13
<1>10. DOMAIN nums(x, k) = 0 .. MAXBITS  BY DEF nums
<1>11. F = [i \in 0 .. MAXBITS |-> F[i]]  OBVIOUS
<1>12. F = [i \in 0 .. MAXBITS |-> nums(x, k)[i] + (IF i = 0 THEN 0 ELSE F[i - 1])]  BY <1>9, <1>11
<1> QED  BY <1>10, <1>12 DEF Summing

(* No more entries go to the hash part than its size allows for. *)
LEMMA ToHashIs ==
  ASSUME NEW x, Tab(x), NEW na \in 0 .. 2 ^ MAXBITS
  PROVE  Cardinality(ToHash(x, na)) <= Cardinality(Used(x) \ Low(x, na))
                                       + Cardinality(UsedNodes(x) \ LowNodes(x, na))
<1>1. PICK e, cut : e = Displaced(x, na) /\ cut = IF na < Len(x.array) THEN Len(x.array) - na ELSE 0
  OBVIOUS
<1>2. /\ cut \in Nat /\ Len(e) = cut + sizenode(x) /\ Len(e) \in Nat
      /\ \A i \in 1 .. Len(e) : i <= cut =>
           e[i].key = na + i /\ e[i].val = x.array[na + i] /\ na + i \in 1 .. Len(x.array)
      /\ \A i \in 1 .. Len(e) : i > cut =>
           LET p == sizenode(x) - (i - cut)
           IN p \in DOMAIN x.node /\ e[i].val = x.node[p].val
              /\ e[i].key = (IF x.node[p].val = Nil THEN Nil ELSE x.node[p].key[2])
  BY <1>1, DisplacedIs, SMTT(60)
<1>3. na \in Nat /\ Len(x.array) \in Nat /\ sizenode(x) \in Nat /\ DOMAIN x.array = 1 .. Len(x.array)
  <2>1. 2 ^ MAXBITS \in Nat  BY SizeAssumption, PowerIs
  <2> QED  BY <2>1 DEF Tab
<1>4. PICK A, B : A = {i \in ToHash(x, na) : i <= cut} /\ B = {i \in ToHash(x, na) : i > cut}
  OBVIOUS
<1>5. \A i \in ToHash(x, na) : i \in 1 .. Len(e) /\ e[i].val # Nil /\ ~(IsIndex(e[i].key) /\ e[i].key <= na)
  BY <1>1 DEF ToHash
<1>6. ToHash(x, na) = A \cup B
  <2>1. \A i \in ToHash(x, na) : i <= cut \/ i > cut  BY <1>2, <1>5
  <2> QED  BY <1>4, <2>1
<1>7. PICK U, N : U = Used(x) \ Low(x, na) /\ N = UsedNodes(x) \ LowNodes(x, na)  OBVIOUS
<1>8. IsFiniteSet(U) /\ IsFiniteSet(N)
  <2>1. U \in SUBSET Used(x) /\ N \in SUBSET UsedNodes(x)  BY <1>7
  <2> QED  BY <2>1, UsedFinite, FS_Subset
<1>9. IsFiniteSet(A) /\ Cardinality(A) <= Cardinality(U)
  <2>1. PICK f : f = [i \in A |-> na + i]  OBVIOUS
  <2>2. ASSUME NEW i \in A PROVE na + i \in U
    <3>1. i \in 1 .. Len(e) /\ i <= cut /\ e[i].val # Nil  BY <1>4, <1>5
    <3>2. na + i \in DOMAIN x.array /\ x.array[na + i] # Nil /\ na + i > na  BY <1>2, <1>3, <3>1
    <3>3. na + i \in Used(x)  BY <3>2 DEF Used
    <3>4. ~(na + i <= na)  BY <1>2, <1>3, <3>1
    <3> QED  BY <1>7, <3>3, <3>4 DEF Low
  <2>3. f \in [A -> U]  BY <2>1, <2>2
  <2>4. \A i \in A : i \in Int  BY <1>2, <1>4, <1>5
  <2>5. \A i, j \in A : f[i] = f[j] => i = j  BY <1>3, <2>1, <2>4
  <2>6. f \in Injection(A, U)  BY <2>3, <2>5 DEF Injection, IsInjective
  <2> QED  BY <1>8, <2>6, FS_Injection
<1>10. IsFiniteSet(B) /\ Cardinality(B) <= Cardinality(N)
  <2>1. PICK f : f = [i \in B |-> sizenode(x) - (i - cut)]  OBVIOUS
  <2>2. ASSUME NEW i \in B PROVE sizenode(x) - (i - cut) \in N
    <3>1. PICK p : p = sizenode(x) - (i - cut)  OBVIOUS
    <3>2. i \in 1 .. Len(e) /\ i > cut /\ e[i].val # Nil /\ ~(IsIndex(e[i].key) /\ e[i].key <= na)
      BY <1>4, <1>5
    <3>3. p \in DOMAIN x.node /\ x.node[p].val # Nil /\ e[i].key = x.node[p].key[2]
      BY <1>2, <3>1, <3>2
    <3>4. p \in UsedNodes(x)  BY <3>3 DEF UsedNodes
    <3>5. p \notin LowNodes(x, na)  BY <3>2, <3>3 DEF LowNodes
    <3> QED  BY <1>7, <3>1, <3>4, <3>5
  <2>3. f \in [B -> N]  BY <2>1, <2>2
  <2>4. \A i \in B : i \in Int  BY <1>2, <1>4, <1>5
  <2>5. \A i, j \in B : f[i] = f[j] => i = j  BY <1>2, <1>3, <2>1, <2>4
  <2>6. f \in Injection(B, N)  BY <2>3, <2>5 DEF Injection, IsInjective
  <2> QED  BY <1>8, <2>6, FS_Injection
<1>11. Cardinality(A \cup B) = Cardinality(A) + Cardinality(B) - Cardinality(A \cap B)
       /\ Cardinality(A \cap B) \in Nat
  <2>1. IsFiniteSet(A \cap B)  BY <1>9, FS_Intersection
  <2> QED  BY <1>9, <1>10, <2>1, FS_Union, FS_CardinalityType
<1>12. Cardinality(A) \in Nat /\ Cardinality(B) \in Nat /\ Cardinality(U) \in Nat /\ Cardinality(N) \in Nat
  BY <1>8, <1>9, <1>10, FS_CardinalityType
<1>13. Cardinality(A \cup B) <= Cardinality(U) + Cardinality(N)  BY <1>9, <1>10, <1>11, <1>12
<1> QED  BY <1>6, <1>7, <1>13

(* All keys of a table, and one more, are different ones. *)
LEMMA FieldsFit ==
  ASSUME NEW x, Tab(x), NEW k \in Keys, ~InArray(x, k), NodeOf(x, k) = NULL
  PROVE  Cardinality(Used(x)) + Cardinality(UsedNodes(x)) + 1 <= 2 ^ MAXBITS
<1>1. IsFiniteSet(Keys) /\ Cardinality(Keys) <= 2 ^ MAXBITS /\ 2 ^ MAXBITS \in Nat
  BY SizeAssumption, PowerIs
<1>2. NodesInv(x.node, Homes(x))  BY DEF Tab
<1>3. IsFiniteSet(Used(x)) /\ IsFiniteSet(UsedNodes(x)) /\ Used(x) \subseteq Numbers
      /\ Used(x) \subseteq 1 .. 2 ^ MAXBITS
  BY UsedFinite
<1>4. \A j \in Used(x) : InArray(x, j)
  <2>1. x.array \in Seq(Values \cup {Nil}) /\ Used(x) \subseteq DOMAIN x.array  BY DEF Tab, Used
  <2>2. DOMAIN x.array = 1 .. Len(x.array)  BY <2>1
  <2> QED  BY <1>3, <2>1, <2>2 DEF InArray, IsIndex
<1>5. PICK K : K = Used(x) \cup {k}  OBVIOUS
<1>6. k \notin Used(x) /\ K \in SUBSET Keys  BY <1>3, <1>4, <1>5 DEF Keys
<1>7. IsFiniteSet(K) /\ Cardinality(K) = Cardinality(Used(x)) + 1
  BY <1>3, <1>5, <1>6, FS_AddElement
<1>8. PICK f : f = [n \in UsedNodes(x) |-> Of(x.node, n)]  OBVIOUS
<1>9. ASSUME NEW n \in UsedNodes(x)
      PROVE  n \in DOMAIN x.node /\ Of(x.node, n) \in Keys \ K /\ x.node[n].key[1] = "key"
             /\ x.node[n].key = LiveKey(Of(x.node, n))
  <2>1. n \in DOMAIN x.node /\ x.node[n].val # Nil  BY DEF UsedNodes
  <2>2. x.node[n].key[1] = "key" /\ Taken(x.node, n) /\ x.node[n].key = LiveKey(Of(x.node, n))
        /\ Of(x.node, n) \in Keys
    BY <1>2, <2>1, TakenFacts
  <2>3. ~InArray(x, Of(x.node, n))  BY <2>1, <2>2 DEF Tab
  <2>4. Of(x.node, n) # k
    <3>1. SUFFICES ASSUME x.node[n].key = LiveKey(k) PROVE FALSE  BY <2>2
    <3>2. NULL = n  BY <1>2, <2>1, <3>1, NodeOfIs
    <3> QED  BY <1>2, <2>1, <3>2 DEF NodesInv
  <2> QED  BY <1>4, <1>5, <2>1, <2>2, <2>3, <2>4
<1>10. f \in Injection(UsedNodes(x), Keys \ K)
  <2>1. f \in [UsedNodes(x) -> Keys \ K]  BY <1>8, <1>9
  <2>2. \A a, b \in UsedNodes(x) : f[a] = f[b] => a = b
    <3>1. ASSUME NEW a \in UsedNodes(x), NEW b \in UsedNodes(x), f[a] = f[b] PROVE a = b
      <4>1. x.node[a].key = x.node[b].key /\ x.node[a].key[1] = "key" /\ a \in DOMAIN x.node /\ b \in DOMAIN x.node
        BY <1>8, <1>9, <3>1
      <4> QED  BY <1>2, <4>1, UniqueFacts
    <3> QED  BY <3>1
  <2> QED  BY <2>1, <2>2 DEF Injection, IsInjective
<1>11. IsFiniteSet(Keys \ K) /\ Cardinality(Keys \ K) = Cardinality(Keys) - Cardinality(K)
  <2>1. Keys \cap K = K  BY <1>6
  <2> QED  BY <1>1, <2>1, FS_Difference
<1>12. Cardinality(UsedNodes(x)) <= Cardinality(Keys \ K)  BY <1>10, <1>11, FS_Injection
<1>13. Cardinality(UsedNodes(x)) \in Nat /\ Cardinality(Keys \ K) \in Nat /\ Cardinality(Used(x)) \in Nat
       /\ Cardinality(Keys) \in Nat /\ Cardinality(K) \in Nat
  BY <1>1, <1>3, <1>7, <1>11, FS_CardinalityType
<1> QED  BY <1>1, <1>7, <1>11, <1>12, <1>13

LEMMA SizesAre ==
  ASSUME NEW x, Tab(x), NEW k \in Keys, ~InArray(x, k), NodeOf(x, k) = NULL,
         NEW na, NEW nh, na = Sizes(x, k)[1], nh = Sizes(x, k)[2]
  PROVE  /\ na \in 0 .. 2 ^ MAXBITS /\ nh \in 0 .. 2 ^ MAXBITS
         /\ Cardinality(ToHash(x, na)) + 1 - LowKey(k, na) <= nh
<1>1. MAXBITS \in Nat /\ 2 ^ MAXBITS \in Nat  BY SizeAssumption, PowerIs
<1>2. PICK F : F = [i \in 0 .. MAXBITS |-> Cardinality(Low(x, 2 ^ i)) + Cardinality(LowNodes(x, 2 ^ i))
                                            + LowKey(k, 2 ^ i)]
  OBVIOUS
<1>3. PICK count, c : count = nums(x, k) /\ c = computesizes(count)  OBVIOUS
<1>4. Summing(count, F) /\ DOMAIN count = 0 .. MAXBITS  BY <1>2, <1>3, SumsAre
<1>5. c = <<0, 0>> \/ \E i \in 0 .. MAXBITS : c = <<2 ^ i, F[i]>>
  BY <1>1, <1>3, <1>4, ComputedIs
<1>6. na = c[1] /\ nh = Cardinality(Used(x)) + Cardinality(UsedNodes(x)) + 1 - c[2]
  BY <1>3 DEF Sizes
<1>7. IsFiniteSet(Used(x)) /\ IsFiniteSet(UsedNodes(x)) /\ Used(x) \subseteq 1 .. 2 ^ MAXBITS
      /\ \A n \in UsedNodes(x) : x.node[n].key[2] \in Keys
  BY UsedFinite
<1>8. na \in 0 .. 2 ^ MAXBITS /\ c[2] = Cardinality(Low(x, na)) + Cardinality(LowNodes(x, na)) + LowKey(k, na)
  <2>1. CASE c = <<0, 0>>
    <3>1. na = 0 /\ c[2] = 0  BY <1>6, <2>1
    <3>2. \A j : IsIndex(j) => ~(j <= 0)
      <4>1. \A j \in Numbers : j \in Int  BY HashAssumption
      <4> QED  BY <4>1 DEF IsIndex
    <3>3. Low(x, 0) = {} /\ LowNodes(x, 0) = {} /\ LowKey(k, 0) = 0
      <4>1. \A j \in Used(x) : ~(j <= 0)  BY <1>1, <1>7
      <4> QED  BY <3>2, <4>1 DEF Low, LowNodes, LowKey
    <3>4. Cardinality(Low(x, 0)) = 0 /\ Cardinality(LowNodes(x, 0)) = 0  BY <3>3, FS_EmptySet
    <3> QED  BY <1>1, <3>1, <3>3, <3>4
  <2>2. CASE \E i \in 0 .. MAXBITS : c = <<2 ^ i, F[i]>>
    <3>1. PICK i \in 0 .. MAXBITS : c = <<2 ^ i, F[i]>>  BY <2>2
    <3>2. i \in Nat /\ i <= MAXBITS  BY <1>1
    <3>3. 2 ^ i \in Nat /\ 2 ^ i <= 2 ^ MAXBITS  BY <1>1, <3>2, PowerIs
    <3>4. na = 2 ^ i /\ c[2] = F[i]  BY <1>6, <3>1
    <3>5. F[i] = Cardinality(Low(x, na)) + Cardinality(LowNodes(x, na)) + LowKey(k, na)  BY <1>2, <3>4
    <3> QED  BY <1>1, <3>3, <3>4, <3>5
  <2> QED  BY <1>5, <2>1, <2>2
<1>9. PICK L, LN : L = Low(x, na) /\ LN = LowNodes(x, na)  OBVIOUS
<1>10. L \in SUBSET Used(x) /\ LN \in SUBSET UsedNodes(x)  BY <1>9 DEF Low, LowNodes
<1>11. /\ IsFiniteSet(L) /\ IsFiniteSet(LN) /\ IsFiniteSet(Used(x) \ L) /\ IsFiniteSet(UsedNodes(x) \ LN)
       /\ Cardinality(Used(x) \ L) = Cardinality(Used(x)) - Cardinality(L)
       /\ Cardinality(UsedNodes(x) \ LN) = Cardinality(UsedNodes(x)) - Cardinality(LN)
  <2>1. Used(x) \cap L = L /\ UsedNodes(x) \cap LN = LN  BY <1>10
  <2>2. IsFiniteSet(L) /\ IsFiniteSet(LN)  BY <1>7, <1>10, FS_Subset
  <2>3. IsFiniteSet(Used(x) \ L) /\ Cardinality(Used(x) \ L) = Cardinality(Used(x)) - Cardinality(L)
    BY <1>7, <2>1, FS_Difference, ZenonT(60)
  <2>4. IsFiniteSet(UsedNodes(x) \ LN) /\ Cardinality(UsedNodes(x) \ LN) = Cardinality(UsedNodes(x)) - Cardinality(LN)
    BY <1>7, <2>1, FS_Difference, ZenonT(60)
  <2> QED  BY <2>2, <2>3, <2>4
<1>12. PICK u, n, l, ln, ul, nl, th :
         /\ u = Cardinality(Used(x)) /\ n = Cardinality(UsedNodes(x)) /\ l = Cardinality(L)
         /\ ln = Cardinality(LN) /\ ul = Cardinality(Used(x) \ L) /\ nl = Cardinality(UsedNodes(x) \ LN)
         /\ th = Cardinality(ToHash(x, na))
  OBVIOUS
<1>13. u \in Nat /\ n \in Nat /\ l \in Nat /\ ln \in Nat /\ ul \in Nat /\ nl \in Nat
  BY <1>7, <1>11, <1>12, FS_CardinalityType
<1>14. th \in Nat
  <2>1. Len(Displaced(x, na)) \in Nat
    <3>1. PICK cut : cut = IF na < Len(x.array) THEN Len(x.array) - na ELSE 0  OBVIOUS
    <3> QED  BY <1>8, <3>1, DisplacedIs
  <2>2. IsFiniteSet(1 .. Len(Displaced(x, na)))  BY <2>1, FS_Interval
  <2>3. ToHash(x, na) \in SUBSET (1 .. Len(Displaced(x, na)))  BY DEF ToHash
  <2>4. IsFiniteSet(ToHash(x, na))  BY <2>2, <2>3, FS_Subset
  <2> QED  BY <1>12, <2>4, FS_CardinalityType
<1>15. th <= ul + nl  BY <1>8, <1>9, <1>12, ToHashIs
<1>16. u + n + 1 <= 2 ^ MAXBITS  BY <1>12, FieldsFit
<1>17. LowKey(k, na) \in {0, 1}  BY DEF LowKey
<1>18. ul = u - l /\ nl = n - ln /\ nh = u + n + 1 - (l + ln + LowKey(k, na))
  BY <1>6, <1>8, <1>9, <1>11, <1>12
<1>19. nh \in Nat /\ nh <= u + n + 1 /\ th + 1 - LowKey(k, na) <= nh
  BY <1>13, <1>14, <1>15, <1>17, <1>18
<1> QED  BY <1>1, <1>8, <1>12, <1>13, <1>16, <1>19

(* The indexes up to n of x, and k. *)
Below(x, k, n) == {i \in IndexesOf(x) \cup ({k} \cap {i \in Numbers : i > 0}) : i <= n}

(* They are what the slices count. *)
LEMMA CountIs ==
  ASSUME NEW x, Tab(x), NEW k \in Keys, ~InArray(x, k), NodeOf(x, k) = NULL, NEW n \in Nat
  PROVE  Cardinality(Below(x, k, n)) = Cardinality(Low(x, n)) + Cardinality(LowNodes(x, n)) + LowKey(k, n)
<1>1. NodesInv(x.node, Homes(x)) /\ x.array \in Seq(Values \cup {Nil})  BY DEF Tab
<1>2. \A j \in Numbers : j \in Int /\ j \in Keys  BY HashAssumption DEF Keys
<1>3. PICK A, N, B : A = Low(x, n) /\ N = LowNodes(x, n) /\ B = Below(x, k, n)  OBVIOUS
<1>4. PICK f : f = [p \in N |-> Of(x.node, p)]  OBVIOUS
<1>5. PICK M : M = {f[p] : p \in N}  OBVIOUS
<1>6. PICK K : K = IF IsIndex(k) /\ k <= n THEN {k} ELSE {}  OBVIOUS
<1>7. ASSUME NEW j \in Used(x)
      PROVE  j \in Numbers /\ IsIndex(j) /\ InArray(x, j) /\ luaH_get(x, j) # Nil
  <2>1. j \in Numbers /\ j \in DOMAIN x.array /\ x.array[j] # Nil  BY UsedFinite DEF Used
  <2>2. j \in 1 .. Len(x.array)  BY <1>1, <2>1
  <2>3. IsIndex(j) /\ InArray(x, j)  BY <1>1, <2>1, <2>2 DEF IsIndex, InArray
  <2> QED  BY <2>1, <2>3 DEF luaH_get
<1>8. ASSUME NEW p \in UsedNodes(x)
      PROVE  /\ p \in DOMAIN x.node /\ x.node[p].key = LiveKey(Of(x.node, p)) /\ Of(x.node, p) \in Keys
             /\ x.node[p].key[1] = "key" /\ ~InArray(x, Of(x.node, p)) /\ Of(x.node, p) # k
             /\ luaH_get(x, Of(x.node, p)) # Nil
  <2>1. p \in DOMAIN x.node /\ x.node[p].val # Nil  BY DEF UsedNodes
  <2>2. x.node[p].key[1] = "key" /\ Taken(x.node, p) /\ x.node[p].key = LiveKey(Of(x.node, p))
        /\ Of(x.node, p) \in Keys
    BY <1>1, <2>1, TakenFacts
  <2>3. ~InArray(x, Of(x.node, p))  BY <2>1, <2>2 DEF Tab
  <2>4. Of(x.node, p) # k
    <3>1. SUFFICES ASSUME x.node[p].key = LiveKey(k) PROVE FALSE  BY <2>2
    <3>2. NULL = p  BY <1>1, <2>1, <3>1, NodeOfIs
    <3> QED  BY <1>1, <2>1, <3>2 DEF NodesInv
  <2>5. luaH_get(x, Of(x.node, p)) = x.node[p].val
    <3>1. Binds(x.node, Of(x.node, p), x.node[p].val)  BY <2>1, <2>2 DEF Binds
    <3> QED  BY <1>1, <2>1, <2>2, <2>3, <3>1, GetIs
  <2> QED  BY <2>1, <2>2, <2>3, <2>4, <2>5
<1>9. \A p \in N : p \in UsedNodes(x) /\ f[p] = Of(x.node, p) /\ IsIndex(f[p]) /\ f[p] <= n
  BY <1>3, <1>4 DEF LowNodes, Of
<1>10. ASSUME NEW j \in IndexesOf(x), j <= n PROVE j \in A \cup M
  <2>1. j \in Keys /\ IsIndex(j) /\ luaH_get(x, j) # Nil  BY DEF IndexesOf
  <2>2. CASE InArray(x, j)
    <3>1. x.array[j] # Nil  BY <2>1, <2>2 DEF luaH_get
    <3>2. j \in DOMAIN x.array  BY <1>1, <1>2, <2>2 DEF InArray, IsIndex
    <3> QED  BY <1>3, <1>10, <3>1, <3>2 DEF Low, Used
  <2>3. CASE ~InArray(x, j)
    <3>1. PICK p \in DOMAIN x.node : x.node[p].key = LiveKey(j) /\ x.node[p].val = luaH_get(x, j)
      BY <1>1, <2>1, <2>3, GetIs DEF Binds
    <3>2. p \in UsedNodes(x) /\ x.node[p].key[2] = j  BY <2>1, <3>1, KeyFacts DEF UsedNodes
    <3>3. p \in N  BY <1>3, <1>10, <2>1, <3>2 DEF LowNodes
    <3>4. f[p] = j  BY <1>9, <3>2, <3>3 DEF Of
    <3> QED  BY <1>5, <3>3, <3>4
  <2> QED  BY <2>2, <2>3
<1>11. B = (A \cup M) \cup K
  <2>1. \A j \in A : j \in IndexesOf(x) /\ j <= n  BY <1>2, <1>3, <1>7 DEF Low, IndexesOf
  <2>2. \A j \in M : j \in IndexesOf(x) /\ j <= n  BY <1>5, <1>8, <1>9 DEF IndexesOf
  <2>3. K = {j \in {k} : IsIndex(j) /\ j <= n}  BY <1>6
  <2>4. \A j \in IndexesOf(x) : j <= n => j \in A \cup M  BY <1>10
  <2> QED  BY <1>3, <2>1, <2>2, <2>3, <2>4 DEF Below, IsIndex
<1>12. A \cap M = {} /\ (A \cup M) \cap K = {}
  <2>1. \A j \in A : InArray(x, j)  BY <1>3, <1>7 DEF Low
  <2>2. \A j \in M : ~InArray(x, j) /\ j # k  BY <1>5, <1>8, <1>9
  <2> QED  BY <1>6, <2>1, <2>2
<1>13. IsFiniteSet(A) /\ IsFiniteSet(N)
  <2>1. A \in SUBSET Used(x) /\ N \in SUBSET UsedNodes(x)  BY <1>3 DEF Low, LowNodes
  <2> QED  BY <2>1, UsedFinite, FS_Subset
<1>14. IsFiniteSet(M) /\ Cardinality(M) = Cardinality(N)
  <2>1. f \in [N -> M] /\ \A y \in M : \E p \in N : f[p] = y  BY <1>4, <1>5
  <2>2. \A a, b \in N : f[a] = f[b] => a = b
    <3>1. ASSUME NEW a \in N, NEW b \in N, f[a] = f[b] PROVE a = b
      <4>1. x.node[a].key = x.node[b].key /\ x.node[a].key[1] = "key" /\ a \in DOMAIN x.node /\ b \in DOMAIN x.node
        BY <1>8, <1>9, <3>1
      <4> QED  BY <1>1, <4>1, UniqueFacts
    <3> QED  BY <3>1
  <2>3. f \in Bijection(N, M)  BY <2>1, <2>2 DEF Bijection, Injection, IsInjective, Surjection
  <2>4. ExistsBijection(N, M)  BY <2>3 DEF ExistsBijection
  <2> QED  BY <1>13, <2>4, FS_Bijection
<1>15. IsFiniteSet(K) /\ Cardinality(K) = LowKey(k, n)
  BY <1>6, FS_EmptySet, FS_Singleton DEF LowKey
<1>16. IsFiniteSet(A \cup M) /\ Cardinality(A \cup M) = Cardinality(A) + Cardinality(M)
  <2>1. IsFiniteSet(A \cup M)
        /\ Cardinality(A \cup M) = Cardinality(A) + Cardinality(M) - Cardinality(A \cap M)
    BY <1>13, <1>14, FS_Union
  <2>2. Cardinality(A \cap M) = 0  BY <1>12, FS_EmptySet
  <2>3. Cardinality(A) \in Nat /\ Cardinality(M) \in Nat  BY <1>13, <1>14, FS_CardinalityType
  <2> QED  BY <2>1, <2>2, <2>3
<1>17. PICK U : U = A \cup M  OBVIOUS
<1>18. Cardinality(U \cup K) = Cardinality(U) + Cardinality(K) - Cardinality(U \cap K)
  BY <1>15, <1>16, <1>17, FS_Union
<1>19. Cardinality(U \cap K) = 0  BY <1>12, <1>17, FS_EmptySet
<1>20. Cardinality(U) \in Nat /\ Cardinality(K) \in Nat
  BY <1>15, <1>16, <1>17, FS_CardinalityType
<1>21. Cardinality(U \cup K) = Cardinality(U) + Cardinality(K)  BY <1>18, <1>19, <1>20
<1> QED  BY <1>3, <1>11, <1>14, <1>15, <1>16, <1>17, <1>21

LEMMA BelowFew ==
  ASSUME NEW x, NEW k \in Keys, NEW n \in Nat
  PROVE  Cardinality(Below(x, k, n)) \in Nat /\ Cardinality(Below(x, k, n)) <= n
<1>1. \A j \in Numbers : j \in Int  BY HashAssumption
<1>2. Below(x, k, n) \in SUBSET (1 .. n)  BY <1>1 DEF Below, IndexesOf, IsIndex
<1>3. IsFiniteSet(1 .. n) /\ Cardinality(1 .. n) = n  BY FS_Interval
<1> QED  BY <1>2, <1>3, FS_Subset, FS_CardinalityType

(* So the new array part is the largest that is more than half full. *)
LEMMA HalfIs ==
  ASSUME NEW x, Tab(x), NEW k \in Keys, ~InArray(x, k), NodeOf(x, k) = NULL,
         NEW na, na = Sizes(x, k)[1]
  PROVE  /\ na > 0 => 2 * Cardinality(Below(x, k, na)) > na
         /\ \A i \in 0 .. MAXBITS : 2 ^ i > na => ~(2 * Cardinality(Below(x, k, 2 ^ i)) > 2 ^ i)
<1>1. MAXBITS \in Nat  BY SizeAssumption
<1>2. PICK F : F = [i \in 0 .. MAXBITS |-> Cardinality(Low(x, 2 ^ i)) + Cardinality(LowNodes(x, 2 ^ i))
                                            + LowKey(k, 2 ^ i)]
  OBVIOUS
<1>3. PICK count, c : count = nums(x, k) /\ c = computesizes(count)  OBVIOUS
<1>4. Summing(count, F) /\ DOMAIN count = 0 .. MAXBITS  BY <1>2, <1>3, SumsAre
<1>5. \/ c = <<0, 0>> /\ \A j \in 0 .. MAXBITS : ~Full(count, F, j)
      \/ \E i \in 0 .. MAXBITS : /\ c = <<2 ^ i, F[i]>> /\ Full(count, F, i)
                                 /\ \A j \in 0 .. MAXBITS : Full(count, F, j) => j <= i
  BY <1>1, <1>3, <1>4, ComputedIs
<1>6. na = c[1]  BY <1>3 DEF Sizes
<1>7. ASSUME NEW i \in 0 .. MAXBITS
      PROVE  2 ^ i \in Nat /\ F[i] = Cardinality(Below(x, k, 2 ^ i)) /\ F[i] \in Nat /\ F[i] <= 2 ^ i
  <2>1. PICK n : n = 2 ^ i  OBVIOUS
  <2>2. n \in Nat  BY <1>1, <2>1, PowerIs
  <2>3. F[i] = Cardinality(Below(x, k, n))  BY <1>2, <2>1, <2>2, CountIs
  <2> QED  BY <2>1, <2>2, <2>3, BelowFew
<1>8. \A i \in 0 .. MAXBITS : count[i] \in Int /\ F[i] = count[i] + (IF i = 0 THEN 0 ELSE F[i - 1])
  <2>1. PICK w : w = F  OBVIOUS
  <2>2. w = [i \in 0 .. MAXBITS |-> count[i] + (IF i = 0 THEN 0 ELSE F[i - 1])]
    BY <1>4, <2>1 DEF Summing
  <2>3. ASSUME NEW i \in 0 .. MAXBITS PROVE count[i] \in Int
    <3>1. count[i] = numusearray(x, i) + numusehash(x, i) + countint(k, i)  BY <1>3, <2>3 DEF nums
    <3>2. numusearray(x, i) \in Nat
      <4>1. {j \in Used(x) : ceillog2(j) = i} \in SUBSET Used(x)  OBVIOUS
      <4> QED  BY <4>1, UsedFinite, FS_Subset, FS_CardinalityType DEF numusearray
    <3>3. numusehash(x, i) \in Nat
      <4>1. {n \in UsedNodes(x) : Counted(x.node[n].key[2]) /\ ceillog2(x.node[n].key[2]) = i}
              \in SUBSET UsedNodes(x)
        OBVIOUS
      <4> QED  BY <4>1, UsedFinite, FS_Subset, FS_CardinalityType DEF numusehash
    <3>4. countint(k, i) \in Nat  BY DEF countint
    <3> QED  BY <3>1, <3>2, <3>3, <3>4
  <2> QED  BY <2>1, <2>2, <2>3
<1>9. ASSUME NEW i \in 0 .. MAXBITS, ~Full(count, F, i) PROVE ~(2 * F[i] > 2 ^ i)
  <2>1. CASE count[i] > 0
    <3>1. PICK n, u : n = 2 ^ i /\ u = F[i]  OBVIOUS
    <3>2. n \in Nat /\ u \in Nat  BY <1>7, <3>1
    <3>3. ~(u > n \div 2)  BY <1>9, <2>1, <3>1 DEF Full
    <3>4. ~(2 * u > n)  BY <3>2, <3>3
    <3> QED  BY <3>1, <3>4
  <2>2. CASE ~(count[i] > 0) /\ i = 0
    <3>1. F[i] = count[i] /\ F[i] \in Nat /\ count[i] \in Int  BY <1>7, <1>8, <2>2
    <3>2. F[i] = 0  BY <2>2, <3>1
    <3>3. 2 ^ i \in Nat  BY <1>7
    <3> QED  BY <3>2, <3>3
  <2>3. CASE ~(count[i] > 0) /\ i # 0
    <3>1. PICK h : h = i - 1  OBVIOUS
    <3>2. h \in 0 .. MAXBITS /\ h \in Nat /\ h + 1 = i  BY <1>1, <2>3, <3>1
    <3>3. F[i] = count[i] + F[h] /\ count[i] \in Int  BY <1>8, <2>3, <3>1
    <3>4. F[h] \in Nat /\ F[h] <= 2 ^ h /\ 2 ^ h \in Nat  BY <1>7, <3>2
    <3>5. 2 ^ i = 2 * 2 ^ h  BY <3>2, Doubles
    <3>6. PICK a, b, u : a = 2 ^ h /\ b = 2 ^ i /\ u = F[i]  OBVIOUS
    <3>7. a \in Nat /\ b = 2 * a /\ u \in Nat /\ u <= a  BY <1>7, <2>3, <3>3, <3>4, <3>5, <3>6
    <3>8. ~(2 * u > b)  BY <3>7
    <3> QED  BY <3>6, <3>8
  <2> QED  BY <2>1, <2>2, <2>3
<1>10. CASE c = <<0, 0>> /\ \A j \in 0 .. MAXBITS : ~Full(count, F, j)
  <2>1. na = 0  BY <1>6, <1>10
  <2> QED  BY <1>7, <1>9, <1>10, <2>1
<1>11. CASE \E i \in 0 .. MAXBITS : /\ c = <<2 ^ i, F[i]>> /\ Full(count, F, i)
                                    /\ \A j \in 0 .. MAXBITS : Full(count, F, j) => j <= i
  <2>1. PICK i \in 0 .. MAXBITS : /\ c = <<2 ^ i, F[i]>> /\ Full(count, F, i)
                                  /\ \A j \in 0 .. MAXBITS : Full(count, F, j) => j <= i
    BY <1>11
  <2>2. na = 2 ^ i  BY <1>6, <2>1
  <2>3. 2 * Cardinality(Below(x, k, na)) > na
    <3>1. PICK n, u : n = 2 ^ i /\ u = F[i]  OBVIOUS
    <3>2. n \in Nat /\ u \in Nat /\ u = Cardinality(Below(x, k, n))  BY <1>7, <3>1
    <3>3. u > n \div 2  BY <2>1, <3>1 DEF Full
    <3>4. 2 * u > n  BY <3>2, <3>3
    <3> QED  BY <2>2, <3>1, <3>2, <3>4
  <2>4. ASSUME NEW j \in 0 .. MAXBITS, 2 ^ j > na PROVE ~(2 * Cardinality(Below(x, k, 2 ^ j)) > 2 ^ j)
    <3>1. ~(j <= i)
      <4>1. SUFFICES ASSUME j <= i PROVE FALSE  OBVIOUS
      <4>2. i \in Nat /\ j \in Nat  BY <1>1
      <4>3. 2 ^ j <= 2 ^ i /\ 2 ^ i \in Nat /\ 2 ^ j \in Nat  BY <4>1, <4>2, PowerIs
      <4> QED  BY <2>2, <2>4, <4>3
    <3>2. ~Full(count, F, j)  BY <2>1, <3>1
    <3> QED  BY <1>7, <1>9, <3>2
  <2> QED  BY <2>3, <2>4
<1> QED  BY <1>5, <1>10, <1>11

-----------------------------------------------------------------------------
(* The operations *)
LEMMA RehashIs ==
  ASSUME NEW x, Tab(x), NEW k \in Keys, ~InArray(x, k), NodeOf(x, k) = NULL, NEW z, z = rehash(x, k)
  PROVE  /\ Tab(z) /\ \A j \in Keys : luaH_get(z, j) = luaH_get(x, j)
         /\ InArray(z, k) \/ ~NoRoom(z, k)
         /\ Len(z.array) = Sizes(x, k)[1] /\ Pow(z)
<1>1. PICK na, nh : na = Sizes(x, k)[1] /\ nh = Sizes(x, k)[2]  OBVIOUS
<1>2. /\ na \in 0 .. 2 ^ MAXBITS /\ nh \in 0 .. 2 ^ MAXBITS
      /\ Cardinality(ToHash(x, na)) + 1 - LowKey(k, na) <= nh
  BY <1>1, SizesAre
<1>3. z = resize(x, na, nh)  BY <1>1 DEF rehash
<1>4. 2 ^ MAXBITS \in Nat /\ na \in Nat /\ nh \in Nat
  <2>1. 2 ^ MAXBITS \in Nat  BY SizeAssumption, PowerIs
  <2> QED  BY <1>2, <2>1
<1>5. Cardinality(ToHash(x, na)) \in Nat
  <2>1. Len(Displaced(x, na)) \in Nat
    <3>1. PICK cut : cut = IF na < Len(x.array) THEN Len(x.array) - na ELSE 0  OBVIOUS
    <3> QED  BY <1>2, <3>1, DisplacedIs
  <2>2. IsFiniteSet(1 .. Len(Displaced(x, na)))  BY <2>1, FS_Interval
  <2>3. ToHash(x, na) \in SUBSET (1 .. Len(Displaced(x, na)))  BY DEF ToHash
  <2>4. IsFiniteSet(ToHash(x, na))  BY <2>2, <2>3, FS_Subset
  <2> QED  BY <2>4, FS_CardinalityType
<1>6. LowKey(k, na) \in {0, 1}  BY DEF LowKey
<1>7. Cardinality(ToHash(x, na)) <= nh  BY <1>2, <1>4, <1>5, <1>6
<1>8. /\ Tab(z) /\ Len(z.array) = na /\ sizenode(z) >= nh /\ sizenode(z) = NodeSize(nh) /\ (nh # 0 => ~z.dummy)
      /\ Cardinality(TakenNodes(z)) <= Cardinality(ToHash(x, na))
      /\ \A j \in Keys : luaH_get(z, j) = luaH_get(x, j)
  BY <1>2, <1>3, <1>7, ResizeKeeps
<1>9. ASSUME ~InArray(z, k) PROVE ~NoRoom(z, k)
  <2>1. LowKey(k, na) = 0  BY <1>8, <1>9 DEF LowKey, InArray
  <2>2. sizenode(z) \in Nat /\ IsFiniteSet(DOMAIN z.node)
    <3>1. sizenode(z) \in Nat /\ DOMAIN z.node = 0 .. sizenode(z) - 1  BY <1>4, <1>8 DEF Tab
    <3> QED  BY <3>1, FS_Interval
  <2>3. TakenNodes(z) \in SUBSET DOMAIN z.node  BY DEF TakenNodes
  <2>4. Cardinality(TakenNodes(z)) \in Nat  BY <2>2, <2>3, FS_Subset, FS_CardinalityType
  <2>5. nh # 0 /\ Cardinality(TakenNodes(z)) < sizenode(z)
    BY <1>2, <1>4, <1>5, <1>8, <2>1, <2>2, <2>4
  <2> QED  BY <1>8, <2>5, HasRoom
<1>10. Pow(z)  BY <1>2, <1>8, NodeSizeIs DEF Pow
<1> QED  BY <1>1, <1>8, <1>9, <1>10

LEMMA SetIs ==
  ASSUME NEW x, Tab(x), NEW k \in Keys, NEW v \in Values \cup {Nil}, NEW y, y = luaH_set(x, k, v)
  PROVE  Tab(y) /\ \A j \in Keys : luaH_get(y, j) = IF j = k THEN v ELSE luaH_get(x, j)
<1>1. PICK z, grown : z = rehash(x, k) /\ grown = Assigned(z, k, v, Overfull)  OBVIOUS
<1>2. y = Assigned(x, k, v, grown)  BY <1>1 DEF luaH_set
<1>3. CASE InArray(x, k) \/ NodeOf(x, k) # NULL \/ ~NoRoom(x, k)
  BY <1>2, <1>3, AssignedIs
<1>4. CASE ~InArray(x, k) /\ NodeOf(x, k) = NULL /\ NoRoom(x, k)
  <2>1. y = grown  BY <1>2, <1>4 DEF Assigned
  <2>2. /\ Tab(z) /\ \A j \in Keys : luaH_get(z, j) = luaH_get(x, j)
        /\ InArray(z, k) \/ ~NoRoom(z, k)
    BY <1>1, <1>4, RehashIs
  <2>3. Tab(y) /\ \A j \in Keys : luaH_get(y, j) = IF j = k THEN v ELSE luaH_get(z, j)
    BY <1>1, <2>1, <2>2, AssignedIs
  <2> QED  BY <2>2, <2>3
<1> QED  BY <1>3, <1>4

(* A reorganised table has the array part that rehash asks for. *)
LEMMA FullSize ==
  ASSUME NEW x, Tab(x), NEW k \in Keys, NEW v \in Values \cup {Nil}, NEW y, y = luaH_set(x, k, v),
         ~InArray(x, k), NodeOf(x, k) = NULL, NoRoom(x, k)
  PROVE  Len(y.array) = Sizes(x, k)[1] /\ Pow(y)
<1>1. PICK z, grown : z = rehash(x, k) /\ grown = Assigned(z, k, v, Overfull)  OBVIOUS
<1>2. y = Assigned(x, k, v, grown)  BY <1>1 DEF luaH_set
<1>3. y = grown  BY <1>2 DEF Assigned
<1>4. /\ Tab(z) /\ (InArray(z, k) \/ ~NoRoom(z, k))
      /\ Len(z.array) = Sizes(x, k)[1] /\ Pow(z)
  BY <1>1, RehashIs
<1>5. Len(y.array) = Len(z.array) /\ DOMAIN y.node = DOMAIN z.node
  BY <1>1, <1>3, <1>4, AssignedIs
<1>6. sizenode(y) = sizenode(z)  BY <1>5, SameNodes
<1> QED  BY <1>4, <1>5, <1>6 DEF Pow

(* Only a rehash changes the size of the hash part. *)
LEMMA SetSize ==
  ASSUME NEW x, Tab(x), NEW k \in Keys, NEW v \in Values \cup {Nil}, NEW y, y = luaH_set(x, k, v),
         sizenode(y) # sizenode(x)
  PROVE  Pow(y)
<1>1. PICK grown : y = Assigned(x, k, v, grown)  BY DEF luaH_set
<1>2. ~InArray(x, k) /\ NodeOf(x, k) = NULL /\ NoRoom(x, k)
  <2>1. SUFFICES ASSUME InArray(x, k) \/ NodeOf(x, k) # NULL \/ ~NoRoom(x, k) PROVE FALSE  OBVIOUS
  <2>2. DOMAIN y.node = DOMAIN x.node  BY <1>1, <2>1, AssignedIs
  <2> QED  BY <2>2, SameNodes
<1> QED  BY <1>2, FullSize

LEMMA PresizeIs ==
  ASSUME NEW x, Tab(x), NEW n \in Presizes, n > Len(x.array), NEW y, y = luaH_resizearray(x, n)
  PROVE  /\ Tab(y) /\ \A j \in Keys : luaH_get(y, j) = luaH_get(x, j)
         /\ sizenode(y) = NodeSize(IF x.dummy THEN 0 ELSE sizenode(x))
<1>1. PICK nh : nh = IF x.dummy THEN 0 ELSE sizenode(x)  OBVIOUS
<1>2. y = resize(x, n, nh)  BY <1>1 DEF luaH_resizearray
<1>3. 2 ^ MAXBITS \in Nat /\ n \in 0 .. 2 ^ MAXBITS  BY SizeAssumption, PowerIs
<1>4. sizenode(x) \in Nat /\ nh \in 0 .. 2 ^ MAXBITS /\ DOMAIN x.node = 0 .. sizenode(x) - 1
      /\ Len(x.array) \in Nat /\ DOMAIN x.array = 1 .. Len(x.array)
  BY <1>1, <1>3 DEF Tab
<1>5. Used(x) \ Low(x, n) = {}
  <2>1. \A j \in Used(x) : j <= n  BY <1>3, <1>4 DEF Used
  <2> QED  BY <2>1 DEF Low
<1>6. IsFiniteSet(UsedNodes(x)) /\ Cardinality(UsedNodes(x)) <= nh
  <2>1. UsedNodes(x) \in SUBSET DOMAIN x.node /\ IsFiniteSet(DOMAIN x.node)
    BY <1>4, FS_Interval DEF UsedNodes
  <2>2. IsFiniteSet(UsedNodes(x)) /\ Cardinality(UsedNodes(x)) <= sizenode(x)
    BY <2>1, FS_Subset DEF sizenode
  <2>3. CASE x.dummy
    <3>1. x.node = [p \in {0} |-> FreeNode]  BY <2>3 DEF Tab
    <3>2. UsedNodes(x) = {}  BY <3>1 DEF UsedNodes, FreeNode
    <3> QED  BY <1>1, <2>2, <2>3, <3>2, FS_EmptySet
  <2>4. CASE ~x.dummy  BY <1>1, <2>2, <2>4
  <2> QED  BY <2>3, <2>4
<1>7. Cardinality(ToHash(x, n)) <= nh
  <2>1. UsedNodes(x) \ LowNodes(x, n) \in SUBSET UsedNodes(x)  OBVIOUS
  <2>2. Cardinality(UsedNodes(x) \ LowNodes(x, n)) <= Cardinality(UsedNodes(x))
        /\ Cardinality(UsedNodes(x) \ LowNodes(x, n)) \in Nat /\ Cardinality(UsedNodes(x)) \in Nat
    BY <1>6, <2>1, FS_Subset, FS_CardinalityType
  <2>3. Cardinality(ToHash(x, n)) <= 0 + Cardinality(UsedNodes(x) \ LowNodes(x, n))
    BY <1>3, <1>5, ToHashIs, FS_EmptySet
  <2>4. Cardinality(ToHash(x, n)) \in Nat
    <3>1. Len(Displaced(x, n)) \in Nat
      <4>1. PICK cut : cut = IF n < Len(x.array) THEN Len(x.array) - n ELSE 0  OBVIOUS
      <4> QED  BY <1>3, <4>1, DisplacedIs
    <3>2. IsFiniteSet(1 .. Len(Displaced(x, n)))  BY <3>1, FS_Interval
    <3>3. ToHash(x, n) \in SUBSET (1 .. Len(Displaced(x, n)))  BY DEF ToHash
    <3>4. IsFiniteSet(ToHash(x, n))  BY <3>2, <3>3, FS_Subset
    <3> QED  BY <3>4, FS_CardinalityType
  <2>5. nh \in Nat  BY <1>3, <1>4
  <2> QED  BY <1>6, <2>2, <2>3, <2>4, <2>5
<1> QED  BY <1>1, <1>2, <1>3, <1>4, <1>7, ResizeKeeps

(* Marking keys as dead changes no field, and no chain. *)
Cleaned(x) ==
  [n \in DOMAIN x.node |->
     IF x.node[n].val = Nil /\ x.node[n].key[1] = "key" /\ x.node[n].key[2] \notin Numbers
     THEN [x.node[n] EXCEPT !.key = DeadKey(x.node[n].key[2])] ELSE x.node[n]]
LEMMA CleanedIs ==
  ASSUME NEW x, Tab(x), NEW y, y = [x EXCEPT !.node = Cleaned(x)]
  PROVE  /\ Tab(y) /\ y.array = x.array /\ DOMAIN y.node = DOMAIN x.node
         /\ \A j \in Keys : luaH_get(y, j) = luaH_get(x, j)
         /\ \A p \in DOMAIN x.node : /\ y.node[p].next = x.node[p].next /\ y.node[p].val = x.node[p].val
                                     /\ Of(y.node, p) = Of(x.node, p)
                                     /\ Taken(y.node, p) <=> Taken(x.node, p)
<1>1. PICK f, g : f = x.node /\ g = Cleaned(x)  OBVIOUS
<1>2. NodesInv(f, Homes(x))  BY <1>1 DEF Tab
<1>3. DOMAIN g = DOMAIN f  BY <1>1 DEF Cleaned
<1>4. ASSUME NEW p \in DOMAIN f
      PROVE  /\ g[p] \in Slots /\ g[p].next = f[p].next /\ g[p].val = f[p].val /\ Of(g, p) = Of(f, p)
             /\ Taken(g, p) <=> Taken(f, p)
             /\ g[p] = f[p] \/ (f[p].val = Nil /\ f[p].key[1] = "key" /\ g[p].key = DeadKey(Of(f, p))
                                /\ g[p].key[1] = "dead")
  <2>1. f[p] \in Slots  BY <1>2, TakenFacts
  <2>2. CASE f[p].val = Nil /\ f[p].key[1] = "key" /\ f[p].key[2] \notin Numbers
    <3>1. g[p] = [f[p] EXCEPT !.key = DeadKey(f[p].key[2])]  BY <1>1, <2>2 DEF Cleaned
    <3>2. f[p].key[2] \in Keys /\ Taken(f, p)  BY <1>2, <2>2, TakenFacts DEF Of
    <3>3. DeadKey(f[p].key[2]) \in Cells  BY <3>2 DEF Cells
    <3>4. g[p] \in Slots /\ g[p].next = f[p].next /\ g[p].val = f[p].val /\ g[p].key = DeadKey(f[p].key[2])
      BY <2>1, <3>1, <3>3 DEF Slots
    <3>5. g[p].key[2] = f[p].key[2] /\ g[p].key[1] = "dead" /\ g[p].key # NoKey
      <4>1. PICK c, d : c = f[p].key[2] /\ d = g[p].key  OBVIOUS
      <4>2. d = DeadKey(c)  BY <3>4, <4>1
      <4>3. d[2] = c /\ d[1] = "dead" /\ d # NoKey  BY <4>2, KeyFacts
      <4> QED  BY <4>1, <4>3
    <3> QED  BY <2>2, <3>2, <3>4, <3>5 DEF Of, Taken
  <2>3. CASE ~(f[p].val = Nil /\ f[p].key[1] = "key" /\ f[p].key[2] \notin Numbers)
    <3>1. g[p] = f[p]  BY <1>1, <2>3 DEF Cleaned
    <3> QED  BY <2>1, <3>1 DEF Of, Taken
  <2> QED  BY <2>2, <2>3
<1>5. Linked(g) /\ \A a, b \in DOMAIN f : Leads(g, a, b) <=> Leads(f, a, b)
  <2>1. Linked(f)  BY <1>2 DEF NodesInv
  <2>2. \A q \in DOMAIN f : g[q].next = f[q].next  BY <1>4
  <2>3. \A q \in DOMAIN f : Taken(f, q) => Taken(g, q)  BY <1>4
  <2> QED  BY <1>3, <2>1, <2>2, <2>3, Relabel
<1>6. AtHome(g, Homes(x))
  <2>1. ASSUME NEW q \in DOMAIN g, Taken(g, q)
        PROVE  LET h == Homes(x)[Of(g, q)] IN Taken(g, h) /\ Homes(x)[Of(g, h)] = h /\ Leads(g, h, q)
    <3>1. PICK h : h = Homes(x)[Of(f, q)]  OBVIOUS
    <3>2. q \in DOMAIN f /\ Taken(f, q)  BY <1>3, <1>4, <2>1
    <3>3. h \in DOMAIN f /\ Taken(f, h) /\ Homes(x)[Of(f, h)] = h /\ Leads(f, h, q)
      BY <1>2, <3>1, <3>2, TakenFacts
    <3> QED  BY <1>4, <1>5, <3>1, <3>2, <3>3
  <2> QED  BY <2>1 DEF AtHome
<1>7. Unique(g)
  <2>1. \A p \in DOMAIN f : g[p].key[1] = "key" => g[p] = f[p]  BY <1>4
  <2>2. ASSUME NEW a \in DOMAIN g, NEW b \in DOMAIN g, g[a].key = g[b].key, g[a].key[1] = "key"
        PROVE  a = b
    <3>1. a \in DOMAIN f /\ b \in DOMAIN f /\ f[a].key = f[b].key /\ f[a].key[1] = "key"
      BY <1>3, <2>1, <2>2
    <3> QED  BY <1>2, <3>1, UniqueFacts
  <2>3. ASSUME NEW a \in DOMAIN g, NEW b \in DOMAIN g, g[a].key[1] = "key", g[b].key = DeadKey(Of(g, a))
        PROVE  Leads(g, a, b)
    <3>1. a \in DOMAIN f /\ b \in DOMAIN f /\ f[a].key[1] = "key" /\ g[b].key = DeadKey(Of(f, a))
      BY <1>3, <1>4, <2>1, <2>3
    <3>2. CASE g[b] = f[b]
      <4>1. Leads(f, a, b)  BY <1>2, <3>1, <3>2, UniqueFacts
      <4> QED  BY <1>5, <3>1, <4>1
    <3>3. CASE g[b] # f[b]
      <4>1. f[b].key[1] = "key" /\ g[b].key = DeadKey(Of(f, b))  BY <1>4, <3>1, <3>3
      <4>2. Of(f, b) = Of(f, a)
        <5>1. PICK c, d : c = Of(f, b) /\ d = Of(f, a)  OBVIOUS
        <5>2. DeadKey(c) = DeadKey(d)  BY <3>1, <4>1, <5>1
        <5> QED  BY <5>1, <5>2, KeyFacts
      <4>3. f[b].key = f[a].key  BY <1>2, <3>1, <4>1, <4>2, TakenFacts
      <4>4. a = b  BY <1>2, <3>1, <4>3, UniqueFacts
      <4> QED  BY <2>1, <2>3, <3>1, <3>3, <4>4
    <3> QED  BY <3>2, <3>3
  <2> QED  BY <2>2, <2>3, Zenon DEF Unique
<1>8. NodesInv(g, Homes(x))
  <2>1. g \in [DOMAIN g -> Slots]
    <3>1. \A q \in DOMAIN f : g[q] \in Slots  BY <1>4
    <3>2. g = [q \in DOMAIN f |-> g[q]]  BY <1>1 DEF Cleaned
    <3> QED  BY <1>3, <3>1, <3>2
  <2>2. \A q \in DOMAIN g : ~Taken(g, q) => g[q] = FreeNode
    <3>1. ASSUME NEW q \in DOMAIN g, ~Taken(g, q) PROVE g[q] = FreeNode
      <4>1. q \in DOMAIN f /\ ~Taken(f, q) /\ f[q].key[1] # "key"  BY <1>2, <1>3, <1>4, <3>1, TakenFacts
      <4>2. g[q] = f[q]  BY <1>4, <4>1
      <4> QED  BY <1>2, <4>1, <4>2 DEF NodesInv
    <3> QED  BY <3>1
  <2>3. \A q \in DOMAIN g : g[q].val # Nil => g[q].key[1] = "key"
    <3>1. ASSUME NEW q \in DOMAIN g, g[q].val # Nil PROVE g[q].key[1] = "key"
      <4>1. q \in DOMAIN f /\ f[q].val # Nil  BY <1>3, <1>4, <3>1
      <4>2. g[q] = f[q]  BY <1>4, <4>1
      <4>3. f[q].key[1] = "key"  BY <1>2, <4>1, TakenFacts
      <4> QED  BY <4>2, <4>3
    <3> QED  BY <3>1
  <2>4. NULL \notin DOMAIN g /\ DOMAIN g \subseteq Nat /\ Homes(x) \in [Keys -> DOMAIN g]
    BY <1>2, <1>3 DEF NodesInv
  <2> QED  BY <1>5, <1>6, <1>7, <2>1, <2>2, <2>3, <2>4 DEF NodesInv
<1>9. y = [array |-> x.array, node |-> g, dummy |-> x.dummy, lastfree |-> x.lastfree]
  <2>1. x = [array |-> x.array, node |-> x.node, dummy |-> x.dummy, lastfree |-> x.lastfree]
    BY DEF Tab
  <2>2. y = [x EXCEPT !.node = g]  BY <1>1
  <2> QED  BY <2>1, <2>2
<1>10. y.array = x.array /\ y.node = g /\ y.dummy = x.dummy /\ y.lastfree = x.lastfree  BY <1>9
<1>11. Homes(y) = Homes(x) /\ sizenode(y) = sizenode(x)  BY <1>1, <1>3, <1>10, SameNodes
<1>12. \A j : InArray(y, j) <=> InArray(x, j)  BY <1>10 DEF InArray
<1>13. Tab(y)
  <2>1. y = [array |-> y.array, node |-> y.node, dummy |-> y.dummy, lastfree |-> y.lastfree]
    BY <1>9, <1>10
  <2>2. \A p \in DOMAIN y.node : Taken(y.node, p) => ~InArray(y, Of(y.node, p))
    BY <1>1, <1>3, <1>4, <1>10, <1>12 DEF Tab
  <2>3. IF y.dummy THEN y.node = [p \in {0} |-> FreeNode] /\ y.lastfree = 0
        ELSE y.lastfree \in 0 .. sizenode(y) /\ \A p \in DOMAIN y.node : p >= y.lastfree => Taken(y.node, p)
    <3>1. CASE x.dummy
      <4>1. f = [p \in {0} |-> FreeNode] /\ x.lastfree = 0  BY <1>1, <3>1 DEF Tab
      <4>2. \A p \in DOMAIN f : g[p] = f[p]
        <5>1. \A p \in DOMAIN f : f[p].key[1] # "key"  BY <4>1, KeyFacts DEF FreeNode
        <5> QED  BY <1>4, <5>1
      <4>3. g = [p \in {0} |-> FreeNode]
        <5>1. g = [p \in DOMAIN f |-> g[p]]  BY <1>1 DEF Cleaned
        <5> QED  BY <4>1, <4>2, <5>1
      <4> QED  BY <1>10, <3>1, <4>1, <4>3
    <3>2. CASE ~x.dummy
      <4>1. x.lastfree \in 0 .. sizenode(x) /\ \A p \in DOMAIN f : p >= x.lastfree => Taken(f, p)
        BY <1>1, <3>2 DEF Tab
      <4> QED  BY <1>3, <1>4, <1>10, <1>11, <3>2, <4>1
    <3> QED  BY <3>1, <3>2
  <2>4. x.array \in Seq(Values \cup {Nil}) /\ Len(x.array) <= 2 ^ MAXBITS
        /\ (\A j \in 1 .. Len(x.array) : x.array[j] # Nil => j \in Numbers)
        /\ sizenode(x) \in 1 .. 2 ^ MAXBITS /\ DOMAIN x.node = 0 .. sizenode(x) - 1
    BY DEF Tab
  <2>5. NodesInv(y.node, Homes(y))  BY <1>8, <1>10, <1>11
  <2> QED  BY <1>1, <1>3, <1>10, <1>11, <2>1, <2>2, <2>3, <2>4, <2>5, Zenon DEF Tab
<1>14. ASSUME NEW j \in Keys PROVE luaH_get(y, j) = luaH_get(x, j)
  <2>1. \A v : v # Nil => (Binds(g, j, v) <=> Binds(f, j, v))
    <3>1. ASSUME NEW v, v # Nil, Binds(g, j, v) PROVE Binds(f, j, v)
      <4>1. PICK p \in DOMAIN f : g[p].key = LiveKey(j) /\ g[p].val = v  BY <1>3, <3>1 DEF Binds
      <4>2. g[p] = f[p]  BY <1>4, <3>1, <4>1
      <4> QED  BY <4>1, <4>2 DEF Binds
    <3>2. ASSUME NEW v, v # Nil, Binds(f, j, v) PROVE Binds(g, j, v)
      <4>1. PICK p \in DOMAIN f : f[p].key = LiveKey(j) /\ f[p].val = v  BY <3>2 DEF Binds
      <4>2. g[p] = f[p]  BY <1>4, <3>2, <4>1
      <4> QED  BY <1>3, <4>1, <4>2 DEF Binds
    <3> QED  BY <3>1, <3>2
  <2>2. NodesInv(y.node, Homes(y)) /\ NodesInv(x.node, Homes(x))  BY <1>13 DEF Tab
  <2> QED  BY <1>1, <1>10, <1>12, <2>1, <2>2, SameGet
<1>15. \A p \in DOMAIN f : /\ g[p].next = f[p].next /\ g[p].val = f[p].val
                           /\ Of(g, p) = Of(f, p) /\ (Taken(g, p) <=> Taken(f, p))
  BY <1>4
<1>16. y.array = x.array /\ DOMAIN y.node = DOMAIN x.node  BY <1>1, <1>3, <1>10
<1>17. \A j \in Keys : luaH_get(y, j) = luaH_get(x, j)  BY <1>14
<1> HIDE DEF Of, Taken
<1> QED  BY <1>1, <1>10, <1>13, <1>15, <1>16, <1>17

-----------------------------------------------------------------------------
(* Traversal *)

(* A walk depends on the links alone. *)
LEMMA SameWalk ==
  ASSUME NEW x, NEW y, NEW stop, stop \subseteq DOMAIN x.node, DOMAIN y.node = DOMAIN x.node,
         Linked(x.node), Linked(y.node), NULL \notin DOMAIN x.node,
         \A p \in DOMAIN x.node : y.node[p].next = x.node[p].next
  PROVE  \A p \in DOMAIN x.node : Walk(y, stop)[p] = Walk(x, stop)[p]
<1>1. PICK f, g, v, w : f = x.node /\ g = y.node /\ v = Walk(x, stop) /\ w = Walk(y, stop)  OBVIOUS
<1>2. Linked(f) /\ Linked(g) /\ DOMAIN g = DOMAIN f /\ NULL \notin DOMAIN f
      /\ \A p \in DOMAIN f : g[p].next = f[p].next
  BY <1>1
<1>3. Walked(f, stop, v) /\ Walked(g, stop, w)  BY <1>1, <1>2, WalkIs
<1> DEFINE D == DOMAIN f \cup {NULL}
<1>4. \A n \in D : v[n] = IF n \in stop \cup {NULL} THEN n ELSE v[f[n].next]
  <2>1. PICK u : u = v  OBVIOUS
  <2>2. u = [n \in D |-> IF n \in stop \cup {NULL} THEN n ELSE v[f[n].next]]
    BY <1>3, <2>1 DEF Walked
  <2> QED  BY <2>1, <2>2
<1>5. \A n \in D : w[n] = IF n \in stop \cup {NULL} THEN n ELSE w[f[n].next]
  <2>1. PICK u : u = w  OBVIOUS
  <2>2. u = [n \in D |-> IF n \in stop \cup {NULL} THEN n ELSE w[g[n].next]]
    BY <1>2, <1>3, <2>1 DEF Walked
  <2>3. \A n \in D : u[n] = IF n \in stop \cup {NULL} THEN n ELSE w[g[n].next]  BY <2>2
  <2> QED  BY <1>2, <2>1, <2>3
<1> DEFINE Bad == {p \in DOMAIN f : v[p] # w[p]}
<1>6. ASSUME NEW p \in Bad PROVE f[p].next # NULL /\ f[p].next \in Bad
  <2>1. v[p] = v[f[p].next] /\ w[p] = w[f[p].next]  BY <1>4, <1>5, <1>6
  <2>2. v[NULL] = w[NULL]  BY <1>4, <1>5
  <2>3. f[p].next \in D  BY <1>2, <1>6 DEF Linked
  <2> QED  BY <1>6, <2>1, <2>2, <2>3
<1>7. Bad = {}  BY <1>2, <1>6, ChainsEnd
<1> QED  BY <1>1, <1>7

(* So a position that a traversal is at stays, when keys and links do. *)
LEMMA SamePlace ==
  ASSUME NEW x, NEW y, Tab(x), Tab(y), Len(y.array) = Len(x.array), DOMAIN y.node = DOMAIN x.node,
         \A p \in DOMAIN x.node : /\ y.node[p].next = x.node[p].next /\ Of(y.node, p) = Of(x.node, p)
                                  /\ Taken(y.node, p) <=> Taken(x.node, p),
         NEW k \in Keys \cup {Nil}
  PROVE  findindex(y, k) = findindex(x, k)
<1>1. CASE k = Nil  BY <1>1 DEF findindex
<1>2. CASE k \in Keys
  <2>1. PICK cells : cells = {LiveKey(k), DeadKey(k)}  OBVIOUS
  <2>2. NodesInv(x.node, Homes(x)) /\ NodesInv(y.node, Homes(y))  BY DEF Tab
  <2>3. ASSUME NEW f, NEW H, NodesInv(f, H), NEW p \in DOMAIN f
        PROVE  f[p].key \in cells <=> Taken(f, p) /\ Of(f, p) = k
    <3>1. f[p].key \in Cells  BY <2>3, TakenFacts
    <3>2. PICK c : c = f[p].key  OBVIOUS
    <3>3. c # NoKey => c = LiveKey(c[2]) \/ c = DeadKey(c[2])  BY <3>1, <3>2, KeyFacts DEF Cells
    <3>4. c \in cells => c # NoKey /\ c[2] = k  BY <2>1, KeyFacts
    <3> QED  BY <2>1, <3>2, <3>3, <3>4 DEF Taken, Of
  <2>4. PICK stop : stop = {p \in DOMAIN x.node : x.node[p].key \in cells}  OBVIOUS
  <2>5. stop = {p \in DOMAIN y.node : y.node[p].key \in cells}
    <3>1. \A p \in DOMAIN x.node : x.node[p].key \in cells <=> Taken(x.node, p) /\ Of(x.node, p) = k
      BY <2>2, <2>3
    <3>2. \A p \in DOMAIN y.node : y.node[p].key \in cells <=> Taken(y.node, p) /\ Of(y.node, p) = k
      BY <2>2, <2>3
    <3> QED  BY <2>4, <3>1, <3>2
  <2>6. mainposition(y, k) = mainposition(x, k) /\ mainposition(x, k) \in DOMAIN x.node
    <3>1. mainposition(y, k) = mainposition(x, k)  BY SameNodes
    <3>2. Homes(x)[k] \in DOMAIN x.node /\ Homes(x)[k] = mainposition(x, k)
      BY <1>2, <2>2 DEF NodesInv, Homes
    <3> QED  BY <3>1, <3>2
  <2>7. Walk(y, stop)[mainposition(x, k)] = Walk(x, stop)[mainposition(x, k)]
    <3>1. Linked(x.node) /\ Linked(y.node) /\ NULL \notin DOMAIN x.node  BY <2>2 DEF NodesInv
    <3>2. stop \subseteq DOMAIN x.node  BY <2>4
    <3> QED  BY <2>6, <3>1, <3>2, SameWalk
  <2>8. Matching(y, k, cells) = Matching(x, k, cells)
    BY <2>4, <2>5, <2>6, <2>7 DEF Matching
  <2>9. InArray(y, k) <=> InArray(x, k)  BY DEF InArray
  <2> QED  BY <2>1, <2>8, <2>9 DEF findindex
<1> QED  BY <1>1, <1>2

LEMMA PlacesAre ==
  ASSUME NEW x, Tab(x)
  PROVE  /\ \A j \in Places(x) : Has(x, j) =>
              /\ KeyAt(x, j) \in Keys /\ luaH_get(x, KeyAt(x, j)) # Nil
              /\ findindex(x, KeyAt(x, j)) = j
         /\ \A k \in Keys : luaH_get(x, k) # Nil => \E j \in Places(x) : Has(x, j) /\ KeyAt(x, j) = k
<1>1. Len(x.array) \in Nat /\ sizenode(x) \in Nat /\ DOMAIN x.node = 0 .. sizenode(x) - 1
      /\ NodesInv(x.node, Homes(x))
  <2>1. 2 ^ MAXBITS \in Nat  BY SizeAssumption, PowerIs
  <2> QED  BY <2>1 DEF Tab
<1>2. \A j \in Numbers : j \in Int /\ j # Nil /\ j \in Keys  BY HashAssumption DEF Keys
<1>3. \A k \in Keys : k # Nil  BY HashAssumption
<1>4. ASSUME NEW j \in Places(x), Has(x, j)
      PROVE  KeyAt(x, j) \in Keys /\ luaH_get(x, KeyAt(x, j)) # Nil /\ findindex(x, KeyAt(x, j)) = j
  <2>1. j \in Nat /\ j < Len(x.array) + sizenode(x)  BY <1>1 DEF Places
  <2>2. CASE j < Len(x.array)
    <3>1. PICK k : k = j + 1  OBVIOUS
    <3>2. KeyAt(x, j) = k /\ x.array[k] # Nil /\ k \in 1 .. Len(x.array)
      BY <1>1, <1>4, <2>1, <2>2, <3>1 DEF KeyAt, Has
    <3>3. k \in Numbers  BY <3>2 DEF Tab
    <3>4. InArray(x, k)  BY <1>1, <3>2, <3>3 DEF InArray, IsIndex
    <3>5. luaH_get(x, k) # Nil  BY <3>2, <3>4 DEF luaH_get
    <3>6. findindex(x, k) = k - 1  BY <1>2, <3>3, <3>4 DEF findindex
    <3> QED  BY <1>2, <2>1, <3>1, <3>2, <3>3, <3>5, <3>6
  <2>3. CASE ~(j < Len(x.array))
    <3>1. PICK p : p = j - Len(x.array)  OBVIOUS
    <3>2. p \in DOMAIN x.node /\ j = Len(x.array) + p  BY <1>1, <2>1, <2>3, <3>1
    <3>3. x.node[p].val # Nil /\ KeyAt(x, j) = Of(x.node, p)  BY <1>4, <2>3, <3>1 DEF Has, KeyAt, Of
    <3>4. PICK k : k = Of(x.node, p)  OBVIOUS
    <3>5. x.node[p].key = LiveKey(k) /\ Taken(x.node, p) /\ k \in Keys
      BY <1>1, <3>2, <3>3, <3>4, TakenFacts
    <3>6. ~InArray(x, k)  BY <3>2, <3>4, <3>5 DEF Tab
    <3>7. luaH_get(x, k) = x.node[p].val  BY <1>1, <3>2, <3>5, <3>6, GetIs DEF Binds
    <3>8. Matching(x, k, {LiveKey(k), DeadKey(k)}) = p  BY <1>1, <3>2, <3>5, FindIs
    <3>9. p # NULL  BY <1>1, <3>2 DEF NodesInv
    <3>10. findindex(x, k) = Len(x.array) + p  BY <1>3, <3>5, <3>6, <3>8, <3>9 DEF findindex
    <3> QED  BY <3>2, <3>3, <3>4, <3>5, <3>7, <3>10
  <2> QED  BY <2>2, <2>3
<1>5. ASSUME NEW k \in Keys, luaH_get(x, k) # Nil PROVE \E j \in Places(x) : Has(x, j) /\ KeyAt(x, j) = k
  <2>1. CASE InArray(x, k)
    <3>1. k \in Int /\ k > 0 /\ k <= Len(x.array) /\ x.array[k] # Nil
      BY <1>2, <1>5, <2>1 DEF InArray, IsIndex, luaH_get
    <3>2. PICK j : j = k - 1  OBVIOUS
    <3>3. j \in Places(x) /\ j < Len(x.array) /\ j + 1 = k  BY <1>1, <3>1, <3>2 DEF Places
    <3> QED  BY <3>1, <3>3 DEF Has, KeyAt
  <2>2. CASE ~InArray(x, k)
    <3>1. PICK p \in DOMAIN x.node : x.node[p].key = LiveKey(k) /\ x.node[p].val = luaH_get(x, k)
      BY <1>1, <1>5, <2>2, GetIs DEF Binds
    <3>2. x.node[p].key[2] = k  BY <3>1, KeyFacts
    <3>3. PICK j : j = Len(x.array) + p  OBVIOUS
    <3>4. j \in Places(x) /\ ~(j < Len(x.array)) /\ j - Len(x.array) = p
      BY <1>1, <3>3 DEF Places
    <3> QED  BY <1>5, <3>1, <3>2, <3>4 DEF Has, KeyAt
  <2> QED  BY <2>1, <2>2
<1> QED  BY <1>4, <1>5

(* luaH_next gives the field at the next place. *)
LEMMA NextIs ==
  ASSUME NEW x, Tab(x), NEW k, NEW i, i = findindex(x, k), i \in Int, i >= -1, NEW nk, nk = luaH_next(x, k)
  PROVE  /\ nk = Nil => \A j \in Places(x) : Has(x, j) => j <= i
         /\ nk # Nil => \E j \in Places(x) : /\ Has(x, j) /\ KeyAt(x, j) = nk /\ j > i
                                             /\ \A h \in Places(x) : h > i /\ h < j => ~Has(x, h)
<1>1. PICK left : left = {j \in i + 1 .. Len(x.array) + sizenode(x) - 1 :
                 IF j < Len(x.array) THEN x.array[j + 1] # Nil ELSE x.node[j - Len(x.array)].val # Nil}
  OBVIOUS
<1>2. nk = IF i = -2 \/ left = {} THEN Nil
           ELSE IF Min(left) < Len(x.array) THEN Min(left) + 1
           ELSE x.node[Min(left) - Len(x.array)].key[2]
  BY <1>1, Zenon DEF luaH_next
<1>3. Len(x.array) \in Nat /\ sizenode(x) \in Nat
  <2>1. 2 ^ MAXBITS \in Nat  BY SizeAssumption, PowerIs
  <2> QED  BY <2>1 DEF Tab
<1>4. left = {j \in Places(x) : j > i /\ Has(x, j)}
  <2>1. \A j : j \in i + 1 .. Len(x.array) + sizenode(x) - 1 <=> j \in Places(x) /\ j > i
    BY <1>3 DEF Places
  <2> QED  BY <1>1, <2>1 DEF Has
<1>5. CASE left = {}
  <2>1. \A j \in Places(x) : Has(x, j) => j <= i
    <3>1. Places(x) \subseteq Int  BY <1>3 DEF Places
    <3> QED  BY <1>4, <1>5, <3>1
  <2> QED  BY <1>2, <1>5, <2>1
<1>6. CASE left # {}
  <2>1. left \subseteq Nat  BY <1>3, <1>4 DEF Places
  <2>2. PICK m : m = Min(left)  OBVIOUS
  <2>3. m \in left /\ \A y \in left : m <= y
    <3>1. \E a \in left : \A y \in left : a <= y  BY <1>6, <2>1, Least
    <3> QED  BY <2>2, <3>1, Zenon DEF Min
  <2>4. m \in Places(x) /\ m > i /\ Has(x, m)  BY <1>4, <2>3
  <2>5. nk = KeyAt(x, m)  BY <1>2, <1>6, <2>2 DEF KeyAt
  <2>6. nk # Nil
    <3>1. nk \in Keys  BY <2>4, <2>5, PlacesAre
    <3> QED  BY <3>1, HashAssumption
  <2>7. \A h \in Places(x) : h > i /\ h < m => ~Has(x, h)
    <3>1. ASSUME NEW h \in Places(x), h > i, h < m, Has(x, h) PROVE FALSE
      <4>1. m <= h  BY <1>4, <2>3, <3>1
      <4>2. h \in Nat /\ m \in Nat  BY <1>3, <2>4 DEF Places
      <4> QED  BY <3>1, <4>1, <4>2
    <3> QED  BY <3>1
  <2> QED  BY <2>4, <2>5, <2>6, <2>7
<1> QED  BY <1>5, <1>6

(* Changing a field that is there moves nothing. *)
LEMMA InPlace ==
  ASSUME NEW x, Tab(x), NEW k \in Keys, luaH_get(x, k) # Nil, NEW v \in Values \cup {Nil},
         NEW y, y = luaH_set(x, k, v)
  PROVE  \A j \in Keys \cup {Nil} : findindex(y, j) = findindex(x, j)
<1>1. PICK grown : grown = Assigned(rehash(x, k), k, v, Overfull)  OBVIOUS
<1>2. y = Assigned(x, k, v, grown)  BY <1>1 DEF luaH_set
<1>3. Tab(y)  BY SetIs
<1>4. CASE InArray(x, k)
  <2>1. y = [x EXCEPT !.array[k] = v]  BY <1>2, <1>4 DEF Assigned
  <2>2. Len(y.array) = Len(x.array) /\ y.node = x.node  BY <1>4, <2>1, PlacedIs
  <2> QED  BY <1>3, <2>2, SamePlace
<1>5. CASE ~InArray(x, k)
  <2>1. NodeOf(x, k) # NULL  BY <1>5 DEF luaH_get
  <2>2. y = Stored(x, k, v)  BY <1>2, <1>5, <2>1 DEF Assigned
  <2>3. /\ y.array = x.array /\ DOMAIN y.node = DOMAIN x.node
        /\ \A p \in DOMAIN x.node : y.node[p].key = x.node[p].key /\ y.node[p].next = x.node[p].next
    BY <1>5, <2>1, <2>2, StoredIs
  <2>4. \A p \in DOMAIN x.node : /\ y.node[p].next = x.node[p].next /\ Of(y.node, p) = Of(x.node, p)
                                 /\ Taken(y.node, p) <=> Taken(x.node, p)
    BY <2>3 DEF Of, Taken
  <2> QED  BY <1>3, <2>3, <2>4, SamePlace
<1> QED  BY <1>4, <1>5

(* So a traversal goes on where it was, when no field is added. *)
LEMMA TraversalKept ==
  ASSUME Tab(t), Tab(t'), TraversalInv, UNCHANGED <<traversing, cursor, seen>>,
         traversing => /\ \A k \in Keys \cup {Nil} : findindex(t', k) = findindex(t, k)
                       /\ \A k \in Keys : luaH_get(t', k) # Nil => luaH_get(t, k) # Nil
  PROVE  TraversalInv'
<1>1. CASE ~traversing
  <2>1. ~traversing' /\ seen' = {}  BY <1>1 DEF TraversalInv
  <2> QED  BY <2>1 DEF TraversalInv
<1>2. CASE traversing
  <2>1. PICK x, y, i : x = t /\ y = t' /\ i = findindex(t, cursor)  OBVIOUS
  <2>2. /\ Tab(x) /\ Tab(y) /\ cursor \in Keys \cup {Nil} /\ i \in Nat \cup {-1} /\ seen \subseteq Keys
        /\ \A j \in Places(x) : Has(x, j) => (KeyAt(x, j) \in seen <=> j <= i)
    BY <1>2, <2>1 DEF TraversalInv
  <2>3. findindex(y, cursor) = i  BY <1>2, <2>1, <2>2
  <2>4. ASSUME NEW h \in Places(y), Has(y, h) PROVE KeyAt(y, h) \in seen <=> h <= i
    <3>1. PICK k : k = KeyAt(y, h)  OBVIOUS
    <3>2. k \in Keys /\ luaH_get(y, k) # Nil /\ findindex(y, k) = h  BY <2>2, <2>4, <3>1, PlacesAre
    <3>3. luaH_get(x, k) # Nil /\ findindex(x, k) = h  BY <1>2, <2>1, <3>2
    <3>4. PICK j \in Places(x) : Has(x, j) /\ KeyAt(x, j) = k  BY <2>2, <3>2, <3>3, PlacesAre
    <3>5. j = h  BY <2>2, <3>3, <3>4, PlacesAre
    <3> QED  BY <2>2, <3>1, <3>4, <3>5
  <2>5. traversing' /\ cursor' = cursor /\ seen' = seen  BY <1>2
  <2> QED  BY <2>1, <2>2, <2>3, <2>4, <2>5 DEF TraversalInv
<1> QED  BY <1>1, <1>2

(* What luaH_next gives has not been seen, and the traversal is at it then. *)
LEMMA NextKept ==
  ASSUME Tab(t), TraversalInv, traversing, NEW k, k = luaH_next(t, cursor), k # Nil
  PROVE  /\ k \in Keys /\ k \notin seen /\ luaH_get(t, k) # Nil
         /\ findindex(t, k) \in Nat
         /\ \A h \in Places(t) : Has(t, h) => (KeyAt(t, h) \in seen \cup {k} <=> h <= findindex(t, k))
<1>1. PICK x, i : x = t /\ i = findindex(t, cursor)  OBVIOUS
<1>2. /\ Tab(x) /\ i \in Nat \cup {-1}
      /\ \A j \in Places(x) : Has(x, j) => (KeyAt(x, j) \in seen <=> j <= i)
  BY <1>1 DEF TraversalInv
<1>3. i \in Int /\ i >= -1  BY <1>2
<1>4. PICK j \in Places(x) : /\ Has(x, j) /\ KeyAt(x, j) = k /\ j > i
                             /\ \A h \in Places(x) : h > i /\ h < j => ~Has(x, h)
  BY <1>1, <1>2, <1>3, NextIs
<1>5. k \in Keys /\ luaH_get(x, k) # Nil /\ findindex(x, k) = j  BY <1>2, <1>4, PlacesAre
<1>6. Places(x) \subseteq Nat
  <2>1. 2 ^ MAXBITS \in Nat  BY SizeAssumption, PowerIs
  <2> QED  BY <1>2, <2>1 DEF Tab, Places
<1>7. k \notin seen  BY <1>2, <1>3, <1>4, <1>6
<1>8. ASSUME NEW h \in Places(x), Has(x, h) PROVE KeyAt(x, h) \in seen \cup {k} <=> h <= j
  <2>1. h \in Nat /\ j \in Nat  BY <1>6
  <2>2. CASE h <= i  BY <1>2, <1>3, <1>4, <1>8, <2>1, <2>2
  <2>3. CASE h > i /\ h < j  BY <1>4, <1>8, <2>3
  <2>4. CASE h = j  BY <1>4, <2>1, <2>4
  <2>5. CASE h > j
    <3>1. KeyAt(x, h) \notin seen  BY <1>2, <1>3, <1>4, <1>8, <2>1, <2>5
    <3>2. findindex(x, KeyAt(x, h)) = h  BY <1>2, <1>8, PlacesAre
    <3>3. KeyAt(x, h) # k  BY <1>5, <2>1, <2>5, <3>2
    <3> QED  BY <2>1, <2>5, <3>1, <3>3
  <2> QED  BY <1>3, <2>1, <2>2, <2>3, <2>4, <2>5
<1> QED  BY <1>1, <1>5, <1>6, <1>7, <1>8

(* When it gives nil, all has been seen. *)
LEMMA EndIs ==
  ASSUME Tab(t), TraversalInv, traversing, luaH_next(t, cursor) = Nil
  PROVE  \A k \in Keys \ seen : luaH_get(t, k) = Nil
<1>1. PICK x, i : x = t /\ i = findindex(t, cursor)  OBVIOUS
<1>2. /\ Tab(x) /\ i \in Nat \cup {-1}
      /\ \A j \in Places(x) : Has(x, j) => (KeyAt(x, j) \in seen <=> j <= i)
  BY <1>1 DEF TraversalInv
<1>3. i \in Int /\ i >= -1  BY <1>2
<1>4. \A j \in Places(x) : Has(x, j) => j <= i  BY <1>1, <1>2, <1>3, NextIs
<1>5. ASSUME NEW k \in Keys \ seen, luaH_get(x, k) # Nil PROVE FALSE
  <2>1. PICK j \in Places(x) : Has(x, j) /\ KeyAt(x, j) = k  BY <1>2, <1>5, PlacesAre
  <2> QED  BY <1>2, <1>4, <1>5, <2>1
<1> QED  BY <1>1, <1>5

-----------------------------------------------------------------------------
(* The invariant *)

(* luaH_new makes a table without fields. *)
LEMMA NewIs ==
  ASSUME NEW na \in 0..2, NEW nh \in 0..2, NEW x, x = luaH_new(na, nh)
  PROVE  Tab(x) /\ Pow(x) /\ \A k \in Keys : luaH_get(x, k) = Nil
<1>1. 2 <= 2 ^ MAXBITS /\ 2 ^ MAXBITS \in Nat
  <2>1. 2 <= 2 ^ 1
    <3>1. IsFiniteSet({1}) /\ Cardinality({1}) = 1  BY FS_Singleton
    <3>2. Cardinality(SUBSET {1}) = 2 ^ 1 /\ IsFiniteSet(SUBSET {1})  BY <3>1, FS_SUBSET
    <3>3. IsFiniteSet({{}}) /\ Cardinality({{}}) = 1  BY FS_Singleton
    <3>4. PICK S, e : S = {{}} /\ e = {1}  OBVIOUS
    <3>5. IsFiniteSet(S) /\ e \notin S /\ Cardinality(S) = 1  BY <3>3, <3>4
    <3>6. Cardinality(S \cup {e}) = 2  BY <3>5, FS_AddElement
    <3>7. S \cup {e} \in SUBSET (SUBSET {1})  BY <3>4
    <3> QED  BY <3>2, <3>6, <3>7, FS_Subset
  <2>2. 1 \in Nat /\ MAXBITS \in Nat /\ 1 <= MAXBITS  BY SizeAssumption
  <2>3. 2 ^ 1 <= 2 ^ MAXBITS /\ 2 ^ 1 \in Nat /\ 2 ^ MAXBITS \in Nat  BY <2>2, PowerIs
  <2> QED  BY <2>1, <2>3
<1>2. na \in 0 .. 2 ^ MAXBITS /\ nh \in 0 .. 2 ^ MAXBITS  BY <1>1
<1>3. PICK z : z = [array |-> <<>>, node |-> <<>>, dummy |-> TRUE, lastfree |-> 0]  OBVIOUS
<1>4. x = setnodevector(setarrayvector(z, na), nh)  BY <1>3 DEF luaH_new
<1>5. z = [array |-> z.array, node |-> z.node, dummy |-> z.dummy, lastfree |-> z.lastfree]
      /\ z.array = <<>>
  BY <1>3
<1>6. z.array \in Seq(Values \cup {Nil}) /\ Len(z.array) = 0  BY <1>5
<1>7. /\ Tab(x) /\ Len(x.array) = na /\ sizenode(x) >= nh /\ sizenode(x) = NodeSize(nh)
      /\ nh # 0 => ~x.dummy
      /\ TakenNodes(x) = {}
      /\ \A j \in Keys : luaH_get(x, j) = IF InArray(z, j) /\ j <= na THEN z.array[j] ELSE Nil
  <2>1. z = [array |-> z.array, node |-> z.node, dummy |-> z.dummy, lastfree |-> z.lastfree]  BY <1>5
  <2>2. z.array \in Seq(Values \cup {Nil})  BY <1>6
  <2>3. \A j \in 1 .. Len(z.array) : z.array[j] # Nil => j \in Numbers  BY <1>6
  <2> QED  BY <1>2, <1>4, <2>1, <2>2, <2>3, FreshIs
<1>8. \A j \in Keys : ~InArray(z, j)  BY <1>6, HashAssumption, SMTT(60) DEF InArray, IsIndex
<1>9. Pow(x)  BY <1>2, <1>7, NodeSizeIs DEF Pow
<1> QED  BY <1>7, <1>8, <1>9

LEMMA Initially ==
  ASSUME Init
  PROVE  IInv /\ \A k \in Keys : luaH_get(t, k) = Nil
<1>1. PICK na \in 0..2, nh \in 0..2 : t = luaH_new(na, nh)  BY DEF Init
<1>2. Tab(t) /\ Pow(t) /\ \A k \in Keys : luaH_get(t, k) = Nil  BY <1>1, NewIs
<1>3. TraversalInv  BY DEF Init, TraversalInv
<1> QED  BY <1>2, <1>3 DEF IInv

LEMMA SetKept ==
  ASSUME IInv, NEW k \in Keys, NEW v \in Values \cup {Nil}, SetField(k, v)
  PROVE  IInv' /\ \A j \in Keys : luaH_get(t', j) = IF j = k THEN v ELSE luaH_get(t, j)
<1>1. PICK x, y : x = t /\ y = t'  OBVIOUS
<1>2. /\ Tab(x) /\ Pow(x) /\ TraversalInv /\ y = luaH_set(x, k, v) /\ (traversing => luaH_get(x, k) # Nil)
      /\ UNCHANGED <<traversing, cursor, seen>>
  BY <1>1 DEF IInv, SetField
<1>3. Tab(y) /\ \A j \in Keys : luaH_get(y, j) = IF j = k THEN v ELSE luaH_get(x, j)
  BY <1>2, SetIs
<1>4. traversing => \A j \in Keys \cup {Nil} : findindex(y, j) = findindex(x, j)  BY <1>2, InPlace
<1>5. traversing => \A j \in Keys : luaH_get(y, j) # Nil => luaH_get(x, j) # Nil  BY <1>2, <1>3
<1>6. TraversalInv'  BY <1>1, <1>2, <1>3, <1>4, <1>5, TraversalKept
<1>7. Pow(y)
  <2>1. CASE sizenode(y) = sizenode(x)  BY <1>2, <2>1 DEF Pow
  <2>2. CASE sizenode(y) # sizenode(x)  BY <1>2, <2>2, SetSize
  <2> QED  BY <2>1, <2>2
<1> QED  BY <1>1, <1>3, <1>6, <1>7 DEF IInv

LEMMA PresizeKept ==
  ASSUME IInv, NEW n \in Presizes, Presize(n)
  PROVE  IInv' /\ sizenode(t') = sizenode(t) /\ \A j \in Keys : luaH_get(t', j) = luaH_get(t, j)
<1>1. PICK x, y : x = t /\ y = t'  OBVIOUS
<1>2. /\ Tab(x) /\ Pow(x) /\ TraversalInv /\ ~traversing /\ n > Len(x.array) /\ y = luaH_resizearray(x, n)
      /\ UNCHANGED <<traversing, cursor, seen>>
  BY <1>1 DEF IInv, Presize
<1>3. Tab(y) /\ \A j \in Keys : luaH_get(y, j) = luaH_get(x, j)  BY <1>2, PresizeIs
<1>4. TraversalInv'  BY <1>1, <1>2, <1>3, TraversalKept
<1>5. sizenode(y) = sizenode(x)
  <2>1. sizenode(y) = NodeSize(IF x.dummy THEN 0 ELSE sizenode(x))  BY <1>2, PresizeIs
  <2>2. CASE x.dummy
    <3>1. x.node = [p \in {0} |-> FreeNode]  BY <1>2, <2>2 DEF Tab
    <3>2. sizenode(x) = 1  BY <3>1, FS_Singleton DEF sizenode
    <3> QED  BY <2>1, <2>2, <3>2 DEF NodeSize
  <2>3. CASE ~x.dummy
    <3>1. PICK i \in 0 .. MAXBITS : sizenode(x) = 2 ^ i  BY <1>2 DEF Pow
    <3> QED  BY <2>1, <2>3, <3>1, NodeSizeIs
  <2> QED  BY <2>2, <2>3
<1>6. Pow(y)  BY <1>2, <1>5 DEF Pow
<1> QED  BY <1>1, <1>3, <1>4, <1>5, <1>6 DEF IInv

LEMMA RemoveKept ==
  ASSUME IInv, removeentries
  PROVE  IInv' /\ sizenode(t') = sizenode(t) /\ \A j \in Keys : luaH_get(t', j) = luaH_get(t, j)
<1>1. PICK x, y : x = t /\ y = t'  OBVIOUS
<1>3. Tab(x) /\ Pow(x) /\ TraversalInv /\ UNCHANGED <<traversing, cursor, seen>>
  BY <1>1 DEF IInv, removeentries
<1>4. y = [x EXCEPT !.node = Cleaned(x)]  BY <1>1, Zenon DEF removeentries, Cleaned
<1>5. /\ Tab(y) /\ y.array = x.array /\ DOMAIN y.node = DOMAIN x.node
      /\ \A j \in Keys : luaH_get(y, j) = luaH_get(x, j)
      /\ \A p \in DOMAIN x.node : /\ y.node[p].next = x.node[p].next /\ y.node[p].val = x.node[p].val
                                  /\ Of(y.node, p) = Of(x.node, p)
                                  /\ Taken(y.node, p) <=> Taken(x.node, p)
  BY <1>3, <1>4, CleanedIs, ZenonT(60)
<1>6. \A k \in Keys \cup {Nil} : findindex(y, k) = findindex(x, k)  BY <1>3, <1>5, SamePlace
<1>7. TraversalInv'  BY <1>1, <1>3, <1>5, <1>6, TraversalKept
<1>8. sizenode(y) = sizenode(x)  BY <1>5, SameNodes
<1>9. Pow(y)  BY <1>3, <1>8 DEF Pow
<1> QED  BY <1>1, <1>5, <1>7, <1>8, <1>9 DEF IInv

LEMMA BeginKept ==
  ASSUME IInv, Begin
  PROVE  IInv'
<1>1. Tab(t) /\ Pow(t) /\ t' = t /\ traversing' /\ cursor' = Nil /\ seen' = {}  BY DEF IInv, Begin
<1>2. PICK x : x = t  OBVIOUS
<1>3. findindex(x, Nil) = -1  BY DEF findindex
<1>4. \A j \in Places(x) : ~(j <= -1)
  <2>1. 2 ^ MAXBITS \in Nat  BY SizeAssumption, PowerIs
  <2> QED  BY <1>1, <1>2, <2>1 DEF Tab, Places
<1>5. TraversalInv'  BY <1>1, <1>2, <1>3, <1>4 DEF TraversalInv
<1> QED  BY <1>1, <1>5 DEF IInv

LEMMA NextFieldKept ==
  ASSUME IInv, NextField
  PROVE  IInv'
<1>1. Tab(t) /\ Pow(t) /\ TraversalInv /\ traversing /\ t' = t  BY DEF IInv, NextField
<1>2. PICK k : k = luaH_next(t, cursor)  OBVIOUS
<1>3. CASE k = Nil
  <2>1. ~traversing' /\ seen' = {}  BY <1>2, <1>3 DEF NextField
  <2> QED  BY <1>1, <2>1 DEF IInv, TraversalInv
<1>4. CASE k # Nil
  <2>1. traversing' /\ cursor' = k /\ seen' = seen \cup {k}  BY <1>1, <1>2, <1>4 DEF NextField
  <2>2. PICK x, i : x = t /\ i = findindex(x, k)  OBVIOUS
  <2>3. /\ k \in Keys /\ i \in Nat
        /\ \A h \in Places(x) : Has(x, h) => (KeyAt(x, h) \in seen \cup {k} <=> h <= i)
    BY <1>1, <1>2, <1>4, <2>2, NextKept
  <2>4. seen \subseteq Keys  BY <1>1 DEF TraversalInv
  <2>5. t' = x  BY <1>1, <2>2
  <2>6. TraversalInv'  BY <2>1, <2>2, <2>3, <2>4, <2>5 DEF TraversalInv
  <2> QED  BY <1>1, <2>6 DEF IInv
<1> QED  BY <1>3, <1>4

-----------------------------------------------------------------------------
(* The length of a table: searches in rounds *)

Iterates(f, n, p, r) == r = [m \in 0 .. n |-> IF m = 0 THEN p ELSE f[r[m - 1]]]

LEMMA IteratesExist ==
  ASSUME NEW f, NEW p, NEW n \in Nat
  PROVE  \E r : Iterates(f, n, p, r)
<1> DEFINE Bad == {i \in Nat : ~ \E r : Iterates(f, i, p, r)}
<1>1. SUFFICES ASSUME Bad # {} PROVE FALSE  OBVIOUS
<1>2. PICK i \in Bad : \A j \in Bad : i <= j  BY <1>1, Least
<1>3. i # 0
  <2>1. PICK r : r = [j \in 0 .. 0 |-> p]  OBVIOUS
  <2>2. Iterates(f, 0, p, r)  BY <2>1 DEF Iterates
  <2> QED  BY <1>2, <2>2
<1>4. PICK h : h = i - 1  OBVIOUS
<1>5. h \in Nat /\ h \notin Bad  BY <1>2, <1>3, <1>4
<1>6. PICK r : Iterates(f, h, p, r)  BY <1>5
<1>7. \A j \in 0 .. h : r[j] = IF j = 0 THEN p ELSE f[r[j - 1]]
  <2>1. PICK c : c = r  OBVIOUS
  <2>2. c = [j \in 0 .. h |-> IF j = 0 THEN p ELSE f[r[j - 1]]]  BY <1>6, <2>1 DEF Iterates
  <2> QED  BY <2>1, <2>2
<1>8. PICK last : last = f[r[h]]  OBVIOUS
<1>9. PICK c : c = [j \in 0 .. i |-> IF j = i THEN last ELSE r[j]]  OBVIOUS
<1>10. \A j \in 0 .. i : c[j] = IF j = 0 THEN p ELSE f[c[j - 1]]
  <2>1. ASSUME NEW j \in 0 .. i PROVE c[j] = IF j = 0 THEN p ELSE f[c[j - 1]]
    <3>1. CASE j = 0  BY <1>3, <1>5, <1>7, <1>9, <3>1
    <3>2. CASE j = i
      <4>1. c[i] = last /\ c[i - 1] = r[h]  BY <1>2, <1>4, <1>5, <1>9
      <4> QED  BY <1>3, <1>8, <3>2, <4>1
    <3>3. CASE j # 0 /\ j # i
      <4>1. j \in 0 .. h /\ j - 1 \in 0 .. i /\ j - 1 # i  BY <1>2, <1>4, <2>1, <3>3
      <4>2. c[j] = r[j] /\ c[j - 1] = r[j - 1]  BY <1>9, <3>3, <4>1
      <4> QED  BY <1>7, <3>3, <4>1, <4>2
    <3> QED  BY <3>1, <3>2, <3>3
  <2> QED  BY <2>1
<1>11. Iterates(f, i, p, c)
  <2>1. c = [j \in 0 .. i |-> c[j]]  BY <1>9
  <2> QED  BY <1>10, <2>1 DEF Iterates
<1> QED  BY <1>2, <1>11

LEMMA RoundsAre ==
  ASSUME NEW f, NEW p, NEW n \in Nat
  PROVE  \E r : /\ Rounds(f, n, p) = r[n] /\ r[0] = p
                /\ \A m \in 1 .. n : r[m] = f[r[m - 1]]
<1>1. PICK r : r = CHOOSE c : Iterates(f, n, p, c)  OBVIOUS
<1>2. Iterates(f, n, p, r)
  <2>1. \E c : Iterates(f, n, p, c)  BY IteratesExist
  <2> QED  BY <1>1, <2>1, Zenon
<1>3. \A m \in 0 .. n : r[m] = IF m = 0 THEN p ELSE f[r[m - 1]]
  <2>1. PICK c : c = r  OBVIOUS
  <2>2. c = [m \in 0 .. n |-> IF m = 0 THEN p ELSE f[r[m - 1]]]  BY <1>2, <2>1 DEF Iterates
  <2> QED  BY <2>1, <2>2
<1>4. Rounds(f, n, p) = r[n]  BY <1>1, Zenon DEF Rounds, Iterates
<1>5. r[0] = p /\ \A m \in 1 .. n : r[m] = f[r[m - 1]]  BY <1>3
<1> QED  BY <1>4, <1>5

(* A search that comes closer with each round has come to its end after as many
   rounds as it was far. *)
Nears(f, I, far) ==
  \A q \in I : far[q] \in Nat /\ f[q] \in I /\ (f[q] = q \/ far[f[q]] < far[q])
LEMMA RoundsEnd ==
  ASSUME NEW f, NEW I, NEW far, Nears(f, I, far), NEW p \in I, NEW n \in Nat, far[p] <= n
  PROVE  Rounds(f, n, p) \in I /\ f[Rounds(f, n, p)] = Rounds(f, n, p)
<1>1. PICK r : Rounds(f, n, p) = r[n] /\ r[0] = p /\ \A m \in 1 .. n : r[m] = f[r[m - 1]]
  BY RoundsAre
<1>6. /\ \A q \in I : far[q] \in Nat /\ f[q] \in I
      /\ \A q \in I : f[q] = q \/ far[f[q]] < far[q]
  BY DEF Nears
<1> DEFINE Good(m) == r[m] \in I /\ (f[r[m]] = r[m] \/ far[r[m]] + m <= far[p])
           Bad == {m \in 0 .. n : ~Good(m)}
<1>2. Bad = {}
  <2>1. SUFFICES ASSUME Bad # {} PROVE FALSE  OBVIOUS
  <2>2. PICK m \in Bad : \A k \in Bad : m <= k
    <3>1. Bad \subseteq Nat  OBVIOUS
    <3> HIDE DEF Bad
    <3> QED  BY <2>1, <3>1, Least
  <2>3. m # 0  BY <1>1, <1>6, <2>2
  <2>4. PICK k : k = m - 1  OBVIOUS
  <2>5. k \in 0 .. n /\ k \notin Bad /\ m \in 1 .. n  BY <2>2, <2>3, <2>4
  <2>6. r[m] = f[r[k]] /\ Good(k)  BY <1>1, <2>4, <2>5
  <2>7. far[r[k]] \in Nat /\ r[m] \in I /\ far[r[m]] \in Nat /\ far[p] \in Nat  BY <1>6, <2>6
  <2>8. CASE f[r[k]] = r[k]  BY <2>2, <2>6, <2>7, <2>8
  <2>9. CASE f[r[k]] # r[k]
    <3>1. far[r[m]] < far[r[k]] /\ far[r[k]] + k <= far[p]  BY <1>6, <2>6, <2>9
    <3>2. far[r[m]] + m <= far[p]  BY <2>4, <2>5, <2>7, <3>1
    <3> QED  BY <2>2, <2>7, <3>2
  <2> QED  BY <2>8, <2>9
<1>3. Good(n)  BY <1>2
<1>4. r[n] \in I /\ far[r[n]] \in Nat /\ far[f[r[n]]] \in Nat /\ far[p] \in Nat  BY <1>3, <1>6
<1>5. f[r[n]] = r[n]
  <2>1. CASE far[r[n]] + n <= far[p]
    <3>1. far[r[n]] = 0  BY <1>4, <2>1
    <3>2. ~(far[f[r[n]]] < far[r[n]])  BY <1>4, <3>1
    <3> QED  BY <1>4, <1>6, <3>2
  <2> QED  BY <1>3, <2>1
<1> QED  BY <1>1, <1>4, <1>5

(* The binary search ends at an index in full, or at i, whose successor is not. *)
LEMMA BisectIs ==
  ASSUME NEW full, NEW i \in Nat, NEW j \in Nat, i < j, j \notin full
  PROVE  /\ Bisect(i, j, full) \in i .. j - 1
         /\ Bisect(i, j, full) = i \/ Bisect(i, j, full) \in full
         /\ Bisect(i, j, full) + 1 \notin full
<1> DEFINE I == {q \in Nat \X Nat : /\ i <= q[1] /\ q[1] < q[2] /\ q[2] <= j
                                    /\ (q[1] = i \/ q[1] \in full) /\ q[2] \notin full}
<1>1. PICK f : f = Halve(full)  OBVIOUS
<1>2. PICK far : far = [q \in I |-> q[2] - q[1]]  OBVIOUS
<1>3. PICK p, n : p = <<i, j>> /\ n = j - i  OBVIOUS
<1>4. p \in I /\ n \in Nat /\ far[p] <= n  BY <1>2, <1>3
<1>5. ASSUME NEW q \in I
      PROVE  /\ far[q] \in Nat /\ f[q] \in I
             /\ f[q] = q \/ far[f[q]] < far[q]
             /\ f[q] = q => q[2] = q[1] + 1
  <2>1. PICK a \in Nat, b \in Nat : q = <<a, b>>  OBVIOUS
  <2>2. PICK m : m = (a + b) \div 2  OBVIOUS
  <2>3. i <= a /\ a < b /\ b <= j /\ (a = i \/ a \in full) /\ b \notin full  BY <2>1
  <2>4. far[q] = b - a  BY <1>2, <2>1
  <2>5. f[q] = IF b - a <= 1 THEN q ELSE IF m \in full THEN <<m, b>> ELSE <<a, m>>
    BY <1>1, <2>1, <2>2 DEF Halve
  <2>6. CASE b - a <= 1
    <3>1. f[q] = q /\ b = a + 1  BY <2>3, <2>5, <2>6
    <3> QED  BY <2>1, <2>3, <2>4, <3>1
  <2>7. CASE ~(b - a <= 1)
    <3>1. m \in Nat /\ a < m /\ m < b  BY <2>2, <2>3, <2>7
    <3>2. CASE m \in full
      <4>1. f[q] = <<m, b>> /\ <<m, b>> \in I  BY <2>3, <2>5, <2>7, <3>1, <3>2
      <4>2. far[<<m, b>>] = b - m  BY <1>2, <4>1
      <4> QED  BY <2>1, <2>3, <2>4, <3>1, <4>1, <4>2
    <3>3. CASE m \notin full
      <4>1. f[q] = <<a, m>> /\ <<a, m>> \in I  BY <2>3, <2>5, <2>7, <3>1, <3>3
      <4>2. far[<<a, m>>] = m - a  BY <1>2, <4>1
      <4> QED  BY <2>1, <2>3, <2>4, <3>1, <4>1, <4>2
    <3> QED  BY <3>2, <3>3
  <2> QED  BY <2>6, <2>7
<1>6. PICK z : z = Rounds(f, n, p)  OBVIOUS
<1>7. z \in I /\ f[z] = z
  <2> HIDE DEF I
  <2>1. Nears(f, I, far)  BY <1>5 DEF Nears
  <2> QED  BY <1>4, <1>6, <2>1, RoundsEnd
<1>8. Bisect(i, j, full) = z[1]  BY <1>1, <1>3, <1>6 DEF Bisect
<1>9. z[2] = z[1] + 1  BY <1>5, <1>7
<1> QED  BY <1>7, <1>8, <1>9

(* The first absent index follows a present one, or none. *)
LEMMA FirstAbsent ==
  ASSUME NEW x, NEW T, T = {i \in 1 .. Cardinality(Numbers) + 1 : ~Present(x, i)}, NEW n, n = Min(T) - 1
  PROVE  (n = 0 \/ Present(x, n)) /\ ~Present(x, n + 1) /\ n \in Nat
<1>1. IsFiniteSet(Numbers) /\ Cardinality(Numbers) \in Nat
  <2>1. Numbers \in SUBSET Keys /\ IsFiniteSet(Keys)  BY SizeAssumption DEF Keys
  <2>2. IsFiniteSet(Numbers)  BY <2>1, FS_Subset
  <2> QED  BY <2>2, FS_CardinalityType
<1>2. PICK last : last = Cardinality(Numbers) + 1  OBVIOUS
<1>3. T = {i \in 1 .. last : ~Present(x, i)}  BY <1>2
<1>4. T # {}
  <2>1. SUFFICES ASSUME T = {} PROVE FALSE  OBVIOUS
  <2>2. 1 .. last \in SUBSET Numbers  BY <1>3, <2>1 DEF Present
  <2>3. Cardinality(1 .. last) <= Cardinality(Numbers)  BY <1>1, <2>2, FS_Subset
  <2>4. last \in Int /\ 1 \in Int /\ ~(1 > last)  BY <1>1, <1>2
  <2>5. Cardinality(1 .. last) = last - 1 + 1  BY <2>4, FS_Interval
  <2> QED  BY <1>1, <1>2, <2>3, <2>5
<1>5. PICK m : m = Min(T)  OBVIOUS
<1>6. m \in T /\ \A y \in T : m <= y
  <2>1. T \subseteq Nat  BY <1>3
  <2>2. \E y \in T : \A z \in T : y <= z  BY <1>4, <2>1, Least
  <2> QED  BY <1>5, <2>2 DEF Min
<1>7. n = m - 1  BY <1>5
<1>8. m \in Nat /\ m >= 1 /\ m <= last /\ ~Present(x, m)  BY <1>3, <1>6
<1>9. n = 0 \/ Present(x, n)
  <2>1. SUFFICES ASSUME n # 0 PROVE Present(x, n)  OBVIOUS
  <2>2. n \in 1 .. last /\ ~(m <= n)
    <3>1. last \in Nat  BY <1>1, <1>2
    <3>2. m \in Nat /\ m >= 1  BY <1>8
    <3>3. n \in Nat /\ n < m  BY <1>7, <3>2
    <3>4. \A k \in Nat : k # 0 => k >= 1  OBVIOUS
    <3>5. n # 0  BY <2>1
    <3>6. n >= 1  BY <3>3, <3>4, <3>5
    <3>7. n <= last  BY <1>8, <3>1, <3>3
    <3> QED  BY <1>8, <3>1, <3>3, <3>6, <3>7
  <2>3. n \notin T  BY <1>6, <2>2
  <2> QED  BY <1>3, <2>2, <2>3
<1> QED  BY <1>7, <1>8, <1>9

(* The doubling ends at an absent index behind one that is present, or overflows. *)
LEMMA UnboundIs ==
  ASSUME NEW x, NEW from \in Nat, from = 0 \/ Present(x, from), NEW n, n = unbound_search(x, from)
  PROVE  (n = 0 \/ Present(x, n)) /\ ~Present(x, n + 1)
<1> DEFINE I == {q \in Nat \X Nat : q[1] < q[2] /\ (q[1] = 0 \/ Present(x, q[1]))}
<1>1. PICK f : f = Double(x)  OBVIOUS
<1>2. PICK far : far = [q \in I |-> IF q[2] > MAX_INT THEN 0 ELSE MAX_INT + 1 - q[2]]  OBVIOUS
<1>3. PICK p : p = <<from, from + 1>>  OBVIOUS
<1>4. MAX_INT \in Nat  BY IntAssumption
<1>5. p \in I /\ far[p] <= MAX_INT
  <2>1. from + 1 \in Nat /\ from < from + 1  OBVIOUS
  <2>2. p \in I  BY <1>3, <2>1
  <2>3. far[p] = IF from + 1 > MAX_INT THEN 0 ELSE MAX_INT + 1 - (from + 1)  BY <1>2, <1>3, <2>2
  <2> QED  BY <1>4, <2>1, <2>2, <2>3
<1>6. ASSUME NEW q \in I
      PROVE  /\ far[q] \in Nat /\ f[q] \in I
             /\ f[q] = q \/ far[f[q]] < far[q]
             /\ f[q] = q => q[2] > MAX_INT \/ ~Present(x, q[2])
  <2>1. PICK a \in Nat, b \in Nat : q = <<a, b>>  OBVIOUS
  <2>2. PICK d \in Nat : d = 2 * b  OBVIOUS
  <2>3. a < b /\ (a = 0 \/ Present(x, a)) /\ b < d  BY <2>1, <2>2
  <2>4. far[q] = IF b > MAX_INT THEN 0 ELSE MAX_INT + 1 - b  BY <1>2, <2>1
  <2>5. f[q] = IF b <= MAX_INT /\ Present(x, b) THEN <<b, d>> ELSE q
    BY <1>1, <2>1, <2>2 DEF Double
  <2>6. CASE b <= MAX_INT /\ Present(x, b)
    <3>1. f[q] = <<b, d>> /\ <<b, d>> \in I  BY <2>3, <2>5, <2>6
    <3>2. far[<<b, d>>] = IF d > MAX_INT THEN 0 ELSE MAX_INT + 1 - d  BY <1>2, <3>1
    <3>3. far[q] \in Nat /\ far[<<b, d>>] < far[q]  BY <1>4, <2>3, <2>4, <2>6, <3>2
    <3>4. f[q] # q  BY <2>1, <2>3, <3>1
    <3> QED  BY <3>1, <3>3, <3>4
  <2>7. CASE ~(b <= MAX_INT /\ Present(x, b))
    <3>1. f[q] = q  BY <2>5, <2>7
    <3>2. b > MAX_INT \/ ~Present(x, b)  BY <1>4, <2>7
    <3>3. far[q] \in Nat  BY <1>4, <2>4
    <3> QED  BY <2>1, <3>1, <3>2, <3>3
  <2> QED  BY <2>6, <2>7
<1>7. PICK z : z = Rounds(f, MAX_INT, p)  OBVIOUS
<1>8. z \in I /\ f[z] = z
  <2> HIDE DEF I
  <2>1. Nears(f, I, far)  BY <1>6 DEF Nears
  <2> QED  BY <1>4, <1>5, <1>7, <2>1, RoundsEnd
<1>9. PICK a \in Nat, b \in Nat : z = <<a, b>>  BY <1>8
<1>10. a < b /\ (a = 0 \/ Present(x, a)) /\ (b > MAX_INT \/ ~Present(x, b))  BY <1>6, <1>8, <1>9
<1>11. PICK full : full = {i \in a .. b : Present(x, i)}  OBVIOUS
<1>15. PICK T : T = {i \in 1 .. Cardinality(Numbers) + 1 : ~Present(x, i)}  OBVIOUS
<1>12. n = IF b > MAX_INT THEN Min(T) - 1 ELSE Bisect(a, b, full)
  <2>1. n = IF z[2] > MAX_INT THEN Min({i \in 1 .. Cardinality(Numbers) + 1 : ~Present(x, i)}) - 1
            ELSE Bisect(z[1], z[2], {i \in z[1] .. z[2] : Present(x, i)})
    BY <1>1, <1>3, <1>7, Zenon DEF unbound_search
  <2>2. z[1] = a /\ z[2] = b  BY <1>9
  <2> QED  BY <1>11, <1>15, <2>1, <2>2, Zenon
<1>13. CASE b > MAX_INT  BY <1>12, <1>13, <1>15, FirstAbsent
<1>14. CASE ~(b > MAX_INT)
  <2>1. b \notin full /\ n = Bisect(a, b, full)  BY <1>10, <1>11, <1>12, <1>14
  <2>2. n \in a .. b - 1 /\ (n = a \/ n \in full) /\ n + 1 \notin full  BY <1>10, <2>1, BisectIs
  <2>3. n + 1 \in a .. b  BY <1>9, <2>2
  <2> QED  BY <1>10, <1>11, <2>2, <2>3
<1> QED  BY <1>13, <1>14

LEMMA BorderIs ==
  ASSUME NEW x, Tab(x), NEW n, n = luaH_getn(x)
  PROVE  (n = 0 \/ Present(x, n)) /\ ~Present(x, n + 1)
<1>1. PICK j : j = Len(x.array)  OBVIOUS
<1>2. /\ x.array \in Seq(Values \cup {Nil}) /\ NodesInv(x.node, Homes(x))
      /\ \A i \in 1 .. Len(x.array) : x.array[i] # Nil => i \in Numbers
      /\ x.dummy => x.node = [p \in {0} |-> FreeNode]
  BY DEF Tab
<1>3. j \in Nat /\ DOMAIN x.array = 1 .. j  BY <1>1, <1>2
<1>4. \A i \in 1 .. j : Present(x, i) <=> x.array[i] # Nil
  <2>1. TAKE i \in 1 .. j
  <2>2. i \in Numbers => InArray(x, i)  BY <1>1, <1>3 DEF InArray, IsIndex
  <2>3. i \in Numbers => luaH_get(x, i) = x.array[i]  BY <2>2 DEF luaH_get
  <2> QED  BY <1>1, <1>2, <2>3 DEF Present
<1>5. CASE j > 0 /\ x.array[j] = Nil
  <2>1. n = Bisect(0, j, Used(x))  BY <1>1, <1>5 DEF luaH_getn
  <2>2. PICK full : full = Used(x)  OBVIOUS
  <2>3. \A i : i \in full <=> i \in 1 .. j /\ x.array[i] # Nil  BY <1>3, <2>2 DEF Used
  <2>4. j \notin full /\ 0 < j /\ 0 \in Nat  BY <1>3, <1>5, <2>3
  <2>5. n \in 0 .. j - 1 /\ (n = 0 \/ n \in full) /\ n + 1 \notin full
    BY <1>3, <2>1, <2>2, <2>4, BisectIs
  <2>6. n + 1 \in 1 .. j  BY <1>3, <2>5
  <2>7. n = 0 \/ Present(x, n)  BY <1>4, <2>3, <2>5
  <2>8. ~Present(x, n + 1)  BY <1>4, <2>3, <2>5, <2>6
  <2> QED  BY <2>7, <2>8
<1>6. CASE ~(j > 0 /\ x.array[j] = Nil)
  <2>1. j = 0 \/ Present(x, j)
    <3>1. j = 0 \/ (j \in 1 .. j /\ x.array[j] # Nil)  BY <1>3, <1>6
    <3> QED  BY <1>4, <3>1
  <2>2. CASE x.dummy
    <3>1. n = j  BY <1>1, <1>6, <2>2 DEF luaH_getn
    <3>2. ASSUME Present(x, j + 1) PROVE FALSE
      <4>1. PICK k : k = j + 1  OBVIOUS
      <4>2. k \in Keys /\ luaH_get(x, k) # Nil  BY <3>2, <4>1 DEF Present, Keys
      <4>3. ~InArray(x, k)  BY <1>1, <1>3, <4>1 DEF InArray
      <4>4. Binds(x.node, k, luaH_get(x, k))  BY <1>2, <4>2, <4>3, GetIs
      <4>5. \A p \in DOMAIN x.node : x.node[p].key = NoKey  BY <1>2, <2>2 DEF FreeNode
      <4> QED  BY <4>4, <4>5, KeyFacts DEF Binds
    <3> QED  BY <2>1, <3>1, <3>2
  <2>3. CASE ~x.dummy
    <3>1. n = unbound_search(x, j)  BY <1>1, <1>6, <2>3 DEF luaH_getn
    <3> QED  BY <1>3, <2>1, <3>1, UnboundIs
  <2> QED  BY <2>2, <2>3
<1> QED  BY <1>5, <1>6

-----------------------------------------------------------------------------
(* Theorems *)

THEOREM Inductive == Spec => []IInv
<1>1. Init => IInv  BY Initially
<1>2. IInv /\ [Next]_vars => IInv'
  <2> SUFFICES ASSUME IInv, [Next]_vars PROVE IInv'  OBVIOUS
  <2>1. ASSUME NEW k \in Keys, NEW v \in Values \cup {Nil}, SetField(k, v) PROVE IInv'
    BY <2>1, SetKept
  <2>2. ASSUME NEW n \in Presizes, Presize(n) PROVE IInv'  BY <2>2, PresizeKept
  <2>3. CASE Begin  BY <2>3, BeginKept
  <2>4. CASE NextField  BY <2>4, NextFieldKept
  <2>5. CASE removeentries  BY <2>5, RemoveKept
  <2>6. CASE UNCHANGED vars
    <3>1. t' = t /\ UNCHANGED <<traversing, cursor, seen>>  BY <2>6 DEF vars
    <3>2. Tab(t) /\ Pow(t) /\ TraversalInv /\ Tab(t') /\ Pow(t')  BY <3>1 DEF IInv
    <3>3. TraversalInv'  BY <3>1, <3>2, TraversalKept
    <3> QED  BY <3>2, <3>3 DEF IInv
  <2> QED  BY <2>1, <2>2, <2>3, <2>4, <2>5, <2>6 DEF Next
<1> QED  BY <1>1, <1>2, PTL DEF Spec

(* The length of a table is a border, whether its search is in the array part,
   doubles and halves in the hash part, or is linear as the index overflows. *)
THEOREM LengthIsBorderAlways == Spec => []LengthIsBorder
<1>1. ASSUME IInv PROVE LengthIsBorder
  <2>1. Tab(t)  BY <1>1 DEF IInv
  <2> QED  BY <2>1, BorderIs DEF LengthIsBorder
<1> QED  BY <1>1, Inductive, PTL

(* The main invariant of ltable.c: an element out of its main position collides
   with one that is in its own, and is on that one's chain, so that luaH_get
   (through the walk from the main position) finds every field; whatever was
   inserted, moved, cleared, marked dead or reorganised before. *)
THEOREM MainPositionAlways == Spec => []MainPosition
<1>1. ASSUME IInv PROVE MainPosition
  <2>1. PICK x : x = t  OBVIOUS
  <2>2. NodesInv(x.node, Homes(x))  BY <1>1, <2>1 DEF IInv, Tab
  <2>3. ASSUME NEW n \in UsedNodes(x)
        PROVE  LET mp == mainposition(x, x.node[n].key[2])
                   other == x.node[mp].key
               IN /\ mp # n /\ other[1] = "key" => mainposition(x, other[2]) = mp
                  /\ Walk(x, {n})[mp] = n
    <3>1. PICK f, k, mp : f = x.node /\ k = x.node[n].key[2] /\ mp = mainposition(x, k)  OBVIOUS
    <3>2. n \in DOMAIN f /\ Taken(f, n) /\ k = Of(f, n)
      BY <2>2, <2>3, <3>1, TakenFacts DEF UsedNodes, Of
    <3>3. k \in Keys /\ Homes(x)[k] \in DOMAIN f /\ Taken(f, Homes(x)[k])
          /\ Homes(x)[Of(f, Homes(x)[k])] = Homes(x)[k] /\ Leads(f, Homes(x)[k], n)
      BY <2>2, <3>1, <3>2, TakenFacts
    <3>4. Homes(x)[k] = mp  BY <3>1, <3>3 DEF Homes
    <3>5. Of(f, mp) \in Keys  BY <2>2, <3>1, <3>3, <3>4, TakenFacts
    <3>6. mainposition(x, f[mp].key[2]) = mp  BY <3>3, <3>4, <3>5 DEF Homes, Of
    <3>7. Walk(x, {n})[mp] = n
      <4>1. PICK stop, w : stop = {n} /\ w = Walk(x, stop)  OBVIOUS
      <4>2. Linked(f) /\ NULL \notin DOMAIN f  BY <2>2, <3>1 DEF NodesInv
      <4>3. Walked(f, stop, w)  BY <3>1, <4>1, <4>2, WalkIs
      <4>4. Leads(f, n, n)  BY <3>2, <4>2, LeadsFacts
      <4>5. mp \in DOMAIN f /\ Leads(f, mp, n)  BY <3>3, <3>4
      <4>6. w[mp] = n  BY <3>2, <4>1, <4>2, <4>3, <4>4, <4>5, WalkFinds
      <4> QED  BY <4>1, <4>6
    <3> QED  BY <3>1, <3>6, <3>7
  <2> QED  BY <2>1, <2>3 DEF MainPosition
<1> QED  BY <1>1, Inductive, PTL

(* No field is in both parts of a table, getfreepos reaches every free node, and
   the reorganisation of luaH_resize always had room for what the table held, so
   that the insertions it makes start no other one. *)
THEOREM PartsAgreeAlways == Spec => []PartsAgree
<1>1. ASSUME IInv PROVE PartsAgree
  <2>1. PICK x : x = t  OBVIOUS
  <2>2. Tab(x) /\ NodesInv(x.node, Homes(x))  BY <1>1, <2>1 DEF IInv, Tab
  <2>3. x # Overfull
    <3>1. Overfull.dummy /\ Overfull.lastfree = -1  BY DEF Overfull, NULL
    <3>2. x.dummy => x.lastfree = 0  BY <2>2 DEF Tab
    <3> QED  BY <3>1, <3>2
  <2>4. \A n \in UsedNodes(x) : ~InArray(x, x.node[n].key[2])
    <3>1. \A n \in UsedNodes(x) : n \in DOMAIN x.node /\ Taken(x.node, n)
      BY <2>2, TakenFacts DEF UsedNodes
    <3> QED  BY <2>2, <3>1 DEF Tab, Of
  <2>5. \A n \in DOMAIN x.node : n >= x.lastfree /\ ~x.dummy => x.node[n].key # NoKey
    BY <2>2 DEF Tab, Taken
  <2> QED  BY <2>1, <2>3, <2>4, <2>5 DEF PartsAgree
<1> QED  BY <1>1, Inductive, PTL

(* A Lua table is a map: what luaH_get gives of every key after luaH_set is what
   a map would give, through every insertion, collision, move and rehash, and
   what luaH_resizearray and the collector do to the table changes no field; and
   luaH_next meets every field once, also when fields are changed and cleared,
   and their keys marked dead, between its calls. *)
THEOREM TableIsMap == Spec => Refines
<1> DEFINE dict == [k \in Keys |-> luaH_get(t, k)]
<1>1. Init => Map!Init
  <2> SUFFICES ASSUME Init PROVE Map!Init  OBVIOUS
  <2>1. \A k \in Keys : luaH_get(t, k) = Nil  BY Initially
  <2>2. dict = [k \in Keys |-> Nil]  BY <2>1
  <2>3. traversing = FALSE /\ seen = {}  BY DEF Init
  <2> QED  BY <2>2, <2>3 DEF Map!Init
<1>2. IInv /\ [Next]_vars => [Map!Next]_Map!vars
  <2> SUFFICES ASSUME IInv, [Next]_vars PROVE [Map!Next]_Map!vars  OBVIOUS
  <2>0. ASSUME \A j \in Keys : luaH_get(t', j) = luaH_get(t, j) PROVE dict' = dict  BY <2>0
  <2>1. ASSUME NEW k \in Keys, NEW v \in Values \cup {Nil}, SetField(k, v) PROVE Map!Next
    <3>1. \A j \in Keys : luaH_get(t', j) = IF j = k THEN v ELSE luaH_get(t, j)  BY <2>1, SetKept
    <3>2. dict' = [dict EXCEPT ![k] = v]  BY <3>1
    <3>3. (traversing => dict[k] # Nil) /\ UNCHANGED <<traversing, seen>>  BY <2>1 DEF SetField
    <3>4. Map!Set(k, v)  BY <3>2, <3>3 DEF Map!Set
    <3> QED  BY <3>4 DEF Map!Next
  <2>2. ASSUME NEW n \in Presizes, Presize(n) PROVE UNCHANGED Map!vars
    <3>1. dict' = dict  BY <2>0, <2>2, PresizeKept
    <3>2. UNCHANGED <<traversing, seen>>  BY <2>2 DEF Presize
    <3> QED  BY <3>1, <3>2 DEF Map!vars
  <2>3. CASE Begin
    <3>1. t' = t /\ ~traversing /\ traversing' = TRUE /\ seen' = {}  BY <2>3 DEF Begin
    <3>2. dict' = dict  BY <2>0, <3>1
    <3>3. Map!Begin  BY <3>1, <3>2 DEF Map!Begin
    <3> QED  BY <3>3 DEF Map!Next
  <2>4. CASE NextField
    <3>1. PICK k : k = luaH_next(t, cursor)  OBVIOUS
    <3>2. Tab(t) /\ TraversalInv /\ traversing /\ t' = t  BY <2>4 DEF IInv, NextField
    <3>3. dict' = dict  BY <2>0, <3>2
    <3>4. CASE k = Nil
      <4>1. traversing' = FALSE /\ seen' = {}  BY <2>4, <3>1, <3>4 DEF NextField
      <4>2. \A j \in Keys \ seen : dict[j] = Nil  BY <3>1, <3>2, <3>4, EndIs
      <4>3. Map!End  BY <3>2, <3>3, <4>1, <4>2 DEF Map!End
      <4> QED  BY <4>3 DEF Map!Next
    <3>5. CASE k # Nil
      <4>1. traversing' = traversing /\ seen' = seen \cup {k}  BY <2>4, <3>1, <3>5 DEF NextField
      <4>2. k \in Keys \ seen /\ luaH_get(t, k) # Nil  BY <3>1, <3>2, <3>5, NextKept
      <4>3. Map!Visit  BY <3>2, <3>3, <4>1, <4>2 DEF Map!Visit
      <4> QED  BY <4>3 DEF Map!Next
    <3> QED  BY <3>4, <3>5
  <2>5. CASE removeentries
    <3>1. dict' = dict  BY <2>0, <2>5, RemoveKept
    <3>2. UNCHANGED <<traversing, seen>>  BY <2>5 DEF removeentries
    <3> QED  BY <3>1, <3>2 DEF Map!vars
  <2>6. CASE UNCHANGED vars
    <3>1. t' = t /\ UNCHANGED <<traversing, seen>>  BY <2>6 DEF vars
    <3>2. dict' = dict  BY <2>0, <3>1
    <3> QED  BY <3>1, <3>2 DEF Map!vars
  <2> QED  BY <2>1, <2>2, <2>3, <2>4, <2>5, <2>6 DEF Next
<1> QED  BY <1>1, <1>2, Inductive, PTL DEF Spec, Refines, Map!Spec

(* Whenever a table is reorganised (luaH_set, rehash), more than half of its
   new array part is in use, with the key that is added, and of no greater power
   of two (computesizes; ltable.c:11 says "at least half"). *)
THEOREM HalfUsedAlways == Spec => HalfUsed
<1> DEFINE Halved ==
      \A k \in Keys, v \in Values \cup {Nil} :
       Reorganises(k, v) =>
         LET I == IndexesOf(t) \cup ({k} \cap {i \in Numbers : i > 0})
             Half(n) == 2 * Cardinality({i \in I : i <= n}) > n
             n == Len(t'.array)
         IN (n > 0 => Half(n)) /\ \A i \in 0..MAXBITS : 2 ^ i > n => ~Half(2 ^ i)
<1>1. IInv => Halved
  <2> SUFFICES ASSUME IInv, NEW k \in Keys, NEW v \in Values \cup {Nil}, Reorganises(k, v)
               PROVE  LET n == Len(t'.array)
                      IN /\ n > 0 => 2 * Cardinality(Below(t, k, n)) > n
                         /\ \A i \in 0..MAXBITS : 2 ^ i > n => ~(2 * Cardinality(Below(t, k, 2 ^ i)) > 2 ^ i)
    BY Zenon DEF Below
  <2>1. PICK x, y, na : x = t /\ y = t' /\ na = Len(y.array)  OBVIOUS
  <2>2. /\ Tab(x) /\ y = luaH_set(x, k, v)
        /\ ~InArray(x, k) /\ NodeOf(x, k) = NULL /\ NoRoom(x, k)
    BY <2>1 DEF IInv, Reorganises, SetField
  <2>3. na = Sizes(x, k)[1]  BY <2>1, <2>2, FullSize
  <2> QED  BY <2>1, <2>2, <2>3, HalfIs
<1>2. IInv /\ [Next]_vars => [Halved]_vars  BY <1>1, Zenon
<1> QED  BY <1>2, Inductive, PTL DEF Spec, HalfUsed
=============================================================================
