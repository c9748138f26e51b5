------------------------- MODULE GlobalIndexProofs -------------------------
(* The symbol index answers with what the documents say and accounts exactly *)
(* for the sources it holds, for any number of documents, resources, texts   *)
(* and keys.  IndexInv is inductive.  What it adds to the properties: a list *)
(* of HashIndex is in the order of priority but for entries that two symbols *)
(* stand for (setting a node again moves its entry to the end), so that a    *)
(* node is never listed twice: a third symbol would be a third name of it.   *)
(* TopologicalSort and detectCycles are shown right for every graph whose    *)
(* two sets of edges are each other's converse; IndexInv says the graph is   *)
(* always one.                                                               *)
EXTENDS GlobalIndex, FiniteSetTheorems, SequenceTheorems, TLAPS

(* The account: the bytes of the documents listed, each listed once, which   *)
(* are those with any bytes.                                                 *)
NoRepeat(list) == \A i, j \in DOMAIN list : list[i] = list[j] => i = j
AccountOK(list, b, u) ==
    /\ list \in Seq(Docs) /\ b \in [Docs -> Nat]
    /\ u = BytesOf(list, b) /\ u <= MaxMemory
    /\ NoRepeat(list)
    /\ \A d \in Docs : b[d] > 0 <=> d \in ToSet(list)

Listing == [doc: Docs, node: Nat]
Later(x, y) == globalSymbolPriority(x.doc) > globalSymbolPriority(y.doc)

(* Workspace definitions come before library ones, but for those in twice.   *)
Ordered(list, twice) ==
    \A i, j \in DOMAIN list : i < j /\ Later(list[i], list[j]) => list[j] \in twice

(* The entries of a key that some symbol, and that two symbols, stand for.   *)
Held(syms, k) == {Listed(s) : s \in {e \in syms : e.key = k}}
HeldTwice(syms, k) ==
    {x \in Listing : \E e, f \in syms : /\ e # f /\ e.key = k /\ f.key = k
                                        /\ Listed(e) = x /\ Listed(f) = x}
ListOK(syms, k, list) ==
    /\ list \in Seq(Listing)
    /\ ToSet(list) \subseteq Held(syms, k)
    /\ NoRepeat(list)
    /\ Ordered(list, HeldTwice(syms, k))

(* The tables and the lists, over the texts they are made of: no symbol but  *)
(* a definition its document has, and lists of what the symbols hold.        *)
Definition(s) == [name |-> s.name, key |-> s.key, node |-> s.node]
Defined(tx, s) == tx[s.doc] # Nil /\ Definition(s) \in ToSet(tx[s.doc].defs)
OneInSlot(syms) == \A e, f \in syms : Slot(e) = Slot(f) => e = f
TablesOK(syms, h, tx) ==
    /\ syms \subseteq SymbolSet /\ OneInSlot(syms)
    /\ \A s \in syms : Defined(tx, s)
    /\ h \in [Keys -> Seq(Listing)] /\ \A k \in Keys : ListOK(syms, k, h[k])

(* A name of a document is found, or has been overwritten.                   *)
Found(syms, over, d, n) ==
    \/ \E s \in syms : s.doc = d /\ s.name = n
    \/ \E p \in over : p[2] = d /\ p[1][3] = n

(* A dependency is between vertices: whoever has edges keeps its vertex.     *)
GraphClosed == deps \subseteq vertices \X vertices

IndexInv ==
    /\ IndexTypeOK
    /\ TablesOK(symbols, hash, text)
    /\ SoleDefinitionFound
    /\ AliasBacked
    /\ AccountOK(lru, bytes, usage)
    /\ GraphClosed
    /\ EdgesCached

-----------------------------------------------------------------------------
(* Induction.                                                                *)

(* Induction on the naturals, over a set: by well-foundedness a set that is  *)
(* not all of Nat misses a least number.                                     *)
LEMMA SetInduction ==
    ASSUME NEW S, 0 \in S, \A n \in Nat : n \in S => n + 1 \in S
    PROVE  \A n \in Nat : n \in S
<1>. DEFINE R == OpToRel(<, Nat)
<1>1. IsWellFoundedOn(R, Nat)
  BY NatLessThanWellFounded
<1>2. \A m, n \in Nat : m < n => <<m, n>> \in R
  BY DEF OpToRel
<1>. HIDE DEF R
<1>3. SUFFICES ASSUME Nat \ S # {} PROVE FALSE
  OBVIOUS
<1>4. PICK n \in Nat \ S : \A m \in Nat \ S : <<m, n>> \notin R
  <2>1. Nat \ S \subseteq Nat
    OBVIOUS
  <2>. QED
    BY <1>1, <1>3, <2>1, WFMin
<1>5. n # 0 /\ n - 1 \in Nat /\ n - 1 < n /\ n = (n - 1) + 1
  BY <1>4
<1>6. <<n - 1, n>> \in R
  BY <1>2, <1>4, <1>5
<1>7. n - 1 \in S
  BY <1>4, <1>5, <1>6
<1>. QED
  BY <1>4, <1>5, <1>7

(* A set of naturals that is not empty has a least one.                      *)
LEMMA LeastOf ==
    ASSUME NEW S, S \subseteq Nat, S # {}
    PROVE  Min(S) \in S /\ \A n \in S : Min(S) <= n
<1>. DEFINE R == OpToRel(<, Nat)
<1>1. IsWellFoundedOn(R, Nat)
  BY NatLessThanWellFounded
<1>2. \A m, n \in Nat : m < n => <<m, n>> \in R
  BY DEF OpToRel
<1>. HIDE DEF R
<1>3. PICK n \in S : \A m \in S : <<m, n>> \notin R
  BY <1>1, WFMin
<1>4. \A m \in S : n <= m
  <2>1. \A m \in S : m \in Nat /\ n \in Nat /\ ~(m < n)
    BY <1>2, <1>3
  <2>. QED
    BY <2>1
<1>. QED
  BY <1>4 DEF Min

(* A sequence is built by appending.                                         *)
LEMMA AppendInduction ==
    ASSUME NEW S, NEW P, <<>> \in P,
           \A s \in Seq(S), x \in S : s \in P => Append(s, x) \in P
    PROVE  \A s \in Seq(S) : s \in P
<1>. DEFINE D == {n \in Nat : \A s \in Seq(S) : Len(s) = n => s \in P}
<1>1. 0 \in D
  <2>1. \A s \in Seq(S) : Len(s) = 0 => s = <<>>
    OBVIOUS
  <2>. QED
    BY <2>1
<1>2. ASSUME NEW n \in Nat, n \in D PROVE n + 1 \in D
  <2>. SUFFICES ASSUME NEW s \in Seq(S), Len(s) = n + 1 PROVE s \in P
    OBVIOUS
  <2>. DEFINE front == SubSeq(s, 1, n)
  <2>1. front \in Seq(S) /\ Len(front) = n /\ s[n + 1] \in S
    OBVIOUS
  <2>2. s = Append(front, s[n + 1])
    OBVIOUS
  <2>3. front \in P
    BY <1>2, <2>1
  <2>. HIDE DEF front
  <2>. QED
    BY <2>1, <2>2, <2>3
<1>. HIDE DEF D
<1>3. \A n \in Nat : n \in D
  BY <1>1, <1>2, SetInduction
<1>. QED
  BY <1>3 DEF D

-----------------------------------------------------------------------------
(* A list without some of its elements.                                      *)

(* g[i] is what the first i elements leave.                                  *)
IsKept(g, list, gone) ==
    g = [i \in 0 .. Len(list) |->
            IF i = 0 THEN <<>>
            ELSE IF list[i] \in gone THEN g[i - 1] ELSE Append(g[i - 1], list[i])]

(* There is such a function.                                                 *)
LEMMA KeptExists ==
    ASSUME NEW S, NEW list \in Seq(S), NEW gone
    PROVE  \E g : IsKept(g, list, gone)
<1>. DEFINE n == Len(list)
            Good(g, k) == g = [i \in 0 .. k |->
                IF i = 0 THEN <<>>
                ELSE IF list[i] \in gone THEN g[i - 1] ELSE Append(g[i - 1], list[i])]
            D == {k \in Nat : \E g : Good(g, k)}
<1>1. 0 \in D
  <2>1. Good([i \in 0 .. 0 |-> <<>>], 0)
    OBVIOUS
  <2>. HIDE DEF Good
  <2>. QED
    BY <2>1
<1>2. ASSUME NEW k \in Nat, k \in D PROVE k + 1 \in D
  <2>1. PICK g : Good(g, k)
    BY <1>2
  <2>. DEFINE last == IF list[k + 1] \in gone THEN g[k] ELSE Append(g[k], list[k + 1])
              h == [i \in 0 .. k + 1 |-> IF i = k + 1 THEN last ELSE g[i]]
  <2>2. /\ \A i \in 0 .. k : h[i] = g[i]
        /\ h[k + 1] = last
        /\ DOMAIN h = 0 .. k + 1 /\ h = [i \in 0 .. k + 1 |-> h[i]]
    OBVIOUS
  <2>3. ASSUME NEW i \in 0 .. k + 1
        PROVE  h[i] = IF i = 0 THEN <<>>
                      ELSE IF list[i] \in gone THEN h[i - 1] ELSE Append(h[i - 1], list[i])
    <3>. HIDE DEF h
    <3>1. CASE i = k + 1
      <4>1. h[k] = g[k] /\ i - 1 = k /\ i # 0
        <5>1. k \in 0 .. k
          OBVIOUS
        <5>2. h[k] = g[k]
          BY <2>2, <5>1
        <5>3. i - 1 = k /\ i # 0
          BY <3>1
        <5>. QED
          BY <5>2, <5>3
      <4>. QED
        BY <2>2, <3>1, <4>1
    <3>2. CASE i # k + 1
      <4>1. i \in 0 .. k /\ (i # 0 => i - 1 \in 0 .. k)
        BY <3>2
      <4>2. g[i] = IF i = 0 THEN <<>>
                   ELSE IF list[i] \in gone THEN g[i - 1] ELSE Append(g[i - 1], list[i])
        BY <2>1, <4>1
      <4>. QED
        BY <2>2, <4>1, <4>2
    <3>. QED
      BY <3>1, <3>2
  <2>. HIDE DEF h
  <2>4. Good(h, k + 1)
    BY <2>2, <2>3
  <2>. HIDE DEF Good
  <2>. QED
    BY <2>4
<1>3. n \in D
  <2>. HIDE DEF D
  <2>. QED
    BY <1>1, <1>2, SetInduction
<1>. QED
  BY <1>3 DEF IsKept

(* Its last value is Without.                                                *)
LEMMA KeptIsWithout ==
    ASSUME NEW S, NEW list \in Seq(S), NEW gone, NEW g, IsKept(g, list, gone)
    PROVE  Without(list, gone) = g[Len(list)]
<1>. DEFINE n == Len(list)
            F(f) == [i \in 0 .. n |->
                        IF i = 0 THEN <<>>
                        ELSE IF list[i] \in gone THEN f[i - 1] ELSE Append(f[i - 1], list[i])]
            f == CHOOSE h : h = F(h)
<1>1. n \in Nat /\ Without(list, gone) = f[n]
  BY DEF Without
<1>2. g = F(g)
  BY DEF IsKept
<1>. HIDE DEF n
<1>3. f = F(f)
  <2>. HIDE DEF F
  <2>. QED
    BY <1>2
<1>. HIDE DEF f
<1>4. /\ \A i \in 0 .. n : f[i] = F(f)[i]
      /\ \A i \in 0 .. n : g[i] = F(g)[i]
  <2>. HIDE DEF F
  <2>. QED
    BY <1>2, <1>3
<1>5. /\ f[0] = <<>> /\ g[0] = <<>>
      /\ \A i \in 1 .. n :
            f[i] = IF list[i] \in gone THEN f[i - 1] ELSE Append(f[i - 1], list[i])
      /\ \A i \in 1 .. n :
            g[i] = IF list[i] \in gone THEN g[i - 1] ELSE Append(g[i - 1], list[i])
  BY <1>1, <1>4
<1>. DEFINE D == {k \in Nat : k <= n => f[k] = g[k]}
<1>6. 0 \in D
  BY <1>5
<1>7. ASSUME NEW k \in Nat, k \in D PROVE k + 1 \in D
  <2>. SUFFICES ASSUME k + 1 <= n PROVE f[k + 1] = g[k + 1]
    OBVIOUS
  <2>1. f[k] = g[k] /\ k + 1 \in 1 .. n /\ (k + 1) - 1 = k
    BY <1>1, <1>7
  <2>. HIDE DEF F
  <2>. QED
    BY <1>5, <2>1
<1>8. n \in D
  <2>. HIDE DEF D
  <2>. QED
    BY <1>1, <1>6, <1>7, SetInduction
<1>. QED
  BY <1>1, <1>8 DEF n

(* Without, one element at a time.                                           *)
LEMMA WithoutAppend ==
    ASSUME NEW S, NEW s \in Seq(S), NEW x \in S, NEW gone
    PROVE  Without(Append(s, x), gone) =
              IF x \in gone THEN Without(s, gone) ELSE Append(Without(s, gone), x)
<1>. DEFINE t == Append(s, x)
            n == Len(s)
<1>1. /\ t \in Seq(S) /\ Len(t) = n + 1 /\ n \in Nat /\ t[n + 1] = x
      /\ \A i \in 1 .. n : t[i] = s[i]
  OBVIOUS
<1>. HIDE DEF t
<1>2. PICK g : IsKept(g, t, gone)
  BY <1>1, KeptExists
<1>. DEFINE h == [i \in 0 .. n |-> g[i]]
<1>3. \A i \in 0 .. n + 1 :
        g[i] = IF i = 0 THEN <<>>
               ELSE IF t[i] \in gone THEN g[i - 1] ELSE Append(g[i - 1], t[i])
  BY <1>1, <1>2 DEF IsKept
<1>4. IsKept(h, s, gone)
  <2>1. ASSUME NEW i \in 0 .. n
        PROVE  h[i] = IF i = 0 THEN <<>>
                      ELSE IF s[i] \in gone THEN h[i - 1] ELSE Append(h[i - 1], s[i])
    <3>1. CASE i = 0
      BY <1>3, <3>1
    <3>2. CASE i # 0
      <4>1. i \in 1 .. n /\ i - 1 \in 0 .. n /\ i \in 0 .. n + 1
        BY <1>1, <3>2
      <4>2. h[i] = g[i] /\ h[i - 1] = g[i - 1] /\ t[i] = s[i]
        BY <1>1, <4>1
      <4>. HIDE DEF h
      <4>. QED
        BY <1>3, <3>2, <4>1, <4>2
    <3>. QED
      BY <3>1, <3>2
  <2>2. h = [i \in 0 .. n |-> h[i]]
    OBVIOUS
  <2>. HIDE DEF h
  <2>. QED
    BY <2>1, <2>2 DEF IsKept
<1>5. Without(s, gone) = h[n] /\ Without(t, gone) = g[n + 1]
  BY <1>1, <1>2, <1>4, KeptIsWithout
<1>6. n + 1 # 0 /\ (n + 1) - 1 = n /\ n + 1 \in 0 .. n + 1 /\ n \in 0 .. n
  BY <1>1
<1>7. g[n + 1] = IF x \in gone THEN g[n] ELSE Append(g[n], x)
  BY <1>1, <1>3, <1>6
<1>. QED
  BY <1>5, <1>6, <1>7 DEF t

(* Nothing, without anything, is nothing.                                    *)
LEMMA WithoutNone ==
    ASSUME NEW gone
    PROVE  Without(<<>>, gone) = <<>>
<1>. DEFINE g == [i \in 0 .. 0 |-> <<>>]
<1>1. IsKept(g, <<>>, gone) /\ g[0] = <<>>
  BY DEF IsKept
<1>2. <<>> \in Seq({}) /\ Len(<<>>) = 0
  OBVIOUS
<1>. HIDE DEF g
<1>. QED
  BY <1>1, <1>2, KeptIsWithout

(* What stands in a list in this order, stands so in the other.              *)
InOrderOf(part, list) ==
    \A i, j \in DOMAIN part : i < j =>
        \E a, b \in DOMAIN list : a < b /\ part[i] = list[a] /\ part[j] = list[b]

(* One element more.                                                         *)
LEMMA AppendFacts ==
    ASSUME NEW S, NEW s \in Seq(S), NEW x \in S
    PROVE  /\ Append(s, x) \in Seq(S)
           /\ ToSet(Append(s, x)) = ToSet(s) \cup {x}
           /\ Len(s) \in Nat /\ Len(Append(s, x)) = Len(s) + 1
           /\ DOMAIN s = 1 .. Len(s) /\ DOMAIN Append(s, x) = 1 .. Len(s) + 1
           /\ Append(s, x)[Len(s) + 1] = x
           /\ \A i \in 1 .. Len(s) : Append(s, x)[i] = s[i] /\ s[i] \in S
<1>. DEFINE t == Append(s, x)
<1>1. /\ t \in Seq(S) /\ Len(t) = Len(s) + 1 /\ DOMAIN t = 1 .. Len(s) + 1
      /\ t[Len(s) + 1] = x
      /\ \A i \in 1 .. Len(s) : t[i] = s[i] /\ s[i] \in S
      /\ DOMAIN s = 1 .. Len(s) /\ Len(s) \in Nat
  OBVIOUS
<1>. HIDE DEF t
<1>2. ToSet(t) = ToSet(s) \cup {x}
  BY <1>1 DEF ToSet
<1>. QED
  BY <1>1, <1>2 DEF t

(* Without keeps exactly the elements it should, in their order.             *)
LEMMA WithoutKeeps ==
    ASSUME NEW S, NEW list \in Seq(S), NEW gone
    PROVE  /\ Without(list, gone) \in Seq(S)
           /\ ToSet(Without(list, gone)) = ToSet(list) \ gone
           /\ InOrderOf(Without(list, gone), list)
<1>. DEFINE Good(s) == /\ Without(s, gone) \in Seq(S)
                       /\ ToSet(Without(s, gone)) = ToSet(s) \ gone
                       /\ InOrderOf(Without(s, gone), s)
            P == {s \in Seq(S) : Good(s)}
<1>1. <<>> \in P
  <2>1. <<>> \in Seq(S) /\ ToSet(<<>>) = {} /\ InOrderOf(<<>>, <<>>)
    BY DEF ToSet, InOrderOf
  <2>. QED
    BY <2>1, WithoutNone
<1>2. ASSUME NEW s \in Seq(S), NEW x \in S, s \in P PROVE Append(s, x) \in P
  <2>1. PICK w : w = Without(s, gone)
    OBVIOUS
  <2>2. w \in Seq(S) /\ ToSet(w) = ToSet(s) \ gone /\ InOrderOf(w, s)
    BY <1>2, <2>1
  <2>3. Without(Append(s, x), gone) = IF x \in gone THEN w ELSE Append(w, x)
    BY <2>1, WithoutAppend
  <2>4. PICK t : t = Append(s, x)
    OBVIOUS
  <2>5. /\ t \in Seq(S) /\ ToSet(t) = ToSet(s) \cup {x} /\ Len(s) \in Nat
        /\ DOMAIN s = 1 .. Len(s) /\ DOMAIN t = 1 .. Len(s) + 1 /\ t[Len(s) + 1] = x
        /\ \A i \in 1 .. Len(s) : t[i] = s[i]
    BY <2>4, AppendFacts
  <2>6. InOrderOf(w, t)
    BY <2>2, <2>5 DEF InOrderOf
  <2>7. CASE x \in gone
    BY <2>2, <2>3, <2>4, <2>5, <2>6, <2>7
  <2>8. CASE x \notin gone
    <3>1. PICK v : v = Append(w, x)
      OBVIOUS
    <3>2. /\ v \in Seq(S) /\ ToSet(v) = ToSet(w) \cup {x} /\ Len(w) \in Nat
          /\ DOMAIN w = 1 .. Len(w) /\ DOMAIN v = 1 .. Len(w) + 1 /\ v[Len(w) + 1] = x
          /\ \A i \in 1 .. Len(w) : v[i] = w[i]
      BY <2>2, <3>1, AppendFacts
    <3>3. ASSUME NEW i \in DOMAIN v, NEW j \in DOMAIN v, i < j
          PROVE  \E a, b \in DOMAIN t : a < b /\ v[i] = t[a] /\ v[j] = t[b]
      <4>1. CASE j = Len(w) + 1
        <5>1. i \in 1 .. Len(w) /\ v[i] = w[i] /\ w[i] \in ToSet(w)
          BY <3>2, <3>3, <4>1 DEF ToSet
        <5>2. PICK a \in DOMAIN s : s[a] = w[i]
          BY <2>2, <5>1 DEF ToSet
        <5>3. a \in DOMAIN t /\ Len(s) + 1 \in DOMAIN t /\ a < Len(s) + 1 /\ t[a] = s[a]
          BY <2>5
        <5>. QED
          BY <2>5, <3>2, <4>1, <5>1, <5>2, <5>3
      <4>2. CASE j # Len(w) + 1
        <5>1. i \in DOMAIN w /\ j \in DOMAIN w /\ v[i] = w[i] /\ v[j] = w[j]
          BY <3>2, <3>3, <4>2
        <5>. QED
          BY <2>6, <3>3, <5>1 DEF InOrderOf
      <4>. QED
        BY <4>1, <4>2
    <3>4. InOrderOf(v, t)
      BY <3>3 DEF InOrderOf
    <3>. QED
      BY <2>2, <2>3, <2>4, <2>5, <2>8, <3>1, <3>2, <3>4
  <2>. QED
    BY <2>7, <2>8
<1>. HIDE DEF P
<1>3. list \in P
  BY <1>1, <1>2, AppendInduction
<1>. QED
  BY <1>3 DEF P

-----------------------------------------------------------------------------
(* The bytes of a list of documents.                                         *)

(* g[i] is what the first i documents account for.                           *)
IsSums(g, list, b) ==
    g = [i \in 0 .. Len(list) |->
            IF i = 0 THEN 0
            ELSE g[i - 1] + b[list[i]]]

(* There is such a function.                                                 *)
LEMMA SumsExist ==
    ASSUME NEW S, NEW list \in Seq(S), NEW b
    PROVE  \E g : IsSums(g, list, b)
<1>. DEFINE n == Len(list)
            Good(g, k) == g = [i \in 0 .. k |->
                IF i = 0 THEN 0
                ELSE g[i - 1] + b[list[i]]]
            D == {k \in Nat : \E g : Good(g, k)}
<1>1. 0 \in D
  <2>1. Good([i \in 0 .. 0 |-> 0], 0)
    OBVIOUS
  <2>. HIDE DEF Good
  <2>. QED
    BY <2>1
<1>2. ASSUME NEW k \in Nat, k \in D PROVE k + 1 \in D
  <2>1. PICK g : Good(g, k)
    BY <1>2
  <2>. DEFINE last == g[k] + b[list[k + 1]]
              h == [i \in 0 .. k + 1 |-> IF i = k + 1 THEN last ELSE g[i]]
  <2>2. /\ \A i \in 0 .. k : h[i] = g[i]
        /\ h[k + 1] = last
        /\ DOMAIN h = 0 .. k + 1 /\ h = [i \in 0 .. k + 1 |-> h[i]]
    OBVIOUS
  <2>3. ASSUME NEW i \in 0 .. k + 1
        PROVE  h[i] = IF i = 0 THEN 0
                      ELSE h[i - 1] + b[list[i]]
    <3>. HIDE DEF h
    <3>1. CASE i = k + 1
      <4>1. h[k] = g[k] /\ i - 1 = k /\ i # 0
        <5>1. k \in 0 .. k
          OBVIOUS
        <5>2. h[k] = g[k]
          BY <2>2, <5>1
        <5>3. i - 1 = k /\ i # 0
          BY <3>1
        <5>. QED
          BY <5>2, <5>3
      <4>. QED
        BY <2>2, <3>1, <4>1
    <3>2. CASE i # k + 1
      <4>1. i \in 0 .. k /\ (i # 0 => i - 1 \in 0 .. k)
        BY <3>2
      <4>2. g[i] = IF i = 0 THEN 0
                   ELSE g[i - 1] + b[list[i]]
        BY <2>1, <4>1
      <4>. QED
        BY <2>2, <4>1, <4>2
    <3>. QED
      BY <3>1, <3>2
  <2>. HIDE DEF h
  <2>4. Good(h, k + 1)
    BY <2>2, <2>3
  <2>. HIDE DEF Good
  <2>. QED
    BY <2>4
<1>3. n \in D
  <2>. HIDE DEF D
  <2>. QED
    BY <1>1, <1>2, SetInduction
<1>. QED
  BY <1>3 DEF IsSums

(* Its last value is BytesOf.                                                *)
LEMMA SumsAreBytes ==
    ASSUME NEW S, NEW list \in Seq(S), NEW b, NEW g, IsSums(g, list, b)
    PROVE  BytesOf(list, b) = g[Len(list)]
<1>. DEFINE n == Len(list)
            F(f) == [i \in 0 .. n |->
                        IF i = 0 THEN 0
                        ELSE f[i - 1] + b[list[i]]]
            f == CHOOSE h : h = F(h)
<1>1. n \in Nat /\ BytesOf(list, b) = f[n]
  BY DEF BytesOf
<1>2. g = F(g)
  BY DEF IsSums
<1>. HIDE DEF n
<1>3. f = F(f)
  <2>. HIDE DEF F
  <2>. QED
    BY <1>2
<1>. HIDE DEF f
<1>4. /\ \A i \in 0 .. n : f[i] = F(f)[i]
      /\ \A i \in 0 .. n : g[i] = F(g)[i]
  <2>. HIDE DEF F
  <2>. QED
    BY <1>2, <1>3
<1>5. /\ f[0] = 0 /\ g[0] = 0
      /\ \A i \in 1 .. n :
            f[i] = f[i - 1] + b[list[i]]
      /\ \A i \in 1 .. n :
            g[i] = g[i - 1] + b[list[i]]
  BY <1>1, <1>4
<1>. DEFINE D == {k \in Nat : k <= n => f[k] = g[k]}
<1>6. 0 \in D
  BY <1>5
<1>7. ASSUME NEW k \in Nat, k \in D PROVE k + 1 \in D
  <2>. SUFFICES ASSUME k + 1 <= n PROVE f[k + 1] = g[k + 1]
    OBVIOUS
  <2>1. f[k] = g[k] /\ k + 1 \in 1 .. n /\ (k + 1) - 1 = k
    BY <1>1, <1>7
  <2>. HIDE DEF F
  <2>. QED
    BY <1>5, <2>1
<1>8. n \in D
  <2>. HIDE DEF D
  <2>. QED
    BY <1>1, <1>6, <1>7, SetInduction
<1>. QED
  BY <1>1, <1>8 DEF n

(* A document adds its bytes.                                                *)
LEMMA BytesAppend ==
    ASSUME NEW S, NEW s \in Seq(S), NEW x \in S, NEW b
    PROVE  BytesOf(Append(s, x), b) =
              BytesOf(s, b) + b[x]
<1>. DEFINE t == Append(s, x)
            n == Len(s)
<1>1. /\ t \in Seq(S) /\ Len(t) = n + 1 /\ n \in Nat /\ t[n + 1] = x
      /\ \A i \in 1 .. n : t[i] = s[i]
  OBVIOUS
<1>. HIDE DEF t
<1>2. PICK g : IsSums(g, t, b)
  BY <1>1, SumsExist
<1>. DEFINE h == [i \in 0 .. n |-> g[i]]
<1>3. \A i \in 0 .. n + 1 :
        g[i] = IF i = 0 THEN 0
               ELSE g[i - 1] + b[t[i]]
  BY <1>1, <1>2 DEF IsSums
<1>4. IsSums(h, s, b)
  <2>1. ASSUME NEW i \in 0 .. n
        PROVE  h[i] = IF i = 0 THEN 0
                      ELSE h[i - 1] + b[s[i]]
    <3>1. CASE i = 0
      BY <1>3, <3>1
    <3>2. CASE i # 0
      <4>1. i \in 1 .. n /\ i - 1 \in 0 .. n /\ i \in 0 .. n + 1
        BY <1>1, <3>2
      <4>2. h[i] = g[i] /\ h[i - 1] = g[i - 1] /\ t[i] = s[i]
        BY <1>1, <4>1
      <4>. HIDE DEF h
      <4>. QED
        BY <1>3, <3>2, <4>1, <4>2
    <3>. QED
      BY <3>1, <3>2
  <2>2. h = [i \in 0 .. n |-> h[i]]
    OBVIOUS
  <2>. HIDE DEF h
  <2>. QED
    BY <2>1, <2>2 DEF IsSums
<1>5. BytesOf(s, b) = h[n] /\ BytesOf(t, b) = g[n + 1]
  BY <1>1, <1>2, <1>4, SumsAreBytes
<1>6. n + 1 # 0 /\ (n + 1) - 1 = n /\ n + 1 \in 0 .. n + 1 /\ n \in 0 .. n
  BY <1>1
<1>7. g[n + 1] = g[n] + b[x]
  BY <1>1, <1>3, <1>6
<1>. QED
  BY <1>5, <1>6, <1>7 DEF t

(* No documents, no bytes.                                                   *)
LEMMA BytesNone ==
    ASSUME NEW b
    PROVE  BytesOf(<<>>, b) = 0
<1>. DEFINE g == [i \in 0 .. 0 |-> 0]
<1>1. IsSums(g, <<>>, b) /\ g[0] = 0
  BY DEF IsSums
<1>2. <<>> \in Seq({}) /\ Len(<<>>) = 0
  OBVIOUS
<1>. HIDE DEF g
<1>. QED
  BY <1>1, <1>2, SumsAreBytes

(* One element more, not to repeat any.                                      *)
LEMMA AppendNew ==
    ASSUME NEW S, NEW s \in Seq(S), NEW x \in S
    PROVE  NoRepeat(Append(s, x)) <=> NoRepeat(s) /\ x \notin ToSet(s)
<1>1. PICK t : t = Append(s, x)
  OBVIOUS
<1>2. /\ Len(s) \in Nat /\ DOMAIN s = 1 .. Len(s) /\ DOMAIN t = 1 .. Len(s) + 1
      /\ t[Len(s) + 1] = x /\ \A i \in 1 .. Len(s) : t[i] = s[i]
  BY <1>1, AppendFacts
<1>3. ASSUME NoRepeat(t) PROVE NoRepeat(s) /\ x \notin ToSet(s)
  <2>1. NoRepeat(s)
    BY <1>2, <1>3 DEF NoRepeat
  <2>2. \A i \in 1 .. Len(s) : s[i] # x
    BY <1>2, <1>3 DEF NoRepeat
  <2>. QED
    BY <1>2, <2>1, <2>2 DEF ToSet
<1>4. ASSUME NoRepeat(s), x \notin ToSet(s) PROVE NoRepeat(t)
  <2>. SUFFICES ASSUME NEW i \in 1 .. Len(s) + 1, NEW j \in 1 .. Len(s) + 1, t[i] = t[j]
                PROVE  i = j
    BY <1>2 DEF NoRepeat
  <2>1. \A k \in 1 .. Len(s) : s[k] # x
    BY <1>2, <1>4 DEF ToSet
  <2>2. CASE i = Len(s) + 1 \/ j = Len(s) + 1
    BY <1>2, <2>1, <2>2
  <2>3. CASE i # Len(s) + 1 /\ j # Len(s) + 1
    <3>1. i \in 1 .. Len(s) /\ j \in 1 .. Len(s)
      BY <1>2, <2>3
    <3>. QED
      BY <1>2, <1>4, <3>1 DEF NoRepeat
  <2>. QED
    BY <2>2, <2>3
<1>. QED
  BY <1>1, <1>3, <1>4

(* A part of a list in the list's order repeats nothing either.              *)
LEMMA PartNew ==
    ASSUME NEW S, NEW list \in Seq(S), NEW T, NEW part \in Seq(T),
           InOrderOf(part, list), NoRepeat(list)
    PROVE  NoRepeat(part)
<1>. SUFFICES ASSUME NEW i \in DOMAIN part, NEW j \in DOMAIN part, i < j, part[i] = part[j]
              PROVE  FALSE
  <2>1. \A i, j \in DOMAIN part : i < j \/ j < i \/ i = j
    OBVIOUS
  <2>. QED
    BY <2>1 DEF NoRepeat
<1>1. PICK a \in DOMAIN list, b \in DOMAIN list :
        a < b /\ part[i] = list[a] /\ part[j] = list[b]
  BY DEF InOrderOf
<1>2. a = b
  BY <1>1 DEF NoRepeat
<1>. QED
  BY <1>1, <1>2

(* The bytes of a list are a number, and depend on its documents alone.      *)
LEMMA BytesSame ==
    ASSUME NEW b \in [Docs -> Nat], NEW c \in [Docs -> Nat], NEW list \in Seq(Docs)
    PROVE  /\ BytesOf(list, b) \in Nat
           /\ (\A d \in ToSet(list) : b[d] = c[d]) => BytesOf(list, b) = BytesOf(list, c)
<1>. DEFINE Good(s) ==
        /\ BytesOf(s, b) \in Nat
        /\ (\A d \in ToSet(s) : b[d] = c[d]) => BytesOf(s, b) = BytesOf(s, c)
            P == {s \in Seq(Docs) : Good(s)}
<1>1. <<>> \in P
  <2>1. <<>> \in Seq(Docs)
    OBVIOUS
  <2>. QED
    BY <2>1, BytesNone
<1>2. ASSUME NEW s \in Seq(Docs), NEW x \in Docs, s \in P PROVE Append(s, x) \in P
  <2>1. /\ BytesOf(Append(s, x), b) = BytesOf(s, b) + b[x]
        /\ BytesOf(Append(s, x), c) = BytesOf(s, c) + c[x]
    BY BytesAppend
  <2>2. PICK t : t = Append(s, x)
    OBVIOUS
  <2>3. t \in Seq(Docs) /\ ToSet(t) = ToSet(s) \cup {x}
    BY <2>2, AppendFacts
  <2>4. BytesOf(s, b) \in Nat /\ b[x] \in Nat
    BY <1>2
  <2>5. BytesOf(t, b) \in Nat
    BY <2>1, <2>2, <2>4
  <2>6. ASSUME \A d \in ToSet(t) : b[d] = c[d] PROVE BytesOf(t, b) = BytesOf(t, c)
    <3>1. b[x] = c[x] /\ \A d \in ToSet(s) : b[d] = c[d]
      BY <2>3, <2>6
    <3>2. BytesOf(s, b) = BytesOf(s, c)
      BY <1>2, <3>1
    <3>. QED
      BY <2>1, <2>2, <3>1, <3>2
  <2>. QED
    BY <2>2, <2>3, <2>5, <2>6
<1>. HIDE DEF P
<1>3. list \in P
  BY <1>1, <1>2, AppendInduction
<1>. QED
  BY <1>3 DEF P

(* A document that is taken out takes its bytes with it.                     *)
LEMMA BytesWithout ==
    ASSUME NEW b \in [Docs -> Nat], NEW d \in Docs, NEW list \in Seq(Docs), NoRepeat(list)
    PROVE  BytesOf(list, b) = BytesOf(Without(list, {d}), b)
                              + IF d \in ToSet(list) THEN b[d] ELSE 0
<1>. DEFINE Good(s) == NoRepeat(s) => BytesOf(s, b) = BytesOf(Without(s, {d}), b)
                              + IF d \in ToSet(s) THEN b[d] ELSE 0
            P == {s \in Seq(Docs) : Good(s)}
<1>1. <<>> \in P
  <2>1. <<>> \in Seq(Docs) /\ ToSet(<<>>) = {}
    BY DEF ToSet
  <2>. QED
    BY <2>1, BytesNone, WithoutNone
<1>2. ASSUME NEW s \in Seq(Docs), NEW x \in Docs, s \in P PROVE Append(s, x) \in P
  <2>0. Append(s, x) \in Seq(Docs)
    OBVIOUS
  <2>. SUFFICES ASSUME NoRepeat(Append(s, x))
                PROVE  BytesOf(Append(s, x), b) = BytesOf(Without(Append(s, x), {d}), b)
                              + IF d \in ToSet(Append(s, x)) THEN b[d] ELSE 0
    BY <2>0
  <2>1. NoRepeat(s) /\ x \notin ToSet(s)
    BY AppendNew
  <2>2. PICK w : w = Without(s, {d})
    OBVIOUS
  <2>3. w \in Seq(Docs) /\ BytesOf(w, b) \in Nat
    BY <2>2, WithoutKeeps, BytesSame
  <2>4. BytesOf(s, b) = BytesOf(w, b) + IF d \in ToSet(s) THEN b[d] ELSE 0
    BY <1>2, <2>1, <2>2
  <2>5. PICK t : t = Append(s, x)
    OBVIOUS
  <2>6. BytesOf(t, b) = BytesOf(s, b) + b[x] /\ ToSet(t) = ToSet(s) \cup {x}
    BY <2>5, BytesAppend, AppendFacts
  <2>7. Without(t, {d}) = IF x = d THEN w ELSE Append(w, x)
    BY <2>2, <2>5, WithoutAppend
  <2>8. BytesOf(Append(w, x), b) = BytesOf(w, b) + b[x] /\ b[x] \in Nat /\ b[d] \in Nat
    BY <2>3, BytesAppend
  <2>9. CASE x = d
    <3>1. Without(t, {d}) = w /\ d \in ToSet(t) /\ d \notin ToSet(s)
      BY <2>1, <2>6, <2>7, <2>9
    <3>2. BytesOf(s, b) = BytesOf(w, b)
      BY <2>3, <2>4, <3>1
    <3>. QED
      BY <2>5, <2>6, <2>9, <3>1, <3>2
  <2>10. CASE x # d
    <3>1. (d \in ToSet(t)) = (d \in ToSet(s))
      BY <2>6, <2>10
    <3>2. BytesOf(Without(t, {d}), b) = BytesOf(w, b) + b[x]
      BY <2>7, <2>8, <2>10
    <3>. DEFINE y == IF d \in ToSet(s) THEN b[d] ELSE 0
    <3>3. y \in Nat /\ y = IF d \in ToSet(t) THEN b[d] ELSE 0
      BY <2>8, <3>1
    <3>4. BytesOf(s, b) = BytesOf(w, b) + y
      BY <2>4
    <3>. HIDE DEF y
    <3>5. BytesOf(t, b) = BytesOf(Without(t, {d}), b) + y
      BY <2>3, <2>6, <2>8, <3>2, <3>3, <3>4
    <3>. QED
      BY <2>5, <3>3, <3>5
  <2>. QED
    BY <2>9, <2>10
<1>. HIDE DEF P
<1>3. list \in P
  BY <1>1, <1>2, AppendInduction
<1>. QED
  BY <1>3 DEF P

(* A list cut in two.                                                        *)
LEMMA CutFacts ==
    ASSUME NEW S, NEW list \in Seq(S), NEW n \in 0 .. Len(list)
    PROVE  LET head == SubSeq(list, 1, n)
               rest == SubSeq(list, n + 1, Len(list))
           IN  /\ head \in Seq(S) /\ rest \in Seq(S)
               /\ ToSet(list) = ToSet(head) \cup ToSet(rest)
               /\ NoRepeat(list) => NoRepeat(rest) /\ ToSet(head) \cap ToSet(rest) = {}
<1>. DEFINE head == SubSeq(list, 1, n)
            rest == SubSeq(list, n + 1, Len(list))
            m == Len(list) - n
<1>1. /\ head \in Seq(S) /\ DOMAIN head = 1 .. n /\ \A i \in 1 .. n : head[i] = list[i]
      /\ rest \in Seq(S) /\ DOMAIN rest = 1 .. m /\ \A i \in 1 .. m : rest[i] = list[n + i]
      /\ Len(list) \in Nat /\ n \in Nat /\ n <= Len(list) /\ m \in Nat
      /\ DOMAIN list = 1 .. Len(list)
  OBVIOUS
<1>. HIDE DEF head, rest, m
<1>m. m = Len(list) - n
  BY DEF m
<1>2. \A i \in 1 .. m : n + i \in DOMAIN list
  BY <1>1, <1>m
<1>3. \A i \in DOMAIN list : i \in 1 .. n \/ (i - n \in 1 .. m /\ n + (i - n) = i)
  BY <1>1, <1>m
<1>4. ToSet(list) = ToSet(head) \cup ToSet(rest)
  <2>1. ToSet(list) \subseteq ToSet(head) \cup ToSet(rest)
    BY <1>1, <1>3 DEF ToSet
  <2>2. ToSet(head) \cup ToSet(rest) \subseteq ToSet(list)
    <3>1. \A i \in 1 .. n : i \in DOMAIN list
      BY <1>1
    <3>. QED
      BY <1>1, <1>2, <3>1 DEF ToSet
  <2>. QED
    BY <2>1, <2>2
<1>5. ASSUME NoRepeat(list) PROVE NoRepeat(rest) /\ ToSet(head) \cap ToSet(rest) = {}
  <2>1. NoRepeat(rest)
    <3>. SUFFICES ASSUME NEW i \in 1 .. m, NEW j \in 1 .. m, rest[i] = rest[j]
                  PROVE  i = j
      BY <1>1 DEF NoRepeat
    <3>1. n + i = n + j
      BY <1>1, <1>2, <1>5 DEF NoRepeat
    <3>. QED
      BY <1>1, <3>1
  <2>2. \A i \in 1 .. n, j \in 1 .. m : head[i] # rest[j]
    <3>. SUFFICES ASSUME NEW i \in 1 .. n, NEW j \in 1 .. m, head[i] = rest[j]
                  PROVE  FALSE
      OBVIOUS
    <3>0. n \in Nat /\ Len(list) \in Nat /\ n <= Len(list) /\ DOMAIN list = 1 .. Len(list)
          /\ m \in Nat
      BY <1>1
    <3>1. i \in DOMAIN list /\ n + j \in DOMAIN list /\ i # n + j
      <4>1. i \in 1 .. Len(list) /\ n + j \in 1 .. Len(list) /\ i # n + j
        BY <1>m, <3>0
      <4>. QED
        BY <3>0, <4>1
    <3>2. list[i] = list[n + j]
      BY <1>1
    <3>. QED
      BY <1>5, <3>1, <3>2 DEF NoRepeat
  <2>. QED
    BY <1>1, <2>1, <2>2 DEF ToSet
<1>. QED
  BY <1>1, <1>4, <1>5 DEF head, rest

(* Its bytes are those of the two parts.                                     *)
LEMMA BytesCut ==
    ASSUME NEW b \in [Docs -> Nat], NEW list \in Seq(Docs), NEW n \in 0 .. Len(list)
    PROVE  BytesOf(list, b) = BytesOf(SubSeq(list, 1, n), b)
                              + BytesOf(SubSeq(list, n + 1, Len(list)), b)
<1>. DEFINE head == SubSeq(list, 1, n)
            Good(m) == BytesOf(SubSeq(list, 1, m), b)
                       = BytesOf(head, b) + BytesOf(SubSeq(list, n + 1, m), b)
            D == {k \in Nat : n + k <= Len(list) => Good(n + k)}
<1>1. head \in Seq(Docs) /\ n \in Nat /\ Len(list) \in Nat /\ n <= Len(list)
  OBVIOUS
<1>2. BytesOf(head, b) \in Nat
  <2>. HIDE DEF head
  <2>. QED
    BY <1>1, BytesSame
<1>3. Good(n)
  <2>1. SubSeq(list, n + 1, n) = <<>>
    OBVIOUS
  <2>2. BytesOf(SubSeq(list, n + 1, n), b) = 0
    BY <2>1, BytesNone
  <2>. QED
    BY <1>2, <2>2
<1>4. ASSUME NEW m \in n .. Len(list) - 1, Good(m) PROVE Good(m + 1)
  <2>. DEFINE u == SubSeq(list, 1, m)
              v == SubSeq(list, n + 1, m)
              x == list[m + 1]
  <2>1. u \in Seq(Docs) /\ v \in Seq(Docs) /\ x \in Docs
    OBVIOUS
  <2>2. SubSeq(list, 1, m + 1) = Append(u, x)
    OBVIOUS
  <2>3. SubSeq(list, n + 1, m + 1) = Append(v, x)
    OBVIOUS
  <2>4. BytesOf(u, b) = BytesOf(head, b) + BytesOf(v, b)
    BY <1>4
  <2>. HIDE DEF u, v, x, head
  <2>5. /\ BytesOf(Append(u, x), b) = BytesOf(u, b) + b[x]
        /\ BytesOf(Append(v, x), b) = BytesOf(v, b) + b[x]
    BY <2>1, BytesAppend
  <2>6. BytesOf(v, b) \in Nat
    BY <2>1, BytesSame
  <2>7. b[x] \in Nat
    BY <2>1
  <2>8. BytesOf(Append(u, x), b) = BytesOf(head, b) + BytesOf(Append(v, x), b)
    BY <1>2, <2>4, <2>5, <2>6, <2>7
  <2>. QED
    BY <2>2, <2>3, <2>8
<1>. HIDE DEF Good
<1>5. 0 \in D
  BY <1>1, <1>3
<1>6. ASSUME NEW k \in Nat, k \in D PROVE k + 1 \in D
  <2>. SUFFICES ASSUME n + (k + 1) <= Len(list) PROVE Good(n + (k + 1))
    OBVIOUS
  <2>1. n + k \in n .. Len(list) - 1 /\ (n + k) + 1 = n + (k + 1)
    BY <1>1
  <2>2. Good(n + k)
    BY <1>1, <1>6, <2>1
  <2>. QED
    BY <1>4, <2>1, <2>2
<1>7. Len(list) - n \in Nat /\ n + (Len(list) - n) = Len(list)
  BY <1>1
<1>8. Len(list) - n \in D
  <2>. HIDE DEF D
  <2>. QED
    BY <1>5, <1>6, <1>7, SetInduction
<1>9. Good(Len(list))
  BY <1>1, <1>7, <1>8
<1>10. SubSeq(list, 1, Len(list)) = list
  OBVIOUS
<1>. QED
  BY <1>9, <1>10 DEF Good

(* evictLRULocked leaves no more than fits.                                  *)
LEMMA VictimsFit ==
    ASSUME NEW b \in [Docs -> Nat], NEW list \in Seq(Docs), IndexConstantsOK
    PROVE  /\ Victims(list, b) \in 0 .. Len(list)
           /\ BytesOf(SubSeq(list, Victims(list, b) + 1, Len(list)), b) <= MaxMemory
<1>. DEFINE Fits(n) == BytesOf(SubSeq(list, n + 1, Len(list)), b) <= MaxMemory
            S == {n \in 0 .. Len(list) : n = Len(list) \/ Fits(n)}
<1>1. Len(list) \in S /\ S \subseteq Nat
  OBVIOUS
<1>2. Fits(Len(list))
  <2>1. SubSeq(list, Len(list) + 1, Len(list)) = <<>>
    OBVIOUS
  <2>2. 0 <= MaxMemory
    <3>1. MaxMemory \in Nat
      BY DEF IndexConstantsOK
    <3>. QED
      BY <3>1
  <2>. QED
    BY <2>1, <2>2, BytesNone
<1>. HIDE DEF Fits
<1>3. Min(S) \in S
  <2>. HIDE DEF S
  <2>. QED
    BY <1>1, LeastOf
<1>4. Victims(list, b) = Min(S)
  BY DEF Victims, Fits
<1>. QED
  BY <1>2, <1>3, <1>4 DEF Fits

(* A source that is set replaces the document's earlier one, and what does   *)
(* not fit any more goes (SetSource, evictLRULocked).                        *)
LEMMA SetSourceAccounts ==
    ASSUME IndexConstantsOK, AccountOK(lru, bytes, usage),
           NEW d \in Docs, NEW size \in Nat \ {0}, SetSource(d, size)
    PROVE  AccountOK(lru', bytes', usage')
<1>1. PICK w : w = Without(lru, {d})
  OBVIOUS
<1>2. PICK list : list = Append(w, d)
  OBVIOUS
<1>3. PICK b : b = [bytes EXCEPT ![d] = size]
  OBVIOUS
<1>4. PICK n : n = Victims(list, b)
  OBVIOUS
<1>5. PICK head : head = SubSeq(list, 1, n)
  OBVIOUS
<1>6. PICK rest : rest = SubSeq(list, n + 1, Len(list))
  OBVIOUS
<1>7. /\ lru' = rest
      /\ bytes' = [x \in Docs |-> IF x \in ToSet(head) THEN 0 ELSE b[x]]
      /\ usage' = usage - bytes[d] + size - BytesOf(head, b)
  BY <1>1, <1>2, <1>3, <1>4, <1>5, <1>6 DEF SetSource
<1>8. /\ lru \in Seq(Docs) /\ bytes \in [Docs -> Nat] /\ usage = BytesOf(lru, bytes)
      /\ NoRepeat(lru) /\ \A x \in Docs : bytes[x] > 0 <=> x \in ToSet(lru)
  BY DEF AccountOK
<1>9. /\ w \in Seq(Docs) /\ ToSet(w) = ToSet(lru) \ {d} /\ NoRepeat(w)
  <2>1. w \in Seq(Docs) /\ ToSet(w) = ToSet(lru) \ {d} /\ InOrderOf(w, lru)
    BY <1>1, <1>8, WithoutKeeps
  <2>. QED
    BY <1>8, <2>1, PartNew
<1>10. /\ list \in Seq(Docs) /\ ToSet(list) = ToSet(lru) \cup {d} /\ NoRepeat(list)
  <2>1. list \in Seq(Docs) /\ ToSet(list) = ToSet(w) \cup {d}
    BY <1>2, <1>9, AppendFacts
  <2>2. NoRepeat(list)
    BY <1>2, <1>9, AppendNew
  <2>. QED
    BY <1>9, <2>1, <2>2
<1>11. /\ b \in [Docs -> Nat] /\ b[d] = size /\ size \in Nat /\ size > 0
       /\ \A x \in Docs \ {d} : b[x] = bytes[x]
  BY <1>3, <1>8
<1>12. n \in 0 .. Len(list) /\ BytesOf(rest, b) <= MaxMemory
  BY <1>4, <1>6, <1>10, <1>11, VictimsFit
<1>13. /\ head \in Seq(Docs) /\ rest \in Seq(Docs)
       /\ ToSet(list) = ToSet(head) \cup ToSet(rest)
       /\ NoRepeat(rest) /\ ToSet(head) \cap ToSet(rest) = {}
  BY <1>5, <1>6, <1>10, <1>12, CutFacts
<1>14. bytes' \in [Docs -> Nat]
  BY <1>7, <1>11
<1>15. usage' = BytesOf(rest, b)
  <2>1. BytesOf(lru, bytes) = BytesOf(w, bytes) + IF d \in ToSet(lru) THEN bytes[d] ELSE 0
    BY <1>1, <1>8, BytesWithout
  <2>2. bytes[d] \in Nat /\ BytesOf(w, bytes) \in Nat
    BY <1>8, <1>9, BytesSame
  <2>3. usage = BytesOf(w, bytes) + bytes[d]
    <3>1. CASE d \in ToSet(lru)
      BY <1>8, <2>1, <3>1
    <3>2. CASE d \notin ToSet(lru)
      <4>1. bytes[d] = 0
        BY <1>8, <2>2, <3>2
      <4>. QED
        BY <1>8, <2>1, <2>2, <3>2, <4>1
    <3>. QED
      BY <3>1, <3>2
  <2>4. BytesOf(w, bytes) = BytesOf(w, b)
    <3>1. \A x \in ToSet(w) : bytes[x] = b[x]
      <4>1. ToSet(w) \subseteq Docs
        BY <1>9 DEF ToSet
      <4>. QED
        BY <1>9, <1>11, <4>1
    <3>. QED
      BY <1>8, <1>9, <1>11, <3>1, BytesSame
  <2>5. BytesOf(list, b) = BytesOf(w, b) + size
    BY <1>2, <1>9, <1>11, BytesAppend
  <2>6. BytesOf(list, b) = BytesOf(head, b) + BytesOf(rest, b)
    BY <1>5, <1>6, <1>10, <1>11, <1>12, BytesCut
  <2>7. BytesOf(head, b) \in Nat /\ BytesOf(rest, b) \in Nat
    BY <1>11, <1>13, BytesSame
  <2>8. usage - bytes[d] = BytesOf(w, b) /\ BytesOf(w, b) \in Nat
    BY <2>2, <2>3, <2>4
  <2>9. BytesOf(w, b) + size = BytesOf(head, b) + BytesOf(rest, b)
    BY <2>5, <2>6
  <2>10. usage' = usage - bytes[d] + size - BytesOf(head, b)
    BY <1>7
  <2>. QED
    BY <2>7, <2>8, <2>9, <2>10
<1>16. BytesOf(rest, bytes') = BytesOf(rest, b)
  <2>1. PICK c : c = bytes'
    OBVIOUS
  <2>2. \A x \in ToSet(rest) : c[x] = b[x]
    <3>1. ToSet(rest) \subseteq Docs
      BY <1>13 DEF ToSet
    <3>. QED
      BY <1>7, <1>13, <2>1, <3>1
  <2>3. BytesOf(rest, c) = BytesOf(rest, b)
    BY <1>11, <1>13, <1>14, <2>1, <2>2, BytesSame
  <2>. QED
    BY <2>1, <2>3
<1>17. ASSUME NEW x \in Docs PROVE (bytes'[x] > 0) <=> (x \in ToSet(rest))
  <2>1. b[x] > 0 <=> x \in ToSet(list)
    BY <1>8, <1>10, <1>11
  <2>2. CASE x \in ToSet(head)
    BY <1>7, <1>13, <2>2
  <2>3. CASE x \notin ToSet(head)
    BY <1>7, <1>13, <2>1, <2>3
  <2>. QED
    BY <2>2, <2>3
<1>. QED
  BY <1>7, <1>12, <1>13, <1>14, <1>15, <1>16, <1>17 DEF AccountOK

(* A source that is given up leaves the account (EvictSource).               *)
LEMMA EvictSourceAccounts ==
    ASSUME IndexConstantsOK, AccountOK(lru, bytes, usage), NEW d \in Docs, EvictSource(d)
    PROVE  AccountOK(lru', bytes', usage')
<1>1. PICK w : w = Without(lru, {d})
  OBVIOUS
<1>2. lru' = w /\ bytes' = [bytes EXCEPT ![d] = 0] /\ usage' = usage - bytes[d]
  BY <1>1 DEF EvictSource
<1>3. /\ lru \in Seq(Docs) /\ bytes \in [Docs -> Nat] /\ usage = BytesOf(lru, bytes)
      /\ NoRepeat(lru) /\ \A x \in Docs : bytes[x] > 0 <=> x \in ToSet(lru)
      /\ usage <= MaxMemory
  BY DEF AccountOK
<1>4. /\ w \in Seq(Docs) /\ ToSet(w) = ToSet(lru) \ {d} /\ NoRepeat(w)
  <2>1. w \in Seq(Docs) /\ ToSet(w) = ToSet(lru) \ {d} /\ InOrderOf(w, lru)
    BY <1>1, <1>3, WithoutKeeps
  <2>. QED
    BY <1>3, <2>1, PartNew
<1>5. PICK c : c = bytes'
  OBVIOUS
<1>6. c \in [Docs -> Nat] /\ c[d] = 0 /\ \A x \in Docs \ {d} : c[x] = bytes[x]
  BY <1>2, <1>3, <1>5
<1>7. BytesOf(w, bytes) \in Nat /\ BytesOf(w, c) = BytesOf(w, bytes)
  <2>1. ToSet(w) \subseteq Docs
    BY <1>4 DEF ToSet
  <2>2. \A x \in ToSet(w) : bytes[x] = c[x]
    BY <1>4, <1>6, <2>1
  <2>. QED
    BY <1>3, <1>4, <1>6, <2>2, BytesSame
<1>8. usage = BytesOf(w, bytes) + bytes[d] /\ bytes[d] \in Nat
  <2>1. BytesOf(lru, bytes) = BytesOf(w, bytes) + IF d \in ToSet(lru) THEN bytes[d] ELSE 0
    BY <1>1, <1>3, BytesWithout
  <2>2. bytes[d] \in Nat
    BY <1>3
  <2>3. CASE d \in ToSet(lru)
    BY <1>3, <2>1, <2>2, <2>3
  <2>4. CASE d \notin ToSet(lru)
    <3>1. bytes[d] = 0
      BY <1>3, <2>2, <2>4
    <3>. QED
      BY <1>3, <1>7, <2>1, <2>4, <3>1
  <2>. QED
    BY <2>3, <2>4
<1>9. usage' = BytesOf(w, c) /\ usage' <= MaxMemory
  <2>1. MaxMemory \in Nat
    BY DEF IndexConstantsOK
  <2>2. usage' = usage - bytes[d] /\ usage <= MaxMemory
    BY <1>2, <1>3
  <2>. QED
    BY <1>7, <1>8, <2>1, <2>2
<1>10. ASSUME NEW x \in Docs PROVE c[x] > 0 <=> x \in ToSet(w)
  BY <1>3, <1>4, <1>6
<1>. QED
  BY <1>2, <1>4, <1>5, <1>6, <1>9, <1>10 DEF AccountOK

-----------------------------------------------------------------------------
(* The list of a key: one entry taken out, one put in.                       *)

(* A list with one place less.                                               *)
LEMMA RemoveAtFacts ==
    ASSUME NEW S, NEW s \in Seq(S), NEW p \in 1 .. Len(s)
    PROVE  /\ RemoveAt(s, p) \in Seq(S)
           /\ Len(s) \in Nat /\ DOMAIN s = 1 .. Len(s)
           /\ DOMAIN RemoveAt(s, p) = 1 .. Len(s) - 1
           /\ \A i \in 1 .. Len(s) - 1 :
                 RemoveAt(s, p)[i] = IF i < p THEN s[i] ELSE s[i + 1]
<1>. DEFINE u == SubSeq(s, 1, p - 1)
            v == SubSeq(s, p + 1, Len(s))
<1>1. /\ u \in Seq(S) /\ Len(u) = p - 1 /\ \A i \in 1 .. p - 1 : u[i] = s[i]
      /\ v \in Seq(S) /\ Len(v) = Len(s) - p /\ \A i \in 1 .. Len(s) - p : v[i] = s[p + i]
      /\ Len(s) \in Nat /\ p \in Nat /\ p <= Len(s) /\ p >= 1
  OBVIOUS
<1>2. RemoveAt(s, p) = u \o v
  BY DEF RemoveAt
<1>. HIDE DEF u, v
<1>3. /\ u \o v \in Seq(S) /\ Len(u \o v) = Len(s) - 1
      /\ \A i \in 1 .. Len(s) - 1 :
            (u \o v)[i] = IF i <= Len(u) THEN u[i] ELSE v[i - Len(u)]
  BY <1>1
<1>4. ASSUME NEW i \in 1 .. Len(s) - 1
      PROVE  (u \o v)[i] = IF i < p THEN s[i] ELSE s[i + 1]
  <2>1. CASE i < p
    <3>1. i \in 1 .. p - 1 /\ i <= p - 1
      BY <1>1, <2>1
    <3>. QED
      BY <1>1, <1>3, <2>1, <3>1
  <2>2. CASE ~(i < p)
    <3>1. i - (p - 1) \in 1 .. Len(s) - p /\ p + (i - (p - 1)) = i + 1 /\ ~(i <= p - 1)
      BY <1>1, <2>2
    <3>2. v[i - (p - 1)] = s[i + 1]
      BY <1>1, <3>1
    <3>. QED
      BY <1>1, <1>3, <2>2, <3>1, <3>2
  <2>. QED
    BY <2>1, <2>2
<1>5. DOMAIN (u \o v) = 1 .. Len(s) - 1 /\ DOMAIN s = 1 .. Len(s)
  BY <1>3
<1>. QED
  BY <1>1, <1>2, <1>3, <1>4, <1>5

(* A list with one place more.                                               *)
LEMMA InsertAtFacts ==
    ASSUME NEW S, NEW s \in Seq(S), NEW p \in 1 .. Len(s), NEW x \in S
    PROVE  /\ InsertAt(s, p, x) \in Seq(S)
           /\ Len(s) \in Nat /\ DOMAIN s = 1 .. Len(s)
           /\ DOMAIN InsertAt(s, p, x) = 1 .. Len(s) + 1
           /\ \A i \in 1 .. Len(s) + 1 :
                 InsertAt(s, p, x)[i] = IF i < p THEN s[i]
                                        ELSE IF i = p THEN x ELSE s[i - 1]
<1>. DEFINE u == SubSeq(s, 1, p - 1)
            v == SubSeq(s, p, Len(s))
            ux == u \o <<x>>
<1>1. /\ u \in Seq(S) /\ Len(u) = p - 1 /\ \A i \in 1 .. p - 1 : u[i] = s[i]
      /\ v \in Seq(S) /\ Len(v) = Len(s) - p + 1
      /\ \A i \in 1 .. Len(s) - p + 1 : v[i] = s[p + i - 1]
      /\ Len(s) \in Nat /\ p \in Nat /\ p <= Len(s) /\ p >= 1
  OBVIOUS
<1>2. InsertAt(s, p, x) = ux \o v
  BY DEF InsertAt
<1>. HIDE DEF u, v
<1>3. /\ ux \in Seq(S) /\ Len(ux) = p
      /\ \A i \in 1 .. p : ux[i] = IF i < p THEN s[i] ELSE x
  BY <1>1
<1>. HIDE DEF ux
<1>4. /\ ux \o v \in Seq(S) /\ Len(ux \o v) = Len(s) + 1
      /\ \A i \in 1 .. Len(s) + 1 :
            (ux \o v)[i] = IF i <= Len(ux) THEN ux[i] ELSE v[i - Len(ux)]
  BY <1>1, <1>3
<1>5. ASSUME NEW i \in 1 .. Len(s) + 1
      PROVE  (ux \o v)[i] = IF i < p THEN s[i] ELSE IF i = p THEN x ELSE s[i - 1]
  <2>1. CASE i <= p
    <3>1. i \in 1 .. p
      BY <1>1, <2>1
    <3>. QED
      BY <1>1, <1>3, <1>4, <2>1, <3>1
  <2>2. CASE ~(i <= p)
    <3>1. i - p \in 1 .. Len(s) - p + 1 /\ p + (i - p) - 1 = i - 1 /\ i # p /\ ~(i < p)
      BY <1>1, <2>2
    <3>2. v[i - p] = s[i - 1]
      BY <1>1, <3>1
    <3>. QED
      BY <1>3, <1>4, <2>2, <3>1, <3>2
  <2>. QED
    BY <2>1, <2>2
<1>6. DOMAIN (ux \o v) = 1 .. Len(s) + 1 /\ DOMAIN s = 1 .. Len(s)
  BY <1>4
<1>. QED
  BY <1>1, <1>2, <1>4, <1>5, <1>6

(* A place taken out leaves the others in their order.                       *)
LEMMA RemoveAtKeeps ==
    ASSUME NEW S, NEW s \in Seq(S), NEW p \in 1 .. Len(s), NoRepeat(s)
    PROVE  /\ RemoveAt(s, p) \in Seq(S)
           /\ ToSet(RemoveAt(s, p)) = ToSet(s) \ {s[p]}
           /\ InOrderOf(RemoveAt(s, p), s)
           /\ NoRepeat(RemoveAt(s, p))
<1>1. PICK r : r = RemoveAt(s, p)
  OBVIOUS
<1>2. /\ r \in Seq(S) /\ Len(s) \in Nat /\ DOMAIN s = 1 .. Len(s)
      /\ DOMAIN r = 1 .. Len(s) - 1
      /\ \A i \in 1 .. Len(s) - 1 : r[i] = IF i < p THEN s[i] ELSE s[i + 1]
  BY <1>1, RemoveAtFacts
<1>3. InOrderOf(r, s)
  <2>1. ASSUME NEW i \in DOMAIN r, NEW j \in DOMAIN r, i < j
        PROVE  \E a, b \in DOMAIN s : a < b /\ r[i] = s[a] /\ r[j] = s[b]
    <3>. DEFINE a == IF i < p THEN i ELSE i + 1
                b == IF j < p THEN j ELSE j + 1
    <3>1. i \in 1 .. Len(s) - 1 /\ j \in 1 .. Len(s) - 1
      BY <1>2
    <3>2. a \in DOMAIN s /\ b \in DOMAIN s /\ a < b
      BY <1>2, <2>1, <3>1
    <3>3. r[i] = s[a] /\ r[j] = s[b]
      BY <1>2, <3>1
    <3>. QED
      BY <3>2, <3>3
  <2>. QED
    BY <2>1 DEF InOrderOf
<1>4. NoRepeat(r)
  BY <1>2, <1>3, PartNew
<1>5. ToSet(r) \subseteq ToSet(s) \ {s[p]}
  <2>. SUFFICES ASSUME NEW i \in 1 .. Len(s) - 1 PROVE r[i] \in ToSet(s) \ {s[p]}
    BY <1>2 DEF ToSet
  <2>. DEFINE a == IF i < p THEN i ELSE i + 1
  <2>1. a \in DOMAIN s /\ a # p /\ r[i] = s[a]
    BY <1>2
  <2>2. s[a] # s[p]
    BY <1>2, <2>1 DEF NoRepeat
  <2>. HIDE DEF a
  <2>. QED
    BY <2>1, <2>2 DEF ToSet
<1>6. ToSet(s) \ {s[p]} \subseteq ToSet(r)
  <2>. SUFFICES ASSUME NEW a \in 1 .. Len(s), s[a] # s[p] PROVE s[a] \in ToSet(r)
    BY <1>2 DEF ToSet
  <2>. DEFINE i == IF a < p THEN a ELSE a - 1
  <2>1. a # p
    OBVIOUS
  <2>2. i \in 1 .. Len(s) - 1 /\ a = IF i < p THEN i ELSE i + 1
    BY <1>2, <2>1
  <2>3. r[i] = s[a]
    BY <1>2, <2>2
  <2>. HIDE DEF i
  <2>. QED
    BY <1>2, <2>2, <2>3 DEF ToSet
<1>. QED
  BY <1>1, <1>2, <1>3, <1>4, <1>5, <1>6

(* The same order, with as many that may stand late.                         *)
LEMMA PartOrdered ==
    ASSUME NEW list, NEW part, NEW twice, NEW more,
           Ordered(list, twice), InOrderOf(part, list), twice \cap ToSet(part) \subseteq more
    PROVE  Ordered(part, more)
<1>. SUFFICES ASSUME NEW i \in DOMAIN part, NEW j \in DOMAIN part,
                     i < j, Later(part[i], part[j])
              PROVE  part[j] \in more
  BY DEF Ordered
<1>1. PICK a \in DOMAIN list, b \in DOMAIN list :
        a < b /\ part[i] = list[a] /\ part[j] = list[b]
  BY DEF InOrderOf
<1>2. part[j] \in twice
  BY <1>1 DEF Ordered
<1>. QED
  BY <1>2 DEF ToSet

(* The first of the places looked for, 0 for none.                           *)
LEMMA FirstOfFacts ==
    ASSUME NEW places, places \subseteq Nat \ {0}
    PROVE  /\ FirstOf(places) = 0 => places = {}
           /\ FirstOf(places) # 0 => FirstOf(places) \in places
           /\ \A i \in places : FirstOf(places) <= i
<1>1. CASE places = {}
  BY <1>1 DEF FirstOf
<1>2. CASE places # {}
  <2>1. Min(places) \in places /\ \A i \in places : Min(places) <= i
    BY <1>2, LeastOf
  <2>2. FirstOf(places) = Min(places)
    BY <1>2 DEF FirstOf
  <2>. QED
    BY <1>2, <2>1, <2>2
<1>. QED
  BY <1>1, <1>2

(* An entry of a list is that of a symbol when it has its document and node. *)
LEMMA SameIsListed ==
    ASSUME NEW x \in Listing, NEW e
    PROVE  Same(x, e) <=> x = Listed(e)
BY DEF Same, Listing, Listed

(* InsertByPriority puts the entry in, once, after those that come before    *)
(* it; an entry that was there already may only then stand late.             *)
LEMMA InsertKeeps ==
    ASSUME NEW list \in Seq(Listing), NEW e, Listed(e) \in Listing,
           NEW twice, NEW more,
           NoRepeat(list), Ordered(list, twice),
           Listed(e) \notin twice, twice \subseteq more,
           Listed(e) \in ToSet(list) => Listed(e) \in more
    PROVE  LET r == InsertByPriority(list, e)
           IN  /\ r \in Seq(Listing)
               /\ ToSet(r) = ToSet(list) \cup {Listed(e)}
               /\ NoRepeat(r) /\ Ordered(r, more)
<1>1. PICK L \in Listing : L = Listed(e)
  OBVIOUS
<1>2. PICK places : places = {i \in DOMAIN list : StopsAt(list[i], e)}
  OBVIOUS
<1>3. PICK stop : stop = FirstOf(places)
  OBVIOUS
<1>4. PICK r : r = InsertByPriority(list, e)
  OBVIOUS
<1>5. Len(list) \in Nat /\ DOMAIN list = 1 .. Len(list) /\ \A i \in 1 .. Len(list) : list[i] \in Listing
  OBVIOUS
<1>6. \A i \in 1 .. Len(list) : i \in places <=> list[i] = L \/ Later(list[i], L)
  <2>1. \A x \in Listing : StopsAt(x, e) <=> x = L \/ Later(x, L)
    <3>1. L.doc = e.doc
      BY <1>1 DEF Listed
    <3>. QED
      BY <1>1, <3>1, SameIsListed DEF StopsAt, Later
  <2>. QED
    BY <1>2, <1>5, <2>1
<1>7. /\ stop = 0 => places = {}
      /\ stop # 0 => stop \in places
      /\ \A i \in places : stop <= i
  <2>1. places \subseteq Nat \ {0}
    BY <1>2, <1>5
  <2>. QED
    BY <1>3, <2>1, FirstOfFacts
<1>8. r = IF stop = 0 THEN Append(list, L)
          ELSE IF list[stop] = L THEN Append(RemoveAt(list, stop), L)
          ELSE InsertAt(list, stop, L)
  <2>1. stop # 0 => (Same(list[stop], e) <=> list[stop] = L)
    <3>1. stop # 0 => list[stop] \in Listing
      BY <1>2, <1>5, <1>7
    <3>. QED
      BY <1>1, <3>1, SameIsListed
  <2>2. r = IF stop = 0 THEN Append(list, L)
            ELSE IF Same(list[stop], e) THEN Append(RemoveAt(list, stop), L)
            ELSE InsertAt(list, stop, L)
    BY <1>1, <1>2, <1>3, <1>4 DEF InsertByPriority
  <2>. QED
    BY <2>1, <2>2
<1>9. /\ L \notin twice /\ twice \subseteq more /\ (L \in ToSet(list) => L \in more)
  BY <1>1
<1>. SUFFICES /\ r \in Seq(Listing) /\ ToSet(r) = ToSet(list) \cup {L}
              /\ NoRepeat(r) /\ Ordered(r, more)
  BY <1>1, <1>4
<1>10. ASSUME NEW s \in Seq(Listing), NoRepeat(s), Ordered(s, more), L \notin ToSet(s),
              L \in more \/ \A i \in DOMAIN s : ~Later(s[i], L)
       PROVE  /\ Append(s, L) \in Seq(Listing) /\ ToSet(Append(s, L)) = ToSet(s) \cup {L}
              /\ NoRepeat(Append(s, L)) /\ Ordered(Append(s, L), more)
  <2>1. PICK t : t = Append(s, L)
    OBVIOUS
  <2>2. /\ t \in Seq(Listing) /\ ToSet(t) = ToSet(s) \cup {L} /\ Len(s) \in Nat
        /\ DOMAIN s = 1 .. Len(s) /\ DOMAIN t = 1 .. Len(s) + 1 /\ t[Len(s) + 1] = L
        /\ \A i \in 1 .. Len(s) : t[i] = s[i]
    BY <2>1, AppendFacts
  <2>3. NoRepeat(t)
    BY <1>10, <2>1, AppendNew
  <2>4. ASSUME NEW i \in 1 .. Len(s) + 1, NEW j \in 1 .. Len(s) + 1, i < j, Later(t[i], t[j])
        PROVE  t[j] \in more
    <3>1. i \in 1 .. Len(s)
      BY <2>2, <2>4
    <3>2. CASE j = Len(s) + 1
      BY <1>10, <2>2, <2>4, <3>1, <3>2
    <3>3. CASE j # Len(s) + 1
      <4>1. j \in 1 .. Len(s)
        BY <2>2, <3>3
      <4>. QED
        BY <1>10, <2>2, <2>4, <3>1, <4>1 DEF Ordered
    <3>. QED
      BY <3>2, <3>3
  <2>5. Ordered(t, more)
    BY <2>2, <2>4 DEF Ordered
  <2>. QED
    BY <2>1, <2>2, <2>3, <2>5
<1>11. Ordered(list, more)
  BY <1>9 DEF Ordered
<1>12. CASE stop = 0
  <2>1. \A i \in 1 .. Len(list) : list[i] # L /\ ~Later(list[i], L)
    BY <1>6, <1>7, <1>12
  <2>2. L \notin ToSet(list)
    BY <1>5, <2>1 DEF ToSet
  <2>. QED
    BY <1>5, <1>8, <1>10, <1>11, <1>12, <2>1, <2>2
<1>13. CASE stop # 0 /\ list[stop] = L
  <2>1. stop \in 1 .. Len(list)
    BY <1>2, <1>5, <1>7, <1>13
  <2>2. PICK s : s = RemoveAt(list, stop)
    OBVIOUS
  <2>3. /\ s \in Seq(Listing) /\ ToSet(s) = ToSet(list) \ {L}
        /\ InOrderOf(s, list) /\ NoRepeat(s)
    BY <1>13, <2>1, <2>2, RemoveAtKeeps
  <2>4. Ordered(s, more)
    <3>1. more \cap ToSet(s) \subseteq more
      OBVIOUS
    <3>. QED
      BY <1>11, <2>3, <3>1, PartOrdered
  <2>5. L \in ToSet(list) /\ L \in more
    BY <1>5, <1>9, <1>13, <2>1 DEF ToSet
  <2>6. r = Append(s, L)
    BY <1>8, <1>13, <2>2
  <2>7. ToSet(s) \cup {L} = ToSet(list) \cup {L} /\ L \notin ToSet(s)
    BY <2>3
  <2>. QED
    BY <1>10, <2>3, <2>4, <2>5, <2>6, <2>7
<1>14. CASE stop # 0 /\ list[stop] # L
  <2>1. stop \in 1 .. Len(list) /\ Later(list[stop], L)
    BY <1>2, <1>5, <1>6, <1>7, <1>14
  <2>2. \A i \in 1 .. Len(list) : i < stop => list[i] # L /\ ~Later(list[i], L)
    BY <1>5, <1>6, <1>7, <2>1
  <2>3. \A i \in 1 .. Len(list) : list[i] # L
    <3>. SUFFICES ASSUME NEW i \in 1 .. Len(list), list[i] = L PROVE FALSE
      OBVIOUS
    <3>1. stop < i
      BY <1>5, <1>14, <2>1, <2>2
    <3>2. L \in twice
      BY <1>5, <2>1, <3>1 DEF Ordered
    <3>. QED
      BY <1>9, <3>2
  <2>4. \A i \in 1 .. Len(list) : stop < i /\ Later(L, list[i]) => list[i] \in more
    <3>. SUFFICES ASSUME NEW i \in 1 .. Len(list), stop < i, Later(L, list[i])
                  PROVE  list[i] \in more
      OBVIOUS
    <3>1. Later(list[stop], list[i])
      <4>1. \A x, y, z : Later(x, y) /\ Later(y, z) => Later(x, z)
        BY DEF Later, globalSymbolPriority
      <4>. QED
        BY <2>1, <4>1
    <3>. QED
      BY <1>5, <1>11, <2>1, <3>1 DEF Ordered
  <2>5. \A i \in 1 .. Len(list) : stop = i /\ Later(L, list[i]) => list[i] \in more
    <3>1. \A x, y : Later(x, y) => ~Later(y, x)
      BY DEF Later, globalSymbolPriority
    <3>. QED
      BY <2>1, <3>1
  <2>6. r = InsertAt(list, stop, L)
    BY <1>8, <1>14
  <2>7. /\ r \in Seq(Listing) /\ DOMAIN r = 1 .. Len(list) + 1
        /\ \A i \in 1 .. Len(list) + 1 :
              r[i] = IF i < stop THEN list[i] ELSE IF i = stop THEN L ELSE list[i - 1]
    <3>1. stop \in 1 .. Len(list) /\ L \in Listing /\ list \in Seq(Listing)
      BY <1>5, <2>1
    <3>. QED
      BY <2>6, <3>1, InsertAtFacts
  <2>. DEFINE at(i) == IF i < stop THEN i ELSE i - 1
  <2>8. \A i \in 1 .. Len(list) + 1 : i # stop => at(i) \in 1 .. Len(list) /\ r[i] = list[at(i)]
    BY <1>5, <2>1, <2>7
  <2>9. r[stop] = L /\ stop \in 1 .. Len(list) + 1
    BY <1>5, <2>1, <2>7
  <2>10. ToSet(r) = ToSet(list) \cup {L}
    <3>1. ToSet(r) \subseteq ToSet(list) \cup {L}
      <4>. HIDE DEF at
      <4>. QED
        BY <1>5, <2>7, <2>8, <2>9 DEF ToSet
    <3>2. \A i \in 1 .. Len(list) : list[i] \in ToSet(r)
      <4>. SUFFICES ASSUME NEW i \in 1 .. Len(list) PROVE \E j \in 1 .. Len(list) + 1 : r[j] = list[i]
        BY <2>7 DEF ToSet
      <4>1. CASE i < stop
        BY <1>5, <2>7, <4>1
      <4>2. CASE ~(i < stop)
        <5>1. i + 1 \in 1 .. Len(list) + 1 /\ ~(i + 1 < stop) /\ i + 1 # stop /\ (i + 1) - 1 = i
          BY <1>5, <2>1, <4>2
        <5>. QED
          BY <2>7, <5>1
      <4>. QED
        BY <4>1, <4>2
    <3>3. L \in ToSet(r)
      BY <2>7, <2>9 DEF ToSet
    <3>. QED
      BY <1>5, <3>1, <3>2, <3>3 DEF ToSet
  <2>11. NoRepeat(r)
    <3>. SUFFICES ASSUME NEW i \in 1 .. Len(list) + 1, NEW j \in 1 .. Len(list) + 1,
                         r[i] = r[j]
                  PROVE  i = j
      BY <2>7 DEF NoRepeat
    <3>1. CASE i = stop \/ j = stop
      <4>. HIDE DEF at
      <4>. QED
        BY <2>3, <2>8, <2>9, <3>1
    <3>2. CASE i # stop /\ j # stop
      <4>1. at(i) = at(j)
        BY <1>5, <2>8, <3>2 DEF NoRepeat
      <4>. QED
        BY <2>1, <3>2, <4>1
    <3>. QED
      BY <3>1, <3>2
  <2>12. Ordered(r, more)
    <3>. SUFFICES ASSUME NEW i \in 1 .. Len(list) + 1, NEW j \in 1 .. Len(list) + 1,
                         i < j, Later(r[i], r[j])
                  PROVE  r[j] \in more
      BY <2>7 DEF Ordered
    <3>1. CASE j = stop
      <4>1. i \in 1 .. Len(list) /\ i < stop /\ r[i] = list[i]
        BY <1>5, <2>1, <2>7, <3>1
      <4>. QED
        BY <2>2, <2>9, <3>1, <4>1
    <3>2. CASE i = stop
      <4>1. at(j) \in 1 .. Len(list) /\ r[j] = list[at(j)] /\ (at(j) = stop \/ stop < at(j))
        BY <1>5, <2>1, <2>8, <3>2
      <4>. HIDE DEF at
      <4>. QED
        BY <2>4, <2>5, <2>9, <3>2, <4>1
    <3>3. CASE i # stop /\ j # stop
      <4>1. /\ at(i) \in 1 .. Len(list) /\ r[i] = list[at(i)]
            /\ at(j) \in 1 .. Len(list) /\ r[j] = list[at(j)]
        BY <2>8, <3>3
      <4>2. at(i) < at(j)
        BY <1>5, <2>1, <3>3
      <4>. HIDE DEF at
      <4>. QED
        BY <1>5, <1>11, <4>1, <4>2 DEF Ordered
    <3>. QED
      BY <3>1, <3>2, <3>3
  <2>. QED
    BY <2>7, <2>10, <2>11, <2>12
<1>. QED
  BY <1>12, <1>13, <1>14

-----------------------------------------------------------------------------
(* One definition put into its slot.                                         *)

(* What a symbol stands for in the lists.                                    *)
LEMMA SymbolFacts ==
    ASSUME NEW s \in SymbolSet
    PROVE  /\ s.doc \in Docs /\ s.key \in Keys /\ s.node \in Nat
           /\ Listed(s) \in Listing
           /\ Listed(s).doc = s.doc /\ Listed(s).node = s.node
BY DEF SymbolSet, Listed, Listing

(* More symbols hold more.                                                   *)
LEMMA HeldGrows ==
    ASSUME NEW syms, NEW more, syms \subseteq more, NEW k
    PROVE  Held(syms, k) \subseteq Held(more, k) /\ HeldTwice(syms, k) \subseteq HeldTwice(more, k)
<1>1. Held(syms, k) \subseteq Held(more, k)
  BY DEF Held
<1>2. HeldTwice(syms, k) \subseteq HeldTwice(more, k)
  BY DEF HeldTwice
<1>. QED
  BY <1>1, <1>2

(* The symbol overwritten goes, and its entry with it.                       *)
LEMMA OldGoes ==
    ASSUME NEW syms, NEW h, NEW tx, TablesOK(syms, h, tx), NEW o \in syms
    PROVE  TablesOK(syms \ {o}, removeEntryFromHash(h, o), tx)
<1>1. PICK rest : rest = syms \ {o}
  OBVIOUS
<1>2. PICK L : L = Listed(o)
  OBVIOUS
<1>3. PICK key : key = o.key
  OBVIOUS
<1>4. /\ syms \subseteq SymbolSet /\ OneInSlot(syms) /\ \A s \in syms : Defined(tx, s)
      /\ h \in [Keys -> Seq(Listing)] /\ \A k \in Keys : ListOK(syms, k, h[k])
  BY DEF TablesOK
<1>5. L \in Listing /\ key \in Keys
  BY <1>2, <1>3, <1>4, SymbolFacts
<1>6. PICK list : list = h[key]
  OBVIOUS
<1>7. /\ list \in Seq(Listing) /\ ToSet(list) \subseteq Held(syms, key)
      /\ NoRepeat(list) /\ Ordered(list, HeldTwice(syms, key))
  BY <1>4, <1>5, <1>6 DEF ListOK
<1>8. PICK places : places = {j \in DOMAIN list : Same(list[j], o)}
  OBVIOUS
<1>9. PICK i : i = FirstOf(places)
  OBVIOUS
<1>10. removeEntryFromHash(h, o) = IF i = 0 THEN h ELSE [h EXCEPT ![key] = RemoveAt(@, i)]
  BY <1>3, <1>6, <1>8, <1>9 DEF removeEntryFromHash
<1>11. DOMAIN list = 1 .. Len(list) /\ Len(list) \in Nat /\ \A j \in 1 .. Len(list) : list[j] \in Listing
  BY <1>7
<1>12. \A j \in 1 .. Len(list) : j \in places <=> list[j] = L
  <2>1. \A x \in Listing : Same(x, o) <=> x = L
    BY <1>2, SameIsListed
  <2>. QED
    BY <1>8, <1>11, <2>1
<1>13. /\ i = 0 => places = {}
       /\ i # 0 => i \in places
  <2>1. places \subseteq Nat \ {0}
    BY <1>8, <1>11
  <2>. QED
    BY <1>9, <2>1, FirstOfFacts
<1>14. PICK new : new = IF i = 0 THEN list ELSE RemoveAt(list, i)
  OBVIOUS
<1>15. /\ new \in Seq(Listing) /\ ToSet(new) = ToSet(list) \ {L}
       /\ NoRepeat(new) /\ \A more : HeldTwice(syms, key) \cap ToSet(new) \subseteq more => Ordered(new, more)
  <2>1. CASE i = 0
    <3>1. L \notin ToSet(list)
      BY <1>11, <1>12, <1>13, <2>1 DEF ToSet
    <3>2. new = list
      BY <1>14, <2>1
    <3>3. InOrderOf(list, list)
      BY DEF InOrderOf
    <3>4. \A more : HeldTwice(syms, key) \cap ToSet(list) \subseteq more => Ordered(list, more)
      BY <1>7, <3>3, PartOrdered
    <3>. QED
      BY <1>7, <3>1, <3>2, <3>4
  <2>2. CASE i # 0
    <3>1. i \in 1 .. Len(list) /\ list[i] = L
      BY <1>8, <1>11, <1>12, <1>13, <2>2
    <3>2. new = RemoveAt(list, i)
      BY <1>14, <2>2
    <3>3. /\ new \in Seq(Listing) /\ ToSet(new) = ToSet(list) \ {L}
          /\ InOrderOf(new, list) /\ NoRepeat(new)
      BY <1>7, <3>1, <3>2, RemoveAtKeeps
    <3>4. \A more : HeldTwice(syms, key) \cap ToSet(new) \subseteq more => Ordered(new, more)
      BY <1>7, <3>3, PartOrdered
    <3>. QED
      BY <3>3, <3>4
  <2>. QED
    BY <2>1, <2>2
<1>16. PICK g : g = removeEntryFromHash(h, o)
  OBVIOUS
<1>17. /\ g \in [Keys -> Seq(Listing)] /\ g[key] = new
       /\ \A k \in Keys \ {key} : g[k] = h[k]
  BY <1>4, <1>5, <1>6, <1>10, <1>14, <1>15, <1>16
<1>18. ASSUME NEW k \in Keys PROVE ListOK(rest, k, g[k])
  <2>1. CASE k # key
    <3>1. \A s \in syms : s.key = k => s \in rest
      BY <1>1, <1>3, <2>1
    <3>2. Held(rest, k) = Held(syms, k)
      BY <1>1, <3>1 DEF Held
    <3>3. HeldTwice(rest, k) = HeldTwice(syms, k)
      BY <1>1, <3>1 DEF HeldTwice
    <3>4. ListOK(syms, k, h[k]) /\ g[k] = h[k]
      BY <1>4, <1>17, <2>1
    <3>. QED
      BY <3>2, <3>3, <3>4 DEF ListOK
  <2>2. CASE k = key
    <3>1. ToSet(new) \subseteq Held(rest, key)
      <4>. SUFFICES ASSUME NEW x \in ToSet(new) PROVE x \in Held(rest, key)
        OBVIOUS
      <4>1. PICK s \in syms : s.key = key /\ x = Listed(s)
        BY <1>7, <1>15 DEF Held
      <4>2. s # o
        BY <1>2, <1>15, <4>1
      <4>. QED
        BY <1>1, <4>1, <4>2 DEF Held
    <3>2. HeldTwice(syms, key) \cap ToSet(new) \subseteq HeldTwice(rest, key)
      <4>. SUFFICES ASSUME NEW x \in HeldTwice(syms, key), x # L PROVE x \in HeldTwice(rest, key)
        BY <1>15
      <4>1. x \in Listing
        BY DEF HeldTwice
      <4>2. PICK e \in syms, f \in syms : /\ e # f /\ e.key = key /\ f.key = key
                                          /\ Listed(e) = x /\ Listed(f) = x
        BY DEF HeldTwice
      <4>3. e \in rest /\ f \in rest
        BY <1>1, <1>2, <4>2
      <4>. QED
        BY <4>1, <4>2, <4>3 DEF HeldTwice
    <3>3. Ordered(new, HeldTwice(rest, key))
      BY <1>15, <3>2
    <3>. QED
      BY <1>15, <1>17, <2>2, <3>1, <3>3 DEF ListOK
  <2>. QED
    BY <2>1, <2>2
<1>19. rest \subseteq SymbolSet /\ OneInSlot(rest) /\ \A s \in rest : Defined(tx, s)
  BY <1>1, <1>4 DEF OneInSlot
<1>20. TablesOK(rest, g, tx)
  BY <1>17, <1>18, <1>19 DEF TablesOK
<1>. QED
  BY <1>1, <1>16, <1>20

(* The new symbol comes, and its entry.  A third symbol of the same key and  *)
(* node would be a third name of it.                                         *)
LEMMA NewComes ==
    ASSUME NEW syms, NEW h, NEW tx, TablesOK(syms, h, tx),
           NEW e \in SymbolSet, Defined(tx, e), TwoNames(tx[e.doc].defs),
           \A s \in syms : Slot(s) # Slot(e),
           \A s \in syms : s.doc = e.doc => s.res = e.res /\ s.side = e.side
    PROVE  TablesOK(syms \cup {e}, [h EXCEPT ![e.key] = InsertByPriority(@, e)], tx)
<1>1. PICK new : new = syms \cup {e}
  OBVIOUS
<1>2. PICK L : L = Listed(e)
  OBVIOUS
<1>3. PICK key : key = e.key
  OBVIOUS
<1>4. /\ syms \subseteq SymbolSet /\ OneInSlot(syms) /\ \A s \in syms : Defined(tx, s)
      /\ h \in [Keys -> Seq(Listing)] /\ \A k \in Keys : ListOK(syms, k, h[k])
  BY DEF TablesOK
<1>5. L \in Listing /\ key \in Keys
  BY <1>2, <1>3, SymbolFacts
<1>6. PICK list : list = h[key]
  OBVIOUS
<1>7. /\ list \in Seq(Listing) /\ ToSet(list) \subseteq Held(syms, key)
      /\ NoRepeat(list) /\ Ordered(list, HeldTwice(syms, key))
  BY <1>4, <1>5, <1>6 DEF ListOK
<1>8. L \notin HeldTwice(syms, key)
  <2>. SUFFICES ASSUME NEW a \in syms, NEW b \in syms, a # b, a.key = key, b.key = key,
                       Listed(a) = L, Listed(b) = L
                PROVE  FALSE
    BY DEF HeldTwice
  <2>1. /\ a.doc = e.doc /\ a.node = e.node /\ b.doc = e.doc /\ b.node = e.node
    <3>1. /\ Listed(a).doc = a.doc /\ Listed(a).node = a.node
          /\ Listed(b).doc = b.doc /\ Listed(b).node = b.node
          /\ Listed(e).doc = e.doc /\ Listed(e).node = e.node
      BY <1>4, SymbolFacts
    <3>. QED
      BY <1>2, <3>1
  <2>2. a.res = e.res /\ a.side = e.side /\ b.res = e.res /\ b.side = e.side
    BY <2>1
  <2>3. a.name # e.name /\ b.name # e.name /\ a.name # b.name
    <3>1. Slot(a) # Slot(e) /\ Slot(b) # Slot(e) /\ Slot(a) # Slot(b)
      BY <1>4 DEF OneInSlot
    <3>. QED
      BY <2>2, <3>1 DEF Slot
  <2>4. PICK defs : defs = tx[e.doc].defs
    OBVIOUS
  <2>5. Definition(a) \in ToSet(defs) /\ Definition(b) \in ToSet(defs) /\ Definition(e) \in ToSet(defs)
    BY <1>4, <2>1, <2>4 DEF Defined
  <2>6. PICK i \in DOMAIN defs, j \in DOMAIN defs, l \in DOMAIN defs :
          defs[i] = Definition(a) /\ defs[j] = Definition(b) /\ defs[l] = Definition(e)
    BY <2>5 DEF ToSet
  <2>7. /\ defs[i].name = a.name /\ defs[i].key = key /\ defs[i].node = e.node
        /\ defs[j].name = b.name /\ defs[j].key = key /\ defs[j].node = e.node
        /\ defs[l].name = e.name /\ defs[l].key = key /\ defs[l].node = e.node
    BY <1>3, <2>1, <2>6 DEF Definition
  <2>8. TwoNames(defs)
    BY <2>4
  <2>. QED
    BY <2>3, <2>6, <2>7, <2>8 DEF TwoNames
<1>9. HeldTwice(syms, key) \subseteq HeldTwice(new, key)
  BY <1>1, HeldGrows
<1>10. L \in ToSet(list) => L \in HeldTwice(new, key)
  <2>. SUFFICES ASSUME L \in ToSet(list) PROVE L \in HeldTwice(new, key)
    OBVIOUS
  <2>1. PICK s \in syms : s.key = key /\ Listed(s) = L
    BY <1>7 DEF Held
  <2>2. s # e
    OBVIOUS
  <2>. QED
    BY <1>1, <1>2, <1>3, <1>5, <2>1, <2>2 DEF HeldTwice
<1>11. PICK r : r = InsertByPriority(list, e)
  OBVIOUS
<1>12. /\ r \in Seq(Listing) /\ ToSet(r) = ToSet(list) \cup {L}
       /\ NoRepeat(r) /\ Ordered(r, HeldTwice(new, key))
  <2>1. PICK twice : twice = HeldTwice(syms, key)
    OBVIOUS
  <2>2. PICK more : more = HeldTwice(new, key)
    OBVIOUS
  <2>3. /\ Ordered(list, twice) /\ Listed(e) \notin twice /\ twice \subseteq more
        /\ Listed(e) \in ToSet(list) => Listed(e) \in more
        /\ Listed(e) \in Listing
    BY <1>2, <1>5, <1>7, <1>8, <1>9, <1>10, <2>1, <2>2
  <2>4. /\ InsertByPriority(list, e) \in Seq(Listing)
        /\ ToSet(InsertByPriority(list, e)) = ToSet(list) \cup {Listed(e)}
        /\ NoRepeat(InsertByPriority(list, e)) /\ Ordered(InsertByPriority(list, e), more)
    BY <1>7, <2>3, InsertKeeps
  <2>. QED
    BY <1>2, <1>11, <2>2, <2>4
<1>13. PICK g : g = [h EXCEPT ![e.key] = InsertByPriority(@, e)]
  OBVIOUS
<1>14. /\ g \in [Keys -> Seq(Listing)] /\ g[key] = r
       /\ \A k \in Keys \ {key} : g[k] = h[k]
  BY <1>3, <1>4, <1>5, <1>6, <1>11, <1>12, <1>13
<1>15. ASSUME NEW k \in Keys PROVE ListOK(new, k, g[k])
  <2>1. Held(syms, k) \subseteq Held(new, k) /\ HeldTwice(syms, k) \subseteq HeldTwice(new, k)
    BY <1>1, HeldGrows
  <2>2. CASE k # key
    <3>1. ListOK(syms, k, h[k]) /\ g[k] = h[k]
      BY <1>4, <1>14, <2>2
    <3>2. Ordered(h[k], HeldTwice(new, k))
      BY <2>1, <3>1 DEF ListOK, Ordered
    <3>. QED
      BY <2>1, <3>1, <3>2 DEF ListOK
  <2>3. CASE k = key
    <3>1. L \in Held(new, key)
      BY <1>1, <1>2, <1>3 DEF Held
    <3>2. ToSet(r) \subseteq Held(new, key)
      BY <1>7, <1>12, <2>1, <2>3, <3>1
    <3>. QED
      BY <1>12, <1>14, <2>3, <3>2 DEF ListOK
  <2>. QED
    BY <2>2, <2>3
<1>16. new \subseteq SymbolSet /\ OneInSlot(new) /\ \A s \in new : Defined(tx, s)
  BY <1>1, <1>4 DEF OneInSlot
<1>17. TablesOK(new, g, tx)
  BY <1>14, <1>15, <1>16 DEF TablesOK
<1>. QED
  BY <1>1, <1>13, <1>17

(* setGlobalIndexSymbol keeps the tables in order and loses no name without  *)
(* recording who overwrote it.                                               *)
LEMMA SetSymbolKeeps ==
    ASSUME NEW st, NEW tx, TablesOK(st.symbols, st.hash, tx),
           NEW e \in SymbolSet, Defined(tx, e), TwoNames(tx[e.doc].defs),
           \A s \in st.symbols : s.doc = e.doc => s.res = e.res /\ s.side = e.side
    PROVE  LET nx == setGlobalIndexSymbol(st, e)
           IN  /\ TablesOK(nx.symbols, nx.hash, tx)
               /\ nx.symbols \subseteq st.symbols \cup {e}
               /\ \A d, n : Found(st.symbols, st.displaced, d, n)
                            => Found(nx.symbols, nx.displaced, d, n)
               /\ Found(nx.symbols, nx.displaced, e.doc, e.name)
<1>1. PICK syms : syms = st.symbols
  OBVIOUS
<1>2. PICK old : old = {s \in syms : Slot(s) = Slot(e)}
  OBVIOUS
<1>3. PICK h : h = IF old = {} THEN st.hash
                   ELSE removeEntryFromHash(st.hash, CHOOSE s \in old : TRUE)
  OBVIOUS
<1>4. PICK nx : nx = setGlobalIndexSymbol(st, e)
  OBVIOUS
<1>5. /\ nx.symbols = (syms \ old) \cup {e}
      /\ nx.hash = [h EXCEPT ![e.key] = InsertByPriority(@, e)]
      /\ nx.displaced = st.displaced \cup {<<Slot(s), s.doc>> : s \in {o \in old : o.doc # e.doc}}
  BY <1>1, <1>2, <1>3, <1>4 DEF setGlobalIndexSymbol
<1>6. TablesOK(syms, st.hash, tx)
  BY <1>1
<1>7. TablesOK(syms \ old, h, tx)
  <2>1. CASE old = {}
    <3>1. syms \ old = syms
      BY <2>1
    <3>. QED
      BY <1>3, <1>6, <2>1, <3>1
  <2>2. CASE old # {}
    <3>1. PICK o : o = CHOOSE s \in old : TRUE
      OBVIOUS
    <3>2. o \in old
      BY <2>2, <3>1
    <3>3. OneInSlot(syms)
      BY <1>6 DEF TablesOK
    <3>4. old = {o} /\ o \in syms
      BY <1>2, <3>2, <3>3 DEF OneInSlot
    <3>5. h = removeEntryFromHash(st.hash, o)
      BY <1>3, <2>2, <3>1
    <3>. QED
      BY <1>6, <3>4, <3>5, OldGoes
  <2>. QED
    BY <2>1, <2>2
<1>8. TablesOK(nx.symbols, nx.hash, tx)
  <2>1. PICK left : left = syms \ old
    OBVIOUS
  <2>2. \A s \in left : Slot(s) # Slot(e)
    BY <1>2, <2>1
  <2>3. \A s \in left : s.doc = e.doc => s.res = e.res /\ s.side = e.side
    BY <1>1, <2>1
  <2>4. TablesOK(left, h, tx)
    BY <1>7, <2>1
  <2>5. TablesOK(left \cup {e}, [h EXCEPT ![e.key] = InsertByPriority(@, e)], tx)
    BY <2>2, <2>3, <2>4, NewComes
  <2>. QED
    BY <1>5, <2>1, <2>5
<1>9. nx.symbols \subseteq syms \cup {e} /\ e \in nx.symbols
  BY <1>5
<1>10. ASSUME NEW d, NEW n, Found(syms, st.displaced, d, n)
       PROVE  Found(nx.symbols, nx.displaced, d, n)
  <2>1. CASE \E p \in st.displaced : p[2] = d /\ p[1][3] = n
    <3>1. st.displaced \subseteq nx.displaced
      BY <1>5
    <3>. QED
      BY <2>1, <3>1 DEF Found
  <2>2. CASE \E s \in syms : s.doc = d /\ s.name = n
    <3>1. PICK s \in syms : s.doc = d /\ s.name = n
      BY <2>2
    <3>2. CASE s \notin old
      <4>1. s \in nx.symbols
        BY <1>5, <3>1, <3>2
      <4>. QED
        BY <3>1, <4>1 DEF Found
    <3>3. CASE s \in old /\ s.doc = e.doc
      <4>1. s.name = e.name
        BY <1>2, <3>3 DEF Slot
      <4>. QED
        BY <1>9, <3>1, <3>3, <4>1 DEF Found
    <3>4. CASE s \in old /\ s.doc # e.doc
      <4>1. PICK p : p = <<Slot(s), s.doc>>
        OBVIOUS
      <4>2. p \in nx.displaced
        BY <1>5, <3>4, <4>1
      <4>3. p[2] = d /\ p[1][3] = n
        BY <3>1, <4>1 DEF Slot
      <4>. QED
        BY <4>2, <4>3 DEF Found
    <3>. QED
      BY <3>2, <3>3, <3>4
  <2>. QED
    BY <1>10, <2>1, <2>2 DEF Found
<1>11. Found(nx.symbols, nx.displaced, e.doc, e.name)
  BY <1>9 DEF Found
<1>. QED
  BY <1>1, <1>4, <1>8, <1>9, <1>10, <1>11

(* The states the definitions of a text go through.                          *)
IsIndexing(g, st, d, h, defs) ==
    /\ g[0] = st
    /\ \A i \in 1 .. Len(defs) : g[i] = setGlobalIndexSymbol(g[i - 1], EntryOf(d, h, defs[i]))

(* setGlobalSymbols is the last of them.                                     *)
LEMMA IndexingExists ==
    ASSUME NEW st, NEW d, NEW h, NEW defs \in Seq(Def)
    PROVE  \E g : IsIndexing(g, st, d, h, defs) /\ setGlobalSymbols(st, d, h, defs) = g[Len(defs)]
<1>. DEFINE n == Len(defs)
            F(g, k) == [i \in 0 .. k |->
                IF i = 0 THEN st ELSE setGlobalIndexSymbol(g[i - 1], EntryOf(d, h, defs[i]))]
            Good(g, k) == g = F(g, k)
            D == {k \in Nat : \E g : Good(g, k)}
            f == CHOOSE g : g = F(g, n)
<1>1. 0 \in D
  <2>1. Good([i \in 0 .. 0 |-> st], 0)
    OBVIOUS
  <2>. HIDE DEF Good
  <2>. QED
    BY <2>1
<1>2. ASSUME NEW k \in Nat, k \in D PROVE k + 1 \in D
  <2>1. PICK g : Good(g, k)
    BY <1>2
  <2>. DEFINE last == setGlobalIndexSymbol(g[k], EntryOf(d, h, defs[k + 1]))
              v == [i \in 0 .. k + 1 |-> IF i = k + 1 THEN last ELSE g[i]]
  <2>2. /\ \A i \in 0 .. k : v[i] = g[i]
        /\ v[k + 1] = last
        /\ DOMAIN v = 0 .. k + 1 /\ v = [i \in 0 .. k + 1 |-> v[i]]
    <3>. HIDE DEF last
    <3>. QED
      OBVIOUS
  <2>3. ASSUME NEW i \in 0 .. k + 1
        PROVE  v[i] = IF i = 0 THEN st
                      ELSE setGlobalIndexSymbol(v[i - 1], EntryOf(d, h, defs[i]))
    <3>. HIDE DEF v
    <3>1. CASE i = k + 1
      <4>1. k \in 0 .. k
        OBVIOUS
      <4>2. v[k] = g[k]
        BY <2>2, <4>1
      <4>3. i - 1 = k /\ i # 0
        BY <3>1
      <4>. QED
        BY <2>2, <3>1, <4>2, <4>3
    <3>2. CASE i # k + 1
      <4>1. i \in 0 .. k /\ (i # 0 => i - 1 \in 0 .. k)
        BY <3>2
      <4>2. g[i] = IF i = 0 THEN st
                   ELSE setGlobalIndexSymbol(g[i - 1], EntryOf(d, h, defs[i]))
        BY <2>1, <4>1
      <4>. QED
        BY <2>2, <4>1, <4>2
    <3>. QED
      BY <3>1, <3>2
  <2>. HIDE DEF v
  <2>4. Good(v, k + 1)
    BY <2>2, <2>3
  <2>. HIDE DEF Good
  <2>. QED
    BY <2>4
<1>3. n \in Nat
  OBVIOUS
<1>4. setGlobalSymbols(st, d, h, defs) = f[n]
  BY DEF setGlobalSymbols
<1>. HIDE DEF n
<1>5. n \in D
  <2>. HIDE DEF D
  <2>. QED
    BY <1>1, <1>2, <1>3, SetInduction
<1>6. f = F(f, n)
  <2>1. \E g : g = F(g, n)
    BY <1>5
  <2>. HIDE DEF F
  <2>. QED
    BY <2>1
<1>. HIDE DEF f
<1>7. \A i \in 0 .. n : f[i] = F(f, n)[i]
  <2>. HIDE DEF F
  <2>. QED
    BY <1>6
<1>8. /\ f[0] = st
      /\ \A i \in 1 .. n : f[i] = setGlobalIndexSymbol(f[i - 1], EntryOf(d, h, defs[i]))
  BY <1>3, <1>7
<1>9. IsIndexing(f, st, d, h, defs)
  BY <1>8 DEF IsIndexing, n
<1>. QED
  BY <1>4, <1>9 DEF n

(* Every definition of a text is put in, and the tables stay in order.       *)
LEMMA SetSymbolsKeeps ==
    ASSUME NEW st, NEW tx, TablesOK(st.symbols, st.hash, tx),
           NEW d \in Docs, NEW h \in [res: {d} \cup Roots, side: Sides],
           tx[d] # Nil, tx[d].defs \in Seq(Def), TwoNames(tx[d].defs),
           \A s \in st.symbols : s.doc # d
    PROVE  LET full == setGlobalSymbols(st, d, h, tx[d].defs)
           IN  /\ TablesOK(full.symbols, full.hash, tx)
               /\ \A x, n : Found(st.symbols, st.displaced, x, n)
                            => Found(full.symbols, full.displaced, x, n)
               /\ \A i \in DOMAIN tx[d].defs :
                     Found(full.symbols, full.displaced, d, tx[d].defs[i].name)
<1>1. PICK defs : defs = tx[d].defs
  OBVIOUS
<1>2. PICK g : IsIndexing(g, st, d, h, defs) /\ setGlobalSymbols(st, d, h, defs) = g[Len(defs)]
  BY <1>1, IndexingExists
<1>. DEFINE Good(k) ==
        /\ TablesOK(g[k].symbols, g[k].hash, tx)
        /\ \A s \in g[k].symbols : s.doc = d => s.res = h.res /\ s.side = h.side
        /\ \A x, n : Found(st.symbols, st.displaced, x, n)
                     => Found(g[k].symbols, g[k].displaced, x, n)
        /\ \A i \in 1 .. k : Found(g[k].symbols, g[k].displaced, d, defs[i].name)
            D == {k \in Nat : k <= Len(defs) => Good(k)}
<1>3. Len(defs) \in Nat /\ DOMAIN defs = 1 .. Len(defs) /\ \A i \in 1 .. Len(defs) : defs[i] \in Def
  BY <1>1
<1>4. 0 \in D
  <2>1. g[0] = st
    BY <1>2 DEF IsIndexing
  <2>. QED
    BY <2>1
<1>5. ASSUME NEW k \in Nat, k \in D PROVE k + 1 \in D
  <2>. SUFFICES ASSUME k + 1 <= Len(defs) PROVE Good(k + 1)
    OBVIOUS
  <2>1. PICK u : u = g[k]
    OBVIOUS
  <2>2. PICK v : v = g[k + 1]
    OBVIOUS
  <2>3. PICK def : def = defs[k + 1]
    OBVIOUS
  <2>4. PICK e : e = EntryOf(d, h, def)
    OBVIOUS
  <2>5. k + 1 \in 1 .. Len(defs) /\ (k + 1) - 1 = k /\ k <= Len(defs)
    BY <1>3
  <2>6. v = setGlobalIndexSymbol(u, e)
    BY <1>2, <2>1, <2>2, <2>3, <2>4, <2>5 DEF IsIndexing
  <2>7. /\ TablesOK(u.symbols, u.hash, tx)
        /\ \A s \in u.symbols : s.doc = d => s.res = h.res /\ s.side = h.side
        /\ \A x, n : Found(st.symbols, st.displaced, x, n)
                     => Found(u.symbols, u.displaced, x, n)
        /\ \A i \in 1 .. k : Found(u.symbols, u.displaced, d, defs[i].name)
    BY <1>5, <2>1, <2>5
  <2>8. def \in Def /\ def \in ToSet(defs)
    BY <1>3, <2>3, <2>5 DEF ToSet
  <2>9. /\ e \in SymbolSet /\ e.doc = d /\ e.res = h.res /\ e.side = h.side
        /\ e.name = def.name /\ Definition(e) = def
    BY <2>4, <2>8 DEF EntryOf, SymbolSet, Def, Definition
  <2>10. Defined(tx, e) /\ TwoNames(tx[e.doc].defs)
    BY <1>1, <2>8, <2>9 DEF Defined
  <2>11. \A s \in u.symbols : s.doc = e.doc => s.res = e.res /\ s.side = e.side
    BY <2>7, <2>9
  <2>12. /\ TablesOK(v.symbols, v.hash, tx)
         /\ v.symbols \subseteq u.symbols \cup {e}
         /\ \A x, n : Found(u.symbols, u.displaced, x, n) => Found(v.symbols, v.displaced, x, n)
         /\ Found(v.symbols, v.displaced, e.doc, e.name)
    BY <2>6, <2>7, <2>9, <2>10, <2>11, SetSymbolKeeps
  <2>13. \A s \in v.symbols : s.doc = d => s.res = h.res /\ s.side = h.side
    BY <2>7, <2>9, <2>12
  <2>14. \A i \in 1 .. k + 1 : Found(v.symbols, v.displaced, d, defs[i].name)
    <3>. SUFFICES ASSUME NEW i \in 1 .. k + 1 PROVE Found(v.symbols, v.displaced, d, defs[i].name)
      OBVIOUS
    <3>1. CASE i = k + 1
      BY <2>3, <2>9, <2>12, <3>1
    <3>2. CASE i \in 1 .. k
      BY <2>7, <2>12, <3>2
    <3>. QED
      BY <3>1, <3>2
  <2>15. \A x, n : Found(st.symbols, st.displaced, x, n) => Found(v.symbols, v.displaced, x, n)
    BY <2>7, <2>12
  <2>. QED
    BY <2>2, <2>12, <2>13, <2>14, <2>15
<1>6. Len(defs) \in D
  <2>. HIDE DEF D
  <2>. QED
    BY <1>3, <1>4, <1>5, SetInduction
<1>7. PICK full : full = setGlobalSymbols(st, d, h, defs)
  OBVIOUS
<1>8. full = g[Len(defs)] /\ Good(Len(defs))
  BY <1>2, <1>3, <1>6, <1>7
<1>9. /\ TablesOK(full.symbols, full.hash, tx)
      /\ \A x, n : Found(st.symbols, st.displaced, x, n) => Found(full.symbols, full.displaced, x, n)
      /\ \A i \in DOMAIN defs : Found(full.symbols, full.displaced, d, defs[i].name)
  BY <1>3, <1>8
<1>. HIDE DEF Good, D
<1>. QED
  BY <1>1, <1>7, <1>9

(* Taking a document out leaves the tables in order for the other texts.     *)
LEMMA RemoveDocumentKeeps ==
    ASSUME NEW tx, TablesOK(symbols, hash, text), NEW d \in Docs,
           \A x \in Docs \ {d} : tx[x] = text[x]
    PROVE  LET st == removeGlobalIndexDocumentSymbols(d)
           IN  /\ TablesOK(st.symbols, st.hash, tx)
               /\ \A s \in st.symbols : s.doc # d
               /\ \A x, n : x # d /\ Found(symbols, displaced, x, n)
                            => Found(st.symbols, st.displaced, x, n)
<1>1. PICK st : st = removeGlobalIndexDocumentSymbols(d)
  OBVIOUS
<1>2. /\ st.symbols = {e \in symbols : e.doc # d}
      /\ st.hash = [k \in Keys |-> Without(hash[k], {x \in ToSet(hash[k]) : x.doc = d})]
      /\ st.displaced = {p \in displaced : p[2] # d}
  BY <1>1 DEF removeGlobalIndexDocumentSymbols
<1>3. /\ symbols \subseteq SymbolSet /\ OneInSlot(symbols) /\ \A s \in symbols : Defined(text, s)
      /\ hash \in [Keys -> Seq(Listing)] /\ \A k \in Keys : ListOK(symbols, k, hash[k])
  BY DEF TablesOK
<1>4. PICK left : left = st.symbols
  OBVIOUS
<1>5. left = {e \in symbols : e.doc # d}
  BY <1>2, <1>4
<1>6. left \subseteq SymbolSet /\ OneInSlot(left) /\ \A s \in left : Defined(tx, s)
  <2>1. \A s \in left : s \in symbols /\ s.doc \in Docs \ {d} /\ Defined(text, s)
    BY <1>3, <1>5, SymbolFacts
  <2>. QED
    BY <1>3, <2>1 DEF OneInSlot, Defined
<1>7. ASSUME NEW k \in Keys PROVE ListOK(left, k, st.hash[k])
  <2>1. PICK list : list = hash[k]
    OBVIOUS
  <2>2. PICK gone : gone = {x \in ToSet(list) : x.doc = d}
    OBVIOUS
  <2>3. PICK new : new = Without(list, gone)
    OBVIOUS
  <2>4. st.hash[k] = new
    BY <1>2, <2>1, <2>2, <2>3
  <2>5. /\ list \in Seq(Listing) /\ ToSet(list) \subseteq Held(symbols, k)
        /\ NoRepeat(list) /\ Ordered(list, HeldTwice(symbols, k))
    BY <1>3, <2>1 DEF ListOK
  <2>6. /\ new \in Seq(Listing) /\ ToSet(new) = ToSet(list) \ gone /\ InOrderOf(new, list)
    BY <2>3, <2>5, WithoutKeeps
  <2>7. NoRepeat(new)
    BY <2>5, <2>6, PartNew
  <2>8. \A x \in ToSet(new) : x.doc # d
    BY <2>2, <2>6
  <2>9. \A s \in symbols : Listed(s).doc = s.doc
    BY <1>3, SymbolFacts
  <2>10. ToSet(new) \subseteq Held(left, k)
    <3>. SUFFICES ASSUME NEW x \in ToSet(new) PROVE x \in Held(left, k)
      OBVIOUS
    <3>1. PICK s \in symbols : s.key = k /\ x = Listed(s)
      BY <2>5, <2>6 DEF Held
    <3>2. s \in left
      BY <1>5, <2>8, <2>9, <3>1
    <3>. QED
      BY <3>1, <3>2 DEF Held
  <2>11. HeldTwice(symbols, k) \cap ToSet(new) \subseteq HeldTwice(left, k)
    <3>. SUFFICES ASSUME NEW x \in HeldTwice(symbols, k), x \in ToSet(new)
                  PROVE  x \in HeldTwice(left, k)
      OBVIOUS
    <3>1. x \in Listing
      BY DEF HeldTwice
    <3>2. PICK e \in symbols, f \in symbols : /\ e # f /\ e.key = k /\ f.key = k
                                              /\ Listed(e) = x /\ Listed(f) = x
      BY DEF HeldTwice
    <3>3. e \in left /\ f \in left
      BY <1>5, <2>8, <2>9, <3>2
    <3>. QED
      BY <3>1, <3>2, <3>3 DEF HeldTwice
  <2>12. Ordered(new, HeldTwice(left, k))
    BY <2>5, <2>6, <2>11, PartOrdered
  <2>. QED
    BY <2>4, <2>6, <2>7, <2>10, <2>12 DEF ListOK
<1>8. st.hash \in [Keys -> Seq(Listing)]
  <2>1. DOMAIN st.hash = Keys /\ st.hash = [k \in Keys |-> st.hash[k]]
    BY <1>2
  <2>2. \A k \in Keys : st.hash[k] \in Seq(Listing)
    BY <1>7 DEF ListOK
  <2>. QED
    BY <2>1, <2>2
<1>9. TablesOK(left, st.hash, tx)
  BY <1>6, <1>7, <1>8 DEF TablesOK
<1>10. ASSUME NEW x, NEW n, x # d, Found(symbols, displaced, x, n)
       PROVE  Found(left, st.displaced, x, n)
  <2>1. CASE \E s \in symbols : s.doc = x /\ s.name = n
    BY <1>5, <1>10, <2>1 DEF Found
  <2>2. CASE \E p \in displaced : p[2] = x /\ p[1][3] = n
    BY <1>2, <1>10, <2>2 DEF Found
  <2>. QED
    BY <1>10, <2>1, <2>2 DEF Found
<1>. QED
  BY <1>1, <1>4, <1>5, <1>9, <1>10

-----------------------------------------------------------------------------
(* The tables, through every action.                                         *)

(* What the constants promise of a text and of a context.                    *)
LEMMA ConstantFacts ==
    ASSUME IndexConstantsOK
    PROVE  /\ \A t \in Texts : /\ t # Nil /\ t.defs \in Seq(Def) /\ t.size \in Nat \ {0}
                               /\ t.paths \in [Types -> Nat] /\ TwoNames(t.defs)
           /\ \A d \in Docs : Homes[d] \subseteq [res: {d} \cup Roots, side: Sides]
           /\ Docs \cap Roots = {} /\ (Docs \cup Roots) \cap Names = {}
           /\ NameOf \in [Roots -> Names]
           /\ ManifestDeps \subseteq SUBSET Names
BY DEF IndexConstantsOK

(* A document's definitions are replaced, and no others touched.             *)
LEMMA FinalizeTables ==
    ASSUME IndexConstantsOK, IndexInv, NEW d \in Docs, NEW t \in Texts,
           finalizeDocumentUpdate(d, t)
    PROVE  TablesOK(symbols', hash', text') /\ SoleDefinitionFound'
<1>1. PICK empty : empty = IF text[d] # Nil THEN removeGlobalIndexDocumentSymbols(d)
                           ELSE [symbols |-> symbols, hash |-> hash, displaced |-> displaced]
  OBVIOUS
<1>2. PICK h : h = home[d]
  OBVIOUS
<1>3. PICK full : full = setGlobalSymbols(empty, d, h, t.defs)
  OBVIOUS
<1>4. PICK tx : tx = [text EXCEPT ![d] = t]
  OBVIOUS
<1>5. /\ text' = tx /\ symbols' = full.symbols /\ hash' = full.hash
      /\ displaced' = full.displaced
  BY <1>1, <1>2, <1>3, <1>4 DEF finalizeDocumentUpdate
<1>6. /\ text \in [Docs -> Texts \cup {Nil}] /\ home[d] \in Homes[d]
      /\ TablesOK(symbols, hash, text) /\ SoleDefinitionFound
  BY DEF IndexInv, IndexTypeOK
<1>7. tx[d] = t /\ \A x \in Docs \ {d} : tx[x] = text[x]
  BY <1>4, <1>6
<1>8. t # Nil /\ t.defs \in Seq(Def) /\ TwoNames(t.defs) /\ h \in [res: {d} \cup Roots, side: Sides]
  BY <1>2, <1>6, ConstantFacts
<1>9. /\ TablesOK(empty.symbols, empty.hash, tx)
      /\ \A s \in empty.symbols : s.doc # d
      /\ \A x, n : x # d /\ Found(symbols, displaced, x, n)
                   => Found(empty.symbols, empty.displaced, x, n)
  <2>1. CASE text[d] # Nil
    <3>1. empty = removeGlobalIndexDocumentSymbols(d)
      BY <1>1, <2>1
    <3>. QED
      BY <1>6, <1>7, <3>1, RemoveDocumentKeeps
  <2>2. CASE text[d] = Nil
    <3>1. empty.symbols = symbols /\ empty.hash = hash /\ empty.displaced = displaced
      BY <1>1, <2>2
    <3>2. /\ symbols \subseteq SymbolSet /\ OneInSlot(symbols) /\ \A s \in symbols : Defined(text, s)
          /\ hash \in [Keys -> Seq(Listing)] /\ \A k \in Keys : ListOK(symbols, k, hash[k])
      BY <1>6 DEF TablesOK
    <3>3. \A s \in symbols : s.doc \in Docs \ {d}
      BY <2>2, <3>2, SymbolFacts DEF Defined
    <3>4. \A s \in symbols : Defined(tx, s)
      BY <1>7, <3>2, <3>3 DEF Defined
    <3>5. TablesOK(symbols, hash, tx)
      BY <3>2, <3>4 DEF TablesOK
    <3>. QED
      BY <3>1, <3>3, <3>5
  <2>. QED
    BY <2>1, <2>2
<1>10. /\ TablesOK(full.symbols, full.hash, tx)
       /\ \A x, n : Found(empty.symbols, empty.displaced, x, n)
                    => Found(full.symbols, full.displaced, x, n)
       /\ \A i \in DOMAIN t.defs : Found(full.symbols, full.displaced, d, t.defs[i].name)
  <2>1. tx[d].defs = t.defs
    BY <1>7
  <2>2. tx[d] # Nil /\ tx[d].defs \in Seq(Def) /\ TwoNames(tx[d].defs)
    BY <1>7, <1>8
  <2>3. full = setGlobalSymbols(empty, d, h, tx[d].defs)
    BY <1>3, <2>1
  <2>4. /\ TablesOK(full.symbols, full.hash, tx)
        /\ \A x, n : Found(empty.symbols, empty.displaced, x, n)
                     => Found(full.symbols, full.displaced, x, n)
        /\ \A i \in DOMAIN tx[d].defs : Found(full.symbols, full.displaced, d, tx[d].defs[i].name)
    BY <1>8, <1>9, <2>2, <2>3, SetSymbolsKeeps
  <2>. QED
    BY <2>1, <2>4
<1>11. ASSUME NEW x \in Docs, tx[x] # Nil, NEW i \in DOMAIN tx[x].defs
       PROVE  Found(full.symbols, full.displaced, x, tx[x].defs[i].name)
  <2>1. CASE x = d
    BY <1>7, <1>10, <1>11, <2>1
  <2>2. CASE x # d
    <3>1. tx[x] = text[x]
      BY <1>7, <2>2
    <3>2. Found(symbols, displaced, x, tx[x].defs[i].name)
      <4>1. text[x] # Nil /\ i \in DOMAIN text[x].defs
        BY <1>11, <3>1
      <4>2. PICK n : n = text[x].defs[i].name
        OBVIOUS
      <4>3. \/ \E e \in symbols : e.doc = x /\ e.name = n
            \/ \E p \in displaced : p[2] = x /\ p[1][3] = n
        BY <1>6, <4>1, <4>2 DEF SoleDefinitionFound
      <4>4. Found(symbols, displaced, x, n)
        BY <4>3 DEF Found
      <4>. QED
        BY <3>1, <4>2, <4>4
    <3>. QED
      BY <1>9, <1>10, <2>2, <3>2
  <2>. QED
    BY <2>1, <2>2
<1>12. SoleDefinitionFound'
  BY <1>5, <1>11 DEF SoleDefinitionFound, Found
<1>. QED
  BY <1>5, <1>10, <1>12

(* A document that goes takes its definitions along.                         *)
LEMMA ClearTables ==
    ASSUME IndexConstantsOK, IndexInv, NEW d \in Docs, clearDocument(d)
    PROVE  TablesOK(symbols', hash', text') /\ SoleDefinitionFound'
<1>1. PICK st : st = removeGlobalIndexDocumentSymbols(d)
  OBVIOUS
<1>2. PICK tx : tx = [text EXCEPT ![d] = Nil]
  OBVIOUS
<1>3. /\ text' = tx /\ symbols' = st.symbols /\ hash' = st.hash /\ displaced' = st.displaced
  BY <1>1, <1>2 DEF clearDocument
<1>4. /\ text \in [Docs -> Texts \cup {Nil}]
      /\ TablesOK(symbols, hash, text) /\ SoleDefinitionFound
  BY DEF IndexInv, IndexTypeOK
<1>5. tx[d] = Nil /\ \A x \in Docs \ {d} : tx[x] = text[x]
  BY <1>2, <1>4
<1>6. /\ TablesOK(st.symbols, st.hash, tx)
      /\ \A x, n : x # d /\ Found(symbols, displaced, x, n)
                   => Found(st.symbols, st.displaced, x, n)
  BY <1>1, <1>4, <1>5, RemoveDocumentKeeps
<1>7. ASSUME NEW x \in Docs, tx[x] # Nil, NEW i \in DOMAIN tx[x].defs
      PROVE  Found(st.symbols, st.displaced, x, tx[x].defs[i].name)
  <2>1. x # d /\ tx[x] = text[x]
    BY <1>5, <1>7
  <2>2. Found(symbols, displaced, x, tx[x].defs[i].name)
    BY <1>4, <1>7, <2>1 DEF SoleDefinitionFound, Found
  <2>. QED
    BY <1>6, <2>1, <2>2
<1>8. SoleDefinitionFound'
  BY <1>3, <1>7 DEF SoleDefinitionFound, Found
<1>. QED
  BY <1>3, <1>6, <1>8

-----------------------------------------------------------------------------
(* The aliases, through the actions that touch them.                         *)

(* The sources without those of a document.                                  *)
LEMMA LeftFacts ==
    ASSUME IndexTypeOK, NEW d \in Docs
    PROVE  /\ LeftSources(d) \in [Types -> [Docs -> Nat]]
           /\ \A y \in Types : LeftSources(d)[y][d] = 0
           /\ \A y \in Types, x \in Docs \ {d} : LeftSources(d)[y][x] = sources[y][x]
<1>1. sources \in [Types -> [Docs -> Nat]]
  BY DEF IndexTypeOK
<1>2. \A y \in Types : LeftSources(d)[y] = [sources[y] EXCEPT ![d] = 0]
  BY DEF LeftSources
<1>3. ASSUME NEW y \in Types PROVE LeftSources(d)[y] \in [Docs -> Nat]
  <2>1. sources[y] \in [Docs -> Nat]
    BY <1>1
  <2>2. [sources[y] EXCEPT ![d] = 0] \in [Docs -> Nat]
    BY <2>1
  <2>. QED
    BY <1>2, <2>2
<1>4. LeftSources(d) \in [Types -> [Docs -> Nat]]
  BY <1>3 DEF LeftSources
<1>. QED
  BY <1>1, <1>2, <1>4

(* Aliases are paths, which are numbers.                                     *)
LEMMA PathsAreNumbers ==
    ASSUME IndexTypeOK
    PROVE  Paths \subseteq Nat
<1>1. sources \in [Types -> [Docs -> Nat]]
  BY DEF IndexTypeOK
<1>2. \A y \in Types : PathsOf(sources, y) \subseteq Nat
  BY <1>1 DEF PathsOf
<1>. QED
  BY <1>2 DEF Paths

(* An alias points to a declaration of its class that is left.               *)
AliasOf(src, a, y) ==
    IF PathsOf(src, y) = {} THEN a[y] = 0 ELSE a[y] \in PathsOf(src, y)

(* AliasBacked of the next state, over the values it has there.              *)
LEMMA AliasesNext ==
    ASSUME NEW new, NEW b, NEW tx, sources' = new, alias' = b, text' = tx,
           \A y \in Types :
               /\ b[y] # 0 <=> PathsOf(new, y) # {}
               /\ b[y] # 0 => b[y] \in PathsOf(new, y)
               /\ \A x \in Docs : new[y][x] = IF tx[x] = Nil THEN 0 ELSE tx[x].paths[y]
    PROVE  AliasBacked'
BY DEF AliasBacked, PathsOf

(* A text's declarations come in.                                            *)
LEMMA FinalizeAliases ==
    ASSUME IndexConstantsOK, IndexInv, NEW d \in Docs, NEW t \in Texts,
           finalizeDocumentUpdate(d, t)
    PROVE  /\ AliasBacked'
           /\ sources' \in [Types -> [Docs -> Nat]] /\ alias' \in [Types -> Nat]
<1>1. PICK src : src = IF text[d] # Nil THEN LeftSources(d) ELSE sources
  OBVIOUS
<1>2. PICK a \in [Types -> Paths] :
        /\ IF text[d] # Nil THEN AliasAfterRemoval(src, a) ELSE a = alias
        /\ setTableAliases(d, t, src, a)
  BY <1>1 DEF finalizeDocumentUpdate
<1>3. /\ text \in [Docs -> Texts \cup {Nil}] /\ text' = [text EXCEPT ![d] = t]
      /\ sources \in [Types -> [Docs -> Nat]] /\ IndexTypeOK /\ AliasBacked
  BY DEF finalizeDocumentUpdate, IndexInv, IndexTypeOK
<1>4. t # Nil /\ t.paths \in [Types -> Nat]
  BY ConstantFacts
<1>5. PICK tx : tx = text'
  OBVIOUS
<1>6. tx[d] = t /\ \A x \in Docs \ {d} : tx[x] = text[x]
  BY <1>3, <1>5
<1>7. \A y \in Types, x \in Docs : sources[y][x] = IF text[x] = Nil THEN 0 ELSE text[x].paths[y]
  BY <1>3 DEF AliasBacked
<1>8. /\ src \in [Types -> [Docs -> Nat]]
      /\ \A y \in Types : src[y][d] = 0
      /\ \A y \in Types, x \in Docs \ {d} : src[y][x] = sources[y][x]
  <2>1. CASE text[d] # Nil
    BY <1>1, <1>3, <2>1, LeftFacts
  <2>2. CASE text[d] = Nil
    BY <1>1, <1>3, <1>7, <2>2
  <2>. QED
    BY <2>1, <2>2
<1>9. \A y \in Types : AliasOf(src, a, y)
  <2>1. CASE text[d] # Nil
    BY <1>2, <2>1 DEF AliasAfterRemoval, AliasOf
  <2>2. CASE text[d] = Nil
    <3>1. src = sources /\ a = alias
      BY <1>1, <1>2, <2>2
    <3>. QED
      BY <1>3, <3>1 DEF AliasBacked, AliasOf
  <2>. QED
    BY <2>1, <2>2
<1>10. PICK new : new = sources'
  OBVIOUS
<1>11. PICK b : b = alias'
  OBVIOUS
<1>12. /\ new = [y \in Types |-> IF t.paths[y] = 0 THEN src[y] ELSE [src[y] EXCEPT ![d] = t.paths[y]]]
       /\ b = [y \in Types |-> IF t.paths[y] = 0 THEN a[y] ELSE t.paths[y]]
  BY <1>2, <1>10, <1>11 DEF setTableAliases
<1>13. a \in [Types -> Nat]
  BY <1>3, PathsAreNumbers
<1>14. ASSUME NEW y \in Types
       PROVE  /\ new[y] \in [Docs -> Nat] /\ b[y] \in Nat
              /\ new[y][d] = t.paths[y]
              /\ \A x \in Docs \ {d} : new[y][x] = sources[y][x]
              /\ t.paths[y] = 0 => new[y] = src[y] /\ b[y] = a[y]
              /\ t.paths[y] # 0 => b[y] = t.paths[y]
  BY <1>4, <1>8, <1>12, <1>13
<1>15. new \in [Types -> [Docs -> Nat]] /\ b \in [Types -> Nat]
  BY <1>12, <1>14
<1>16. ASSUME NEW y \in Types
       PROVE  /\ b[y] # 0 <=> PathsOf(new, y) # {}
              /\ b[y] # 0 => b[y] \in PathsOf(new, y)
  <2>1. CASE t.paths[y] = 0
    <3>1. PathsOf(new, y) = PathsOf(src, y) /\ b[y] = a[y]
      BY <1>14, <2>1 DEF PathsOf
    <3>2. 0 \notin PathsOf(src, y)
      BY DEF PathsOf
    <3>. QED
      BY <1>9, <3>1, <3>2 DEF AliasOf
  <2>2. CASE t.paths[y] # 0
    <3>1. b[y] \in PathsOf(new, y)
      BY <1>14, <2>2 DEF PathsOf
    <3>. QED
      BY <1>14, <2>2, <3>1
  <2>. QED
    BY <2>1, <2>2
<1>17. ASSUME NEW y \in Types, NEW x \in Docs
       PROVE  new[y][x] = IF tx[x] = Nil THEN 0 ELSE tx[x].paths[y]
  <2>1. CASE x = d
    <3>1. new[y][d] = t.paths[y]
      BY <1>14
    <3>. QED
      BY <1>4, <1>6, <2>1, <3>1
  <2>2. CASE x # d
    <3>1. x \in Docs \ {d}
      BY <2>2
    <3>2. new[y][x] = sources[y][x] /\ tx[x] = text[x]
      BY <1>6, <1>14, <3>1
    <3>. QED
      BY <1>7, <3>2
  <2>. QED
    BY <2>1, <2>2
<1>18. AliasBacked'
  <2>1. \A y \in Types : /\ b[y] # 0 <=> PathsOf(new, y) # {}
                         /\ b[y] # 0 => b[y] \in PathsOf(new, y)
                         /\ \A x \in Docs : new[y][x] = IF tx[x] = Nil THEN 0 ELSE tx[x].paths[y]
    BY <1>16, <1>17
  <2>. QED
    BY <1>5, <1>10, <1>11, <2>1, AliasesNext
<1>. QED
  BY <1>10, <1>11, <1>15, <1>18

(* A document's declarations go.                                             *)
LEMMA ClearAliases ==
    ASSUME IndexInv, NEW d \in Docs, clearDocument(d)
    PROVE  /\ AliasBacked'
           /\ sources' \in [Types -> [Docs -> Nat]] /\ alias' \in [Types -> Nat]
<1>1. PICK new : new = sources'
  OBVIOUS
<1>2. PICK b : b = alias'
  OBVIOUS
<1>3. PICK tx : tx = text'
  OBVIOUS
<1>4. new = LeftSources(d) /\ b \in [Types -> Paths] /\ tx = [text EXCEPT ![d] = Nil]
  BY <1>1, <1>2, <1>3 DEF clearDocument
<1>5. AliasAfterRemoval(new, b)
  BY <1>1, <1>2 DEF clearDocument
<1>6. text \in [Docs -> Texts \cup {Nil}] /\ IndexTypeOK /\ AliasBacked
  BY DEF IndexInv, IndexTypeOK
<1>7. tx[d] = Nil /\ \A x \in Docs \ {d} : tx[x] = text[x]
  BY <1>4, <1>6
<1>8. b \in [Types -> Nat]
  BY <1>4, <1>6, PathsAreNumbers
<1>9. /\ new \in [Types -> [Docs -> Nat]] /\ \A y \in Types : new[y][d] = 0
      /\ \A y \in Types, x \in Docs \ {d} : new[y][x] = sources[y][x]
  BY <1>4, <1>6, LeftFacts
<1>10. \A y \in Types, x \in Docs : sources[y][x] = IF text[x] = Nil THEN 0 ELSE text[x].paths[y]
  BY <1>6 DEF AliasBacked
<1>11. ASSUME NEW y \in Types, NEW x \in Docs
       PROVE  new[y][x] = IF tx[x] = Nil THEN 0 ELSE tx[x].paths[y]
  <2>1. CASE x = d
    BY <1>7, <1>9, <2>1
  <2>2. CASE x # d
    <3>1. x \in Docs \ {d}
      BY <2>2
    <3>2. new[y][x] = sources[y][x] /\ tx[x] = text[x]
      BY <1>7, <1>9, <3>1
    <3>. QED
      BY <1>10, <3>2
  <2>. QED
    BY <2>1, <2>2
<1>12. ASSUME NEW y \in Types
       PROVE  /\ b[y] # 0 <=> PathsOf(new, y) # {}
              /\ b[y] # 0 => b[y] \in PathsOf(new, y)
  <2>1. 0 \notin PathsOf(new, y)
    BY DEF PathsOf
  <2>. QED
    BY <1>5, <2>1 DEF AliasAfterRemoval
<1>13. AliasBacked'
  <2>1. \A y \in Types : /\ b[y] # 0 <=> PathsOf(new, y) # {}
                         /\ b[y] # 0 => b[y] \in PathsOf(new, y)
                         /\ \A x \in Docs : new[y][x] = IF tx[x] = Nil THEN 0 ELSE tx[x].paths[y]
    BY <1>11, <1>12
  <2>. QED
    BY <1>1, <1>2, <1>3, <2>1, AliasesNext
<1>. QED
  BY <1>1, <1>2, <1>8, <1>9, <1>13

-----------------------------------------------------------------------------
(* The graph, through the actions that touch it.                             *)

GraphTypeOK ==
    /\ scopes \subseteq Docs \cup Roots /\ named \subseteq Roots \cap scopes
    /\ deps \subseteq Names \X Names /\ dependents \subseteq Names \X Names
    /\ vertices \subseteq Docs \cup Roots \cup Names
    /\ cached \in [Roots -> [deps: SUBSET Names, dependents: SUBSET Names]]

Edges(v, ds, ts) == [deps |-> DependencyList(v, ds), dependents |-> DependentList(v, ts)]

(* A refresh gives the scopes concerned the graph's edges.                   *)
LEMMA RefreshFacts ==
    ASSUME cached \in [Roots -> [deps: SUBSET Names, dependents: SUBSET Names]],
           NEW nm, NEW ids, NEW ds, NEW ts
    PROVE  LET new == refreshResourceEdges(nm, ids, ds, ts)
           IN  /\ new \in [Roots -> [deps: SUBSET Names, dependents: SUBSET Names]]
               /\ \A r \in Roots :
                     new[r] = IF r \in scopes' /\ resourceIdentity(r, nm) \in ids
                              THEN Edges(resourceIdentity(r, nm), ds, ts) ELSE cached[r]
<1>1. PICK new : new = refreshResourceEdges(nm, ids, ds, ts)
  OBVIOUS
<1>2. \A v : Edges(v, ds, ts) \in [deps: SUBSET Names, dependents: SUBSET Names]
  BY DEF Edges, DependencyList, DependentList
<1>3. new = [r \in Roots |-> IF r \in scopes' /\ resourceIdentity(r, nm) \in ids
                             THEN Edges(resourceIdentity(r, nm), ds, ts) ELSE cached[r]]
  BY <1>1 DEF refreshResourceEdges, Edges
<1>. QED
  BY <1>1, <1>2, <1>3

(* Nothing of the graph changes.                                             *)
LEMMA EdgesStay ==
    ASSUME EdgesCached, named' = named, deps' = deps, dependents' = dependents, cached' = cached
    PROVE  EdgesCached'
BY DEF EdgesCached, DependencyList, DependentList

(* Registering a resource: whose edges have changed is among those that are  *)
(* refreshed, for a resource that depends on the new one was a dependency of *)
(* it before or is one now.                                                  *)
LEMMA RegisterGraph ==
    ASSUME IndexConstantsOK, GraphTypeOK, GraphClosed, EdgesCached,
           NEW r \in Roots, NEW ds \in ManifestDeps, RegisterFiveMResource(r, ds)
    PROVE  GraphTypeOK' /\ GraphClosed' /\ EdgesCached'
<1>1. PICK v : v = NameOf[r]
  OBVIOUS
<1>2. PICK new : new = ds \ {v}
  OBVIOUS
<1>3. PICK ed : ed = deps'
  OBVIOUS
<1>4. PICK et : et = dependents'
  OBVIOUS
<1>5. PICK nm : nm = named'
  OBVIOUS
<1>6. PICK ids : ids = Affected(r, ds)
  OBVIOUS
<1>7. /\ NameOf \in [Roots -> Names] /\ ds \subseteq Names /\ v \in Names /\ new \subseteq Names
  BY <1>1, <1>2, ConstantFacts
<1>8. /\ scopes' = scopes \cup {r} /\ vertices' = vertices \cup {r, v} \cup ds
      /\ nm = named \cup {r}
      /\ ed = {p \in deps : p[1] # v} \cup {<<v, w>> : w \in new}
      /\ et = {p \in dependents : p[2] # v} \cup {<<w, v>> : w \in new}
      /\ cached' = refreshResourceEdges(nm, ids, ed, et)
  BY <1>1, <1>2, <1>3, <1>4, <1>5, <1>6 DEF RegisterFiveMResource, SetDependencies
<1>9. /\ deps \subseteq Names \X Names /\ dependents \subseteq Names \X Names
      /\ named \subseteq Roots \cap scopes /\ vertices \subseteq Docs \cup Roots \cup Names
      /\ scopes \subseteq Docs \cup Roots
      /\ cached \in [Roots -> [deps: SUBSET Names, dependents: SUBSET Names]]
  BY DEF GraphTypeOK
<1>10. PICK nc : nc = cached'
  OBVIOUS
<1>11. /\ nc \in [Roots -> [deps: SUBSET Names, dependents: SUBSET Names]]
       /\ \A q \in Roots : nc[q] = IF q \in scopes' /\ resourceIdentity(q, nm) \in ids
                                   THEN Edges(resourceIdentity(q, nm), ed, et) ELSE cached[q]
  BY <1>8, <1>9, <1>10, RefreshFacts
<1>12. GraphTypeOK'
  <2>1. ed \subseteq Names \X Names /\ et \subseteq Names \X Names
    BY <1>7, <1>8, <1>9
  <2>2. nm \subseteq Roots \cap scopes' /\ scopes' \subseteq Docs \cup Roots
    BY <1>8, <1>9
  <2>3. vertices' \subseteq Docs \cup Roots \cup Names
    BY <1>7, <1>8, <1>9
  <2>. QED
    BY <1>3, <1>4, <1>5, <1>10, <1>11, <2>1, <2>2, <2>3 DEF GraphTypeOK
<1>13. /\ \A a, b \in Names : <<a, b>> \in deps <=> <<b, a>> \in dependents
       /\ \A q \in named : cached[q] = Edges(NameOf[q], deps, dependents)
  BY DEF EdgesCached, Edges
<1>14. \A a, b \in Names : <<a, b>> \in ed <=> IF a = v THEN b \in new ELSE <<a, b>> \in deps
  BY <1>8
<1>15. \A a, b \in Names : <<b, a>> \in et <=> IF a = v THEN b \in new ELSE <<b, a>> \in dependents
  BY <1>8
<1>16. \A a, b \in Names : <<a, b>> \in ed <=> <<b, a>> \in et
  BY <1>13, <1>14, <1>15
<1>17. v \in ids /\ ds \subseteq ids /\ \A w \in Names : <<v, w>> \in deps => w \in ids
  BY <1>1, <1>6 DEF Affected, DependencyList
<1>18. ASSUME NEW q \in nm PROVE nc[q] = Edges(NameOf[q], ed, et)
  <2>1. q \in Roots /\ q \in scopes' /\ resourceIdentity(q, nm) = NameOf[q] /\ NameOf[q] \in Names
    BY <1>7, <1>8, <1>9 DEF resourceIdentity
  <2>2. CASE NameOf[q] \in ids
    BY <1>11, <2>1, <2>2
  <2>3. CASE NameOf[q] \notin ids
    <3>1. PICK n \in Names : n = NameOf[q]
      BY <2>1
    <3>2. n # v /\ n \notin ds /\ <<v, n>> \notin deps
      BY <1>17, <2>3, <3>1
    <3>3. nc[q] = cached[q] /\ q \in named
      <4>1. nc[q] = cached[q]
        BY <1>11, <2>1, <2>3
      <4>2. q # r
        BY <1>1, <1>17, <2>3
      <4>. QED
        BY <1>8, <4>1, <4>2
    <3>4. cached[q] = Edges(n, deps, dependents)
      BY <1>13, <3>1, <3>3
    <3>5. \A w \in Names : <<n, w>> \in ed <=> <<n, w>> \in deps
      BY <1>14, <3>2
    <3>6. \A w \in Names : <<n, w>> \in et <=> <<n, w>> \in dependents
      <4>. SUFFICES ASSUME NEW w \in Names PROVE <<n, w>> \in et <=> <<n, w>> \in dependents
        OBVIOUS
      <4>1. CASE w = v
        <5>1. <<n, v>> \notin dependents
          BY <1>7, <1>13, <3>2
        <5>2. <<n, v>> \notin et
          BY <1>2, <1>7, <1>15, <3>2
        <5>. QED
          BY <4>1, <5>1, <5>2
      <4>2. CASE w # v
        BY <1>15, <4>2
      <4>. QED
        BY <4>1, <4>2
    <3>7. Edges(n, ed, et) = Edges(n, deps, dependents)
      BY <3>5, <3>6 DEF Edges, DependencyList, DependentList
    <3>. QED
      BY <3>1, <3>3, <3>4, <3>7
  <2>. QED
    BY <2>2, <2>3
<1>19. EdgesCached'
  <2>1. EdgesCached' <=> /\ \A a, b \in Names : <<a, b>> \in ed <=> <<b, a>> \in et
                         /\ \A q \in nm : nc[q] = Edges(NameOf[q], ed, et)
    BY <1>3, <1>4, <1>5, <1>10 DEF EdgesCached, Edges
  <2>. QED
    BY <1>16, <1>18, <2>1
<1>20. GraphClosed'
  <2>1. PICK held : held = vertices'
    OBVIOUS
  <2>2. vertices \subseteq held /\ v \in held /\ ds \subseteq held
    BY <1>8, <2>1
  <2>3. deps \subseteq vertices \X vertices
    BY DEF GraphClosed
  <2>4. ed \subseteq held \X held
    BY <1>2, <1>8, <2>2, <2>3
  <2>. QED
    BY <1>3, <2>1, <2>4 DEF GraphClosed
<1>. QED
  BY <1>12, <1>19, <1>20

(* A document that goes: its own scope, which nobody depends on, may go too. *)
LEMMA ClearGraph ==
    ASSUME IndexConstantsOK, GraphTypeOK, GraphClosed, EdgesCached,
           NEW d \in Docs, clearDocument(d)
    PROVE  GraphTypeOK' /\ GraphClosed' /\ EdgesCached'
<1>1. /\ deps \subseteq Names \X Names /\ dependents \subseteq Names \X Names
      /\ named \subseteq Roots \cap scopes /\ vertices \subseteq Docs \cup Roots \cup Names
      /\ scopes \subseteq Docs \cup Roots
      /\ cached \in [Roots -> [deps: SUBSET Names, dependents: SUBSET Names]]
  BY DEF GraphTypeOK
<1>2. CASE SharedHome(d) \/ \E e \in symbols' : e.res = d
  <2>1. UNCHANGED <<scopes, vertices, cached, named, deps, dependents>>
    <3>1. CASE SharedHome(d)
      BY <3>1 DEF clearDocument, graphVars
    <3>2. CASE ~SharedHome(d)
      BY <1>2, <3>2 DEF clearDocument, PruneResource
    <3>. QED
      BY <3>1, <3>2
  <2>. QED
    BY <2>1, EdgesStay DEF GraphTypeOK, GraphClosed
<1>3. CASE ~SharedHome(d) /\ ~\E e \in symbols' : e.res = d
  <2>1. PICK ids : ids = vertices \cup Names \cup Roots
    OBVIOUS
  <2>2. PICK nc : nc = cached'
    OBVIOUS
  <2>3. /\ scopes' = scopes \ {d} /\ vertices' = vertices \ {d}
        /\ nc = refreshResourceEdges(named, ids, deps, dependents)
        /\ UNCHANGED <<named, deps, dependents>>
    BY <1>3, <2>1, <2>2 DEF clearDocument, PruneResource
  <2>4. /\ nc \in [Roots -> [deps: SUBSET Names, dependents: SUBSET Names]]
        /\ \A q \in Roots : nc[q] = IF q \in scopes' /\ resourceIdentity(q, named) \in ids
                                    THEN Edges(resourceIdentity(q, named), deps, dependents)
                                    ELSE cached[q]
    BY <1>1, <2>3, RefreshFacts
  <2>5. d \notin Roots /\ d \notin Names /\ NameOf \in [Roots -> Names]
    BY ConstantFacts
  <2>6. GraphTypeOK'
    BY <1>1, <2>2, <2>3, <2>4, <2>5 DEF GraphTypeOK
  <2>7. ASSUME NEW q \in named PROVE nc[q] = Edges(NameOf[q], deps, dependents)
    <3>1. q \in Roots /\ resourceIdentity(q, named) = NameOf[q] /\ NameOf[q] \in ids
      BY <1>1, <2>1, <2>5 DEF resourceIdentity
    <3>2. CASE q \in scopes'
      BY <2>4, <3>1, <3>2
    <3>3. CASE q \notin scopes'
      <4>1. nc[q] = cached[q]
        BY <2>4, <3>1, <3>3
      <4>. QED
        BY <4>1 DEF EdgesCached, Edges
    <3>. QED
      BY <3>2, <3>3
  <2>8. EdgesCached'
    BY <2>2, <2>3, <2>7 DEF EdgesCached, Edges, DependencyList, DependentList
  <2>9. GraphClosed'
    <3>1. deps \subseteq (vertices \ {d}) \X (vertices \ {d})
      BY <1>1, <2>5 DEF GraphClosed
    <3>. QED
      BY <2>3, <3>1 DEF GraphClosed
  <2>. QED
    BY <2>6, <2>8, <2>9
<1>. QED
  BY <1>2, <1>3

(* A document that is indexed gets a scope, and its context's resource too.  *)
LEMMA FinalizeGraph ==
    ASSUME IndexConstantsOK, GraphTypeOK, GraphClosed, EdgesCached,
           home \in [Docs -> UNION {Homes[x] : x \in Docs}],
           NEW d \in Docs, home[d] \in Homes[d], NEW t \in Texts, finalizeDocumentUpdate(d, t)
    PROVE  GraphTypeOK' /\ GraphClosed' /\ EdgesCached'
<1>1. home[d].res \in Docs \cup Roots
  <2>1. home[d] \in [res: {d} \cup Roots, side: Sides]
    BY ConstantFacts
  <2>. QED
    BY <2>1
<1>2. PICK us : us = {d} \cup IF t.defs = <<>> THEN {} ELSE {home[d].res}
  OBVIOUS
<1>3. us \subseteq Docs \cup Roots
  BY <1>1, <1>2
<1>4. scopes' = scopes \cup us /\ vertices' = vertices \cup us
  BY <1>2 DEF finalizeDocumentUpdate, ensureResources
<1>5. named' = named /\ deps' = deps /\ dependents' = dependents /\ cached' = cached
  BY DEF finalizeDocumentUpdate
<1>6. GraphTypeOK'
  BY <1>3, <1>4, <1>5 DEF GraphTypeOK
<1>7. EdgesCached'
  BY <1>5, EdgesStay
<1>8. GraphClosed'
  <2>1. vertices \subseteq vertices'
    BY <1>4
  <2>. QED
    BY <1>5, <2>1 DEF GraphClosed
<1>. QED
  BY <1>6, <1>7, <1>8

-----------------------------------------------------------------------------
(* The order of the resources.                                               *)

(* A list without repetition is as long as its set is large.                 *)
LEMMA ListSize ==
    ASSUME NEW S, NEW list \in Seq(S), NoRepeat(list)
    PROVE  IsFiniteSet(ToSet(list)) /\ Cardinality(ToSet(list)) = Len(list)
<1>. DEFINE Good(s) == NoRepeat(s) => /\ IsFiniteSet(ToSet(s))
                                      /\ Cardinality(ToSet(s)) = Len(s)
            P == {s \in Seq(S) : Good(s)}
<1>1. <<>> \in P
  <2>1. <<>> \in Seq(S) /\ ToSet(<<>>) = {} /\ Len(<<>>) = 0
    BY DEF ToSet
  <2>. QED
    BY <2>1, FS_EmptySet
<1>2. ASSUME NEW s \in Seq(S), NEW x \in S, s \in P PROVE Append(s, x) \in P
  <2>1. PICK t : t = Append(s, x)
    OBVIOUS
  <2>2. /\ t \in Seq(S) /\ ToSet(t) = ToSet(s) \cup {x} /\ Len(s) \in Nat /\ Len(t) = Len(s) + 1
        /\ DOMAIN s = 1 .. Len(s) /\ DOMAIN t = 1 .. Len(s) + 1 /\ t[Len(s) + 1] = x
        /\ \A i \in 1 .. Len(s) : t[i] = s[i]
    BY <2>1, AppendFacts
  <2>3. ASSUME NoRepeat(t) PROVE IsFiniteSet(ToSet(t)) /\ Cardinality(ToSet(t)) = Len(t)
    <3>1. NoRepeat(s)
      BY <2>2, <2>3 DEF NoRepeat
    <3>2. x \notin ToSet(s)
      <4>. SUFFICES ASSUME NEW i \in 1 .. Len(s), s[i] = x PROVE FALSE
        BY <2>2 DEF ToSet
      <4>1. t[i] = t[Len(s) + 1] /\ i \in DOMAIN t /\ Len(s) + 1 \in DOMAIN t /\ i # Len(s) + 1
        BY <2>2
      <4>. QED
        BY <2>3, <4>1 DEF NoRepeat
    <3>3. IsFiniteSet(ToSet(s)) /\ Cardinality(ToSet(s)) = Len(s)
      BY <1>2, <3>1
    <3>4. PICK A : A = ToSet(s)
      OBVIOUS
    <3>5. IsFiniteSet(A \cup {x}) /\ Cardinality(A \cup {x}) = Len(s) + 1
      BY <3>2, <3>3, <3>4, FS_AddElement
    <3>. QED
      BY <2>2, <3>4, <3>5
  <2>. QED
    BY <2>1, <2>2, <2>3
<1>. HIDE DEF P
<1>3. list \in P
  BY <1>1, <1>2, AppendInduction
<1>. QED
  BY <1>3 DEF P

(* What a graph is: its vertices have URIs and names, its dependencies are   *)
(* between vertices, and the dependents are the dependencies read back.      *)
GraphOK(V, D, T) ==
    /\ UriOrder \in Seq(ToSet(UriOrder)) /\ NoRepeat(UriOrder)
    /\ V \subseteq ToSet(UriOrder)
    /\ D \subseteq V \X V
    /\ \A u, v \in V : <<u, v>> \in D <=> <<v, u>> \in T

(* sortResourceURIs lists a set of URIs.                                     *)
LEMMA SortedFacts ==
    ASSUME UriOrder \in Seq(ToSet(UriOrder)), NoRepeat(UriOrder),
           NEW S, S \subseteq ToSet(UriOrder)
    PROVE  /\ sortResourceURIs(S) \in Seq(S)
           /\ ToSet(sortResourceURIs(S)) = S
           /\ NoRepeat(sortResourceURIs(S))
           /\ S # {} => sortResourceURIs(S)[1] \in S
<1>1. PICK gone : gone = ToSet(UriOrder) \ S
  OBVIOUS
<1>2. PICK r : r = sortResourceURIs(S)
  OBVIOUS
<1>3. /\ r \in Seq(ToSet(UriOrder)) /\ ToSet(r) = ToSet(UriOrder) \ gone
      /\ InOrderOf(r, UriOrder)
  BY <1>1, <1>2, WithoutKeeps DEF sortResourceURIs
<1>4. ToSet(r) = S
  BY <1>1, <1>3
<1>5. NoRepeat(r)
  BY <1>3, PartNew
<1>6. DOMAIN r = 1 .. Len(r) /\ Len(r) \in Nat /\ \A i \in DOMAIN r : r[i] \in S
  BY <1>3, <1>4 DEF ToSet
<1>7. r \in Seq(S)
  BY <1>3, <1>6
<1>8. S # {} => r[1] \in S
  <2>. SUFFICES ASSUME S # {} PROVE r[1] \in S
    OBVIOUS
  <2>1. PICK i \in DOMAIN r : TRUE
    BY <1>4 DEF ToSet
  <2>2. 1 \in DOMAIN r
    BY <1>6, <2>1
  <2>. QED
    BY <1>6, <2>2
<1>. QED
  BY <1>2, <1>4, <1>5, <1>7, <1>8

(* A vertex is ready when everything it depends on is placed: its counter,   *)
(* which falls by one for each dependent listed, has reached zero.           *)
LEMMA ReadyMeans ==
    ASSUME NEW V, NEW D, NEW T, GraphOK(V, D, T), NEW placed, placed \subseteq V, NEW v \in V \ placed
    PROVE  v \in Ready(V, placed, D, T) <=> \A w \in V : <<v, w>> \in D => w \in placed
<1>1. PICK ahead : ahead = Out(v, D)
  OBVIOUS
<1>2. PICK done : done = {u \in placed : <<u, v>> \in T}
  OBVIOUS
<1>3. /\ V \subseteq ToSet(UriOrder) /\ D \subseteq V \X V
      /\ \A u, w \in V : <<u, w>> \in D <=> <<w, u>> \in T
      /\ UriOrder \in Seq(ToSet(UriOrder)) /\ NoRepeat(UriOrder)
  BY DEF GraphOK
<1>4. \A w : w \in ahead <=> w \in V /\ <<v, w>> \in D
  BY <1>1, <1>3 DEF Out
<1>5. \A w : w \in done <=> w \in placed /\ <<v, w>> \in D
  BY <1>2, <1>3
<1>6. IsFiniteSet(ahead) /\ done \in SUBSET ahead
  <2>1. IsFiniteSet(ToSet(UriOrder))
    BY <1>3, ListSize
  <2>2. ahead \in SUBSET ToSet(UriOrder)
    BY <1>3, <1>4
  <2>. QED
    BY <1>4, <1>5, <2>1, <2>2, FS_Subset
<1>7. IsFiniteSet(done) /\ Cardinality(done) \in Nat /\ Cardinality(ahead) \in Nat
  BY <1>6, FS_Subset, FS_CardinalityType
<1>8. v \in Ready(V, placed, D, T) <=> Cardinality(ahead) - Cardinality(done) = 0
  BY <1>1, <1>2 DEF Ready, Remaining
<1>9. Cardinality(ahead) - Cardinality(done) = 0 <=> Cardinality(ahead) = Cardinality(done)
  BY <1>7
<1>10. Cardinality(ahead) = Cardinality(done) <=> ahead = done
  BY <1>6, FS_Subset
<1>11. ahead = done <=> \A w \in V : <<v, w>> \in D => w \in placed
  BY <1>4, <1>5
<1>. QED
  BY <1>8, <1>9, <1>10, <1>11

(* g[k] is what k rounds have placed.                                        *)
IsPlaced(g, n, V, D, T) ==
    g = [k \in 0 .. n |-> IF k = 0 THEN <<>> ELSE PlaceNext(g[k - 1], V, D, T)]

(* There is such a function, for any number of rounds.                       *)
LEMMA PlacedExists ==
    ASSUME NEW V, NEW D, NEW T, NEW n \in Nat
    PROVE  \E g : IsPlaced(g, n, V, D, T)
<1>. DEFINE S == {k \in Nat : \E g : IsPlaced(g, k, V, D, T)}
<1>1. 0 \in S
  <2>1. IsPlaced([k \in 0 .. 0 |-> <<>>], 0, V, D, T)
    BY DEF IsPlaced
  <2>. QED
    BY <2>1
<1>2. ASSUME NEW m \in Nat, m \in S PROVE m + 1 \in S
  <2>1. PICK g : IsPlaced(g, m, V, D, T)
    BY <1>2
  <2>. DEFINE last == PlaceNext(g[m], V, D, T)
              h == [k \in 0 .. m + 1 |-> IF k = m + 1 THEN last ELSE g[k]]
  <2>2. /\ \A k \in 0 .. m : h[k] = g[k]
        /\ h[m + 1] = last
        /\ h = [k \in 0 .. m + 1 |-> h[k]]
    OBVIOUS
  <2>. HIDE DEF h
  <2>3. ASSUME NEW k \in 0 .. m + 1
        PROVE  h[k] = IF k = 0 THEN <<>> ELSE PlaceNext(h[k - 1], V, D, T)
    <3>1. CASE k = m + 1
      <4>1. k - 1 = m /\ k # 0 /\ m \in 0 .. m
        BY <3>1
      <4>2. h[k - 1] = g[m]
        BY <2>2, <4>1
      <4>. QED
        BY <2>2, <3>1, <4>1, <4>2
    <3>2. CASE k # m + 1
      <4>1. k \in 0 .. m /\ (k # 0 => k - 1 \in 0 .. m)
        BY <3>2
      <4>2. g[k] = IF k = 0 THEN <<>> ELSE PlaceNext(g[k - 1], V, D, T)
        BY <2>1, <4>1 DEF IsPlaced
      <4>3. h[k] = g[k] /\ (k # 0 => h[k - 1] = g[k - 1])
        BY <2>2, <4>1
      <4>. QED
        BY <4>2, <4>3
    <3>. QED
      BY <3>1, <3>2
  <2>4. IsPlaced(h, m + 1, V, D, T)
    BY <2>2, <2>3 DEF IsPlaced
  <2>. QED
    BY <2>4
<1>. HIDE DEF S
<1>3. n \in S
  BY <1>1, <1>2, SetInduction
<1>. QED
  BY <1>3 DEF S

(* TopologicalSort is the placed ones and then the rest.                     *)
LEMMA SortIsPlaced ==
    ASSUME NEW V, NEW D, NEW T, Cardinality(V) \in Nat
    PROVE  \E g : /\ IsPlaced(g, Cardinality(V), V, D, T)
                  /\ TopologicalSort(V, D, T) =
                        g[Cardinality(V)] \o sortResourceURIs(V \ ToSet(g[Cardinality(V)]))
<1>. DEFINE n == Cardinality(V)
            F(f) == [k \in 0 .. n |-> IF k = 0 THEN <<>> ELSE PlaceNext(f[k - 1], V, D, T)]
            f == CHOOSE h : h = F(h)
<1>1. TopologicalSort(V, D, T) = f[n] \o sortResourceURIs(V \ ToSet(f[n]))
  BY DEF TopologicalSort
<1>2. \E g : g = F(g)
  <2>. HIDE DEF n
  <2>1. PICK g : IsPlaced(g, n, V, D, T)
    BY PlacedExists DEF n
  <2>2. g = F(g)
    BY <2>1 DEF IsPlaced
  <2>. HIDE DEF F
  <2>. QED
    BY <2>2
<1>3. f = F(f)
  <2>. HIDE DEF F
  <2>. QED
    BY <1>2
<1>. HIDE DEF f
<1>4. IsPlaced(f, n, V, D, T)
  BY <1>3 DEF IsPlaced
<1>. QED
  BY <1>1, <1>4

(* A list of vertices, each after all it depends on.                         *)
PlacedOK(list, V, D) ==
    /\ list \in Seq(V) /\ NoRepeat(list)
    /\ \A i \in DOMAIN list : \A w \in V :
          <<list[i], w>> \in D => \E j \in 1 .. (i - 1) : list[j] = w

(* One more round places one more vertex, or there is none to place.         *)
LEMMA PlaceNextKeeps ==
    ASSUME NEW V, NEW D, NEW T, GraphOK(V, D, T), NEW list, PlacedOK(list, V, D)
    PROVE  /\ PlacedOK(PlaceNext(list, V, D, T), V, D)
           /\ \/ Len(PlaceNext(list, V, D, T)) = Len(list) + 1
              \/ PlaceNext(list, V, D, T) = list /\ Ready(V, ToSet(list), D, T) = {}
<1>1. PICK ready : ready = Ready(V, ToSet(list), D, T)
  OBVIOUS
<1>2. CASE ready = {}
  BY <1>1, <1>2 DEF PlaceNext
<1>3. CASE ready # {}
  <2>1. ready \subseteq V \ ToSet(list)
    BY <1>1 DEF Ready
  <2>2. /\ UriOrder \in Seq(ToSet(UriOrder)) /\ NoRepeat(UriOrder) /\ V \subseteq ToSet(UriOrder)
        /\ list \in Seq(V) /\ NoRepeat(list) /\ D \subseteq V \X V
    BY DEF GraphOK, PlacedOK
  <2>3. PICK v : v = sortResourceURIs(ready)[1]
    OBVIOUS
  <2>4. v \in ready
    <3>1. ready \subseteq ToSet(UriOrder)
      BY <2>1, <2>2
    <3>. QED
      BY <1>3, <2>2, <2>3, <3>1, SortedFacts
  <2>5. v \in V /\ v \notin ToSet(list) /\ ToSet(list) \subseteq V
    <3>1. ToSet(list) \subseteq V
      BY <2>2 DEF ToSet
    <3>. QED
      BY <2>1, <2>4, <3>1
  <2>6. \A w \in V : <<v, w>> \in D => w \in ToSet(list)
    BY <1>1, <2>4, <2>5, ReadyMeans
  <2>7. PICK next : next = Append(list, v)
    OBVIOUS
  <2>8. PlaceNext(list, V, D, T) = next
    BY <1>1, <1>3, <2>3, <2>7 DEF PlaceNext
  <2>9. /\ next \in Seq(V) /\ Len(list) \in Nat /\ Len(next) = Len(list) + 1
        /\ DOMAIN list = 1 .. Len(list) /\ DOMAIN next = 1 .. Len(list) + 1
        /\ next[Len(list) + 1] = v
        /\ \A i \in 1 .. Len(list) : next[i] = list[i]
    BY <2>2, <2>5, <2>7, AppendFacts
  <2>10. NoRepeat(next)
    <3>. SUFFICES ASSUME NEW i \in DOMAIN next, NEW j \in DOMAIN next, next[i] = next[j], i # j
                  PROVE  FALSE
      BY DEF NoRepeat
    <3>1. \A k \in 1 .. Len(list) : next[k] # v
      BY <2>5, <2>9 DEF ToSet
    <3>2. i \in 1 .. Len(list) /\ j \in 1 .. Len(list)
      BY <2>9, <3>1
    <3>. QED
      BY <2>2, <2>9, <3>2 DEF NoRepeat
  <2>11. ASSUME NEW i \in DOMAIN next, NEW w \in V, <<next[i], w>> \in D
         PROVE  \E j \in 1 .. (i - 1) : next[j] = w
    <3>1. CASE i = Len(list) + 1
      <4>1. PICK j \in 1 .. Len(list) : list[j] = w
        <5>1. w \in ToSet(list)
          BY <2>6, <2>9, <2>11, <3>1
        <5>. QED
          BY <2>9, <5>1 DEF ToSet
      <4>2. i - 1 = Len(list)
        BY <2>9, <3>1
      <4>. QED
        BY <2>9, <4>1, <4>2
    <3>2. CASE i # Len(list) + 1
      <4>1. i \in 1 .. Len(list) /\ i \in DOMAIN list /\ next[i] = list[i]
        BY <2>9, <3>2
      <4>2. PICK j \in 1 .. (i - 1) : list[j] = w
        BY <2>11, <4>1 DEF PlacedOK
      <4>3. j \in 1 .. Len(list)
        BY <2>9, <4>1
      <4>. QED
        BY <2>9, <4>2, <4>3
    <3>. QED
      BY <3>1, <3>2
  <2>12. PlacedOK(next, V, D)
    BY <2>9, <2>10, <2>11 DEF PlacedOK
  <2>. QED
    BY <2>8, <2>9, <2>12
<1>. QED
  BY <1>2, <1>3

(* The rounds end with a list to which none can be added.                    *)
IsStuck(list, V, D, T) == PlacedOK(list, V, D) /\ Ready(V, ToSet(list), D, T) = {}
AllPlaced(V, D, T) ==
    \E list : /\ IsStuck(list, V, D, T)
              /\ TopologicalSort(V, D, T) = list \o sortResourceURIs(V \ ToSet(list))

(* Every vertex is placed, or none is ready any more.                        *)
LEMMA AllRounds ==
    ASSUME NEW V, NEW D, NEW T, GraphOK(V, D, T)
    PROVE  AllPlaced(V, D, T)
<1>1. IsFiniteSet(V) /\ Cardinality(V) \in Nat
  <2>1. UriOrder \in Seq(ToSet(UriOrder)) /\ NoRepeat(UriOrder) /\ V \in SUBSET ToSet(UriOrder)
    BY DEF GraphOK
  <2>2. IsFiniteSet(ToSet(UriOrder))
    BY <2>1, ListSize
  <2>. QED
    BY <2>1, <2>2, FS_Subset, FS_CardinalityType
<1>2. PICK n \in Nat : n = Cardinality(V)
  BY <1>1
<1>3. PICK g : /\ IsPlaced(g, n, V, D, T)
               /\ TopologicalSort(V, D, T) = g[n] \o sortResourceURIs(V \ ToSet(g[n]))
  BY <1>1, <1>2, SortIsPlaced
<1>4. g[0] = <<>> /\ \A k \in 1 .. n : g[k] = PlaceNext(g[k - 1], V, D, T)
  BY <1>3 DEF IsPlaced
<1>. DEFINE Good(k) == /\ PlacedOK(g[k], V, D)
                       /\ Len(g[k]) = k \/ Ready(V, ToSet(g[k]), D, T) = {}
            S == {k \in Nat : k <= n => Good(k)}
<1>5. 0 \in S
  <2>1. PlacedOK(<<>>, V, D) /\ Len(<<>>) = 0
    BY DEF PlacedOK, NoRepeat
  <2>. QED
    BY <1>4, <2>1
<1>6. ASSUME NEW k \in Nat, k \in S PROVE k + 1 \in S
  <2>. SUFFICES ASSUME k + 1 <= n PROVE Good(k + 1)
    OBVIOUS
  <2>1. k <= n /\ k + 1 \in 1 .. n /\ (k + 1) - 1 = k
    OBVIOUS
  <2>2. PICK list : list = g[k]
    OBVIOUS
  <2>3. PlacedOK(list, V, D) /\ (Len(list) = k \/ Ready(V, ToSet(list), D, T) = {})
    BY <1>6, <2>1, <2>2
  <2>4. PICK next : next = PlaceNext(list, V, D, T)
    OBVIOUS
  <2>5. g[k + 1] = next
    BY <1>4, <2>1, <2>2, <2>4
  <2>6. /\ PlacedOK(next, V, D)
        /\ Len(next) = Len(list) + 1 \/ (next = list /\ Ready(V, ToSet(list), D, T) = {})
    BY <2>3, <2>4, PlaceNextKeeps
  <2>7. Len(next) = k + 1 \/ Ready(V, ToSet(next), D, T) = {}
    <3>1. CASE Ready(V, ToSet(list), D, T) = {}
      <4>1. next = list
        BY <2>4, <3>1 DEF PlaceNext
      <4>. QED
        BY <3>1, <4>1
    <3>2. CASE Ready(V, ToSet(list), D, T) # {}
      BY <2>3, <2>6, <3>2
    <3>. QED
      BY <3>1, <3>2
  <2>. QED
    BY <2>5, <2>6, <2>7
<1>7. n \in S
  <2>. HIDE DEF S
  <2>. QED
    BY <1>5, <1>6, SetInduction
<1>8. PICK list : list = g[n]
  OBVIOUS
<1>9. PlacedOK(list, V, D) /\ (Len(list) = n \/ Ready(V, ToSet(list), D, T) = {})
  BY <1>7, <1>8
<1>10. Ready(V, ToSet(list), D, T) = {}
  <2>1. CASE Len(list) = n
    <3>1. list \in Seq(V) /\ NoRepeat(list)
      BY <1>9 DEF PlacedOK
    <3>2. Cardinality(ToSet(list)) = Cardinality(V)
      BY <1>2, <2>1, <3>1, ListSize
    <3>3. ToSet(list) \in SUBSET V
      BY <3>1 DEF ToSet
    <3>4. ToSet(list) = V
      BY <1>1, <3>2, <3>3, FS_Subset
    <3>. QED
      BY <3>4 DEF Ready
  <2>. QED
    BY <1>9, <2>1
<1>11. TopologicalSort(V, D, T) = list \o sortResourceURIs(V \ ToSet(list))
  BY <1>3, <1>8
<1>. HIDE DEF Good, S
<1>. QED
  BY <1>9, <1>10, <1>11 DEF AllPlaced, IsStuck

(* What is left when none is ready waits on a cycle, and nothing placed      *)
(* does: of those on a way round, none could be the first to be placed.      *)
LEMMA LeftIsCyclic ==
    ASSUME NEW V, NEW D, NEW T, GraphOK(V, D, T), NEW list, PlacedOK(list, V, D),
           Ready(V, ToSet(list), D, T) = {}
    PROVE  V \ ToSet(list) = Cyclic(V, D)
<1>. DEFINE left == V \ ToSet(list)
<1>1. /\ list \in Seq(V) /\ ToSet(list) \subseteq V /\ D \subseteq V \X V
      /\ DOMAIN list = 1 .. Len(list) /\ Len(list) \in Nat
  BY DEF PlacedOK, GraphOK, ToSet
<1>2. ASSUME NEW v \in left PROVE \E w \in left : <<v, w>> \in D
  <2>1. v \in V \ ToSet(list) /\ v \notin Ready(V, ToSet(list), D, T)
    OBVIOUS
  <2>2. \E w \in V : <<v, w>> \in D /\ w \notin ToSet(list)
    BY <1>1, <2>1, ReadyMeans
  <2>. QED
    BY <2>2
<1>3. left \subseteq Cyclic(V, D)
  <2>1. left \in SUBSET Depending(V, D)
    BY <1>2 DEF Depending
  <2>. HIDE DEF left
  <2>. QED
    BY <1>2, <2>1 DEF Cyclic
<1>4. Cyclic(V, D) \subseteq left
  <2>. SUFFICES ASSUME NEW R \in SUBSET Depending(V, D),
                       \A v \in R : \E w \in R : <<v, w>> \in D,
                       NEW x \in R, x \in ToSet(list)
                PROVE  FALSE
    <3>1. Depending(V, D) \subseteq V
      BY DEF Depending
    <3>. QED
      BY <3>1 DEF Cyclic
  <2>. DEFINE at == {i \in 1 .. Len(list) : list[i] \in R}
  <2>1. at # {} /\ at \subseteq Nat
    BY <1>1 DEF ToSet
  <2>2. PICK i : i \in at /\ \A j \in at : i <= j
    BY <2>1, LeastOf
  <2>3. PICK w \in R : <<list[i], w>> \in D
    BY <2>2
  <2>4. w \in V
    BY DEF Depending
  <2>5. PICK j \in 1 .. (i - 1) : list[j] = w
    BY <1>1, <2>2, <2>3, <2>4 DEF PlacedOK
  <2>6. j \in at /\ j < i
    BY <1>1, <2>2, <2>5
  <2>. QED
    BY <2>2, <2>6
<1>. QED
  BY <1>3, <1>4

(* TopologicalSort gives a topological order, of any graph.                  *)
LEMMA SortIsTopological ==
    ASSUME NEW V, NEW D, NEW T, GraphOK(V, D, T)
    PROVE  IsTopological(TopologicalSort(V, D, T), V, D)
<1>. AllPlaced(V, D, T)
  BY AllRounds
<1>1. PICK list : /\ PlacedOK(list, V, D)
                  /\ Ready(V, ToSet(list), D, T) = {}
                  /\ TopologicalSort(V, D, T) = list \o sortResourceURIs(V \ ToSet(list))
  BY DEF AllPlaced, IsStuck
<1>2. PICK waiting : waiting = Cyclic(V, D)
  OBVIOUS
<1>3. V \ ToSet(list) = waiting
  BY <1>1, <1>2, LeftIsCyclic
<1>4. PICK rest : rest = sortResourceURIs(waiting)
  OBVIOUS
<1>5. /\ list \in Seq(V) /\ NoRepeat(list) /\ ToSet(list) \subseteq V
      /\ Len(list) \in Nat /\ DOMAIN list = 1 .. Len(list)
  BY <1>1 DEF PlacedOK, ToSet
<1>6. /\ rest \in Seq(V) /\ NoRepeat(rest) /\ ToSet(rest) = waiting
      /\ Len(rest) \in Nat /\ DOMAIN rest = 1 .. Len(rest)
  <2>1. /\ UriOrder \in Seq(ToSet(UriOrder)) /\ NoRepeat(UriOrder)
        /\ waiting \subseteq ToSet(UriOrder) /\ waiting \subseteq V
    BY <1>3 DEF GraphOK
  <2>2. rest \in Seq(waiting) /\ ToSet(rest) = waiting /\ NoRepeat(rest)
    BY <1>4, <2>1, SortedFacts
  <2>3. rest \in Seq(V)
    BY <2>1, <2>2
  <2>. QED
    BY <2>2, <2>3
<1>. DEFINE n == Len(list)
<1>7. PICK all : all = list \o rest
  OBVIOUS
<1>8. /\ all \in Seq(V) /\ Len(all) = n + Len(rest) /\ DOMAIN all = 1 .. (n + Len(rest))
      /\ \A i \in 1 .. n : all[i] = list[i]
      /\ \A i \in DOMAIN all : i > n => all[i] = rest[i - n] /\ i - n \in DOMAIN rest
  BY <1>5, <1>6, <1>7
<1>9. TopologicalSort(V, D, T) = all
  BY <1>1, <1>3, <1>4, <1>7
<1>10. /\ \A i \in 1 .. n : all[i] \in ToSet(list) /\ all[i] \notin waiting
       /\ \A i \in DOMAIN all : i > n => all[i] \in waiting
       /\ \A i \in DOMAIN all : i \in 1 .. n \/ i > n
  <2>1. \A i \in 1 .. n : list[i] \in ToSet(list)
    BY <1>5 DEF ToSet
  <2>2. \A i \in DOMAIN rest : rest[i] \in waiting
    BY <1>6 DEF ToSet
  <2>3. \A i \in DOMAIN all : i \in 1 .. n \/ i > n
    BY <1>5, <1>6, <1>8
  <2>. QED
    BY <1>3, <1>8, <2>1, <2>2, <2>3
<1>11. ToSet(all) = V
  <2>1. ToSet(all) \subseteq V
    BY <1>8 DEF ToSet
  <2>2. ASSUME NEW v \in V PROVE v \in ToSet(all)
    <3>1. CASE v \in ToSet(list)
      <4>1. PICK i \in 1 .. n : list[i] = v
        BY <1>5, <3>1 DEF ToSet
      <4>2. i \in DOMAIN all /\ all[i] = v
        BY <1>5, <1>6, <1>8, <4>1
      <4>. QED
        BY <4>2 DEF ToSet
    <3>2. CASE v \notin ToSet(list)
      <4>1. v \in ToSet(rest)
        BY <1>3, <1>6, <3>2
      <4>2. PICK i \in 1 .. Len(rest) : rest[i] = v
        BY <1>6, <4>1 DEF ToSet
      <4>3. n + i \in DOMAIN all /\ n + i > n /\ (n + i) - n = i
        BY <1>5, <1>6, <1>8
      <4>4. all[n + i] = v
        BY <1>8, <4>2, <4>3
      <4>. QED
        BY <4>3, <4>4 DEF ToSet
    <3>. QED
      BY <3>1, <3>2
  <2>. QED
    BY <2>1, <2>2
<1>12. ASSUME NEW i \in DOMAIN all, NEW j \in DOMAIN all, all[i] = all[j] PROVE i = j
  <2>1. CASE i \in 1 .. n /\ j \in 1 .. n
    BY <1>5, <1>8, <1>12, <2>1 DEF NoRepeat
  <2>2. CASE i > n /\ j > n
    <3>1. rest[i - n] = rest[j - n] /\ i - n \in DOMAIN rest /\ j - n \in DOMAIN rest
      BY <1>8, <1>12, <2>2
    <3>2. i - n = j - n
      BY <1>6, <3>1 DEF NoRepeat
    <3>. QED
      BY <1>5, <1>8, <3>2
  <2>3. (i \in 1 .. n /\ j > n) \/ (i > n /\ j \in 1 .. n) => FALSE
    BY <1>10, <1>12
  <2>. QED
    BY <1>10, <2>1, <2>2, <2>3
<1>13. ASSUME NEW i \in DOMAIN all, all[i] \notin waiting, NEW w \in V, <<all[i], w>> \in D
       PROVE  \E j \in 1 .. (i - 1) : all[j] = w
  <2>1. i \in 1 .. n
    BY <1>10, <1>13
  <2>2. PICK j \in 1 .. (i - 1) : list[j] = w
    BY <1>1, <1>5, <1>8, <1>13, <2>1 DEF PlacedOK
  <2>3. j \in 1 .. n
    BY <1>5, <2>1
  <2>. QED
    BY <1>8, <2>2, <2>3
<1>14. ASSUME NEW i \in DOMAIN all, NEW j \in DOMAIN all, all[i] \notin waiting, all[j] \in waiting
       PROVE  i < j
  <2>1. i \in 1 .. n /\ j > n
    BY <1>10, <1>14
  <2>2. i \in Nat /\ i <= n /\ j \in Nat /\ n \in Nat
    BY <1>5, <1>8, <2>1
  <2>. QED
    BY <2>1, <2>2
<1>. QED
  BY <1>2, <1>9, <1>11, <1>12, <1>13, <1>14 DEF IsTopological

-----------------------------------------------------------------------------
(* The cycles of the dependencies.                                           *)

(* A search in progress: s is its stack, l the lists left to look at, seen   *)
(* the vertices visited, B the edges that closed a cycle.  R are the         *)
(* vertices it has started from and F the edges it has followed.             *)
Chained(s, D) == \A k \in 1 .. Len(s) - 1 : <<s[k], s[k + 1]>> \in D
WalkOK(s, seen, V, D) ==
    /\ s \in Seq(V) /\ NoRepeat(s) /\ Chained(s, D)
    /\ seen \subseteq V /\ ToSet(s) \cap seen = {}
ListsOK(s, l, V) ==
    /\ l \in Seq(Seq(V)) /\ Len(l) = Len(s) + 1
    /\ \A k \in 1 .. Len(l) : NoRepeat(l[k])

(* What is followed are the edges no longer on a list, of the vertices on    *)
(* the stack, and all edges of those visited.                                *)
LookedAt(s, l, seen, R, F, V, D) ==
    /\ R = V \ ToSet(l[1])
    /\ F \subseteq D
    /\ \A v \in seen : \A w \in V : <<v, w>> \in D => <<v, w>> \in F
    /\ \A k \in 1 .. Len(s) : \A w \in V :
          w \in ToSet(l[k + 1]) <=> <<s[k], w>> \in D /\ <<s[k], w>> \notin F
    /\ \A v, w \in V : <<v, w>> \in F => v \in seen \/ v \in ToSet(s)

(* An edge followed leads to a vertex visited, unless it closed a cycle or   *)
(* is on the way up the stack.                                               *)
OnTheWay(s, v, w) == \E k \in 1 .. Len(s) - 1 : v = s[k] /\ w = s[k + 1]
Settled(s, seen, B, R, F, V) ==
    /\ \A v, w \in V : <<v, w>> \in F => <<v, w>> \in B \/ w \in seen \/ OnTheWay(s, v, w)
    /\ \A w \in R : w \in seen \/ (s # <<>> /\ w = s[1])

(* No way round in the edges E through the vertices of seen.                 *)
NoWayRound(seen, E) ==
    \A S \in SUBSET seen : (\A v \in S : \E w \in S : <<v, w>> \in E) => S = {}

(* A stack and its lists, the last of each apart.                            *)
LEMMA TopFacts ==
    ASSUME NEW S, NEW s \in Seq(S), s # <<>>
    PROVE  /\ Front(s) \in Seq(S) /\ Last(s) \in S /\ Last(s) = s[Len(s)]
           /\ Len(s) \in Nat /\ Len(s) > 0 /\ DOMAIN s = 1 .. Len(s)
           /\ Len(Front(s)) = Len(s) - 1
           /\ \A k \in 1 .. Len(s) - 1 : Front(s)[k] = s[k]
           /\ ToSet(s) = ToSet(Front(s)) \cup {Last(s)}
           /\ NoRepeat(s) => NoRepeat(Front(s)) /\ Last(s) \notin ToSet(Front(s))
<1>1. PICK f : f = Front(s)
  OBVIOUS
<1>2. PICK n \in Nat : n + 1 = Len(s)
  OBVIOUS
<1>3. f = SubSeq(s, 1, n)
  BY <1>1, <1>2 DEF Front
<1>4. /\ f \in Seq(S) /\ Len(f) = n /\ DOMAIN f = 1 .. n /\ DOMAIN s = 1 .. n + 1
      /\ \A k \in 1 .. n : f[k] = s[k]
  BY <1>2, <1>3
<1>5. Last(s) = s[n + 1] /\ s[n + 1] \in S
  BY <1>2 DEF Last
<1>6. ToSet(s) = ToSet(f) \cup {s[n + 1]}
  BY <1>4 DEF ToSet
<1>7. NoRepeat(s) => NoRepeat(f) /\ s[n + 1] \notin ToSet(f)
  BY <1>4 DEF NoRepeat, ToSet
<1>. QED
  BY <1>1, <1>2, <1>4, <1>5, <1>6, <1>7

(* The first of a list and the others.                                       *)
LEMMA HeadFacts ==
    ASSUME NEW S, NEW s \in Seq(S), s # <<>>, NoRepeat(s)
    PROVE  /\ Tail(s) \in Seq(S) /\ Head(s) \in S /\ NoRepeat(Tail(s))
           /\ ToSet(s) = ToSet(Tail(s)) \cup {Head(s)} /\ Head(s) \notin ToSet(Tail(s))
<1>1. PICK t : t = Tail(s)
  OBVIOUS
<1>2. PICK n \in Nat : n + 1 = Len(s)
  OBVIOUS
<1>3. /\ t \in Seq(S) /\ Len(t) = n /\ DOMAIN t = 1 .. n /\ DOMAIN s = 1 .. n + 1
      /\ \A k \in 1 .. n : t[k] = s[k + 1]
  BY <1>1, <1>2
<1>4. Head(s) = s[1] /\ s[1] \in S
  OBVIOUS
<1>5. ToSet(s) = ToSet(t) \cup {s[1]}
  <2>1. ASSUME NEW k \in 1 .. n + 1 PROVE s[k] \in ToSet(t) \cup {s[1]}
    <3>1. CASE k = 1
      BY <3>1
    <3>2. CASE k # 1
      <4>1. k - 1 \in 1 .. n /\ t[k - 1] = s[k]
        BY <1>3, <3>2
      <4>. QED
        BY <1>3, <4>1 DEF ToSet
    <3>. QED
      BY <3>1, <3>2
  <2>2. \A k \in 1 .. n : t[k] \in ToSet(s)
    BY <1>3 DEF ToSet
  <2>3. s[1] \in ToSet(s)
    BY <1>3 DEF ToSet
  <2>. QED
    BY <1>3, <2>1, <2>2, <2>3 DEF ToSet
<1>6. NoRepeat(t)
  <2>. SUFFICES ASSUME NEW i \in 1 .. n, NEW j \in 1 .. n, t[i] = t[j] PROVE i = j
    BY <1>3 DEF NoRepeat
  <2>1. s[i + 1] = s[j + 1] /\ i + 1 \in DOMAIN s /\ j + 1 \in DOMAIN s
    BY <1>3
  <2>2. i + 1 = j + 1
    BY <2>1 DEF NoRepeat
  <2>. QED
    BY <2>2
<1>7. s[1] \notin ToSet(t)
  BY <1>3 DEF NoRepeat, ToSet
<1>. QED
  BY <1>1, <1>3, <1>4, <1>5, <1>6, <1>7

(* Taking the next vertex off the last list: it has been started from, or    *)
(* the edge to it followed.                                                  *)
LookStep(s, l, w, R, F, R2, F2, V, D) ==
    /\ w \in V
    /\ s = <<>> => w \in V \ R /\ R2 = R \cup {w} /\ F2 = F
    /\ s # <<>> => /\ <<Last(s), w>> \in D \ F
                   /\ R2 = R /\ F2 = F \cup {<<Last(s), w>>}

(* The next name of the innermost list is looked at.                         *)
LEMMA LookNext ==
    ASSUME NEW V, NEW D, NEW s, NEW l, NEW seen, NEW R, NEW F,
           D \subseteq V \X V, WalkOK(s, seen, V, D), ListsOK(s, l, V), LookedAt(s, l, seen, R, F, V, D),
           Last(l) # <<>>,
           NEW l2, l2 = Append(Front(l), Tail(Last(l))),
           NEW w, w = Head(Last(l)),
           NEW R2, R2 = (IF s = <<>> THEN R \cup {w} ELSE R),
           NEW F2, F2 = (IF s = <<>> THEN F ELSE F \cup {<<Last(s), w>>})
    PROVE  /\ LookStep(s, l, w, R, F, R2, F2, V, D)
           /\ ListsOK(s, l2, V) /\ LookedAt(s, l2, seen, R2, F2, V, D)
<1>1. PICK n \in Nat : n = Len(s)
  BY DEF WalkOK
<1>2. /\ s \in Seq(V) /\ NoRepeat(s) /\ DOMAIN s = 1 .. n /\ (s = <<>> <=> n = 0)
      /\ seen \subseteq V /\ ToSet(s) \cap seen = {} /\ \A k \in 1 .. n : s[k] \in V
  BY <1>1 DEF WalkOK
<1>3. /\ l \in Seq(Seq(V)) /\ Len(l) = n + 1 /\ l # <<>> /\ DOMAIN l = 1 .. n + 1
      /\ \A k \in 1 .. n + 1 : NoRepeat(l[k]) /\ l[k] \in Seq(V)
  BY <1>1 DEF ListsOK
<1>4. PICK top : top = l[n + 1]
  OBVIOUS
<1>5. /\ Last(l) = top /\ top \in Seq(V) /\ NoRepeat(top) /\ top # <<>> /\ w = Head(top)
  BY <1>3, <1>4 DEF Last
<1>6. PICK rest : rest = Tail(top)
  OBVIOUS
<1>7. /\ rest \in Seq(V) /\ w \in V /\ NoRepeat(rest)
      /\ ToSet(top) = ToSet(rest) \cup {w} /\ w \notin ToSet(rest)
  BY <1>5, <1>6, HeadFacts
<1>8. /\ l2 \in Seq(Seq(V)) /\ Len(l2) = n + 1 /\ l2[n + 1] = rest
      /\ \A k \in 1 .. n : l2[k] = l[k]
  <2>1. PICK f : f = Front(l)
    OBVIOUS
  <2>2. f \in Seq(Seq(V)) /\ Len(f) = n /\ \A k \in 1 .. n : f[k] = l[k]
    <3>1. /\ f \in Seq(Seq(V)) /\ Len(f) = Len(l) - 1
          /\ \A k \in 1 .. Len(l) - 1 : f[k] = l[k]
      BY <1>3, <2>1, TopFacts
    <3>2. Len(l) - 1 = n
      BY <1>3
    <3>. QED
      BY <3>1, <3>2
  <2>3. l2 = Append(f, rest)
    BY <1>5, <1>6, <2>1
  <2>4. /\ l2 \in Seq(Seq(V)) /\ Len(l2) = Len(f) + 1 /\ l2[Len(f) + 1] = rest
        /\ \A k \in 1 .. Len(f) : l2[k] = f[k]
    <3>1. PICK rows : rows = Seq(V)
      OBVIOUS
    <3>2. f \in Seq(rows) /\ rest \in rows
      BY <1>7, <2>2, <3>1
    <3>3. PICK m : m = Append(f, rest)
      OBVIOUS
    <3>4. /\ m \in Seq(rows) /\ Len(m) = Len(f) + 1 /\ m[Len(f) + 1] = rest
          /\ \A k \in 1 .. Len(f) : m[k] = f[k]
      BY <3>2, <3>3, AppendFacts
    <3>. QED
      BY <2>3, <3>1, <3>3, <3>4
  <2>. QED
    BY <2>2, <2>4
<1>9. ListsOK(s, l2, V)
  <2>1. ASSUME NEW k \in 1 .. n + 1 PROVE NoRepeat(l2[k])
    <3>1. CASE k = n + 1
      BY <1>7, <1>8, <3>1
    <3>2. CASE k # n + 1
      BY <1>3, <1>8, <3>2
    <3>. QED
      BY <3>1, <3>2
  <2>. QED
    BY <1>1, <1>8, <2>1 DEF ListsOK
<1>10. /\ R = V \ ToSet(l[1]) /\ F \subseteq D
       /\ \A v \in seen : \A x \in V : <<v, x>> \in D => <<v, x>> \in F
       /\ \A k \in 1 .. n : \A x \in V :
             x \in ToSet(l[k + 1]) <=> <<s[k], x>> \in D /\ <<s[k], x>> \notin F
       /\ \A v, x \in V : <<v, x>> \in F => v \in seen \/ v \in ToSet(s)
  BY <1>1 DEF LookedAt
<1>11. CASE n = 0
  <2>1. s = <<>> /\ R2 = R \cup {w} /\ F2 = F /\ l[1] = top /\ l2[1] = rest
    BY <1>2, <1>4, <1>8, <1>11
  <2>2. w \in V \ R /\ R2 = V \ ToSet(l2[1])
    <3>1. R = V \ ToSet(top)
      BY <1>10, <2>1
    <3>. QED
      BY <1>7, <2>1, <3>1
  <2>3. LookStep(s, l, w, R, F, R2, F2, V, D)
    BY <2>1, <2>2 DEF LookStep
  <2>4. LookedAt(s, l2, seen, R2, F2, V, D)
    BY <1>1, <1>10, <1>11, <2>1, <2>2 DEF LookedAt
  <2>. QED
    BY <1>9, <2>3, <2>4
<1>12. CASE n # 0
  <2>1. /\ s # <<>> /\ n \in 1 .. n /\ R2 = R /\ l2[1] = l[1] /\ Last(s) = s[n] /\ s[n] \in V
        /\ s[n] \in ToSet(s)
    BY <1>1, <1>2, <1>8, <1>12 DEF Last, ToSet
  <2>2. PICK v : v = s[n]
    OBVIOUS
  <2>3. F2 = F \cup {<<v, w>>} /\ <<v, w>> \in D \ F
    BY <1>4, <1>7, <1>10, <2>1, <2>2
  <2>4. LookStep(s, l, w, R, F, R2, F2, V, D)
    BY <1>7, <2>1, <2>2, <2>3 DEF LookStep
  <2>5. \A k \in 1 .. n : \A x \in V :
           x \in ToSet(l2[k + 1]) <=> <<s[k], x>> \in D /\ <<s[k], x>> \notin F2
    <3>. SUFFICES ASSUME NEW k \in 1 .. n, NEW x \in V
                  PROVE  x \in ToSet(l2[k + 1]) <=> <<s[k], x>> \in D /\ <<s[k], x>> \notin F2
      OBVIOUS
    <3>0. x \in ToSet(l[k + 1]) <=> <<s[k], x>> \in D /\ <<s[k], x>> \notin F
      BY <1>10
    <3>1. CASE k = n
      <4>1. l2[k + 1] = rest /\ l[k + 1] = top /\ s[k] = v
        BY <1>4, <1>8, <2>2, <3>1
      <4>2. x \in ToSet(rest) <=> x \in ToSet(top) /\ x # w
        BY <1>7
      <4>3. x \in ToSet(top) <=> <<v, x>> \in D /\ <<v, x>> \notin F
        BY <3>0, <4>1
      <4>4. <<v, x>> \in F2 <=> <<v, x>> \in F \/ x = w
        BY <2>3
      <4>. QED
        BY <4>1, <4>2, <4>3, <4>4
    <3>2. CASE k # n
      <4>1. k + 1 \in 1 .. n /\ l2[k + 1] = l[k + 1]
        BY <1>8, <3>2
      <4>2. s[k] # v
        BY <1>2, <2>1, <2>2, <3>2 DEF NoRepeat
      <4>. QED
        BY <2>3, <3>0, <4>1, <4>2
    <3>. QED
      BY <3>1, <3>2
  <2>6. LookedAt(s, l2, seen, R2, F2, V, D)
    <3>1. R2 = V \ ToSet(l2[1]) /\ F2 \subseteq D
      BY <1>10, <2>1, <2>3
    <3>2. \A u \in seen : \A x \in V : <<u, x>> \in D => <<u, x>> \in F2
      BY <1>10, <2>3
    <3>3. \A u, x \in V : <<u, x>> \in F2 => u \in seen \/ u \in ToSet(s)
      BY <1>10, <2>1, <2>2, <2>3
    <3>. QED
      BY <1>1, <2>5, <3>1, <3>2, <3>3 DEF LookedAt
  <2>. QED
    BY <1>9, <2>4, <2>6
<1>. QED
  BY <1>11, <1>12

(* A call: the next vertex goes on the stack with the list of its own.       *)
LEMMA CallKeeps ==
    ASSUME NEW V, NEW D, NEW s, NEW l, NEW seen, NEW R, NEW F,
           UriOrder \in Seq(ToSet(UriOrder)), NoRepeat(UriOrder), V \subseteq ToSet(UriOrder),
           D \subseteq V \X V, WalkOK(s, seen, V, D), ListsOK(s, l, V), LookedAt(s, l, seen, R, F, V, D),
           NEW w \in V, w \notin seen, w \notin ToSet(s), s # <<>> => <<Last(s), w>> \in D,
           NEW s2, s2 = Append(s, w),
           NEW l2, l2 = Append(l, sortResourceURIs(Out(w, D)))
    PROVE  WalkOK(s2, seen, V, D) /\ ListsOK(s2, l2, V) /\ LookedAt(s2, l2, seen, R, F, V, D)
<1>1. PICK n \in Nat : n = Len(s)
  BY DEF WalkOK
<1>2. /\ s \in Seq(V) /\ NoRepeat(s) /\ DOMAIN s = 1 .. n /\ Chained(s, D)
      /\ seen \subseteq V /\ ToSet(s) \cap seen = {} /\ \A k \in 1 .. n : s[k] \in V
  BY <1>1 DEF WalkOK
<1>3. /\ l \in Seq(Seq(V)) /\ Len(l) = n + 1 /\ DOMAIN l = 1 .. n + 1
      /\ \A k \in 1 .. n + 1 : NoRepeat(l[k])
  BY <1>1 DEF ListsOK
<1>4. /\ s2 \in Seq(V) /\ ToSet(s2) = ToSet(s) \cup {w} /\ Len(s2) = n + 1
      /\ DOMAIN s2 = 1 .. n + 1 /\ s2[n + 1] = w /\ \A k \in 1 .. n : s2[k] = s[k]
  BY <1>1, <1>2, AppendFacts
<1>5. PICK list : list = sortResourceURIs(Out(w, D))
  OBVIOUS
<1>6. list \in Seq(V) /\ NoRepeat(list) /\ \A x : x \in ToSet(list) <=> <<w, x>> \in D
  <2>1. PICK next : next = Out(w, D)
    OBVIOUS
  <2>2. next \subseteq V /\ next \subseteq ToSet(UriOrder) /\ \A x : x \in next <=> <<w, x>> \in D
    BY <2>1 DEF Out
  <2>3. list \in Seq(next) /\ ToSet(list) = next /\ NoRepeat(list)
    BY <1>5, <2>1, <2>2, SortedFacts
  <2>4. list \in Seq(V)
    BY <2>2, <2>3
  <2>. QED
    BY <2>2, <2>3, <2>4
<1>7. /\ l2 \in Seq(Seq(V)) /\ Len(l2) = n + 2 /\ l2[n + 2] = list
      /\ \A k \in 1 .. n + 1 : l2[k] = l[k]
  <2>1. PICK rows : rows = Seq(V)
    OBVIOUS
  <2>2. l \in Seq(rows) /\ list \in rows /\ l2 = Append(l, list)
    BY <1>3, <1>5, <1>6, <2>1
  <2>3. /\ l2 \in Seq(rows) /\ Len(l2) = Len(l) + 1 /\ l2[Len(l) + 1] = list
        /\ \A k \in 1 .. Len(l) : l2[k] = l[k]
    BY <2>2, AppendFacts
  <2>4. Len(l) + 1 = n + 2
    BY <1>3
  <2>. QED
    BY <1>3, <2>1, <2>3, <2>4
<1>8. WalkOK(s2, seen, V, D)
  <2>1. NoRepeat(s2)
    <3>1. \A k \in 1 .. n : s[k] # w
      BY <1>2 DEF ToSet
    <3>2. ASSUME NEW i \in 1 .. n + 1, NEW j \in 1 .. n + 1, s2[i] = s2[j] PROVE i = j
      <4>1. CASE i = n + 1 \/ j = n + 1
        BY <1>4, <3>1, <3>2, <4>1
      <4>2. CASE i # n + 1 /\ j # n + 1
        <5>1. i \in 1 .. n /\ j \in 1 .. n /\ s[i] = s[j]
          BY <1>4, <3>2, <4>2
        <5>. QED
          BY <1>2, <5>1 DEF NoRepeat
      <4>. QED
        BY <4>1, <4>2
    <3>. QED
      BY <1>4, <3>2 DEF NoRepeat
  <2>2. ASSUME NEW k \in 1 .. n PROVE <<s2[k], s2[k + 1]>> \in D
    <3>1. CASE k = n
      <4>1. s # <<>> /\ Last(s) = s[n]
        BY <1>1, <1>2, <3>1 DEF Last
      <4>. QED
        BY <1>4, <3>1, <4>1
    <3>2. CASE k # n
      <4>1. k \in 1 .. Len(s) - 1 /\ k \in 1 .. n /\ k + 1 \in 1 .. n
        BY <1>1, <3>2
      <4>2. <<s[k], s[k + 1]>> \in D
        BY <1>2, <4>1 DEF Chained
      <4>. QED
        BY <1>4, <4>1, <4>2
    <3>. QED
      BY <3>1, <3>2
  <2>3. Chained(s2, D)
    <3>1. Len(s2) - 1 = n
      BY <1>4
    <3>. QED
      BY <2>2, <3>1 DEF Chained
  <2>4. ToSet(s2) \cap seen = {}
    BY <1>2, <1>4
  <2>. QED
    BY <1>2, <1>4, <2>1, <2>3, <2>4 DEF WalkOK
<1>9. ListsOK(s2, l2, V)
  <2>1. ASSUME NEW k \in 1 .. n + 2 PROVE NoRepeat(l2[k])
    <3>1. CASE k = n + 2
      BY <1>6, <1>7, <3>1
    <3>2. CASE k # n + 2
      BY <1>3, <1>7, <3>2
    <3>. QED
      BY <3>1, <3>2
  <2>2. Len(l2) = Len(s2) + 1
    BY <1>4, <1>7
  <2>. QED
    BY <1>7, <2>1, <2>2 DEF ListsOK
<1>10. /\ R = V \ ToSet(l[1]) /\ F \subseteq D
       /\ \A v \in seen : \A x \in V : <<v, x>> \in D => <<v, x>> \in F
       /\ \A k \in 1 .. n : \A x \in V :
             x \in ToSet(l[k + 1]) <=> <<s[k], x>> \in D /\ <<s[k], x>> \notin F
       /\ \A v, x \in V : <<v, x>> \in F => v \in seen \/ v \in ToSet(s)
  BY <1>1 DEF LookedAt
<1>11. \A k \in 1 .. n + 1 : \A x \in V :
          x \in ToSet(l2[k + 1]) <=> <<s2[k], x>> \in D /\ <<s2[k], x>> \notin F
  <2>. SUFFICES ASSUME NEW k \in 1 .. n + 1, NEW x \in V
                PROVE  x \in ToSet(l2[k + 1]) <=> <<s2[k], x>> \in D /\ <<s2[k], x>> \notin F
    OBVIOUS
  <2>1. CASE k = n + 1
    <3>1. l2[k + 1] = list /\ s2[k] = w
      BY <1>4, <1>7, <2>1
    <3>2. <<w, x>> \notin F
      BY <1>10
    <3>. QED
      BY <1>6, <3>1, <3>2
  <2>2. CASE k # n + 1
    <3>1. k \in 1 .. n /\ k + 1 \in 1 .. n + 1
      BY <2>2
    <3>2. l2[k + 1] = l[k + 1] /\ s2[k] = s[k]
      BY <1>4, <1>7, <3>1
    <3>. QED
      BY <1>10, <3>1, <3>2
  <2>. QED
    BY <2>1, <2>2
<1>12. LookedAt(s2, l2, seen, R, F, V, D)
  <2>1. l2[1] = l[1]
    BY <1>7
  <2>2. \A v, x \in V : <<v, x>> \in F => v \in seen \/ v \in ToSet(s2)
    BY <1>4, <1>10
  <2>. QED
    BY <1>4, <1>10, <1>11, <2>1, <2>2 DEF LookedAt
<1>. QED
  BY <1>8, <1>9, <1>12

(* A return: the call on top has nothing left to look at.                    *)
LEMMA ReturnKeeps ==
    ASSUME NEW V, NEW D, NEW s, NEW l, NEW seen, NEW R, NEW F,
           D \subseteq V \X V, WalkOK(s, seen, V, D), ListsOK(s, l, V), LookedAt(s, l, seen, R, F, V, D),
           s # <<>>, Last(l) = <<>>,
           NEW s2, s2 = Front(s), NEW l2, l2 = Front(l),
           NEW seen2, seen2 = seen \cup {Last(s)}
    PROVE  WalkOK(s2, seen2, V, D) /\ ListsOK(s2, l2, V) /\ LookedAt(s2, l2, seen2, R, F, V, D)
<1>1. PICK n \in Nat : n + 1 = Len(s)
  BY DEF WalkOK
<1>2. /\ s \in Seq(V) /\ NoRepeat(s) /\ DOMAIN s = 1 .. n + 1 /\ Chained(s, D)
      /\ seen \subseteq V /\ ToSet(s) \cap seen = {}
  BY <1>1 DEF WalkOK
<1>3. /\ l \in Seq(Seq(V)) /\ Len(l) = n + 2 /\ DOMAIN l = 1 .. n + 2 /\ l # <<>>
      /\ \A k \in 1 .. n + 2 : NoRepeat(l[k])
  BY <1>1 DEF ListsOK
<1>4. PICK v : v = Last(s)
  OBVIOUS
<1>5. /\ s2 \in Seq(V) /\ NoRepeat(s2) /\ Len(s2) = n /\ v \in V /\ v = s[n + 1]
      /\ \A k \in 1 .. n : s2[k] = s[k]
      /\ ToSet(s) = ToSet(s2) \cup {v} /\ v \notin ToSet(s2)
  <2>1. /\ s2 \in Seq(V) /\ NoRepeat(s2) /\ Len(s2) = Len(s) - 1 /\ v \in V /\ v = s[Len(s)]
        /\ \A k \in 1 .. Len(s) - 1 : s2[k] = s[k]
        /\ ToSet(s) = ToSet(s2) \cup {v} /\ v \notin ToSet(s2)
    BY <1>2, <1>4, TopFacts
  <2>2. Len(s) - 1 = n /\ Len(s) = n + 1
    BY <1>1
  <2>. QED
    BY <2>1, <2>2
<1>6. /\ l2 \in Seq(Seq(V)) /\ Len(l2) = n + 1 /\ l[n + 2] = <<>>
      /\ \A k \in 1 .. n + 1 : l2[k] = l[k]
  <2>1. /\ l2 \in Seq(Seq(V)) /\ Len(l2) = Len(l) - 1 /\ Last(l) = l[Len(l)]
        /\ \A k \in 1 .. Len(l) - 1 : l2[k] = l[k]
    BY <1>3, TopFacts
  <2>2. Len(l) - 1 = n + 1 /\ Len(l) = n + 2
    BY <1>3
  <2>. QED
    BY <2>1, <2>2
<1>7. seen2 = seen \cup {v}
  BY <1>4
<1>8. WalkOK(s2, seen2, V, D)
  <2>1. ASSUME NEW k \in 1 .. n - 1 PROVE <<s2[k], s2[k + 1]>> \in D
    <3>1. k \in 1 .. n /\ k + 1 \in 1 .. n /\ k \in 1 .. Len(s) - 1
      BY <1>1
    <3>2. <<s[k], s[k + 1]>> \in D
      BY <1>2, <3>1 DEF Chained
    <3>. QED
      BY <1>5, <3>1, <3>2
  <2>2. Chained(s2, D)
    BY <1>5, <2>1 DEF Chained
  <2>3. seen2 \subseteq V /\ ToSet(s2) \cap seen2 = {}
    BY <1>2, <1>5, <1>7
  <2>. QED
    BY <1>5, <2>2, <2>3 DEF WalkOK
<1>9. ListsOK(s2, l2, V)
  <2>1. \A k \in 1 .. n + 1 : NoRepeat(l2[k])
    BY <1>3, <1>6
  <2>. QED
    BY <1>5, <1>6, <2>1 DEF ListsOK
<1>10. /\ R = V \ ToSet(l[1]) /\ F \subseteq D
       /\ \A u \in seen : \A x \in V : <<u, x>> \in D => <<u, x>> \in F
       /\ \A k \in 1 .. n + 1 : \A x \in V :
             x \in ToSet(l[k + 1]) <=> <<s[k], x>> \in D /\ <<s[k], x>> \notin F
       /\ \A u, x \in V : <<u, x>> \in F => u \in seen \/ u \in ToSet(s)
  BY <1>1 DEF LookedAt
<1>11. ASSUME NEW x \in V, <<v, x>> \in D PROVE <<v, x>> \in F
  <2>1. l[(n + 1) + 1] = <<>> /\ n + 1 \in 1 .. n + 1
    BY <1>6
  <2>2. x \notin ToSet(<<>>)
    BY DEF ToSet
  <2>. QED
    BY <1>5, <1>10, <1>11, <2>1, <2>2
<1>12. \A k \in 1 .. n : \A x \in V :
          x \in ToSet(l2[k + 1]) <=> <<s2[k], x>> \in D /\ <<s2[k], x>> \notin F
  <2>. SUFFICES ASSUME NEW k \in 1 .. n, NEW x \in V
                PROVE  x \in ToSet(l2[k + 1]) <=> <<s2[k], x>> \in D /\ <<s2[k], x>> \notin F
    OBVIOUS
  <2>1. k \in 1 .. n + 1 /\ k + 1 \in 1 .. n + 1
    OBVIOUS
  <2>2. l2[k + 1] = l[k + 1] /\ s2[k] = s[k]
    BY <1>5, <1>6, <2>1
  <2>. QED
    BY <1>10, <2>1, <2>2
<1>13. LookedAt(s2, l2, seen2, R, F, V, D)
  <2>1. l2[1] = l[1]
    BY <1>6
  <2>2. \A u \in seen2 : \A x \in V : <<u, x>> \in D => <<u, x>> \in F
    BY <1>7, <1>10, <1>11
  <2>3. \A u, x \in V : <<u, x>> \in F => u \in seen2 \/ u \in ToSet(s2)
    BY <1>5, <1>7, <1>10
  <2>. QED
    BY <1>5, <1>10, <1>12, <2>1, <2>2, <2>3 DEF LookedAt
<1>. QED
  BY <1>8, <1>9, <1>13

(* A list with one more element.                                             *)
LEMMA LastJoins ==
    ASSUME NEW S, NEW s \in Seq(S), NEW x \in S
    PROVE  s \o <<x>> = Append(s, x)
  OBVIOUS

(* The cycle a dependency on the stack closes.                               *)
LEMMA ClosesCycle ==
    ASSUME NEW V, NEW D, NEW s, s \in Seq(V), NoRepeat(s), Chained(s, D),
           NEW w \in V, w \in ToSet(s), <<Last(s), w>> \in D
    PROVE  /\ CycleTo(w, s) \in Seq(V) /\ IsCycle(CycleTo(w, s), D)
           /\ ClosingEdge(CycleTo(w, s)) = <<Last(s), w>>
<1>1. PICK n \in Nat : n = Len(s)
  OBVIOUS
<1>2. DOMAIN s = 1 .. n /\ \A k \in 1 .. n : s[k] \in V
  BY <1>1
<1>3. PICK i : i = CHOOSE j \in DOMAIN s : s[j] = w
  OBVIOUS
<1>4. i \in 1 .. n /\ s[i] = w
  BY <1>2, <1>3 DEF ToSet
<1>5. PICK c : c = CycleTo(w, s)
  OBVIOUS
<1>6. PICK part : part = SubSeq(s, i, n)
  OBVIOUS
<1>7. c = part \o <<w>>
  BY <1>1, <1>3, <1>5, <1>6 DEF CycleTo
<1>8. PICK m \in Nat : m = n - i + 1 /\ m >= 1
  BY <1>4
<1>9. /\ part \in Seq(V) /\ Len(part) = m
      /\ \A k \in 1 .. m : part[k] = s[i + k - 1]
  BY <1>1, <1>4, <1>6, <1>8
<1>10. /\ c \in Seq(V) /\ Len(c) = m + 1 /\ c[m + 1] = w
       /\ \A k \in 1 .. m : c[k] = part[k]
  <2>1. part \o <<w>> = Append(part, w)
    BY <1>9, LastJoins
  <2>2. PICK q : q = Append(part, w)
    OBVIOUS
  <2>3. /\ q \in Seq(V) /\ Len(q) = Len(part) + 1 /\ q[Len(part) + 1] = w
        /\ \A k \in 1 .. Len(part) : q[k] = part[k]
    BY <1>9, <2>2, AppendFacts
  <2>. QED
    BY <1>7, <1>9, <2>1, <2>2, <2>3
<1>11. \A k \in 1 .. m : c[k] = s[i + k - 1] /\ i + k - 1 \in 1 .. n
  BY <1>4, <1>8, <1>9, <1>10
<1>12. Last(s) = s[n] /\ c[m] = s[n]
  <2>1. i + m - 1 = n /\ m \in 1 .. m
    BY <1>4, <1>8
  <2>. QED
    BY <1>1, <1>11, <2>1 DEF Last
<1>13. c[1] = w
  <2>1. 1 \in 1 .. m /\ i + 1 - 1 = i
    BY <1>4, <1>8
  <2>. QED
    BY <1>4, <1>11, <2>1
<1>14. ASSUME NEW k \in 1 .. m PROVE <<c[k], c[k + 1]>> \in D
  <2>1. CASE k = m
    BY <1>10, <1>12, <2>1
  <2>2. CASE k # m
    <3>1. k + 1 \in 1 .. m /\ i + (k + 1) - 1 = (i + k - 1) + 1 /\ i + k - 1 \in 1 .. n - 1
      BY <1>4, <1>8, <2>2
    <3>2. <<s[i + k - 1], s[(i + k - 1) + 1]>> \in D
      BY <1>1, <3>1 DEF Chained
    <3>. QED
      BY <1>11, <3>1, <3>2
  <2>. QED
    BY <2>1, <2>2
<1>15. ASSUME NEW j \in 1 .. m, NEW k \in 1 .. m, c[j] = c[k] PROVE j = k
  <2>1. i + j - 1 \in DOMAIN s /\ i + k - 1 \in DOMAIN s /\ s[i + j - 1] = s[i + k - 1]
    BY <1>2, <1>11, <1>15
  <2>2. i + j - 1 = i + k - 1
    BY <2>1 DEF NoRepeat
  <2>. QED
    BY <1>4, <2>2
<1>16. Len(c) - 1 = m /\ Len(c) > 1
  BY <1>8, <1>10
<1>17. IsCycle(c, D)
  BY <1>10, <1>13, <1>14, <1>15, <1>16 DEF IsCycle
<1>18. ClosingEdge(c) = <<s[n], w>>
  BY <1>10, <1>12, <1>16 DEF ClosingEdge
<1>. QED
  BY <1>5, <1>10, <1>12, <1>17, <1>18

(* What closes a cycle takes ways round away.                                *)
LEMMA FewerEdges ==
    ASSUME NEW seen, NEW E, NEW E2, E2 \subseteq E, NoWayRound(seen, E)
    PROVE  NoWayRound(seen, E2)
<1>. SUFFICES ASSUME NEW S \in SUBSET seen, \A v \in S : \E w \in S : <<v, w>> \in E2
              PROVE  S = {}
  BY DEF NoWayRound
<1>1. \A v \in S : \E w \in S : <<v, w>> \in E
  OBVIOUS
<1>. QED
  BY <1>1 DEF NoWayRound

(* A vertex whose edges lead to what was visited before it adds no way round.*)
LEMMA OneMoreSeen ==
    ASSUME NEW seen, NEW E, NoWayRound(seen, E), NEW v, v \notin seen,
           \A x : <<v, x>> \in E => x \in seen,
           \A u \in seen : \A x : <<u, x>> \in E => x \in seen
    PROVE  NoWayRound(seen \cup {v}, E)
<1>. SUFFICES ASSUME NEW S \in SUBSET (seen \cup {v}), \A u \in S : \E w \in S : <<u, w>> \in E
              PROVE  S = {}
  BY DEF NoWayRound
<1>1. PICK P : P = S \ {v}
  OBVIOUS
<1>2. P \in SUBSET seen
  BY <1>1
<1>3. \A u \in P : \E w \in P : <<u, w>> \in E
  BY <1>1, <1>2
<1>4. P = {}
  BY <1>2, <1>3 DEF NoWayRound
<1>5. v \notin S
  BY <1>1, <1>4
<1>. QED
  BY <1>1, <1>4, <1>5

(* A return settles the vertex: what it has edges to is visited, or closed a *)
(* cycle.                                                                    *)
LEMMA ReturnSettles ==
    ASSUME NEW V, NEW D, NEW s, NEW l, NEW seen, NEW R, NEW F, NEW B,
           D \subseteq V \X V, WalkOK(s, seen, V, D), LookedAt(s, l, seen, R, F, V, D),
           Settled(s, seen, B, R, F, V), NoWayRound(seen, D \ B),
           s # <<>>, Len(l) = Len(s) + 1, Last(l) = <<>>,
           NEW s2, s2 = Front(s), NEW seen2, seen2 = seen \cup {Last(s)}
    PROVE  Settled(s2, seen2, B, R, F, V) /\ NoWayRound(seen2, D \ B)
<1>1. PICK n \in Nat : n + 1 = Len(s)
  BY DEF WalkOK
<1>2. /\ s \in Seq(V) /\ NoRepeat(s) /\ DOMAIN s = 1 .. n + 1
      /\ seen \subseteq V /\ ToSet(s) \cap seen = {}
  BY <1>1 DEF WalkOK
<1>3. PICK v : v = Last(s)
  OBVIOUS
<1>4. /\ s2 \in Seq(V) /\ Len(s2) = n /\ v \in V /\ v = s[n + 1] /\ v \in ToSet(s) /\ v \notin ToSet(s2)
      /\ \A k \in 1 .. n : s2[k] = s[k]
  <2>1. /\ s2 \in Seq(V) /\ Len(s2) = Len(s) - 1 /\ v \in V /\ v = s[Len(s)]
        /\ \A k \in 1 .. Len(s) - 1 : s2[k] = s[k]
        /\ ToSet(s) = ToSet(s2) \cup {v} /\ v \notin ToSet(s2)
    BY <1>2, <1>3, TopFacts
  <2>2. Len(s) - 1 = n /\ Len(s) = n + 1
    BY <1>1
  <2>. QED
    BY <2>1, <2>2
<1>5. seen2 = seen \cup {v} /\ v \notin seen
  BY <1>2, <1>3, <1>4
<1>6. /\ \A u, x \in V : <<u, x>> \in F => <<u, x>> \in B \/ x \in seen \/ OnTheWay(s, u, x)
      /\ \A w \in R : w \in seen \/ w = s[1]
  BY DEF Settled
<1>7. \A u, x \in V : OnTheWay(s, u, x) => OnTheWay(s2, u, x) \/ x = v
  <2>. SUFFICES ASSUME NEW u \in V, NEW x \in V, NEW k \in 1 .. Len(s) - 1, u = s[k], x = s[k + 1]
                PROVE  OnTheWay(s2, u, x) \/ x = v
    BY DEF OnTheWay
  <2>1. k \in 1 .. n
    BY <1>1
  <2>2. CASE k = n
    BY <1>4, <2>2
  <2>3. CASE k # n
    <3>1. k \in 1 .. Len(s2) - 1 /\ k + 1 \in 1 .. n
      BY <1>4, <2>1, <2>3
    <3>2. u = s2[k] /\ x = s2[k + 1]
      BY <1>4, <2>1, <3>1
    <3>. QED
      BY <3>1, <3>2 DEF OnTheWay
  <2>. QED
    BY <2>2, <2>3
<1>8. \A u, x \in V : <<u, x>> \in F => <<u, x>> \in B \/ x \in seen2 \/ OnTheWay(s2, u, x)
  BY <1>5, <1>6, <1>7
<1>9. ASSUME NEW w \in R PROVE w \in seen2 \/ (s2 # <<>> /\ w = s2[1])
  <2>1. CASE w \in seen
    BY <1>5, <2>1
  <2>2. CASE w = s[1] /\ n = 0
    BY <1>4, <1>5, <2>2
  <2>3. CASE w = s[1] /\ n # 0
    <3>1. 1 \in 1 .. n /\ s2 # <<>>
      BY <1>4, <2>3
    <3>. QED
      BY <1>4, <2>3, <3>1
  <2>. QED
    BY <1>6, <2>1, <2>2, <2>3
<1>10. Settled(s2, seen2, B, R, F, V)
  BY <1>8, <1>9 DEF Settled
<1>11. /\ \A u \in seen : \A x \in V : <<u, x>> \in D => <<u, x>> \in F
       /\ \A x \in V : x \in ToSet(l[(n + 1) + 1]) <=> <<s[n + 1], x>> \in D /\ <<s[n + 1], x>> \notin F
  <2>1. n + 1 \in 1 .. Len(s)
    BY <1>1
  <2>. QED
    BY <2>1 DEF LookedAt
<1>12. \A x \in V : <<v, x>> \in D => <<v, x>> \in F
  <2>1. l[(n + 1) + 1] = <<>>
    <3>1. Len(l) = (n + 1) + 1
      BY <1>1
    <3>. QED
      BY <3>1 DEF Last
  <2>2. ToSet(<<>>) = {}
    BY DEF ToSet
  <2>. QED
    BY <1>4, <1>11, <2>1, <2>2
<1>13. ASSUME NEW x, <<v, x>> \in D \ B PROVE x \in seen
  <2>1. x \in V /\ <<v, x>> \in F
    BY <1>4, <1>12, <1>13
  <2>2. ~OnTheWay(s, v, x)
    <3>. SUFFICES ASSUME NEW k \in 1 .. Len(s) - 1, v = s[k] PROVE FALSE
      BY DEF OnTheWay
    <3>1. k \in DOMAIN s /\ n + 1 \in DOMAIN s /\ k # n + 1
      BY <1>1, <1>2
    <3>. QED
      BY <1>2, <1>4, <3>1 DEF NoRepeat
  <2>. QED
    BY <1>4, <1>6, <1>13, <2>1, <2>2
<1>14. ASSUME NEW u \in seen, NEW x, <<u, x>> \in D \ B PROVE x \in seen
  <2>1. u \in V /\ x \in V /\ <<u, x>> \in F
    BY <1>2, <1>11, <1>14
  <2>2. ~OnTheWay(s, u, x)
    <3>. SUFFICES ASSUME NEW k \in 1 .. Len(s) - 1, u = s[k] PROVE FALSE
      BY DEF OnTheWay
    <3>1. k \in DOMAIN s
      BY <1>1, <1>2
    <3>2. u \in ToSet(s)
      BY <3>1 DEF ToSet
    <3>. QED
      BY <1>2, <3>2
  <2>. QED
    BY <1>6, <1>14, <2>1, <2>2
<1>15. NoWayRound(seen \cup {v}, D \ B)
  <2>1. PICK E : E = D \ B
    OBVIOUS
  <2>2. /\ \A x : <<v, x>> \in E => x \in seen
        /\ \A u \in seen : \A x : <<u, x>> \in E => x \in seen
    BY <1>13, <1>14, <2>1
  <2>3. NoWayRound(seen \cup {v}, E)
    BY <1>5, <2>1, <2>2, OneMoreSeen
  <2>. QED
    BY <2>1, <2>3
<1>. QED
  BY <1>5, <1>10, <1>15

(* A vertex looked at settles what was followed or started: it is visited,   *)
(* it closes a cycle, or it is called.                                       *)
LEMMA FollowSettles ==
    ASSUME NEW V, NEW D, NEW s, NEW l, NEW seen, NEW R, NEW F, NEW B,
           WalkOK(s, seen, V, D), Settled(s, seen, B, R, F, V),
           NEW w, NEW R2, NEW F2, LookStep(s, l, w, R, F, R2, F2, V, D)
    PROVE  /\ w \in seen => Settled(s, seen, B, R2, F2, V)
           /\ w \in ToSet(s) => Settled(s, seen, B \cup {<<Last(s), w>>}, R2, F2, V)
           /\ Settled(Append(s, w), seen, B, R2, F2, V)
<1>1. PICK n \in Nat : n = Len(s)
  BY DEF WalkOK
<1>2. s \in Seq(V) /\ w \in V /\ (s = <<>> <=> n = 0) /\ DOMAIN s = 1 .. n
  BY <1>1 DEF WalkOK, LookStep
<1>3. /\ \A u, x \in V : <<u, x>> \in F => <<u, x>> \in B \/ x \in seen \/ OnTheWay(s, u, x)
      /\ \A x \in R : x \in seen \/ (s # <<>> /\ x = s[1])
  BY DEF Settled
<1>4. PICK v : v = Last(s)
  OBVIOUS
<1>5. /\ s = <<>> => R2 = R \cup {w} /\ F2 = F
      /\ s # <<>> => R2 = R /\ F2 = F \cup {<<v, w>>}
  BY <1>4 DEF LookStep
<1>6. ASSUME w \in seen PROVE Settled(s, seen, B, R2, F2, V)
  <2>1. \A u, x \in V : <<u, x>> \in F2 => <<u, x>> \in B \/ x \in seen \/ OnTheWay(s, u, x)
    BY <1>3, <1>5, <1>6
  <2>2. \A x \in R2 : x \in seen \/ (s # <<>> /\ x = s[1])
    BY <1>3, <1>5, <1>6
  <2>. QED
    BY <2>1, <2>2 DEF Settled
<1>7. ASSUME w \in ToSet(s) PROVE Settled(s, seen, B \cup {<<v, w>>}, R2, F2, V)
  <2>0. s # <<>>
    BY <1>2, <1>7 DEF ToSet
  <2>1. \A u, x \in V : <<u, x>> \in F2 =>
            <<u, x>> \in B \cup {<<v, w>>} \/ x \in seen \/ OnTheWay(s, u, x)
    BY <1>3, <1>5, <2>0
  <2>2. \A x \in R2 : x \in seen \/ (s # <<>> /\ x = s[1])
    BY <1>3, <1>5, <2>0
  <2>. QED
    BY <2>1, <2>2 DEF Settled
<1>8. Settled(Append(s, w), seen, B, R2, F2, V)
  <2>1. PICK t : t = Append(s, w)
    OBVIOUS
  <2>2. /\ t \in Seq(V) /\ Len(t) = n + 1 /\ t[n + 1] = w /\ t # <<>>
        /\ \A k \in 1 .. n : t[k] = s[k]
    BY <1>1, <1>2, <2>1
  <2>3. \A u, x \in V : OnTheWay(s, u, x) => OnTheWay(t, u, x)
    <3>. SUFFICES ASSUME NEW u \in V, NEW x \in V, NEW k \in 1 .. n - 1, u = s[k], x = s[k + 1]
                  PROVE  OnTheWay(t, u, x)
      BY <1>1 DEF OnTheWay
    <3>1. k \in 1 .. n /\ k + 1 \in 1 .. n /\ k \in 1 .. Len(t) - 1
      BY <2>2
    <3>2. u = t[k] /\ x = t[k + 1]
      BY <2>2, <3>1
    <3>. QED
      BY <3>1, <3>2 DEF OnTheWay
  <2>4. s # <<>> => OnTheWay(t, v, w)
    <3>. SUFFICES ASSUME s # <<>> PROVE OnTheWay(t, v, w)
      OBVIOUS
    <3>1. n \in 1 .. n /\ n \in 1 .. Len(t) - 1
      BY <1>2, <2>2
    <3>2. v = t[n] /\ w = t[n + 1]
      BY <1>1, <1>4, <2>2, <3>1 DEF Last
    <3>. QED
      BY <3>1, <3>2 DEF OnTheWay
  <2>5. \A u, x \in V : <<u, x>> \in F2 => <<u, x>> \in B \/ x \in seen \/ OnTheWay(t, u, x)
    BY <1>3, <1>5, <2>3, <2>4
  <2>6. ASSUME NEW x \in R2 PROVE x \in seen \/ (t # <<>> /\ x = t[1])
    <3>1. CASE n = 0
      BY <1>2, <1>3, <1>5, <2>2, <2>6, <3>1
    <3>2. CASE n # 0
      <4>1. t[1] = s[1] /\ R2 = R
        BY <1>2, <1>5, <2>2, <3>2
      <4>. QED
        BY <1>3, <2>2, <2>6, <4>1
    <3>. QED
      BY <3>1, <3>2
  <2>. QED
    BY <2>1, <2>5, <2>6 DEF Settled
<1>. QED
  BY <1>4, <1>6, <1>7, <1>8

-----------------------------------------------------------------------------
(* The search, of one graph.                                                 *)

Closing(c) == {ClosingEdge(c[i]) : i \in DOMAIN c}
CyclesOK(c, V, D) == c \in Seq(Seq(V)) /\ \A i \in DOMAIN c : IsCycle(c[i], D)

(* A state of the search with the roots and edges it has behind it.          *)
SearchOK(s, l, seen, c, R, F, V, D) ==
    /\ WalkOK(s, seen, V, D) /\ ListsOK(s, l, V) /\ LookedAt(s, l, seen, R, F, V, D)
    /\ Settled(s, seen, Closing(c), R, F, V) /\ NoWayRound(seen, D \ Closing(c))
    /\ CyclesOK(c, V, D)
State(s, l, seen, c) == [stack |-> s, left |-> l, visited |-> seen, cycles |-> c]
Finished(s, l) == s = <<>> /\ Last(l) = <<>>

(* A step starts from a vertex, follows an edge or visits a vertex, none of  *)
(* which it did before.                                                      *)
OneMore(seen, R, F, seen2, R2, F2, V, D) ==
    \/ R2 = R /\ F2 = F /\ \E v \in V \ seen : seen2 = seen \cup {v}
    \/ seen2 = seen /\ F2 = F /\ \E v \in V \ R : R2 = R \cup {v}
    \/ seen2 = seen /\ R2 = R /\ \E e \in D \ F : F2 = F \cup {e}

(* What visit does next.                                                     *)
NextIs(next, st, s, l, seen, c, w, on, D) ==
    /\ Finished(s, l) => next = st
    /\ Last(l) = <<>> /\ s # <<>> =>
          next = State(Front(s), Front(l), seen \cup {Last(s)}, c)
    /\ Last(l) # <<>> /\ w \in ToSet(s) =>
          next = State(s, on, seen, Append(c, CycleTo(w, s)))
    /\ Last(l) # <<>> /\ w \notin ToSet(s) /\ w \in seen =>
          next = State(s, on, seen, c)
    /\ Last(l) # <<>> /\ w \notin ToSet(s) /\ w \notin seen =>
          next = State(Append(s, w), Append(on, sortResourceURIs(Out(w, D))), seen, c)

(* visit, case by case.                                                      *)
LEMMA VisitSteps ==
    ASSUME NEW D, NEW s, NEW l, NEW seen, NEW c, NEW st, st = State(s, l, seen, c),
           NEW w, w = Head(Last(l)), NEW on, on = Append(Front(l), Tail(Last(l)))
    PROVE  NextIs(visit(st, D), st, s, l, seen, c, w, on, D)
<1>1. st.stack = s /\ st.left = l /\ st.visited = seen /\ st.cycles = c
  BY DEF State
<1>2. Last(l) = <<>> /\ s = <<>> => visit(st, D) = st
  BY <1>1 DEF visit
<1>3. Last(l) = <<>> /\ s # <<>> => visit(st, D) = Return(st)
  BY <1>1 DEF visit
<1>4. Return(st) = State(Front(s), Front(l), seen \cup {Last(s)}, c)
  BY <1>1 DEF Return, State
<1>5. Last(l) # <<>> => visit(st, D) = Follow(st, w, D)
  BY <1>1 DEF visit
<1>6. w \in ToSet(s) => Follow(st, w, D) = State(s, on, seen, Append(c, CycleTo(w, s)))
  BY DEF Follow, State
<1>7. w \notin ToSet(s) /\ w \in seen => Follow(st, w, D) = State(s, on, seen, c)
  BY DEF Follow, State
<1>8. w \notin ToSet(s) /\ w \notin seen =>
         Follow(st, w, D) = State(Append(s, w), Append(on, sortResourceURIs(Out(w, D))), seen, c)
  BY DEF Follow, State
<1>. QED
  BY <1>2, <1>3, <1>4, <1>5, <1>6, <1>7, <1>8 DEF Finished, NextIs

Moves(next, seen, R, F, V, D) ==
    \E s2, l2, seen2, c2, R2, F2 :
        /\ next = State(s2, l2, seen2, c2)
        /\ SearchOK(s2, l2, seen2, c2, R2, F2, V, D)
        /\ OneMore(seen, R, F, seen2, R2, F2, V, D)

(* One more cycle.                                                           *)
LEMMA OneMoreCycle ==
    ASSUME NEW V, NEW D, NEW c, CyclesOK(c, V, D), NEW new \in Seq(V), IsCycle(new, D)
    PROVE  /\ CyclesOK(Append(c, new), V, D)
           /\ Closing(Append(c, new)) = Closing(c) \cup {ClosingEdge(new)}
<1>1. PICK m : m = Append(c, new)
  OBVIOUS
<1>2. PICK rows : rows = Seq(V)
  OBVIOUS
<1>3. c \in Seq(rows) /\ new \in rows /\ \A i \in DOMAIN c : IsCycle(c[i], D)
  BY <1>2 DEF CyclesOK
<1>4. PICK n \in Nat : n = Len(c)
  BY <1>3
<1>5. /\ m \in Seq(rows) /\ DOMAIN c = 1 .. n /\ DOMAIN m = 1 .. n + 1 /\ m[n + 1] = new
      /\ \A i \in 1 .. n : m[i] = c[i]
  BY <1>1, <1>3, <1>4, AppendFacts
<1>6. \A i \in DOMAIN m : IsCycle(m[i], D)
  <2>. SUFFICES ASSUME NEW i \in 1 .. n + 1 PROVE IsCycle(m[i], D)
    BY <1>5
  <2>1. CASE i = n + 1
    BY <1>5, <2>1
  <2>2. CASE i # n + 1
    <3>1. i \in 1 .. n
      BY <2>2
    <3>. QED
      BY <1>3, <1>5, <3>1
  <2>. QED
    BY <2>1, <2>2
<1>7. Closing(m) = Closing(c) \cup {ClosingEdge(new)}
  <2>1. ASSUME NEW i \in 1 .. n + 1 PROVE ClosingEdge(m[i]) \in Closing(c) \cup {ClosingEdge(new)}
    <3>1. CASE i = n + 1
      BY <1>5, <3>1
    <3>2. CASE i # n + 1
      <4>1. i \in 1 .. n /\ m[i] = c[i]
        BY <1>5, <3>2
      <4>. QED
        BY <1>5, <4>1 DEF Closing
    <3>. QED
      BY <3>1, <3>2
  <2>2. ASSUME NEW i \in 1 .. n PROVE ClosingEdge(c[i]) \in Closing(m)
    <3>1. m[i] = c[i] /\ i \in 1 .. n + 1
      BY <1>5
    <3>2. ClosingEdge(m[i]) \in Closing(m)
      BY <1>5, <3>1 DEF Closing
    <3>. QED
      BY <3>1, <3>2
  <2>3. ClosingEdge(new) \in Closing(m)
    <3>1. n + 1 \in DOMAIN m
      BY <1>5
    <3>2. ClosingEdge(m[n + 1]) \in Closing(m)
      BY <3>1 DEF Closing
    <3>. QED
      BY <1>5, <3>2
  <2>4. Closing(m) \subseteq Closing(c) \cup {ClosingEdge(new)}
    BY <1>5, <2>1 DEF Closing
  <2>5. Closing(c) \subseteq Closing(m)
    BY <1>5, <2>2 DEF Closing
  <2>. QED
    BY <2>3, <2>4, <2>5
<1>. QED
  BY <1>1, <1>2, <1>5, <1>6, <1>7 DEF CyclesOK

(* Until it has finished, every step of the search is a new one.             *)
LEMMA SearchMoves ==
    ASSUME NEW V, NEW D, NEW s, NEW l, NEW seen, NEW c, NEW R, NEW F,
           UriOrder \in Seq(ToSet(UriOrder)), NoRepeat(UriOrder), V \subseteq ToSet(UriOrder),
           D \subseteq V \X V, SearchOK(s, l, seen, c, R, F, V, D), ~Finished(s, l)
    PROVE  Moves(visit(State(s, l, seen, c), D), seen, R, F, V, D)
<1>1. /\ WalkOK(s, seen, V, D) /\ ListsOK(s, l, V) /\ LookedAt(s, l, seen, R, F, V, D)
      /\ Settled(s, seen, Closing(c), R, F, V) /\ NoWayRound(seen, D \ Closing(c))
      /\ CyclesOK(c, V, D)
  BY DEF SearchOK
<1>w. PICK w : w = Head(Last(l))
  OBVIOUS
<1>on. PICK on : on = Append(Front(l), Tail(Last(l)))
  OBVIOUS
<1>0. PICK st : st = State(s, l, seen, c)
  OBVIOUS
<1>2. PICK next : next = visit(st, D)
  OBVIOUS
<1>5. /\ Last(l) = <<>> /\ s # <<>> => next = State(Front(s), Front(l), seen \cup {Last(s)}, c)
      /\ Last(l) # <<>> /\ w \in ToSet(s) => next = State(s, on, seen, Append(c, CycleTo(w, s)))
      /\ Last(l) # <<>> /\ w \notin ToSet(s) /\ w \in seen => next = State(s, on, seen, c)
      /\ Last(l) # <<>> /\ w \notin ToSet(s) /\ w \notin seen =>
            next = State(Append(s, w), Append(on, sortResourceURIs(Out(w, D))), seen, c)
  <2>1. NextIs(visit(st, D), st, s, l, seen, c, w, on, D)
    BY <1>0, <1>w, <1>on, VisitSteps
  <2>. QED
    BY <1>2, <2>1 DEF NextIs
<1>3. CASE Last(l) = <<>>
  <2>1. s # <<>>
    BY <1>3 DEF Finished
  <2>2. PICK s2 : s2 = Front(s)
    OBVIOUS
  <2>3. PICK l2 : l2 = Front(l)
    OBVIOUS
  <2>4. PICK seen2 : seen2 = seen \cup {Last(s)}
    OBVIOUS
  <2>5. next = State(s2, l2, seen2, c)
    BY <1>3, <1>5, <2>1, <2>2, <2>3, <2>4
  <2>6. WalkOK(s2, seen2, V, D) /\ ListsOK(s2, l2, V) /\ LookedAt(s2, l2, seen2, R, F, V, D)
    BY <1>1, <1>3, <2>1, <2>2, <2>3, <2>4, ReturnKeeps
  <2>7. Settled(s2, seen2, Closing(c), R, F, V) /\ NoWayRound(seen2, D \ Closing(c))
    <3>1. Len(l) = Len(s) + 1
      BY <1>1 DEF ListsOK
    <3>. QED
      BY <1>1, <1>3, <2>1, <2>2, <2>4, <3>1, ReturnSettles
  <2>8. SearchOK(s2, l2, seen2, c, R, F, V, D)
    BY <1>1, <2>6, <2>7 DEF SearchOK
  <2>9. Last(s) \in V \ seen
    <3>1. s \in Seq(V) /\ ToSet(s) \cap seen = {}
      BY <1>1 DEF WalkOK
    <3>2. PICK f : f = Front(s)
      OBVIOUS
    <3>3. Last(s) \in V /\ ToSet(s) = ToSet(f) \cup {Last(s)}
      BY <2>1, <3>1, <3>2, TopFacts
    <3>. QED
      BY <3>1, <3>3
  <2>10. OneMore(seen, R, F, seen2, R, F, V, D)
    BY <2>4, <2>9 DEF OneMore
  <2>. QED
    BY <1>0, <1>2, <2>5, <2>8, <2>10 DEF Moves
<1>4. CASE Last(l) # <<>>
  <2>3. PICK R2 : R2 = IF s = <<>> THEN R \cup {w} ELSE R
    OBVIOUS
  <2>4. PICK F2 : F2 = IF s = <<>> THEN F ELSE F \cup {<<Last(s), w>>}
    OBVIOUS
  <2>5. /\ LookStep(s, l, w, R, F, R2, F2, V, D)
        /\ ListsOK(s, on, V) /\ LookedAt(s, on, seen, R2, F2, V, D)
    BY <1>1, <1>4, <2>3, <2>4, <1>w, <1>on, LookNext
  <2>6. w \in V /\ (s # <<>> => <<Last(s), w>> \in D)
    BY <2>5 DEF LookStep
  <2>7. OneMore(seen, R, F, seen, R2, F2, V, D)
    BY <2>5 DEF LookStep, OneMore
  <2>8. PICK B : B = Closing(c)
    OBVIOUS
  <2>9. /\ w \in seen => Settled(s, seen, B, R2, F2, V)
        /\ w \in ToSet(s) => Settled(s, seen, B \cup {<<Last(s), w>>}, R2, F2, V)
        /\ Settled(Append(s, w), seen, B, R2, F2, V)
    BY <1>1, <2>5, <2>8, FollowSettles
  <2>10. CASE w \in ToSet(s)
    <3>1. s # <<>> /\ s \in Seq(V) /\ NoRepeat(s) /\ Chained(s, D)
      BY <1>1, <2>10 DEF WalkOK, ToSet
    <3>2. PICK new : new = CycleTo(w, s)
      OBVIOUS
    <3>3. new \in Seq(V) /\ IsCycle(new, D) /\ ClosingEdge(new) = <<Last(s), w>>
      BY <2>6, <2>10, <3>1, <3>2, ClosesCycle
    <3>4. PICK c2 : c2 = Append(c, new)
      OBVIOUS
    <3>5. CyclesOK(c2, V, D) /\ Closing(c2) = B \cup {<<Last(s), w>>}
      BY <1>1, <2>8, <3>3, <3>4, OneMoreCycle
    <3>6. next = State(s, on, seen, c2)
      BY <1>4, <1>5, <2>10, <3>2, <3>4
    <3>7. NoWayRound(seen, D \ Closing(c2))
      <4>1. D \ Closing(c2) \subseteq D \ B
        BY <3>5
      <4>. QED
        BY <1>1, <2>8, <4>1, FewerEdges
    <3>8. SearchOK(s, on, seen, c2, R2, F2, V, D)
      BY <1>1, <2>5, <2>9, <2>10, <3>5, <3>7 DEF SearchOK
    <3>. QED
      BY <1>0, <1>2, <2>7, <3>6, <3>8 DEF Moves
  <2>11. CASE w \notin ToSet(s) /\ w \in seen
    <3>1. next = State(s, on, seen, c)
      BY <1>4, <1>5, <2>11
    <3>2. SearchOK(s, on, seen, c, R2, F2, V, D)
      BY <1>1, <2>5, <2>8, <2>9, <2>11 DEF SearchOK
    <3>. QED
      BY <1>0, <1>2, <2>7, <3>1, <3>2 DEF Moves
  <2>12. CASE w \notin ToSet(s) /\ w \notin seen
    <3>1. PICK s2 : s2 = Append(s, w)
      OBVIOUS
    <3>2. PICK l2 : l2 = Append(on, sortResourceURIs(Out(w, D)))
      OBVIOUS
    <3>3. next = State(s2, l2, seen, c)
      BY <1>4, <1>5, <2>12, <3>1, <3>2
    <3>4. WalkOK(s2, seen, V, D) /\ ListsOK(s2, l2, V) /\ LookedAt(s2, l2, seen, R2, F2, V, D)
      BY <1>1, <2>5, <2>6, <2>12, <3>1, <3>2, CallKeeps
    <3>5. SearchOK(s2, l2, seen, c, R2, F2, V, D)
      BY <1>1, <2>8, <2>9, <3>1, <3>4 DEF SearchOK
    <3>. QED
      BY <1>0, <1>2, <2>7, <3>3, <3>5 DEF Moves
  <2>. QED
    BY <2>10, <2>11, <2>12
<1>. QED
  BY <1>3, <1>4

(* How much of the search is behind it.                                      *)
Behind(seen, R, F) == Cardinality(seen) + Cardinality(R) + Cardinality(F)

(* So one more of them is behind the search.                                 *)
LEMMA OneMoreCounts ==
    ASSUME NEW V, NEW D, IsFiniteSet(V), IsFiniteSet(D),
           NEW seen \in SUBSET V, NEW R \in SUBSET V, NEW F \in SUBSET D,
           NEW seen2, NEW R2, NEW F2, OneMore(seen, R, F, seen2, R2, F2, V, D)
    PROVE  Behind(seen2, R2, F2) = Behind(seen, R, F) + 1 /\ Behind(seen, R, F) \in Nat
<1>1. IsFiniteSet(seen) /\ IsFiniteSet(R) /\ IsFiniteSet(F)
  BY FS_Subset
<1>2. PICK a, b, e \in Nat : a = Cardinality(seen) /\ b = Cardinality(R) /\ e = Cardinality(F)
  BY <1>1, FS_CardinalityType
<1>3. Behind(seen, R, F) = a + b + e
  BY <1>2 DEF Behind
<1>4. \A v : v \notin seen => Cardinality(seen \cup {v}) = a + 1
  BY <1>1, <1>2, FS_AddElement
<1>5. \A v : v \notin R => Cardinality(R \cup {v}) = b + 1
  BY <1>1, <1>2, FS_AddElement
<1>6. \A v : v \notin F => Cardinality(F \cup {v}) = e + 1
  BY <1>1, <1>2, FS_AddElement
<1>7. CASE R2 = R /\ F2 = F /\ \E v \in V \ seen : seen2 = seen \cup {v}
  <2>1. Cardinality(seen2) = a + 1
    BY <1>4, <1>7
  <2>. QED
    BY <1>2, <1>3, <1>7, <2>1 DEF Behind
<1>8. CASE seen2 = seen /\ F2 = F /\ \E v \in V \ R : R2 = R \cup {v}
  <2>1. Cardinality(R2) = b + 1
    BY <1>5, <1>8
  <2>. QED
    BY <1>2, <1>3, <1>8, <2>1 DEF Behind
<1>9. CASE seen2 = seen /\ R2 = R /\ \E x \in D \ F : F2 = F \cup {x}
  <2>1. Cardinality(F2) = e + 1
    BY <1>6, <1>9
  <2>. QED
    BY <1>2, <1>3, <1>9, <2>1 DEF Behind
<1>. QED
  BY <1>7, <1>8, <1>9 DEF OneMore

(* What has visited every vertex, started from every vertex and followed     *)
(* every edge has finished.                                                  *)
LEMMA AllBehind ==
    ASSUME NEW V, NEW D, NEW s, NEW l, NEW seen, NEW c, NEW R, NEW F, IsFiniteSet(V), IsFiniteSet(D),
           SearchOK(s, l, seen, c, R, F, V, D),
           Behind(seen, R, F) = 2 * Cardinality(V) + Cardinality(D)
    PROVE  Finished(s, l)
<1>1. /\ s \in Seq(V) /\ seen \subseteq V /\ ToSet(s) \cap seen = {}
      /\ l \in Seq(Seq(V)) /\ Len(l) = Len(s) + 1
      /\ R = V \ ToSet(l[1]) /\ F \subseteq D
  BY DEF SearchOK, WalkOK, ListsOK, LookedAt
<1>2. /\ Cardinality(seen) <= Cardinality(V) /\ (Cardinality(seen) = Cardinality(V) => seen = V)
      /\ Cardinality(R) <= Cardinality(V) /\ (Cardinality(R) = Cardinality(V) => R = V)
      /\ Cardinality(F) <= Cardinality(D)
      /\ IsFiniteSet(seen) /\ IsFiniteSet(R) /\ IsFiniteSet(F)
  <2>1. seen \in SUBSET V /\ R \in SUBSET V /\ F \in SUBSET D
    BY <1>1
  <2>. QED
    BY <2>1, FS_Subset
<1>3. PICK n, d, a, b, e \in Nat : /\ n = Cardinality(V) /\ d = Cardinality(D)
                                  /\ a = Cardinality(seen) /\ b = Cardinality(R) /\ e = Cardinality(F)
  BY <1>2, FS_CardinalityType
<1>4. a + b + e = 2 * n + d /\ a <= n /\ b <= n /\ e <= d
  BY <1>2, <1>3 DEF Behind
<1>5. a = n /\ b = n
  BY <1>4
<1>6. seen = V /\ R = V
  BY <1>2, <1>3, <1>5
<1>7. s = <<>>
  <2>1. \A k \in 1 .. Len(s) : s[k] \in V /\ s[k] \in ToSet(s)
    BY <1>1 DEF ToSet
  <2>2. \A k \in 1 .. Len(s) : FALSE
    BY <1>1, <1>6, <2>1
  <2>. QED
    BY <1>1, <2>2
<1>8. l[1] = <<>>
  <2>1. l[1] \in Seq(V)
    BY <1>1, <1>7
  <2>2. PICK q \in Seq(V) : q = l[1]
    BY <2>1
  <2>3. \A k \in 1 .. Len(q) : q[k] \in V /\ q[k] \in ToSet(q)
    BY DEF ToSet
  <2>4. \A k \in 1 .. Len(q) : FALSE
    BY <1>1, <1>6, <2>2, <2>3
  <2>. QED
    BY <2>2, <2>4
<1>9. Last(l) = l[1]
  BY <1>1, <1>7 DEF Last
<1>. QED
  BY <1>7, <1>8, <1>9 DEF Finished

(* A search that has finished has visited every vertex, and taking out what  *)
(* closed its cycles leaves no cycle.                                        *)
LEMMA FinishedFinds ==
    ASSUME NEW V, NEW D, NEW s, NEW l, NEW seen, NEW c, NEW R, NEW F,
           SearchOK(s, l, seen, c, R, F, V, D), Finished(s, l)
    PROVE  AreTheCycles(c, V, D)
<1>1. /\ l \in Seq(Seq(V)) /\ Len(l) = Len(s) + 1 /\ R = V \ ToSet(l[1]) /\ seen \subseteq V
      /\ Settled(s, seen, Closing(c), R, F, V) /\ NoWayRound(seen, D \ Closing(c))
      /\ \A i \in DOMAIN c : IsCycle(c[i], D)
  BY DEF SearchOK, WalkOK, ListsOK, LookedAt, CyclesOK
<1>2. s = <<>> /\ l[1] = <<>>
  BY <1>1 DEF Finished, Last
<1>3. R = V
  BY <1>1, <1>2 DEF ToSet
<1>4. seen = V
  BY <1>1, <1>2, <1>3 DEF Settled
<1>5. Cyclic(V, D \ Closing(c)) = {}
  <2>1. PICK E : E = D \ Closing(c)
    OBVIOUS
  <2>2. NoWayRound(V, E)
    BY <1>1, <1>4, <2>1
  <2>3. \A S \in SUBSET Depending(V, E) : (\A v \in S : \E w \in S : <<v, w>> \in E) => S = {}
    <3>1. Depending(V, E) \subseteq V
      BY DEF Depending
    <3>. QED
      BY <2>2, <3>1 DEF NoWayRound
  <2>4. Cyclic(V, E) = {}
    BY <2>3 DEF Cyclic
  <2>. QED
    BY <2>1, <2>4
<1>. QED
  BY <1>1, <1>5 DEF AreTheCycles, Closing

(* g[k] is the search after k steps.                                         *)
Start(V) == State(<<>>, <<sortResourceURIs(V)>>, {}, <<>>)
IsSearch(g, n, V, D) ==
    g = [k \in 0 .. n |-> IF k = 0 THEN Start(V) ELSE visit(g[k - 1], D)]

(* There is such a function, for any number of steps.                        *)
LEMMA SearchExists ==
    ASSUME NEW V, NEW D, NEW n \in Nat
    PROVE  \E g : IsSearch(g, n, V, D)
<1>. DEFINE S == {k \in Nat : \E g : IsSearch(g, k, V, D)}
<1>1. 0 \in S
  <2>1. IsSearch([k \in 0 .. 0 |-> Start(V)], 0, V, D)
    BY DEF IsSearch
  <2>. QED
    BY <2>1
<1>2. ASSUME NEW m \in Nat, m \in S PROVE m + 1 \in S
  <2>1. PICK g : IsSearch(g, m, V, D)
    BY <1>2
  <2>. DEFINE last == visit(g[m], D)
              h == [k \in 0 .. m + 1 |-> IF k = m + 1 THEN last ELSE g[k]]
  <2>2. /\ \A k \in 0 .. m : h[k] = g[k]
        /\ h[m + 1] = last
        /\ h = [k \in 0 .. m + 1 |-> h[k]]
    OBVIOUS
  <2>. HIDE DEF h
  <2>3. ASSUME NEW k \in 0 .. m + 1
        PROVE  h[k] = IF k = 0 THEN Start(V) ELSE visit(h[k - 1], D)
    <3>1. CASE k = m + 1
      <4>1. k - 1 = m /\ k # 0 /\ m \in 0 .. m
        BY <3>1
      <4>2. h[k - 1] = g[m]
        BY <2>2, <4>1
      <4>. QED
        BY <2>2, <3>1, <4>1, <4>2
    <3>2. CASE k # m + 1
      <4>1. k \in 0 .. m /\ (k # 0 => k - 1 \in 0 .. m)
        BY <3>2
      <4>2. g[k] = IF k = 0 THEN Start(V) ELSE visit(g[k - 1], D)
        BY <2>1, <4>1 DEF IsSearch
      <4>3. h[k] = g[k] /\ (k # 0 => h[k - 1] = g[k - 1])
        BY <2>2, <4>1
      <4>. QED
        BY <4>2, <4>3
    <3>. QED
      BY <3>1, <3>2
  <2>4. IsSearch(h, m + 1, V, D)
    BY <2>2, <2>3 DEF IsSearch
  <2>. QED
    BY <2>4
<1>. HIDE DEF S
<1>3. n \in S
  BY <1>1, <1>2, SetInduction
<1>. QED
  BY <1>3 DEF S

(* detectCycles gives the cycles of the search after all its steps.          *)
LEMMA DetectIsSearch ==
    ASSUME NEW V, NEW D, NEW steps \in Nat, steps = 2 * Cardinality(V) + Cardinality(D)
    PROVE  \E g : IsSearch(g, steps, V, D) /\ detectCycles(V, D) = g[steps].cycles
<1>. DEFINE n == 2 * Cardinality(V) + Cardinality(D)
            start == [stack |-> <<>>, left |-> <<sortResourceURIs(V)>>,
                      visited |-> {}, cycles |-> <<>>]
            G(f) == [k \in 0 .. n |-> IF k = 0 THEN start ELSE visit(f[k - 1], D)]
            f == CHOOSE h : h = G(h)
<1>1. detectCycles(V, D) = f[n].cycles
  BY DEF detectCycles
<1>2. start = Start(V)
  BY DEF Start, State
<1>3. n = steps
  OBVIOUS
<1>. HIDE DEF n, start
<1>4. \E g : g = G(g)
  <2>1. PICK g : IsSearch(g, steps, V, D)
    BY SearchExists
  <2>2. g = G(g)
    BY <1>2, <1>3, <2>1 DEF IsSearch
  <2>. HIDE DEF G
  <2>. QED
    BY <2>2
<1>5. f = G(f)
  <2>. HIDE DEF G
  <2>. QED
    BY <1>4
<1>. HIDE DEF f
<1>6. IsSearch(f, steps, V, D)
  BY <1>2, <1>3, <1>5 DEF IsSearch
<1>. QED
  BY <1>1, <1>3, <1>6

(* A search with so much behind it.                                          *)
Reached(st, k, V, D) ==
    \E s, l, seen, c, R, F :
        /\ st = State(s, l, seen, c) /\ SearchOK(s, l, seen, c, R, F, V, D)
        /\ Finished(s, l) \/ Behind(seen, R, F) = k

(* The search starts with nothing behind it.                                 *)
LEMMA SearchStarts ==
    ASSUME NEW V, NEW D, UriOrder \in Seq(ToSet(UriOrder)), NoRepeat(UriOrder),
           V \subseteq ToSet(UriOrder), D \subseteq V \X V
    PROVE  Reached(Start(V), 0, V, D)
<1>1. PICK list : list = sortResourceURIs(V)
  OBVIOUS
<1>2. list \in Seq(V) /\ ToSet(list) = V /\ NoRepeat(list)
  BY <1>1, SortedFacts
<1>3. PICK l : l = <<list>>
  OBVIOUS
<1>4. l \in Seq(Seq(V)) /\ Len(l) = 1 /\ l[1] = list
  BY <1>2, <1>3
<1>5. PICK s : s = <<>>
  OBVIOUS
<1>6. s \in Seq(V) /\ Len(s) = 0 /\ DOMAIN s = {} /\ ToSet(s) = {}
  BY <1>5 DEF ToSet
<1>7. WalkOK(s, {}, V, D)
  BY <1>6 DEF WalkOK, NoRepeat, Chained
<1>8. ListsOK(s, l, V)
  BY <1>2, <1>4, <1>6 DEF ListsOK
<1>9. LookedAt(s, l, {}, {}, {}, V, D)
  BY <1>2, <1>4, <1>6 DEF LookedAt
<1>10. Settled(s, {}, Closing(<<>>), {}, {}, V)
  BY DEF Settled
<1>11. NoWayRound({}, D \ Closing(<<>>))
  BY DEF NoWayRound
<1>12. CyclesOK(<<>>, V, D)
  BY DEF CyclesOK
<1>13. SearchOK(s, l, {}, <<>>, {}, {}, V, D)
  BY <1>7, <1>8, <1>9, <1>10, <1>11, <1>12 DEF SearchOK
<1>14. Behind({}, {}, {}) = 0
  BY FS_EmptySet DEF Behind
<1>15. Start(V) = State(s, l, {}, <<>>)
  BY <1>1, <1>3, <1>5 DEF Start
<1>. QED
  BY <1>13, <1>14, <1>15 DEF Reached

(* Each step puts one more of what there is behind it.                       *)
LEMMA SearchGoesOn ==
    ASSUME NEW V, NEW D, UriOrder \in Seq(ToSet(UriOrder)), NoRepeat(UriOrder),
           V \subseteq ToSet(UriOrder), D \subseteq V \X V, IsFiniteSet(V), IsFiniteSet(D),
           NEW st, NEW k \in Nat, Reached(st, k, V, D)
    PROVE  Reached(visit(st, D), k + 1, V, D)
<1>1. PICK s, l, seen, c, R, F :
        /\ st = State(s, l, seen, c) /\ SearchOK(s, l, seen, c, R, F, V, D)
        /\ Finished(s, l) \/ Behind(seen, R, F) = k
  BY DEF Reached
<1>2. PICK next : next = visit(st, D)
  OBVIOUS
<1>3. CASE Finished(s, l)
  <2>1. PICK w, on : w = Head(Last(l)) /\ on = Append(Front(l), Tail(Last(l)))
    OBVIOUS
  <2>2. NextIs(next, st, s, l, seen, c, w, on, D)
    BY <1>1, <1>2, <2>1, VisitSteps
  <2>3. next = st
    BY <1>3, <2>2 DEF NextIs
  <2>. QED
    BY <1>1, <1>2, <1>3, <2>3 DEF Reached
<1>4. CASE ~Finished(s, l)
  <2>1. Moves(next, seen, R, F, V, D)
    BY <1>1, <1>2, <1>4, SearchMoves
  <2>2. PICK s2, l2, seen2, c2, R2, F2 :
          /\ next = State(s2, l2, seen2, c2)
          /\ SearchOK(s2, l2, seen2, c2, R2, F2, V, D)
          /\ OneMore(seen, R, F, seen2, R2, F2, V, D)
    BY <2>1 DEF Moves
  <2>3. seen \in SUBSET V /\ R \in SUBSET V /\ F \in SUBSET D
    BY <1>1 DEF SearchOK, WalkOK, LookedAt
  <2>4. Behind(seen2, R2, F2) = Behind(seen, R, F) + 1
    BY <2>2, <2>3, OneMoreCounts
  <2>5. Behind(seen2, R2, F2) = k + 1
    BY <1>1, <1>4, <2>4
  <2>. QED
    BY <1>2, <2>2, <2>5 DEF Reached
<1>. QED
  BY <1>3, <1>4

(* detectCycles finds the cycles, of any graph.                              *)
LEMMA DetectsTheCycles ==
    ASSUME NEW V, NEW D, NEW T, GraphOK(V, D, T)
    PROVE  AreTheCycles(detectCycles(V, D), V, D)
<1>1. /\ UriOrder \in Seq(ToSet(UriOrder)) /\ NoRepeat(UriOrder)
      /\ V \subseteq ToSet(UriOrder) /\ D \subseteq V \X V
  BY DEF GraphOK
<1>2. IsFiniteSet(V) /\ IsFiniteSet(D)
  <2>1. IsFiniteSet(ToSet(UriOrder)) /\ V \in SUBSET ToSet(UriOrder)
    BY <1>1, ListSize
  <2>2. IsFiniteSet(V)
    BY <2>1, FS_Subset
  <2>3. IsFiniteSet(V \X V) /\ D \in SUBSET (V \X V)
    BY <1>1, <2>2, FS_Product
  <2>4. IsFiniteSet(D)
    BY <2>3, FS_Subset
  <2>. QED
    BY <2>2, <2>4
<1>3. PICK n \in Nat : n = 2 * Cardinality(V) + Cardinality(D)
  <2>1. Cardinality(V) \in Nat /\ Cardinality(D) \in Nat
    BY <1>2, FS_CardinalityType
  <2>. QED
    BY <2>1
<1>4. PICK g : IsSearch(g, n, V, D) /\ detectCycles(V, D) = g[n].cycles
  BY <1>3, DetectIsSearch
<1>5. g[0] = Start(V) /\ \A k \in 1 .. n : g[k] = visit(g[k - 1], D)
  BY <1>4 DEF IsSearch
<1>. DEFINE S == {k \in Nat : k <= n => Reached(g[k], k, V, D)}
<1>6. 0 \in S
  BY <1>1, <1>5, SearchStarts
<1>7. ASSUME NEW k \in Nat, k \in S PROVE k + 1 \in S
  <2>. SUFFICES ASSUME k + 1 <= n PROVE Reached(g[k + 1], k + 1, V, D)
    OBVIOUS
  <2>1. k <= n /\ k + 1 \in 1 .. n /\ (k + 1) - 1 = k
    OBVIOUS
  <2>2. PICK st : st = g[k]
    OBVIOUS
  <2>3. Reached(st, k, V, D)
    BY <1>7, <2>1, <2>2
  <2>4. g[k + 1] = visit(st, D)
    BY <1>5, <2>1, <2>2
  <2>. QED
    BY <1>1, <1>2, <2>3, <2>4, SearchGoesOn
<1>8. n \in S
  <2>. HIDE DEF S
  <2>. QED
    BY <1>6, <1>7, SetInduction
<1>9. PICK st : st = g[n]
  OBVIOUS
<1>10. Reached(st, n, V, D)
  BY <1>8, <1>9
<1>11. PICK s, l, seen, c, R, F :
         /\ st = State(s, l, seen, c) /\ SearchOK(s, l, seen, c, R, F, V, D)
         /\ Finished(s, l) \/ Behind(seen, R, F) = n
  BY <1>10 DEF Reached
<1>12. Finished(s, l)
  BY <1>2, <1>3, <1>11, AllBehind
<1>13. AreTheCycles(c, V, D)
  BY <1>11, <1>12, FinishedFinds
<1>14. detectCycles(V, D) = c
  BY <1>4, <1>9, <1>11 DEF State
<1>. QED
  BY <1>13, <1>14

-----------------------------------------------------------------------------
(* The invariant.                                                            *)

(* The parts of the index's types.                                           *)
LEMMA TypeParts ==
    IndexTypeOK <=>
        /\ text \in [Docs -> Texts \cup {Nil}]
        /\ home \in [Docs -> UNION {Homes[d] : d \in Docs}] /\ \A d \in Docs : home[d] \in Homes[d]
        /\ symbols \subseteq SymbolSet /\ OneInSlot(symbols)
        /\ hash \in [Keys -> Seq(Listing)]
        /\ sources \in [Types -> [Docs -> Nat]] /\ alias \in [Types -> Nat]
        /\ lru \in Seq(Docs) /\ bytes \in [Docs -> Nat] /\ usage \in Nat
        /\ GraphTypeOK
BY DEF IndexTypeOK, OneInSlot, Listing, GraphTypeOK

(* The tables and the account give theirs.                                   *)
LEMMA TypesFollow ==
    ASSUME TablesOK(symbols, hash, text), AccountOK(lru, bytes, usage)
    PROVE  /\ symbols \subseteq SymbolSet /\ OneInSlot(symbols)
           /\ hash \in [Keys -> Seq(Listing)]
           /\ lru \in Seq(Docs) /\ bytes \in [Docs -> Nat] /\ usage \in Nat
<1>1. lru \in Seq(Docs) /\ bytes \in [Docs -> Nat] /\ usage = BytesOf(lru, bytes)
  BY DEF AccountOK
<1>2. usage \in Nat
  BY <1>1, BytesSame
<1>. QED
  BY <1>1, <1>2 DEF TablesOK

(* Nothing is indexed at first.                                              *)
LEMMA IndexInit ==
    ASSUME IndexConstantsOK, Init
    PROVE  IndexInv
<1>1. /\ text = [d \in Docs |-> Nil]
      /\ home \in [Docs -> UNION {Homes[d] : d \in Docs}] /\ \A d \in Docs : home[d] \in Homes[d]
      /\ symbols = {} /\ hash = [k \in Keys |-> <<>>]
      /\ sources = [t \in Types |-> [d \in Docs |-> 0]] /\ alias = [t \in Types |-> 0]
      /\ lru = <<>> /\ usage = 0 /\ bytes = [d \in Docs |-> 0]
      /\ scopes = {} /\ named = {} /\ deps = {} /\ dependents = {} /\ vertices = {}
      /\ cached = [r \in Roots |-> [deps |-> {}, dependents |-> {}]]
  BY DEF Init
<1>2. TablesOK(symbols, hash, text)
  <2>1. <<>> \in Seq(Listing) /\ ToSet(<<>>) = {} /\ NoRepeat(<<>>)
    BY DEF ToSet, NoRepeat
  <2>2. \A more : Ordered(<<>>, more)
    BY DEF Ordered
  <2>3. \A k \in Keys : ListOK({}, k, <<>>)
    BY <2>1, <2>2 DEF ListOK
  <2>4. hash \in [Keys -> Seq(Listing)] /\ \A k \in Keys : hash[k] = <<>>
    BY <1>1, <2>1
  <2>. QED
    BY <1>1, <2>3, <2>4 DEF TablesOK, OneInSlot
<1>3. AccountOK(lru, bytes, usage)
  <2>1. <<>> \in Seq(Docs) /\ ToSet(<<>>) = {} /\ NoRepeat(<<>>)
    BY DEF ToSet, NoRepeat
  <2>2. bytes \in [Docs -> Nat] /\ \A d \in Docs : bytes[d] = 0
    BY <1>1
  <2>3. 0 <= MaxMemory
    <3>1. MaxMemory \in Nat
      BY DEF IndexConstantsOK
    <3>. QED
      BY <3>1
  <2>. QED
    BY <1>1, <2>1, <2>2, <2>3, BytesNone DEF AccountOK
<1>4. AliasBacked
  <2>1. \A t \in Types : PathsOf(sources, t) = {}
    BY <1>1 DEF PathsOf
  <2>. QED
    BY <1>1, <2>1 DEF AliasBacked
<1>5. SoleDefinitionFound
  BY <1>1 DEF SoleDefinitionFound
<1>6. EdgesCached
  BY <1>1 DEF EdgesCached
<1>7. GraphTypeOK /\ GraphClosed
  BY <1>1 DEF GraphTypeOK, GraphClosed
<1>8. text \in [Docs -> Texts \cup {Nil}] /\ sources \in [Types -> [Docs -> Nat]] /\ alias \in [Types -> Nat]
  BY <1>1
<1>9. IndexTypeOK
  BY <1>1, <1>2, <1>3, <1>7, <1>8, TypeParts, TypesFollow
<1>. QED
  BY <1>2, <1>3, <1>4, <1>5, <1>6, <1>7, <1>9 DEF IndexInv

(* What the next state has to show.                                          *)
LEMMA IndexNext ==
    ASSUME text' \in [Docs -> Texts \cup {Nil}],
           home' \in [Docs -> UNION {Homes[d] : d \in Docs}], \A d \in Docs : home'[d] \in Homes[d],
           TablesOK(symbols', hash', text'), SoleDefinitionFound',
           sources' \in [Types -> [Docs -> Nat]], alias' \in [Types -> Nat], AliasBacked',
           AccountOK(lru', bytes', usage'), GraphTypeOK', GraphClosed', EdgesCached'
    PROVE  IndexInv'
<1>1. /\ symbols' \subseteq SymbolSet /\ OneInSlot(symbols')
      /\ hash' \in [Keys -> Seq(Listing)]
  BY DEF TablesOK
<1>2. lru' \in Seq(Docs) /\ bytes' \in [Docs -> Nat] /\ usage' \in Nat
  <2>1. lru' \in Seq(Docs) /\ bytes' \in [Docs -> Nat] /\ usage' = BytesOf(lru', bytes')
    BY DEF AccountOK
  <2>. QED
    BY <2>1, BytesSame
<1>3. IndexTypeOK'
  BY <1>1, <1>2 DEF IndexTypeOK, OneInSlot, Listing, GraphTypeOK
<1>. QED
  BY <1>3 DEF IndexInv

(* Every step keeps it.                                                      *)
LEMMA IndexStep ==
    ASSUME IndexConstantsOK, IndexInv, [Next]_vars
    PROVE  IndexInv'
<1>1. /\ IndexTypeOK /\ TablesOK(symbols, hash, text) /\ SoleDefinitionFound /\ AliasBacked
      /\ AccountOK(lru, bytes, usage) /\ GraphClosed /\ EdgesCached
  BY DEF IndexInv
<1>2. /\ text \in [Docs -> Texts \cup {Nil}]
      /\ home \in [Docs -> UNION {Homes[d] : d \in Docs}] /\ \A d \in Docs : home[d] \in Homes[d]
      /\ sources \in [Types -> [Docs -> Nat]] /\ alias \in [Types -> Nat] /\ GraphTypeOK
  BY <1>1, TypeParts
<1>3. ASSUME NEW d \in Docs, NEW t \in Texts, finalizeDocumentUpdate(d, t) PROVE IndexInv'
  <2>1. TablesOK(symbols', hash', text') /\ SoleDefinitionFound'
    BY <1>3, FinalizeTables
  <2>2. AliasBacked' /\ sources' \in [Types -> [Docs -> Nat]] /\ alias' \in [Types -> Nat]
    BY <1>3, FinalizeAliases
  <2>3. AccountOK(lru', bytes', usage')
    <3>1. SetSource(d, t.size) /\ t.size \in Nat \ {0}
      BY <1>3, ConstantFacts DEF finalizeDocumentUpdate
    <3>. QED
      BY <1>1, <3>1, SetSourceAccounts
  <2>4. GraphTypeOK' /\ GraphClosed' /\ EdgesCached'
    BY <1>1, <1>2, <1>3, FinalizeGraph
  <2>5. text' = [text EXCEPT ![d] = t] /\ home' = home
    BY <1>3 DEF finalizeDocumentUpdate
  <2>6. text' \in [Docs -> Texts \cup {Nil}]
    BY <1>2, <2>5
  <2>. QED
    BY <1>2, <2>1, <2>2, <2>3, <2>4, <2>5, <2>6, IndexNext
<1>4. ASSUME NEW d \in Docs, clearDocument(d) PROVE IndexInv'
  <2>1. TablesOK(symbols', hash', text') /\ SoleDefinitionFound'
    BY <1>4, ClearTables
  <2>2. AliasBacked' /\ sources' \in [Types -> [Docs -> Nat]] /\ alias' \in [Types -> Nat]
    BY <1>4, ClearAliases
  <2>3. AccountOK(lru', bytes', usage')
    <3>1. EvictSource(d)
      BY <1>4 DEF clearDocument, PruneResource
    <3>. QED
      BY <1>1, <3>1, EvictSourceAccounts
  <2>4. GraphTypeOK' /\ GraphClosed' /\ EdgesCached'
    BY <1>1, <1>2, <1>4, ClearGraph
  <2>5. text' = [text EXCEPT ![d] = Nil] /\ home' = home
    BY <1>4 DEF clearDocument
  <2>6. text' \in [Docs -> Texts \cup {Nil}]
    BY <1>2, <2>5
  <2>. QED
    BY <1>2, <2>1, <2>2, <2>3, <2>4, <2>5, <2>6, IndexNext
<1>5. ASSUME UNCHANGED <<text, tableVars, aliasVars, memoryVars>>
      PROVE  /\ text' \in [Docs -> Texts \cup {Nil}]
             /\ TablesOK(symbols', hash', text') /\ SoleDefinitionFound'
             /\ AliasBacked' /\ sources' \in [Types -> [Docs -> Nat]] /\ alias' \in [Types -> Nat]
             /\ AccountOK(lru', bytes', usage')
  <2>1. /\ text' = text /\ symbols' = symbols /\ hash' = hash /\ displaced' = displaced
        /\ sources' = sources /\ alias' = alias
        /\ lru' = lru /\ bytes' = bytes /\ usage' = usage
    BY <1>5 DEF tableVars, aliasVars, memoryVars
  <2>2. SoleDefinitionFound'
    BY <1>1, <2>1 DEF SoleDefinitionFound
  <2>3. AliasBacked'
    <3>1. \A y \in Types :
            /\ alias[y] # 0 <=> PathsOf(sources, y) # {}
            /\ alias[y] # 0 => alias[y] \in PathsOf(sources, y)
            /\ \A x \in Docs : sources[y][x] = IF text[x] = Nil THEN 0 ELSE text[x].paths[y]
      BY <1>1 DEF AliasBacked
    <3>. QED
      BY <2>1, <3>1, AliasesNext
  <2>. QED
    BY <1>1, <1>2, <2>1, <2>2, <2>3
<1>6. ASSUME NEW d \in Docs, NEW h \in Homes[d], Reprofile(d, h) PROVE IndexInv'
  <2>1. UNCHANGED <<text, tableVars, aliasVars, memoryVars, scopes, graphVars>>
    BY <1>6 DEF Reprofile
  <2>2. GraphTypeOK' /\ GraphClosed' /\ EdgesCached'
    <3>1. /\ scopes' = scopes /\ named' = named /\ deps' = deps /\ dependents' = dependents
          /\ vertices' = vertices /\ cached' = cached
      BY <2>1 DEF graphVars
    <3>. QED
      BY <1>1, <1>2, <3>1, EdgesStay DEF GraphTypeOK, GraphClosed
  <2>3. home' = [home EXCEPT ![d] = h]
    BY <1>6 DEF Reprofile
  <2>4. h \in UNION {Homes[x] : x \in Docs}
    BY <1>6
  <2>5. home' \in [Docs -> UNION {Homes[x] : x \in Docs}]
    BY <1>2, <2>3, <2>4
  <2>6. \A x \in Docs : home'[x] \in Homes[x]
    BY <1>2, <1>6, <2>3
  <2>. QED
    BY <1>5, <2>1, <2>2, <2>5, <2>6, IndexNext
<1>7. ASSUME NEW r \in Roots, NEW ds \in ManifestDeps, RegisterFiveMResource(r, ds) PROVE IndexInv'
  <2>1. UNCHANGED <<text, home, tableVars, aliasVars, memoryVars>>
    BY <1>7 DEF RegisterFiveMResource
  <2>2. GraphTypeOK' /\ GraphClosed' /\ EdgesCached'
    BY <1>1, <1>2, <1>7, RegisterGraph
  <2>3. home' = home /\ UNCHANGED <<text, tableVars, aliasVars, memoryVars>>
    BY <2>1
  <2>. QED
    BY <1>2, <1>5, <2>2, <2>3, IndexNext
<1>8. CASE UNCHANGED vars
  <2>1. home' = home /\ UNCHANGED <<text, tableVars, aliasVars, memoryVars>>
    BY <1>8 DEF vars, tableVars, aliasVars, memoryVars
  <2>2. GraphTypeOK' /\ GraphClosed' /\ EdgesCached'
    <3>1. /\ scopes' = scopes /\ named' = named /\ deps' = deps /\ dependents' = dependents
          /\ vertices' = vertices /\ cached' = cached
      BY <1>8 DEF vars
    <3>. QED
      BY <1>1, <1>2, <3>1, EdgesStay DEF GraphTypeOK, GraphClosed
  <2>. QED
    BY <1>2, <1>5, <2>1, <2>2, IndexNext
<1>. QED
  BY <1>3, <1>4, <1>6, <1>7, <1>8 DEF Next

(* IndexInv gives what the index promises.                                   *)
LEMMA IndexImplies ==
    ASSUME IndexInv
    PROVE  IndexCurrent /\ AccountExact /\ EdgesCached
<1>1. /\ IndexTypeOK /\ TablesOK(symbols, hash, text) /\ SoleDefinitionFound /\ AliasBacked
      /\ AccountOK(lru, bytes, usage) /\ GraphClosed /\ EdgesCached
  BY DEF IndexInv
<1>2. EntriesCurrent
  <2>1. ASSUME NEW e \in symbols
        PROVE  /\ text[e.doc] # Nil
               /\ [name |-> e.name, key |-> e.key, node |-> e.node] \in ToSet(text[e.doc].defs)
    BY <1>1 DEF TablesOK, Defined, Definition
  <2>2. ASSUME NEW k \in Keys, NEW i \in DOMAIN hash[k]
        PROVE  /\ \E e \in symbols : e.key = k /\ Same(e, hash[k][i])
               /\ \A j \in DOMAIN hash[k] : Same(hash[k][i], hash[k][j]) => i = j
    <3>1. PICK list : list = hash[k]
      OBVIOUS
    <3>2. list \in Seq(Listing) /\ ToSet(list) \subseteq Held(symbols, k) /\ NoRepeat(list)
      BY <1>1, <3>1 DEF TablesOK, ListOK
    <3>3. i \in DOMAIN list /\ \A j \in DOMAIN list : list[j] \in Listing
      BY <2>2, <3>1, <3>2
    <3>4. list[i] \in ToSet(list)
      BY <3>3 DEF ToSet
    <3>5. PICK e \in symbols : e.key = k /\ list[i] = Listed(e)
      BY <3>2, <3>4 DEF Held
    <3>6. e \in SymbolSet
      BY <1>1 DEF TablesOK
    <3>7. Same(e, list[i])
      BY <3>5, <3>6, SymbolFacts DEF Same
    <3>8. ASSUME NEW j \in DOMAIN list, Same(list[i], list[j]) PROVE i = j
      <4>1. list[i] = list[j]
        BY <3>3, <3>8 DEF Same, Listing
      <4>. QED
        BY <3>2, <3>3, <4>1 DEF NoRepeat
    <3>. QED
      BY <3>1, <3>5, <3>7, <3>8
  <2>. QED
    BY <2>1, <2>2 DEF EntriesCurrent
<1>3. AccountExact
  <2>1. \A d \in Docs : d \in ToSet(lru) <=> \E i \in DOMAIN lru : lru[i] = d
    BY DEF ToSet
  <2>. QED
    BY <1>1, <2>1 DEF AccountExact, AccountOK, NoRepeat
<1>. QED
  BY <1>1, <1>2, <1>3 DEF IndexCurrent

(* The graph that IndexInv describes is one TopologicalSort orders, and      *)
(* detectCycles searches.                                                    *)
LEMMA OrderFollows ==
    ASSUME IndexConstantsOK, IndexInv
    PROVE  DependenciesOrdered /\ CyclesReported
<1>1. /\ deps \subseteq Names \X Names /\ dependents \subseteq Names \X Names
      /\ vertices \subseteq Docs \cup Roots \cup Names
  BY TypeParts DEF IndexInv, GraphTypeOK
<1>2. deps \subseteq vertices \X vertices
  BY DEF IndexInv, GraphClosed
<1>3. \A v, w \in Names : <<v, w>> \in deps <=> <<w, v>> \in dependents
  BY DEF IndexInv, EdgesCached
<1>4. \A u, v \in vertices : <<u, v>> \in deps <=> <<v, u>> \in dependents
  BY <1>1, <1>3
<1>5. /\ UriOrder \in Seq(ToSet(UriOrder)) /\ NoRepeat(UriOrder)
      /\ ToSet(UriOrder) = Docs \cup Roots \cup Names
  <2>1. /\ UriOrder \in Seq(Docs \cup Roots \cup Names)
        /\ ToSet(UriOrder) = Docs \cup Roots \cup Names /\ IsInjective(UriOrder)
    BY DEF IndexConstantsOK
  <2>2. NoRepeat(UriOrder)
    BY <2>1 DEF IsInjective, NoRepeat
  <2>. QED
    BY <2>1, <2>2
<1>6. GraphOK(vertices, deps, dependents)
  BY <1>1, <1>2, <1>4, <1>5 DEF GraphOK
<1>. QED
  BY <1>6, SortIsTopological, DetectsTheCycles DEF DependenciesOrdered, CyclesReported

(* IndexInv holds always.                                                    *)
THEOREM IndexInvHolds == Spec => []IndexInv
<1>1. Init => IndexInv
  BY IndexConstantsOK, IndexInit
<1>2. IndexInv /\ [Next]_vars => IndexInv'
  BY IndexConstantsOK, IndexStep
<1>. QED
  BY <1>1, <1>2, PTL DEF Spec

(* What the index answers is what the documents say now: nothing stale is    *)
(* listed, nothing listed twice, no name lost that nobody overwrote, and     *)
(* every class alias has a declaration behind it.                            *)
THEOREM IndexCurrentHolds == Spec => []IndexCurrent
<1>1. IndexInv => IndexCurrent
  BY IndexImplies
<1>. QED
  BY <1>1, IndexInvHolds, PTL

(* The memory account is the sum of the sources held and within its limit    *)
(* after every call of SetSource and EvictSource.                            *)
THEOREM AccountExactHolds == Spec => []AccountExact
<1>1. IndexInv => AccountExact
  BY IndexImplies
<1>. QED
  BY <1>1, IndexInvHolds, PTL

(* The incremental refresh of RegisterFiveMResource leaves every resource    *)
(* scope with exactly the edges of the graph.                                *)
THEOREM EdgesCachedHolds == Spec => []EdgesCached
<1>1. IndexInv => EdgesCached
  BY IndexImplies
<1>. QED
  BY <1>1, IndexInvHolds, PTL

(* TopologicalSort lists every resource once, after everything it depends on *)
(* and before those that wait on a cycle, whatever was registered, replaced  *)
(* and forgotten before.                                                     *)
THEOREM DependenciesOrderedHolds == Spec => []DependenciesOrdered
<1>1. IndexInv => DependenciesOrdered
  BY IndexConstantsOK, OrderFollows
<1>. QED
  BY <1>1, IndexInvHolds, PTL

(* Resources come after everything they depend on, the circular dependencies *)
(* that detectCycles reports are cycles and leave none out that shares no    *)
(* edge with those that close them, and the scopes show the same edges.      *)
THEOREM DependenciesFirstHolds == Spec => []DependenciesFirst
<1>1. IndexInv => EdgesCached
  BY DEF IndexInv
<1>2. IndexInv => DependenciesOrdered /\ CyclesReported
  BY IndexConstantsOK, OrderFollows
<1>3. IndexInv => DependenciesFirst
  BY <1>1, <1>2 DEF DependenciesFirst
<1>. QED
  BY <1>3, IndexInvHolds, PTL
=============================================================================
