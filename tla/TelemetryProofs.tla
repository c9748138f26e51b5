-------------------------- MODULE TelemetryProofs --------------------------
(* LUGO_TRACE_MAX_BYTES bounds the journal and opting out is complete, for   *)
(* any number of processes, any event sizes and any limit.                   *)
(* TelemetryInv is inductive.  What it adds to the two properties: only the  *)
(* last line of the file may want its newline, and then there is a byte left *)
(* for it; and no process that still writes to the file at the path holds a  *)
(* line of a process whose purge is through.                                 *)
EXTENDS Telemetry, FiniteSetTheorems, SequenceTheorems, TLAPS

Entry == [by: Procs, size: Nat, brace: BOOLEAN, whole: {TRUE}]

(* What a reload may make of the file: with the newline the last line wants, *)
(* it still fits.                                                            *)
FitsTerminated(lines) ==
    /\ \A i \in DOMAIN lines : i < Len(lines) => lines[i].whole
    /\ Bytes(lines) <= MaxBytes
    /\ lines # <<>> /\ ~lines[Len(lines)].whole => Bytes(lines) + 1 <= MaxBytes

NoLineBy(p, lines) == \A i \in DOMAIN lines : lines[i].by # p

Bounded ==
    /\ \A p \in Procs : Bytes(entries[p]) <= MaxBytes
    /\ file # Missing => FitsTerminated(file)

(* No line of p is in the file, or where a rewriting of it would come from.  *)
NoneLeft(p) ==
    /\ file # Missing => NoLineBy(p, file)
    /\ \A q \in Procs : handle[q] = "path" => NoLineBy(p, entries[q])

(* A process that has opted out is off, and one whose purge is through has   *)
(* left nothing.                                                             *)
Out(p) ==
    /\ tel[p].optedOut => ~tel[p].enabled
    /\ optOut[p] # "no" => tel[p].optedOut
    /\ optOut[p] = "done" => entries[p] = <<>> /\ NoneLeft(p)

TelemetryInv == TelemetryTypeOK /\ Bounded /\ \A p \in Procs : Out(p)

(* What a step may do to a process that has opted out and goes on.           *)
StaysOut ==
    \A p \in Procs : p \in up /\ p \in up' /\ tel[p].optedOut =>
        tel'[p].optedOut /\ entries'[p] \in {entries[p], <<>>}

-----------------------------------------------------------------------------
(* The bytes of a journal.                                                   *)

(* Induction on the naturals, over a set: by well-foundedness a set that is  *)
(* not all of Nat misses a least number.                                     *)
LEMMA SetInduction ==
    ASSUME NEW S, 0 \in S, \A n \in Nat : n \in S => n + 1 \in S
    PROVE  \A n \in Nat : n \in S
<1>. DEFINE R == OpToRel(<, Nat)
<1>1. IsWellFoundedOn(R, Nat)
  BY NatLessThanWellFounded
<1>2. \A m, n \in Nat : m < n => <<m, n>> \in R
  BY DEF OpToRel
<1>. HIDE DEF R
<1>3. SUFFICES ASSUME Nat \ S # {} PROVE FALSE
  OBVIOUS
<1>4. PICK n \in Nat \ S : \A m \in Nat \ S : <<m, n>> \notin R
  <2>1. Nat \ S \subseteq Nat
    OBVIOUS
  <2>. QED
    BY <1>1, <1>3, <2>1, WFMin
<1>5. n # 0 /\ n - 1 \in Nat /\ n - 1 < n /\ n = (n - 1) + 1
  BY <1>4
<1>6. <<n - 1, n>> \in R
  BY <1>2, <1>4, <1>5
<1>7. n - 1 \in S
  BY <1>4, <1>5, <1>6
<1>. QED
  BY <1>4, <1>5, <1>7

(* g[k] is the number of bytes of the first k lines.                         *)
IsSums(g, lines) ==
    /\ g \in [0 .. Len(lines) -> Nat]
    /\ g[0] = 0
    /\ \A i \in 1 .. Len(lines) : g[i] = g[i - 1] + lines[i].size

(* Every line of a journal has a size.                                       *)
LEMMA LineSizes ==
    ASSUME NEW lines \in Seq(Line)
    PROVE  Len(lines) \in Nat /\ \A i \in 1 .. Len(lines) : lines[i].size \in Nat
<1>1. \A line \in Line : line.size \in Nat
  BY DEF Line
<1>2. Len(lines) \in Nat /\ \A i \in 1 .. Len(lines) : lines[i] \in Line
  OBVIOUS
<1>. QED
  BY <1>1, <1>2

(* The sums of n numbers exist.                                              *)
LEMMA SumsOfNumbers ==
    ASSUME NEW n \in Nat, NEW z \in [1 .. n -> Nat]
    PROVE  \E g \in [0 .. n -> Nat] : g[0] = 0 /\ \A i \in 1 .. n : g[i] = g[i - 1] + z[i]
<1>. DEFINE Good(g, k) == g[0] = 0 /\ \A i \in 1 .. k : g[i] = g[i - 1] + z[i]
<1>. DEFINE S == {k \in Nat : k <= n => \E g \in [0 .. k -> Nat] : Good(g, k)}
<1>1. 0 \in S
  <2>1. Good([i \in 0 .. 0 |-> 0], 0)
    OBVIOUS
  <2>. QED
    BY <2>1
<1>. HIDE DEF Good
<1>2. ASSUME NEW k \in Nat, k \in S PROVE k + 1 \in S
  <2>. SUFFICES ASSUME k + 1 <= n PROVE \E g \in [0 .. k + 1 -> Nat] : Good(g, k + 1)
    OBVIOUS
  <2>1. PICK g \in [0 .. k -> Nat] : Good(g, k)
    BY <1>2
  <2>2. z[k + 1] \in Nat /\ g[k] \in Nat
    OBVIOUS
  <2>. DEFINE h == [i \in 0 .. k + 1 |-> IF i <= k THEN g[i] ELSE g[k] + z[k + 1]]
  <2>3. h \in [0 .. k + 1 -> Nat]
    BY <2>2
  <2>4. h[0] = 0
    BY <2>1 DEF Good
  <2>5. \A i \in 1 .. k : h[i] = g[i] /\ h[i - 1] = g[i - 1]
    OBVIOUS
  <2>6. h[k + 1] = h[k] + z[k + 1]
    OBVIOUS
  <2>. HIDE DEF h
  <2>7. \A i \in 1 .. k + 1 : h[i] = h[i - 1] + z[i]
    <3>1. \A i \in 1 .. k : h[i] = h[i - 1] + z[i]
      BY <2>1, <2>5 DEF Good
    <3>2. (k + 1) - 1 = k /\ \A i \in 1 .. k + 1 : i \in 1 .. k \/ i = k + 1
      OBVIOUS
    <3>. QED
      BY <2>6, <3>1, <3>2
  <2>8. Good(h, k + 1)
    BY <2>4, <2>7 DEF Good
  <2>. QED
    BY <2>3, <2>8
<1>3. n \in S
  <2>. HIDE DEF S
  <2>. QED
    BY <1>1, <1>2, SetInduction
<1>4. PICK g \in [0 .. n -> Nat] : Good(g, n)
  BY <1>3
<1>. HIDE DEF S
<1>. QED
  BY <1>4 DEF Good

(* So there is such a function for every journal.                            *)
LEMMA SumsExist ==
    ASSUME NEW lines \in Seq(Line)
    PROVE  \E g : IsSums(g, lines)
<1>. DEFINE n == Len(lines)
            z == [i \in 1 .. n |-> lines[i].size]
<1>1. n \in Nat /\ z \in [1 .. n -> Nat] /\ \A i \in 1 .. n : z[i] = lines[i].size
  BY LineSizes
<1>. HIDE DEF z, n
<1>2. PICK g \in [0 .. n -> Nat] : g[0] = 0 /\ \A i \in 1 .. n : g[i] = g[i - 1] + z[i]
  BY <1>1, SumsOfNumbers
<1>3. \A i \in 1 .. n : g[i] = g[i - 1] + lines[i].size
  BY <1>1, <1>2
<1>. QED
  BY <1>2, <1>3 DEF IsSums, n

(* Its last value is Bytes.                                                  *)
LEMMA SumsAreBytes ==
    ASSUME NEW lines \in Seq(Line), NEW g, IsSums(g, lines)
    PROVE  Bytes(lines) = g[Len(lines)]
<1>. DEFINE n == Len(lines)
            F(f) == [k \in 0 .. n |-> IF k = 0 THEN 0 ELSE f[k - 1] + lines[k].size]
            f == CHOOSE h : h = F(h)
<1>1. n \in Nat /\ Bytes(lines) = f[n]
  BY DEF Bytes
<1>. HIDE DEF n
<1>2. g = F(g)
  <2>1. /\ g \in [0 .. n -> Nat] /\ g[0] = 0
        /\ \A i \in 1 .. n : g[i] = g[i - 1] + lines[i].size
    BY DEF IsSums, n
  <2>2. \A k \in 0 .. n : g[k] = IF k = 0 THEN 0 ELSE g[k - 1] + lines[k].size
    BY <1>1, <2>1
  <2>. QED
    BY <2>1, <2>2
<1>3. f = F(f)
  BY <1>2
<1>. HIDE DEF f
<1>4. /\ \A k \in 0 .. n : f[k] = IF k = 0 THEN 0 ELSE f[k - 1] + lines[k].size
      /\ \A k \in 0 .. n : g[k] = IF k = 0 THEN 0 ELSE g[k - 1] + lines[k].size
  BY <1>2, <1>3
<1>. DEFINE S == {k \in Nat : k <= n => f[k] = g[k]}
<1>5. 0 \in S
  BY <1>1, <1>4
<1>6. ASSUME NEW k \in Nat, k \in S PROVE k + 1 \in S
  BY <1>1, <1>4, <1>6
<1>7. n \in S
  <2>. HIDE DEF S
  <2>. QED
    BY <1>1, <1>5, <1>6, SetInduction
<1>. QED
  BY <1>1, <1>7 DEF n

(* A line adds its size.                                                     *)
LEMMA BytesAppend ==
    ASSUME NEW s \in Seq(Line), NEW e \in Line
    PROVE  /\ Append(s, e) \in Seq(Line)
           /\ Bytes(s) \in Nat
           /\ Bytes(Append(s, e)) = Bytes(s) + e.size
<1>. DEFINE t == Append(s, e)
<1>1. /\ t \in Seq(Line) /\ Len(t) = Len(s) + 1 /\ Len(s) \in Nat /\ t[Len(s) + 1] = e
      /\ \A i \in 1 .. Len(s) : t[i] = s[i]
  OBVIOUS
<1>. HIDE DEF t
<1>2. PICK g : IsSums(g, t)
  BY <1>1, SumsExist
<1>. DEFINE h == [k \in 0 .. Len(s) |-> g[k]]
<1>3. g[Len(s) + 1] = g[Len(s)] + e.size /\ g[Len(s)] \in Nat
  BY <1>1, <1>2 DEF IsSums
<1>4. IsSums(h, s)
  <2>1. h \in [0 .. Len(s) -> Nat] /\ h[0] = 0
    BY <1>1, <1>2 DEF IsSums
  <2>2. ASSUME NEW i \in 1 .. Len(s) PROVE h[i] = h[i - 1] + s[i].size
    <3>1. g[i] = g[i - 1] + t[i].size
      BY <1>1, <1>2 DEF IsSums
    <3>. QED
      BY <1>1, <3>1
  <2>. QED
    BY <2>1, <2>2 DEF IsSums
<1>5. Bytes(s) = h[Len(s)] /\ Bytes(t) = g[Len(t)]
  BY <1>1, <1>2, <1>4, SumsAreBytes
<1>. QED
  BY <1>1, <1>3, <1>5 DEF t

(* No lines, no bytes.                                                       *)
LEMMA BytesNone == Bytes(<<>>) = 0
<1>1. IsSums([k \in 0 .. 0 |-> 0], <<>>)
  BY DEF IsSums
<1>2. <<>> \in Seq(Line) /\ Len(<<>>) = 0
  OBVIOUS
<1>. QED
  BY <1>1, <1>2, SumsAreBytes

(* A prefix and one more line, of a journal, have no more bytes than it.     *)
LEMMA BytesPrefix ==
    ASSUME NEW s \in Seq(Line), NEW k \in 0 .. Len(s)
    PROVE  /\ SubSeq(s, 1, k) \in Seq(Line)
           /\ Bytes(SubSeq(s, 1, k)) \in Nat
           /\ Bytes(SubSeq(s, 1, k)) <= Bytes(s)
           /\ k < Len(s) => Bytes(SubSeq(s, 1, k)) + s[k + 1].size <= Bytes(s)
<1>. DEFINE t == SubSeq(s, 1, k)
<1>1. /\ t \in Seq(Line) /\ Len(t) = k /\ Len(s) \in Nat /\ k \in Nat
      /\ \A i \in 1 .. k : t[i] = s[i]
      /\ \A i \in 1 .. Len(s) : s[i].size \in Nat
  <2>1. t \in Seq(Line) /\ Len(t) = k /\ k \in Nat /\ \A i \in 1 .. k : t[i] = s[i]
    OBVIOUS
  <2>. HIDE DEF t
  <2>. QED
    BY <2>1, LineSizes
<1>. HIDE DEF t
<1>2. PICK g : IsSums(g, s)
  BY SumsExist
<1>3. /\ \A i \in 0 .. Len(s) : g[i] \in Nat
      /\ \A i \in 1 .. Len(s) : g[i] = g[i - 1] + s[i].size
  BY <1>2 DEF IsSums
<1>. DEFINE h == [i \in 0 .. k |-> g[i]]
<1>4. IsSums(h, t)
  <2>1. h \in [0 .. Len(t) -> Nat] /\ h[0] = 0
    BY <1>1, <1>2 DEF IsSums
  <2>2. ASSUME NEW i \in 1 .. k PROVE h[i] = h[i - 1] + t[i].size
    <3>1. g[i] = g[i - 1] + s[i].size /\ i \in 0 .. k /\ i - 1 \in 0 .. k
      BY <1>1, <1>3
    <3>2. h[i] = g[i] /\ h[i - 1] = g[i - 1] /\ t[i] = s[i]
      BY <1>1, <3>1
    <3>. QED
      BY <3>1, <3>2
  <2>. QED
    BY <1>1, <2>1, <2>2 DEF IsSums
<1>5. Bytes(t) = g[k] /\ Bytes(s) = g[Len(s)]
  BY <1>1, <1>2, <1>4, SumsAreBytes
<1>. DEFINE S == {i \in Nat : i <= Len(s) => \A j \in 0 .. i : g[j] <= g[i]}
<1>6. 0 \in S
  BY <1>1, <1>3
<1>7. ASSUME NEW i \in Nat, i \in S PROVE i + 1 \in S
  <2>. SUFFICES ASSUME i + 1 <= Len(s), NEW j \in 0 .. i + 1 PROVE g[j] <= g[i + 1]
    OBVIOUS
  <2>1. g[i + 1] = g[i] + s[i + 1].size /\ g[i] \in Nat /\ s[i + 1].size \in Nat
    BY <1>1, <1>3
  <2>2. CASE j = i + 1
    BY <2>1, <2>2
  <2>3. CASE j \in 0 .. i
    <3>1. g[j] <= g[i] /\ g[j] \in Nat
      BY <1>1, <1>3, <1>7, <2>3
    <3>. QED
      BY <2>1, <3>1
  <2>. QED
    BY <2>2, <2>3
<1>8. Len(s) \in S
  <2>. HIDE DEF S
  <2>. QED
    BY <1>1, <1>6, <1>7, SetInduction
<1>9. \A j \in 0 .. Len(s) : g[j] <= g[Len(s)]
  BY <1>1, <1>8
<1>10. k < Len(s) => g[k] + s[k + 1].size <= g[Len(s)]
  <2>. SUFFICES ASSUME k < Len(s) PROVE g[k] + s[k + 1].size <= g[Len(s)]
    OBVIOUS
  <2>1. k + 1 \in 1 .. Len(s) /\ k + 1 \in 0 .. Len(s) /\ (k + 1) - 1 = k
    BY <1>1
  <2>. QED
    BY <1>3, <1>9, <2>1
<1>. QED
  BY <1>1, <1>3, <1>5, <1>9, <1>10 DEF t

(* So has what is left without the first line.                               *)
LEMMA BytesTail ==
    ASSUME NEW s \in Seq(Line), s # <<>>
    PROVE  /\ Tail(s) \in Seq(Line)
           /\ Bytes(Tail(s)) \in Nat
           /\ Bytes(Tail(s)) <= Bytes(s)
<1>. DEFINE t == Tail(s)
            d == s[1].size
<1>1. /\ t \in Seq(Line) /\ Len(s) \in Nat \ {0} /\ Len(t) = Len(s) - 1
      /\ \A i \in 1 .. Len(s) - 1 : t[i] = s[i + 1]
      /\ d \in Nat
  <2>1. /\ t \in Seq(Line) /\ Len(s) \in Nat \ {0} /\ Len(t) = Len(s) - 1
        /\ \A i \in 1 .. Len(s) - 1 : t[i] = s[i + 1]
    OBVIOUS
  <2>. HIDE DEF t
  <2>. QED
    BY <2>1, LineSizes
<1>. HIDE DEF t
<1>2. PICK g : IsSums(g, s)
  BY SumsExist
<1>3. /\ \A i \in 0 .. Len(s) : g[i] \in Nat
      /\ \A i \in 1 .. Len(s) : g[i] = g[i - 1] + s[i].size
      /\ g[0] = 0 /\ g[1] = d
  <2>1. /\ \A i \in 0 .. Len(s) : g[i] \in Nat
        /\ \A i \in 1 .. Len(s) : g[i] = g[i - 1] + s[i].size
        /\ g[0] = 0
    BY <1>2 DEF IsSums
  <2>2. 1 \in 1 .. Len(s) /\ 1 - 1 = 0
    BY <1>1
  <2>3. g[1] = 0 + d
    BY <2>1, <2>2
  <2>. QED
    BY <1>1, <2>1, <2>3
<1>4. PICK h : IsSums(h, t)
  BY <1>1, SumsExist
<1>5. /\ \A i \in 0 .. Len(s) - 1 : h[i] \in Nat
      /\ \A i \in 1 .. Len(s) - 1 : h[i] = h[i - 1] + t[i].size
      /\ h[0] = 0
  BY <1>1, <1>4 DEF IsSums
<1>6. Bytes(t) = h[Len(s) - 1] /\ Bytes(s) = g[Len(s)]
  BY <1>1, <1>2, <1>4, SumsAreBytes
<1>. HIDE DEF d
<1>. DEFINE S == {k \in Nat : k <= Len(s) - 1 => h[k] + d = g[k + 1]}
<1>7. 0 \in S
  BY <1>1, <1>3, <1>5
<1>8. ASSUME NEW k \in Nat, k \in S PROVE k + 1 \in S
  <2>. SUFFICES ASSUME k + 1 <= Len(s) - 1 PROVE h[k + 1] + d = g[k + 2]
    OBVIOUS
  <2>1. /\ k + 1 \in 1 .. Len(s) - 1 /\ k + 2 \in 1 .. Len(s) /\ k \in 0 .. Len(s) - 1
        /\ (k + 2) - 1 = k + 1 /\ (k + 1) - 1 = k /\ (k + 1) + 1 = k + 2
    BY <1>1
  <2>2. h[k + 1] = h[k] + t[k + 1].size /\ h[k] \in Nat /\ t[k + 1] = s[k + 2]
    BY <1>1, <1>5, <2>1
  <2>3. g[k + 2] = g[k + 1] + s[k + 2].size
    BY <1>3, <2>1
  <2>4. h[k] + d = g[k + 1] /\ s[k + 2].size \in Nat
    BY <1>8, <2>1, LineSizes
  <2>. QED
    BY <1>1, <2>2, <2>3, <2>4
<1>9. Len(s) - 1 \in S
  <2>. HIDE DEF S
  <2>. QED
    BY <1>1, <1>7, <1>8, SetInduction
<1>10. h[Len(s) - 1] + d = g[Len(s)] /\ h[Len(s) - 1] \in Nat
  BY <1>1, <1>5, <1>9
<1>. QED
  BY <1>1, <1>6, <1>10 DEF t

-----------------------------------------------------------------------------
(* What the journal's operators return.                                      *)

(* A terminated line is a line, and a line cut or completed is one.          *)
LEMMA Entries ==
    /\ Entry \subseteq Line
    /\ \A s \in Seq(Entry) : s \in Seq(Line)
    /\ \A s \in Seq(Entry) : \A i \in 1 .. Len(s) : s[i] \in Entry /\ s[i].whole
    /\ \A line \in Line : line.whole => line \in Entry
<1>1. Entry \subseteq Line
  BY DEF Entry, Line
<1>2. \A line \in Entry : line.whole
  BY DEF Entry
<1>3. ASSUME NEW line \in Line, line.whole PROVE line \in Entry
  <2>1. line = [by |-> line.by, size |-> line.size, brace |-> line.brace, whole |-> line.whole]
    BY DEF Line
  <2>2. line.by \in Procs /\ line.size \in Nat /\ line.brace \in BOOLEAN /\ line.whole \in {TRUE}
    BY <1>3 DEF Line
  <2>. QED
    BY <2>1, <2>2 DEF Entry
<1>4. \A s \in Seq(Entry) : s \in Seq(Line)
  BY <1>1
<1>. QED
  BY <1>1, <1>2, <1>3, <1>4


Sized(line, b, w) == [line EXCEPT !.size = b, !.whole = w]

(* Another size and another ending leave the process of a line alone.        *)
LEMMA Resized ==
    ASSUME NEW line \in Line, NEW b \in Nat, NEW w \in BOOLEAN
    PROVE  /\ Sized(line, b, w) \in Line
           /\ Sized(line, b, w).by = line.by
           /\ Sized(line, b, w).size = b
           /\ Sized(line, b, w).whole = w
           /\ w => Sized(line, b, w) \in Entry
<1>1. line = [by |-> line.by, size |-> line.size, brace |-> line.brace, whole |-> line.whole]
  BY DEF Line
<1>2. line.by \in Procs /\ line.size \in Nat /\ line.brace \in BOOLEAN
  BY DEF Line
<1>3. Sized(line, b, w) = [by |-> line.by, size |-> b, brace |-> line.brace, whole |-> w]
  <2>1. PICK e : e = [line EXCEPT !.size = b]
    OBVIOUS
  <2>2. e = [by |-> line.by, size |-> b, brace |-> line.brace, whole |-> line.whole]
    BY <1>1, <2>1
  <2>3. Sized(line, b, w) = [e EXCEPT !.whole = w]
    BY <2>1, Zenon DEF Sized
  <2>. QED
    BY <2>2, <2>3
<1>4. /\ Sized(line, b, w) \in Line /\ Sized(line, b, w).by = line.by
      /\ Sized(line, b, w).size = b /\ Sized(line, b, w).whole = w
  BY <1>2, <1>3 DEF Line
<1>. QED
  BY <1>4, Entries

(* A journal of terminated lines within the limit is a file that fits.       *)
LEMMA WholeFits ==
    ASSUME NEW s \in Seq(Entry), Bytes(s) <= MaxBytes
    PROVE  s \in Seq(Line) /\ FitsTerminated(s)
<1>1. s \in Seq(Line) /\ Len(s) \in Nat /\ DOMAIN s = 1 .. Len(s)
  BY Entries
<1>2. \A i \in DOMAIN s : s[i].whole
  BY <1>1, Entries
<1>3. s # <<>> => Len(s) \in DOMAIN s
  BY <1>1
<1>. QED
  BY <1>1, <1>2, <1>3 DEF FitsTerminated

(* A set of numbers has a least one.                                         *)
LEMMA Least ==
    ASSUME NEW S, S \subseteq Nat, S # {}
    PROVE  \E m \in S : \A k \in S : m <= k
<1>. DEFINE R == OpToRel(<, Nat)
<1>1. IsWellFoundedOn(R, Nat)
  BY NatLessThanWellFounded
<1>2. \A m, n \in Nat : m < n => <<m, n>> \in R
  BY DEF OpToRel
<1>. HIDE DEF R
<1>3. PICK m \in S : \A k \in S : <<k, m>> \notin R
  BY <1>1, WFMin
<1>4. \A k \in S : ~(k < m) /\ k \in Nat /\ m \in Nat
  BY <1>2, <1>3
<1>5. \A k \in S : m <= k
  BY <1>4
<1>. QED
  BY <1>3, <1>5

(* append keeps terminated lines of the journal, and they leave the room.    *)
LEMMA KeptFits ==
    ASSUME NEW lines \in Seq(Entry), NEW n \in Nat, n <= MaxBytes
    PROVE  /\ Kept(lines, n) \in Seq(Entry)
           /\ Bytes(Kept(lines, n)) + n <= MaxBytes
           /\ \A q : NoLineBy(q, lines) => NoLineBy(q, Kept(lines, n))
<1>. DEFINE N == Len(lines)
            Tails == Suffixes(lines) \cup {<<>>}
            Fits(s) == Bytes(s) + n <= MaxBytes
            From(l) == SubSeq(lines, l, N)
<1>1. /\ N \in Nat
      /\ \A l \in 1 .. N + 1 : From(l) \in Seq(Entry) /\ Len(From(l)) = N - l + 1
      /\ \A l \in 1 .. N + 1 : \A i \in 1 .. N - l + 1 : From(l)[i] = lines[l + i - 1]
      /\ From(N + 1) = <<>>
  OBVIOUS
<1>2. Tails = {From(l) : l \in 1 .. N + 1} /\ Suffixes(lines) = Tails
  <2>1. Suffixes(lines) = {From(l) : l \in 1 .. N} \cup {<<>>}
    BY DEF Suffixes
  <2>2. Suffixes(lines) = Tails
    BY <2>1
  <2>3. ASSUME NEW t \in Tails PROVE t \in {From(l) : l \in 1 .. N + 1}
    <3>1. N + 1 \in 1 .. N + 1 /\ \A l \in 1 .. N : l \in 1 .. N + 1
      BY <1>1
    <3>2. t = <<>> \/ \E l \in 1 .. N : t = From(l)
      BY <2>1, <2>2, <2>3
    <3>. HIDE DEF From, Tails
    <3>. QED
      BY <1>1, <3>1, <3>2
  <2>4. ASSUME NEW l \in 1 .. N + 1 PROVE From(l) \in Tails
    <3>1. l \in 1 .. N \/ l = N + 1
      BY <1>1
    <3>. HIDE DEF From, Tails
    <3>. QED
      BY <1>1, <2>1, <2>2, <3>1
  <2>. HIDE DEF From, Tails
  <2>. QED
    BY <2>2, <2>3, <2>4
<1>3. Bytes(<<>>) = 0 /\ MaxBytes \in Nat
  BY BytesNone, TelemetryConstantsOK
<1>. HIDE DEF From, Tails
<1>. DEFINE T == {l \in 1 .. N + 1 : Fits(From(l))}
<1>4. PICK m \in T : \A l \in T : m <= l
  <2>1. N + 1 \in T /\ T \subseteq Nat
    BY <1>1, <1>3
  <2>. QED
    BY <2>1, Least
<1>5. ASSUME NEW t \in Suffixes(lines), Fits(t) PROVE Len(t) <= Len(From(m))
  <2>1. PICK l \in 1 .. N + 1 : t = From(l)
    BY <1>2
  <2>2. l \in T /\ m \in 1 .. N + 1
    BY <1>5, <2>1
  <2>. QED
    BY <1>1, <1>4, <2>1, <2>2
<1>6. From(m) \in Tails /\ Fits(From(m))
  BY <1>2, <1>4
<1>. DEFINE Best(s) == /\ Fits(s) \/ s = <<>>
                       /\ \A t \in Suffixes(lines) : Fits(t) => Len(t) <= Len(s)
<1>7. Kept(lines, n) = CHOOSE s \in Tails : Best(s)
  BY DEF Kept, Tails
<1>8. Best(From(m))
  BY <1>5, <1>6
<1>. HIDE DEF Best
<1>9. Kept(lines, n) \in Tails /\ Best(Kept(lines, n))
  BY <1>6, <1>7, <1>8
<1>10. PICK l \in 1 .. N + 1 : Kept(lines, n) = From(l)
  BY <1>2, <1>9
<1>11. Fits(Kept(lines, n))
  BY <1>3, <1>9 DEF Best
<1>12. ASSUME NEW q, NoLineBy(q, lines) PROVE NoLineBy(q, From(l))
  <2>1. \A i \in 1 .. Len(From(l)) : From(l)[i] = lines[l + i - 1] /\ l + i - 1 \in 1 .. N
    BY <1>1
  <2>2. DOMAIN From(l) = 1 .. Len(From(l)) /\ DOMAIN lines = 1 .. N
    BY <1>1
  <2>. QED
    BY <1>12, <2>1, <2>2 DEF NoLineBy
<1>. QED
  BY <1>1, <1>10, <1>11, <1>12

(* An appended event makes the journal end in it, within the limit.          *)
LEMMA AppendedFits ==
    ASSUME NEW p \in Procs, NEW size \in Sizes, NEW brace \in BOOLEAN,
           entries[p] \in Seq(Entry)
    PROVE  /\ appended(p, size, brace) \in Seq(Entry)
           /\ Bytes(appended(p, size, brace)) <= MaxBytes
           /\ \A q : q # p /\ NoLineBy(q, entries[p]) => NoLineBy(q, appended(p, size, brace))
<1>. DEFINE n == IF size > MaxBytes THEN MaxBytes ELSE size
            b == size <= MaxBytes \/ brace
            line == [by |-> p, size |-> n, whole |-> TRUE, brace |-> b]
            s == Kept(entries[p], n)
<1>1. n \in Nat /\ n <= MaxBytes /\ b \in BOOLEAN /\ MaxBytes \in Nat
  BY TelemetryConstantsOK
<1>2. appended(p, size, brace) = Append(s, line)
  BY DEF appended
<1>3. /\ s \in Seq(Entry) /\ Bytes(s) + n <= MaxBytes
      /\ \A q : NoLineBy(q, entries[p]) => NoLineBy(q, s)
  BY <1>1, KeptFits
<1>. HIDE DEF n, b, s
<1>4. line \in Entry /\ line.size = n /\ line.by = p
  BY <1>1 DEF Entry
<1>. HIDE DEF line
<1>5. Append(s, line) \in Seq(Entry)
  BY <1>3, <1>4
<1>6. Bytes(Append(s, line)) = Bytes(s) + n /\ Bytes(s) \in Nat
  BY <1>3, <1>4, Entries, BytesAppend
<1>7. ASSUME NEW q, q # p, NoLineBy(q, s) PROVE NoLineBy(q, Append(s, line))
  <2>1. /\ DOMAIN Append(s, line) = 1 .. Len(s) + 1 /\ Append(s, line)[Len(s) + 1] = line
        /\ \A i \in 1 .. Len(s) : Append(s, line)[i] = s[i]
        /\ DOMAIN s = 1 .. Len(s) /\ Len(s) \in Nat
    BY <1>3
  <2>2. \A i \in 1 .. Len(s) : Append(s, line)[i].by # q
    BY <1>7, <2>1 DEF NoLineBy
  <2>3. Append(s, line)[Len(s) + 1].by # q
    BY <1>4, <1>7, <2>1
  <2>. QED
    BY <2>1, <2>2, <2>3 DEF NoLineBy
<1>. QED
  BY <1>2, <1>3, <1>5, <1>6, <1>7

(* A rewriting cut short leaves a file that fits with its newline, since a   *)
(* byte at least is wanting of the line it was cut in.                       *)
LEMMA PartialFits ==
    ASSUME NEW s \in Seq(Entry), Bytes(s) <= MaxBytes, NEW f \in Partial(s)
    PROVE  /\ f \in Seq(Line)
           /\ FitsTerminated(f)
           /\ \A q : NoLineBy(q, s) => NoLineBy(q, f)
<1>1. /\ s \in Seq(Line) /\ Len(s) \in Nat /\ DOMAIN s = 1 .. Len(s) /\ MaxBytes \in Nat
      /\ \A i \in 1 .. Len(s) : s[i] \in Entry /\ s[i] \in Line /\ s[i].whole /\ s[i].size \in Nat
  BY Entries, LineSizes, TelemetryConstantsOK
<1>2. ASSUME NEW k \in 0 .. Len(s) - 1
      PROVE  /\ SubSeq(s, 1, k) \in Seq(Entry) /\ SubSeq(s, 1, k) \in Seq(Line)
             /\ Len(SubSeq(s, 1, k)) = k /\ k \in Nat /\ k + 1 \in 1 .. Len(s)
             /\ \A i \in 1 .. k : SubSeq(s, 1, k)[i] = s[i]
             /\ Bytes(SubSeq(s, 1, k)) \in Nat
             /\ Bytes(SubSeq(s, 1, k)) + s[k + 1].size <= MaxBytes
             /\ \A q : NoLineBy(q, s) => NoLineBy(q, SubSeq(s, 1, k))
  <2>. DEFINE t == SubSeq(s, 1, k)
  <2>1. /\ t \in Seq(Entry) /\ Len(t) = k /\ k \in Nat /\ k + 1 \in 1 .. Len(s)
        /\ \A i \in 1 .. k : t[i] = s[i] /\ i \in 1 .. Len(s)
        /\ k \in 0 .. Len(s) /\ k < Len(s)
    BY <1>1
  <2>2. Bytes(t) \in Nat /\ Bytes(t) + s[k + 1].size <= Bytes(s)
    BY <1>1, <2>1, BytesPrefix
  <2>. HIDE DEF t
  <2>3. Bytes(s) \in Nat
    <3>1. Len(s) \in 0 .. Len(s) /\ SubSeq(s, 1, Len(s)) = s
      BY <1>1
    <3>. QED
      BY <1>1, <3>1, BytesPrefix
  <2>4. Bytes(t) + s[k + 1].size <= MaxBytes
    BY <1>1, <2>1, <2>2, <2>3
  <2>5. \A q : NoLineBy(q, s) => NoLineBy(q, t)
    <3>1. DOMAIN t = 1 .. k
      BY <2>1
    <3>. QED
      BY <1>1, <2>1, <3>1 DEF NoLineBy
  <2>. QED
    BY <2>1, <2>2, <2>4, <2>5, Entries DEF t
<1>3. ASSUME NEW k \in 0 .. Len(s) - 1, f = SubSeq(s, 1, k)
      PROVE  f \in Seq(Line) /\ FitsTerminated(f) /\ \A q : NoLineBy(q, s) => NoLineBy(q, f)
  <2>1. /\ f \in Seq(Entry) /\ Bytes(f) \in Nat /\ Bytes(f) + s[k + 1].size <= MaxBytes
        /\ s[k + 1].size \in Nat /\ \A q : NoLineBy(q, s) => NoLineBy(q, f)
    BY <1>1, <1>2, <1>3
  <2>2. Bytes(f) <= MaxBytes
    BY <1>1, <2>1
  <2>. QED
    BY <2>1, <2>2, WholeFits
<1>4. ASSUME NEW k \in 0 .. Len(s) - 1, NEW b \in 1 .. s[k + 1].size - 1,
             f = Append(SubSeq(s, 1, k), [s[k + 1] EXCEPT !.size = b, !.whole = FALSE])
      PROVE  f \in Seq(Line) /\ FitsTerminated(f) /\ \A q : NoLineBy(q, s) => NoLineBy(q, f)
  <2>. DEFINE t == SubSeq(s, 1, k)
  <2>1. PICK e : e = Sized(s[k + 1], b, FALSE)
    OBVIOUS
  <2>2. /\ t \in Seq(Entry) /\ t \in Seq(Line) /\ Len(t) = k /\ k \in Nat /\ k + 1 \in 1 .. Len(s)
        /\ \A i \in 1 .. k : t[i] = s[i]
        /\ Bytes(t) \in Nat /\ Bytes(t) + s[k + 1].size <= MaxBytes
        /\ \A q : NoLineBy(q, s) => NoLineBy(q, t)
    BY <1>2
  <2>3. f = Append(t, e)
    BY <1>4, <2>1, Zenon DEF Sized
  <2>. HIDE DEF t
  <2>4. s[k + 1] \in Line /\ s[k + 1].size \in Nat
    BY <1>1, <2>2
  <2>5. b \in Nat /\ b + 1 <= s[k + 1].size
    BY <2>4
  <2>6. e \in Line /\ e.by = s[k + 1].by /\ e.size = b /\ e.whole = FALSE
    BY <2>1, <2>4, <2>5, Resized
  <2>7. Bytes(f) = Bytes(t) + b
    BY <2>2, <2>3, <2>6, BytesAppend
  <2>8. Bytes(f) \in Nat /\ Bytes(f) + 1 <= MaxBytes /\ Bytes(f) <= MaxBytes
    <3>. PICK x, y, z : x = Bytes(f) /\ y = Bytes(t) /\ z = s[k + 1].size
      OBVIOUS
    <3>. QED
      BY <1>1, <2>2, <2>4, <2>5, <2>7
  <2>9. /\ f \in Seq(Line) /\ Len(f) = k + 1 /\ DOMAIN f = 1 .. k + 1 /\ f[k + 1] = e
        /\ \A i \in 1 .. k : f[i] = s[i]
    BY <2>2, <2>3, <2>6
  <2>10. FitsTerminated(f)
    <3>1. \A i \in DOMAIN f : i < Len(f) => i \in 1 .. k /\ i \in 1 .. Len(s)
      BY <2>2, <2>9
    <3>2. \A i \in DOMAIN f : i < Len(f) => f[i].whole
      BY <1>1, <2>9, <3>1
    <3>. QED
      BY <2>8, <3>2 DEF FitsTerminated
  <2>11. ASSUME NEW q, NoLineBy(q, s) PROVE NoLineBy(q, f)
    <3>1. \A i \in 1 .. Len(s) : s[i].by # q
      BY <1>1, <2>11 DEF NoLineBy
    <3>2. \A i \in 1 .. k : i \in 1 .. Len(s)
      BY <2>2
    <3>3. \A i \in 1 .. k + 1 : i \in 1 .. k \/ i = k + 1
      BY <2>2
    <3>. QED
      BY <2>2, <2>6, <2>9, <3>1, <3>2, <3>3 DEF NoLineBy
  <2>. QED
    BY <2>9, <2>10, <2>11
<1>5. \/ \E k \in 0 .. Len(s) - 1 : f = SubSeq(s, 1, k)
      \/ \E k \in 0 .. Len(s) - 1 : \E b \in 1 .. s[k + 1].size - 1 :
            f = Append(SubSeq(s, 1, k), [s[k + 1] EXCEPT !.size = b, !.whole = FALSE])
  BY Zenon DEF Partial
<1>. QED
  BY <1>3, <1>4, <1>5

(* Without its first line a file fits as well.                               *)
LEMMA TailFits ==
    ASSUME NEW s \in Seq(Line), s # <<>>, FitsTerminated(s)
    PROVE  /\ Tail(s) \in Seq(Line)
           /\ FitsTerminated(Tail(s))
           /\ \A q : NoLineBy(q, s) => NoLineBy(q, Tail(s))
<1>1. /\ Tail(s) \in Seq(Line) /\ Len(s) \in Nat \ {0} /\ Len(Tail(s)) = Len(s) - 1
      /\ DOMAIN Tail(s) = 1 .. Len(s) - 1 /\ DOMAIN s = 1 .. Len(s)
      /\ \A i \in 1 .. Len(s) - 1 : Tail(s)[i] = s[i + 1] /\ i + 1 \in 1 .. Len(s)
      /\ Tail(s) # <<>> => Len(s) - 1 \in 1 .. Len(s) - 1 /\ Tail(s)[Len(s) - 1] = s[Len(s)]
  OBVIOUS
<1>2. /\ Bytes(Tail(s)) \in Nat /\ Bytes(Tail(s)) <= Bytes(s) /\ Bytes(s) \in Nat /\ MaxBytes \in Nat
  <2>1. Len(s) \in 0 .. Len(s) /\ SubSeq(s, 1, Len(s)) = s
    BY <1>1
  <2>. QED
    BY <2>1, BytesTail, BytesPrefix, TelemetryConstantsOK
<1>3. /\ \A i \in 1 .. Len(s) : i < Len(s) => s[i].whole
      /\ Bytes(s) <= MaxBytes
      /\ ~s[Len(s)].whole => Bytes(s) + 1 <= MaxBytes
  BY <1>1 DEF FitsTerminated
<1>4. Bytes(Tail(s)) <= MaxBytes /\ (Bytes(s) + 1 <= MaxBytes => Bytes(Tail(s)) + 1 <= MaxBytes)
  BY <1>2, <1>3
<1>5. \A i \in 1 .. Len(s) - 1 : i < Len(s) - 1 => Tail(s)[i].whole
  BY <1>1, <1>3
<1>6. FitsTerminated(Tail(s))
  BY <1>1, <1>3, <1>4, <1>5 DEF FitsTerminated
<1>7. \A q : NoLineBy(q, s) => NoLineBy(q, Tail(s))
  BY <1>1 DEF NoLineBy
<1>. QED
  BY <1>1, <1>6, <1>7

(* A reload terminates the last line and stays within the limit.             *)
LEMMA LoadedFits ==
    ASSUME NEW s \in Seq(Line), FitsTerminated(s)
    PROVE  /\ Loaded(s) \in Seq(Entry)
           /\ Bytes(Loaded(s)) <= MaxBytes
           /\ \A q : NoLineBy(q, s) => NoLineBy(q, Loaded(s))
<1>1. PICK t : t = IF s # <<>> /\ ~s[1].brace THEN Tail(s) ELSE s
  OBVIOUS
<1>2. t \in Seq(Line) /\ FitsTerminated(t) /\ \A q : NoLineBy(q, s) => NoLineBy(q, t)
  BY <1>1, TailFits
<1>. DEFINE n == Len(t)
            Whole(i) == IF t[i].whole THEN t[i]
                        ELSE [t[i] EXCEPT !.size = @ + 1, !.whole = TRUE]
            r == [i \in DOMAIN t |-> Whole(i)]
<1>3. Loaded(s) = r
  BY <1>1, Zenon DEF Loaded
<1>. HIDE DEF Whole, r
<1>4. /\ n \in Nat /\ DOMAIN t = 1 .. n /\ MaxBytes \in Nat
      /\ \A i \in 1 .. n : t[i] \in Line /\ t[i].size \in Nat
      /\ Bytes(t) \in Nat /\ Bytes(t) <= MaxBytes
  <2>1. n \in Nat /\ DOMAIN t = 1 .. n /\ n \in 0 .. n /\ SubSeq(t, 1, n) = t
    BY <1>2
  <2>2. \A i \in 1 .. n : t[i] \in Line /\ t[i].size \in Nat
    BY <1>2, <2>1, LineSizes
  <2>3. Bytes(t) \in Nat
    BY <1>2, <2>1, BytesPrefix
  <2>. QED
    BY <1>2, <2>1, <2>2, <2>3, TelemetryConstantsOK DEF FitsTerminated
<1>5. ASSUME NEW i \in 1 .. n PROVE Whole(i) \in Entry /\ Whole(i).by = t[i].by
  <2>1. CASE t[i].whole
    <3>1. Whole(i) = t[i]
      BY <2>1, Zenon DEF Whole
    <3>2. t[i] \in Entry
      BY <1>4, <2>1, Entries
    <3>. QED
      BY <3>1, <3>2
  <2>2. CASE ~t[i].whole
    <3>1. Whole(i) = Sized(t[i], t[i].size + 1, TRUE)
      BY <2>2, Zenon DEF Sized, Whole
    <3>2. t[i] \in Line /\ t[i].size + 1 \in Nat
      BY <1>4
    <3>3. PICK line \in Line, b \in Nat, w \in BOOLEAN : line = t[i] /\ b = t[i].size + 1 /\ w = TRUE
      BY <3>2
    <3>4. Sized(line, b, w) \in Entry
      BY <3>3, Resized
    <3>5. Sized(line, b, w).by = line.by
      BY <3>3, Resized
    <3>. QED
      BY <3>1, <3>3, <3>4, <3>5
  <2>. QED
    BY <2>1, <2>2
<1>6. r \in Seq(Entry) /\ Len(r) = n /\ DOMAIN r = 1 .. n /\ \A i \in 1 .. n : r[i] = Whole(i)
  <2>. QED
    BY <1>4, <1>5 DEF r
<1>7. Bytes(r) <= MaxBytes
  <2>1. \A i \in 1 .. n : i < n => t[i].whole
    BY <1>2, <1>4 DEF FitsTerminated
  <2>2. CASE \A i \in 1 .. n : t[i].whole
    <3>1. \A i \in 1 .. n : r[i] = t[i]
      BY <1>6, <2>2 DEF Whole
    <3>2. r = t
      BY <1>2, <1>6, <3>1
    <3>. QED
      BY <1>4, <3>2
  <2>3. CASE n # 0 /\ ~t[n].whole
    <3>. DEFINE front == SubSeq(t, 1, n - 1)
    <3>1. n - 1 \in 0 .. n /\ n - 1 < n /\ (n - 1) + 1 = n /\ n \in 1 .. n /\ t # <<>>
      BY <1>4, <2>3
    <3>2. /\ front \in Seq(Line) /\ Bytes(front) \in Nat /\ Bytes(front) + t[n].size <= Bytes(t)
      BY <1>2, <3>1, BytesPrefix
    <3>3. Bytes(t) + 1 <= MaxBytes
      BY <1>2, <2>3, <3>1 DEF FitsTerminated
    <3>4. /\ Len(front) = n - 1 /\ \A i \in 1 .. n - 1 : front[i] = t[i] /\ i \in 1 .. n /\ i < n
      BY <1>2, <1>4, <3>1
    <3>5. PICK e : e = Sized(t[n], t[n].size + 1, TRUE)
      OBVIOUS
    <3>6. e \in Line /\ e.size = t[n].size + 1 /\ t[n].size \in Nat
      <4>1. t[n] \in Line /\ t[n].size \in Nat
        BY <1>4, <3>1
      <4>2. t[n].size + 1 \in Nat
        BY <4>1
      <4>. QED
        BY <3>5, <4>1, <4>2, Resized
    <3>7. r[n] = e
      <4>1. Whole(n) = e
        BY <2>3, <3>5, Zenon DEF Sized, Whole
      <4>. QED
        BY <1>6, <3>1, <4>1
    <3>8. \A i \in 1 .. n - 1 : r[i] = front[i]
      BY <1>6, <2>1, <3>4 DEF Whole
    <3>. HIDE DEF front
    <3>9. r = Append(front, e)
      <4>. DEFINE a == Append(front, e)
      <4>0. n \in Nat /\ n # 0 /\ Len(front) = n - 1
        BY <1>4, <2>3, <3>4
      <4>. HIDE DEF n
      <4>1. a \in Seq(Line) /\ Len(a) = n /\ a[n] = e /\ \A i \in 1 .. n - 1 : a[i] = front[i]
        BY <4>0, <3>2, <3>6
      <4>. HIDE DEF a
      <4>2. \A i \in 1 .. n : i = n \/ i \in 1 .. n - 1
        BY <4>0
      <4>3. \A i \in 1 .. n : a[i] = r[i]
        BY <3>7, <3>8, <4>1, <4>2
      <4>. QED
        BY <1>6, <4>0, <4>1, <4>3 DEF a
    <3>10. Bytes(r) = Bytes(front) + (t[n].size + 1)
      BY <3>2, <3>6, <3>9, BytesAppend
    <3>. QED
      BY <1>4, <3>2, <3>3, <3>6, <3>10
  <2>4. (\A i \in 1 .. n : t[i].whole) \/ (n # 0 /\ ~t[n].whole)
    BY <1>4, <2>1
  <2>. QED
    BY <2>2, <2>3, <2>4
<1>8. \A q : NoLineBy(q, t) => NoLineBy(q, r)
  <2>. QED
    BY <1>4, <1>5, <1>6 DEF NoLineBy
<1>. QED
  BY <1>2, <1>3, <1>6, <1>7, <1>8

-----------------------------------------------------------------------------
(* The flags.                                                                *)
Flags == [enabled: BOOLEAN, optedOut: BOOLEAN, closed: BOOLEAN,
          client: {"none", "open", "closed"}]

(* What the flags of a process become, and that the others keep theirs.      *)
SetsFlags(p, t) ==
    /\ t \in Flags
    /\ tel' \in [Procs -> Flags]
    /\ tel'[p] = t
    /\ \A q \in Procs : q # p => tel'[q] = tel[q]

(* Flags are four fields.                                                    *)
LEMMA FlagsOf ==
    ASSUME NEW t \in Flags
    PROVE  /\ t = [enabled |-> t.enabled, optedOut |-> t.optedOut,
                   closed |-> t.closed, client |-> t.client]
           /\ t.enabled \in BOOLEAN /\ t.optedOut \in BOOLEAN /\ t.closed \in BOOLEAN
           /\ t.client \in {"none", "open", "closed"}
BY DEF Flags

(* Replacing the flags of one process.                                       *)
LEMMA FlagsSet ==
    ASSUME NEW p \in Procs, NEW t \in Flags, tel \in [Procs -> Flags],
           tel' = [tel EXCEPT ![p] = t]
    PROVE  SetsFlags(p, t)
BY DEF SetsFlags

WithEnabled(t, x) == [t EXCEPT !.enabled = x]
WithOptedOut(t, x) == [t EXCEPT !.optedOut = x]
WithClosed(t, x) == [t EXCEPT !.closed = x]
WithClient(t, c) == [t EXCEPT !.client = c]

(* One flag changes and the others stay.                                     *)
LEMMA FlagChanges ==
    ASSUME NEW t \in Flags, NEW x \in BOOLEAN, NEW c \in {"none", "open", "closed"}
    PROVE  /\ WithEnabled(t, x) \in Flags /\ WithEnabled(t, x).enabled = x
           /\ WithEnabled(t, x).optedOut = t.optedOut
           /\ WithOptedOut(t, x) \in Flags /\ WithOptedOut(t, x).enabled = t.enabled
           /\ WithOptedOut(t, x).optedOut = x
           /\ WithClosed(t, x) \in Flags /\ WithClosed(t, x).enabled = t.enabled
           /\ WithClosed(t, x).optedOut = t.optedOut
           /\ WithClient(t, c) \in Flags /\ WithClient(t, c).enabled = t.enabled
           /\ WithClient(t, c).optedOut = t.optedOut
<1>1. PICK e, o, d, k : e = t.enabled /\ o = t.optedOut /\ d = t.closed /\ k = t.client
  OBVIOUS
<1>2. /\ t = [enabled |-> e, optedOut |-> o, closed |-> d, client |-> k]
      /\ e \in BOOLEAN /\ o \in BOOLEAN /\ d \in BOOLEAN /\ k \in {"none", "open", "closed"}
  BY <1>1, FlagsOf
<1>3. [t EXCEPT !.enabled = x] = [enabled |-> x, optedOut |-> o, closed |-> d, client |-> k]
  BY <1>2
<1>4. [t EXCEPT !.optedOut = x] = [enabled |-> e, optedOut |-> x, closed |-> d, client |-> k]
  BY <1>2
<1>5. [t EXCEPT !.closed = x] = [enabled |-> e, optedOut |-> o, closed |-> x, client |-> k]
  BY <1>2
<1>6. [t EXCEPT !.client = c] = [enabled |-> e, optedOut |-> o, closed |-> d, client |-> c]
  BY <1>2
<1>7. WithEnabled(t, x) = [enabled |-> x, optedOut |-> o, closed |-> d, client |-> k]
  BY <1>3, Zenon DEF WithEnabled
<1>8. WithOptedOut(t, x) = [enabled |-> e, optedOut |-> x, closed |-> d, client |-> k]
  BY <1>4, Zenon DEF WithOptedOut
<1>9. WithClosed(t, x) = [enabled |-> e, optedOut |-> o, closed |-> x, client |-> k]
  BY <1>5, Zenon DEF WithClosed
<1>10. WithClient(t, c) = [enabled |-> e, optedOut |-> o, closed |-> d, client |-> c]
  BY <1>6, Zenon DEF WithClient
<1>11. WithEnabled(t, x) \in Flags /\ WithEnabled(t, x).enabled = x /\ WithEnabled(t, x).optedOut = o
  BY <1>2, <1>7 DEF Flags
<1>12. WithOptedOut(t, x) \in Flags /\ WithOptedOut(t, x).enabled = e /\ WithOptedOut(t, x).optedOut = x
  BY <1>2, <1>8 DEF Flags
<1>13. WithClosed(t, x) \in Flags /\ WithClosed(t, x).enabled = e /\ WithClosed(t, x).optedOut = o
  BY <1>2, <1>9 DEF Flags
<1>14. WithClient(t, c) \in Flags /\ WithClient(t, c).enabled = e /\ WithClient(t, c).optedOut = o
  BY <1>2, <1>10 DEF Flags
<1>. QED
  BY <1>1, <1>11, <1>12, <1>13, <1>14

(* SetTelemetryEnabled, the flags of disableAndPurge, that of Close and the  *)
(* closing of the client, each as the flags of one process.                  *)
LEMMA EnabledSets ==
    ASSUME NEW p \in Procs, tel \in [Procs -> Flags], tel' = [tel EXCEPT ![p].enabled = TRUE]
    PROVE  \E t : SetsFlags(p, t) /\ t.enabled = TRUE /\ t.optedOut = tel[p].optedOut
<1>0. PICK x \in BOOLEAN : x = TRUE
  OBVIOUS
<1>1. PICK t : t = WithEnabled(tel[p], x)
  OBVIOUS
<1>2. tel' = [tel EXCEPT ![p] = t]
  BY <1>0, <1>1, Zenon DEF WithEnabled
<1>3. t \in Flags /\ t.enabled = x /\ t.optedOut = tel[p].optedOut
  BY <1>1, FlagChanges
<1>. QED
  BY <1>0, <1>2, <1>3, FlagsSet

(* disableAndPurge sets two flags at once.                                   *)
LEMMA DisabledSets ==
    ASSUME NEW p \in Procs, tel \in [Procs -> Flags],
           tel' = [tel EXCEPT ![p].enabled = FALSE, ![p].optedOut = TRUE]
    PROVE  \E t : SetsFlags(p, t) /\ t.enabled = FALSE /\ t.optedOut = TRUE
<1>1. PICK x \in BOOLEAN, y \in BOOLEAN : x = FALSE /\ y = TRUE
  OBVIOUS
<1>2. PICK t, u : t = WithEnabled(tel[p], x) /\ u = WithOptedOut(t, y)
  OBVIOUS
<1>3. t \in Flags /\ t.enabled = x
  BY <1>2, FlagChanges
<1>4. u \in Flags /\ u.enabled = x /\ u.optedOut = y
  BY <1>2, <1>3, FlagChanges
<1>5. PICK f : f = [tel EXCEPT ![p].enabled = x]
  OBVIOUS
<1>6. f = [tel EXCEPT ![p] = t]
  BY <1>2, <1>5, Zenon DEF WithEnabled
<1>7. f \in [Procs -> Flags] /\ f[p] = t /\ \A q \in Procs : q # p => f[q] = tel[q]
  BY <1>3, <1>6
<1>8. tel' = [f EXCEPT ![p].optedOut = y]
  BY <1>1, <1>5, Zenon
<1>9. tel' = [f EXCEPT ![p] = u]
  BY <1>2, <1>7, <1>8, Zenon DEF WithOptedOut
<1>. QED
  BY <1>1, <1>4, <1>7, <1>9 DEF SetsFlags

(* Close sets one.                                                           *)
LEMMA ClosedSets ==
    ASSUME NEW p \in Procs, tel \in [Procs -> Flags], tel' = [tel EXCEPT ![p].closed = TRUE]
    PROVE  \E t : /\ SetsFlags(p, t)
                  /\ t.enabled = tel[p].enabled /\ t.optedOut = tel[p].optedOut
<1>0. PICK x \in BOOLEAN : x = TRUE
  OBVIOUS
<1>1. PICK t : t = WithClosed(tel[p], x)
  OBVIOUS
<1>2. tel' = [tel EXCEPT ![p] = t]
  BY <1>0, <1>1, Zenon DEF WithClosed
<1>3. t \in Flags /\ t.enabled = tel[p].enabled /\ t.optedOut = tel[p].optedOut
  BY <1>1, FlagChanges
<1>. QED
  BY <1>2, <1>3, FlagsSet

(* Closing the client sets neither of the two that count here.               *)
LEMMA ClientSets ==
    ASSUME NEW p \in Procs, tel \in [Procs -> Flags], CloseClient(p)
    PROVE  \E t : /\ SetsFlags(p, t)
                  /\ t.enabled = tel[p].enabled /\ t.optedOut = tel[p].optedOut
<1>1. PICK c : c = IF tel[p].client = "open" THEN "closed" ELSE tel[p].client
  OBVIOUS
<1>2. c \in {"none", "open", "closed"}
  BY <1>1, FlagsOf
<1>3. PICK t : t = WithClient(tel[p], c)
  OBVIOUS
<1>4. tel' = [tel EXCEPT ![p].client = c]
  BY <1>1, Zenon DEF CloseClient
<1>5. tel' = [tel EXCEPT ![p] = t]
  BY <1>3, <1>4, Zenon DEF WithClient
<1>6. t \in Flags /\ t.enabled = tel[p].enabled /\ t.optedOut = tel[p].optedOut
  <2>1. PICK x : x \in BOOLEAN
    OBVIOUS
  <2>. QED
    BY <1>2, <1>3, <2>1, FlagChanges
<1>. QED
  BY <1>5, <1>6, FlagsSet

-----------------------------------------------------------------------------
(* The steps.                                                                *)
LEMMA Types ==
    ASSUME TelemetryTypeOK
    PROVE  /\ up \subseteq Procs /\ tel \in [Procs -> Flags]
           /\ entries \in [Procs -> Seq(Entry)]
           /\ handle \in [Procs -> {"none", "nopath", "path", "unlinked"}]
           /\ optOut \in [Procs -> {"no", "client", "purge", "done", "failed"}]
           /\ closing \in [Procs -> {"no", "journal", "client", "done"}]
           /\ file = Missing \/ file \in Seq(Line)
BY DEF TelemetryTypeOK, Flags, Entry

(* And back.                                                                 *)
LEMMA TypesBack ==
    ASSUME /\ up' \subseteq Procs /\ tel' \in [Procs -> Flags]
           /\ entries' \in [Procs -> Seq(Entry)]
           /\ handle' \in [Procs -> {"none", "nopath", "path", "unlinked"}]
           /\ optOut' \in [Procs -> {"no", "client", "purge", "done", "failed"}]
           /\ closing' \in [Procs -> {"no", "journal", "client", "done"}]
           /\ file' = Missing \/ file' \in Seq(Line)
    PROVE  TelemetryTypeOK'
BY DEF TelemetryTypeOK, Flags, Entry

(* The steps that only set flags.                                            *)
LEMMA FlagStep ==
    ASSUME TelemetryInv, NEW p \in Procs, p \in up, NEW t, SetsFlags(p, t),
           UNCHANGED <<up, entries, file>>,
           handle' = handle \/ \E h \in {"none", "nopath"} : handle' = [handle EXCEPT ![p] = h],
           closing' \in [Procs -> {"no", "journal", "client", "done"}],
           \/ /\ t.optedOut = tel[p].optedOut
              /\ t.enabled = tel[p].enabled \/ ~tel[p].optedOut
              /\ optOut' = optOut
           \/ /\ t.optedOut /\ ~t.enabled
              /\ \E o \in {"client", "purge"} : optOut' = [optOut EXCEPT ![p] = o]
    PROVE  TelemetryInv' /\ StaysOut
<1>1. /\ up \subseteq Procs /\ tel \in [Procs -> Flags]
      /\ entries \in [Procs -> Seq(Entry)]
      /\ handle \in [Procs -> {"none", "nopath", "path", "unlinked"}]
      /\ optOut \in [Procs -> {"no", "client", "purge", "done", "failed"}]
      /\ file = Missing \/ file \in Seq(Line)
  BY Types DEF TelemetryInv
<1>2. /\ tel' \in [Procs -> Flags] /\ tel'[p] = t
      /\ \A q \in Procs : q # p => tel'[q] = tel[q]
  BY DEF SetsFlags
<1>3. handle' \in [Procs -> {"none", "nopath", "path", "unlinked"}]
  BY <1>1
<1>4. optOut' \in [Procs -> {"no", "client", "purge", "done", "failed"}]
  BY <1>1
<1>5. TelemetryTypeOK'
  BY <1>1, <1>2, <1>3, <1>4, TypesBack
<1>6. Bounded'
  BY DEF TelemetryInv, Bounded, FitsTerminated
<1>7. \A q \in Procs : handle'[q] = "path" => handle[q] = "path"
  BY <1>1
<1>8. \A q \in Procs : NoneLeft(q) => NoneLeft(q)'
  BY <1>7 DEF NoneLeft, NoLineBy
<1>9. ASSUME NEW q \in Procs PROVE Out(q)' /\ (tel[q].optedOut => tel'[q].optedOut)
  <2>1. /\ tel[q].optedOut => ~tel[q].enabled
        /\ optOut[q] # "no" => tel[q].optedOut
        /\ optOut[q] = "done" => entries[q] = <<>> /\ NoneLeft(q)
    BY DEF TelemetryInv, Out
  <2>2. CASE q # p
    <3>1. tel'[q] = tel[q] /\ optOut'[q] = optOut[q] /\ entries'[q] = entries[q]
      BY <1>1, <1>2, <2>2
    <3>. QED
      BY <1>8, <2>1, <3>1 DEF Out
  <2>3. CASE q = p
    <3>1. CASE /\ t.optedOut = tel[p].optedOut
               /\ t.enabled = tel[p].enabled \/ ~tel[p].optedOut
               /\ optOut' = optOut
      BY <1>2, <1>8, <2>1, <2>3, <3>1 DEF Out
    <3>2. CASE /\ t.optedOut /\ ~t.enabled
               /\ \E o \in {"client", "purge"} : optOut' = [optOut EXCEPT ![p] = o]
      <4>1. optOut'[p] \in {"client", "purge"}
        BY <1>1, <3>2
      <4>. QED
        BY <1>2, <2>3, <3>2, <4>1 DEF Out
    <3>. QED
      BY <3>1, <3>2
  <2>. QED
    BY <2>2, <2>3
<1>10. StaysOut
  BY <1>9 DEF StaysOut
<1>. QED
  BY <1>5, <1>6, <1>9, <1>10 DEF TelemetryInv

(* Erasing: nothing of p is left once it is through, and nothing of anybody  *)
(* comes back.                                                               *)
LEMMA EraseStep ==
    ASSUME TelemetryTypeOK, Bounded, NEW p \in Procs, Erase(p)
    PROVE  /\ entries' \in [Procs -> Seq(Entry)]
           /\ handle' \in [Procs -> {"none", "nopath", "path", "unlinked"}]
           /\ optOut' \in [Procs -> {"no", "client", "purge", "done", "failed"}]
           /\ file' = Missing \/ file' \in Seq(Line)
           /\ Bounded'
           /\ entries'[p] = <<>>
           /\ optOut'[p] = "done" => NoneLeft(p)'
           /\ \A q \in Procs : q # p => /\ entries'[q] = entries[q]
                                        /\ optOut'[q] = optOut[q]
           /\ \A q \in Procs : NoneLeft(q) => NoneLeft(q)'
<1>1. /\ entries \in [Procs -> Seq(Entry)]
      /\ handle \in [Procs -> {"none", "nopath", "path", "unlinked"}]
      /\ optOut \in [Procs -> {"no", "client", "purge", "done", "failed"}]
      /\ file = Missing \/ file \in Seq(Line)
  BY Types
<1>2. /\ entries' \in [Procs -> Seq(Entry)] /\ entries'[p] = <<>>
      /\ \A q \in Procs : q # p => entries'[q] = entries[q]
  BY <1>1 DEF Erase
<1>3. \A q \in Procs : Bytes(entries'[q]) <= MaxBytes
  BY <1>1, <1>2, BytesNone, TelemetryConstantsOK DEF Bounded
<1>4. CASE /\ file' = Missing
           /\ handle' = [q \in Procs |->
                CASE q = p -> "none"
                  [] q # p /\ handle[q] = "path" -> "unlinked"
                  [] OTHER -> handle[q]]
           /\ optOut' = [optOut EXCEPT ![p] = "done"]
  <2>1. \A q \in Procs : handle'[q] \in {"none", "nopath", "unlinked"}
    BY <1>1, <1>4
  <2>2. handle' \in [Procs -> {"none", "nopath", "path", "unlinked"}]
    BY <1>4, <2>1
  <2>3. Bounded' /\ \A q \in Procs : NoneLeft(q)'
    BY <1>3, <1>4, <2>1 DEF Bounded, NoneLeft
  <2>. QED
    BY <1>1, <1>2, <1>4, <2>2, <2>3
<1>5. CASE /\ handle' = [handle EXCEPT ![p] = "none"]
           /\ optOut' = [optOut EXCEPT ![p] = "failed"]
           /\ UNCHANGED file
  <2>1. Bounded'
    BY <1>3, <1>5 DEF Bounded, FitsTerminated
  <2>2. \A q \in Procs : handle'[q] = "path" => q # p /\ handle[q] = "path"
    BY <1>1, <1>5
  <2>3. ASSUME NEW q \in Procs, NoneLeft(q) PROVE NoneLeft(q)'
    <3>1. file # Missing => NoLineBy(q, file)
      BY <2>3 DEF NoneLeft
    <3>2. ASSUME NEW o \in Procs, handle'[o] = "path" PROVE NoLineBy(q, entries'[o])
      <4>1. NoLineBy(q, entries[o]) /\ entries'[o] = entries[o]
        BY <1>2, <2>2, <2>3, <3>2 DEF NoneLeft
      <4>. QED
        BY <4>1
    <3>3. NoneLeft(q)' <=> /\ file' # Missing => NoLineBy(q, file')
                          /\ \A o \in Procs : handle'[o] = "path" => NoLineBy(q, entries'[o])
      BY DEF NoneLeft, NoLineBy
    <3>. QED
      BY <1>5, <3>1, <3>2, <3>3
  <2>4. optOut'[p] = "failed"
    BY <1>1, <1>5
  <2>. QED
    BY <1>1, <1>2, <1>5, <2>1, <2>3, <2>4
<1>. QED
  BY <1>4, <1>5 DEF Erase

(* purge                                                                     *)
LEMMA PurgeStep ==
    ASSUME TelemetryInv, NEW p \in Procs, purge(p)
    PROVE  TelemetryInv' /\ StaysOut
<1>1. /\ up \subseteq Procs /\ tel \in [Procs -> Flags]
      /\ closing \in [Procs -> {"no", "journal", "client", "done"}]
      /\ TelemetryTypeOK /\ Bounded
  BY Types DEF TelemetryInv
<1>2. p \in up /\ optOut[p] = "purge" /\ Erase(p) /\ UNCHANGED <<up, tel, closing>>
  BY DEF purge
<1>3. /\ entries' \in [Procs -> Seq(Entry)]
      /\ handle' \in [Procs -> {"none", "nopath", "path", "unlinked"}]
      /\ optOut' \in [Procs -> {"no", "client", "purge", "done", "failed"}]
      /\ file' = Missing \/ file' \in Seq(Line)
      /\ Bounded'
      /\ entries'[p] = <<>>
      /\ optOut'[p] = "done" => NoneLeft(p)'
      /\ \A q \in Procs : q # p => entries'[q] = entries[q] /\ optOut'[q] = optOut[q]
      /\ \A q \in Procs : NoneLeft(q) => NoneLeft(q)'
  BY <1>1, <1>2, EraseStep
<1>4. TelemetryTypeOK'
  BY <1>1, <1>2, <1>3, TypesBack
<1>5. \A q \in Procs : Out(q)'
  BY <1>2, <1>3 DEF TelemetryInv, Out
<1>6. StaysOut
  BY <1>2, <1>3 DEF StaysOut
<1>. QED
  BY <1>3, <1>4, <1>5, <1>6 DEF TelemetryInv

(* A process starts, restarts or ends: its fields are all set anew, and what *)
(* it writes is a part of what it read or held.                              *)
LEMMA OneProcessStep ==
    ASSUME TelemetryInv, NEW p \in Procs, NEW t, SetsFlags(p, t), t.optedOut => ~t.enabled,
           up' \subseteq Procs, closing' \in [Procs -> {"no", "journal", "client", "done"}],
           NEW s \in Seq(Entry), Bytes(s) <= MaxBytes, entries' = [entries EXCEPT ![p] = s],
           NEW h \in {"none", "nopath", "path", "unlinked"}, handle' = [handle EXCEPT ![p] = h],
           \/ optOut' = [optOut EXCEPT ![p] = "no"]
           \/ optOut' = optOut /\ optOut[p] # "done" /\ t.optedOut = tel[p].optedOut,
           file' # Missing => file' \in Seq(Line) /\ FitsTerminated(file'),
           \A q \in Procs : q # p /\ NoneLeft(q) /\ optOut[q] = "done" =>
               /\ file' # Missing => NoLineBy(q, file')
               /\ h = "path" => NoLineBy(q, s),
           p \notin up \/ p \notin up' \/ ~tel[p].optedOut
    PROVE  TelemetryInv' /\ StaysOut
<1>1. /\ up \subseteq Procs /\ tel \in [Procs -> Flags]
      /\ entries \in [Procs -> Seq(Entry)]
      /\ handle \in [Procs -> {"none", "nopath", "path", "unlinked"}]
      /\ optOut \in [Procs -> {"no", "client", "purge", "done", "failed"}]
  BY Types DEF TelemetryInv
<1>2. /\ tel' \in [Procs -> Flags] /\ tel'[p] = t
      /\ \A q \in Procs : q # p => tel'[q] = tel[q]
  BY DEF SetsFlags
<1>3. /\ entries' \in [Procs -> Seq(Entry)] /\ entries'[p] = s
      /\ \A q \in Procs : q # p => entries'[q] = entries[q]
  BY <1>1
<1>4. /\ handle' \in [Procs -> {"none", "nopath", "path", "unlinked"}] /\ handle'[p] = h
      /\ \A q \in Procs : q # p => handle'[q] = handle[q]
  BY <1>1
<1>5. /\ optOut' \in [Procs -> {"no", "client", "purge", "done", "failed"}]
      /\ \A q \in Procs : q # p => optOut'[q] = optOut[q]
      /\ \/ optOut'[p] = "no"
         \/ optOut'[p] = optOut[p] /\ optOut[p] # "done" /\ t.optedOut = tel[p].optedOut
  BY <1>1
<1>6. TelemetryTypeOK'
  BY <1>2, <1>3, <1>4, <1>5, TypesBack
<1>7. Bounded'
  <2>1. \A q \in Procs : Bytes(entries'[q]) <= MaxBytes
    BY <1>3 DEF TelemetryInv, Bounded
  <2>2. PICK f : f = file'
    OBVIOUS
  <2>3. f # Missing => FitsTerminated(f)
    BY <2>2
  <2>. QED
    BY <2>1, <2>2, <2>3 DEF Bounded, FitsTerminated
<1>8. ASSUME NEW q \in Procs PROVE Out(q)'
  <2>1. /\ tel[q].optedOut => ~tel[q].enabled
        /\ optOut[q] # "no" => tel[q].optedOut
        /\ optOut[q] = "done" => entries[q] = <<>> /\ NoneLeft(q)
    BY DEF TelemetryInv, Out
  <2>2. CASE q # p
    <3>1. tel'[q] = tel[q] /\ optOut'[q] = optOut[q] /\ entries'[q] = entries[q]
      BY <1>2, <1>3, <1>5, <2>2
    <3>2. optOut[q] = "done" => NoneLeft(q)'
      <4>. SUFFICES ASSUME optOut[q] = "done" PROVE NoneLeft(q)'
        OBVIOUS
      <4>1. NoneLeft(q) /\ (file' # Missing => NoLineBy(q, file')) /\ (h = "path" => NoLineBy(q, s))
        BY <2>1, <2>2
      <4>2. \A r \in Procs : handle[r] = "path" => NoLineBy(q, entries[r])
        BY <4>1 DEF NoneLeft
      <4>3. \A r \in Procs : handle'[r] = "path" => NoLineBy(q, entries'[r])
        BY <1>3, <1>4, <4>1, <4>2
      <4>. QED
        BY <4>1, <4>3 DEF NoneLeft, NoLineBy
    <3>. QED
      BY <2>1, <3>1, <3>2 DEF Out
  <2>3. CASE q = p
    BY <1>2, <1>5, <2>1, <2>3 DEF Out
  <2>. QED
    BY <2>2, <2>3
<1>9. StaysOut
  BY <1>2, <1>3 DEF StaysOut
<1>. QED
  BY <1>6, <1>7, <1>8, <1>9 DEF TelemetryInv

(* InitTelemetry                                                             *)
LEMMA InitTelemetryStep ==
    ASSUME TelemetryInv, NEW p \in Procs, NEW mode \in {"on", "local", "off"},
           InitTelemetry(p, mode)
    PROVE  TelemetryInv' /\ StaysOut
<1>1. /\ up \subseteq Procs /\ tel \in [Procs -> Flags]
      /\ closing \in [Procs -> {"no", "journal", "client", "done"}]
      /\ file = Missing \/ file \in Seq(Line)
      /\ TelemetryTypeOK /\ Bounded
  BY Types DEF TelemetryInv
<1>. DEFINE t == [enabled |-> mode = "on", optedOut |-> mode = "off", closed |-> FALSE,
                  client |-> IF mode = "on" THEN "open" ELSE "none"]
<1>2. /\ p \notin up /\ up' = up \cup {p}
      /\ closing' = [closing EXCEPT ![p] = "no"]
      /\ tel' = [tel EXCEPT ![p] = t]
  BY DEF InitTelemetry
<1>3. /\ t \in Flags
      /\ t.enabled = (mode = "on") /\ t.optedOut = (mode = "off")
  BY DEF Flags
<1>. HIDE DEF t
<1>4. SetsFlags(p, t)
  BY <1>1, <1>2, <1>3, FlagsSet
<1>5. /\ closing' \in [Procs -> {"no", "journal", "client", "done"}]
      /\ up' \subseteq Procs
  BY <1>1, <1>2
<1>6. CASE mode = "off" /\ Erase(p)
  <2>1. /\ entries' \in [Procs -> Seq(Entry)]
        /\ handle' \in [Procs -> {"none", "nopath", "path", "unlinked"}]
        /\ optOut' \in [Procs -> {"no", "client", "purge", "done", "failed"}]
        /\ file' = Missing \/ file' \in Seq(Line)
        /\ Bounded'
        /\ entries'[p] = <<>>
        /\ optOut'[p] = "done" => NoneLeft(p)'
        /\ \A q \in Procs : q # p => entries'[q] = entries[q] /\ optOut'[q] = optOut[q]
        /\ \A q \in Procs : NoneLeft(q) => NoneLeft(q)'
    BY <1>1, <1>6, EraseStep
  <2>2. /\ tel' \in [Procs -> Flags] /\ tel'[p] = t
        /\ \A q \in Procs : q # p => tel'[q] = tel[q]
    BY <1>4 DEF SetsFlags
  <2>3. TelemetryTypeOK'
    BY <1>5, <2>1, <2>2, TypesBack
  <2>4. t.optedOut /\ ~t.enabled
    BY <1>3, <1>6
  <2>5. ASSUME NEW q \in Procs PROVE Out(q)'
    <3>1. CASE q = p
      BY <2>1, <2>2, <2>4, <3>1 DEF Out
    <3>2. CASE q # p
      <4>1. tel'[q] = tel[q] /\ optOut'[q] = optOut[q] /\ entries'[q] = entries[q]
        BY <2>1, <2>2, <3>2
      <4>. QED
        BY <2>1, <4>1 DEF TelemetryInv, Out
    <3>. QED
      BY <3>1, <3>2
  <2>6. StaysOut
    BY <1>2, <2>1, <2>2 DEF StaysOut
  <2>. QED
    BY <2>1, <2>3, <2>5, <2>6 DEF TelemetryInv
<1>7. CASE /\ mode \in {"on", "local"}
           /\ optOut' = [optOut EXCEPT ![p] = "no"]
           /\ entries' = [entries EXCEPT ![p] =
                 IF file = Missing THEN <<>> ELSE Loaded(file)]
           /\ file' = entries'[p]
           /\ handle' = [handle EXCEPT ![p] = "path"]
  <2>1. PICK s : s = IF file = Missing THEN <<>> ELSE Loaded(file)
    OBVIOUS
  <2>2. s \in Seq(Entry) /\ Bytes(s) <= MaxBytes
    <3>1. CASE file = Missing
      BY <2>1, <3>1, BytesNone, TelemetryConstantsOK
    <3>2. CASE file # Missing
      BY <1>1, <2>1, <3>2, LoadedFits DEF Bounded
    <3>. QED
      BY <3>1, <3>2
  <2>3. entries' = [entries EXCEPT ![p] = s] /\ entries'[p] = s /\ file' = s
    <3>1. entries' = [entries EXCEPT ![p] = s]
      BY <1>7, <2>1
    <3>2. entries \in [Procs -> Seq(Entry)]
      BY <1>1, Types
    <3>. QED
      BY <1>7, <3>1, <3>2
  <2>4. s \in Seq(Line) /\ FitsTerminated(s)
    BY <2>2, WholeFits
  <2>5. \A q \in Procs : NoneLeft(q) => NoLineBy(q, s)
    <3>1. CASE file = Missing
      BY <2>1, <3>1 DEF NoLineBy
    <3>2. CASE file # Missing
      BY <1>1, <2>1, <3>2, LoadedFits DEF Bounded, NoneLeft
    <3>. QED
      BY <3>1, <3>2
  <2>6. t.optedOut => ~t.enabled
    BY <1>3, <1>7
  <2>7. /\ entries' = [entries EXCEPT ![p] = s]
        /\ handle' = [handle EXCEPT ![p] = "path"]
        /\ optOut' = [optOut EXCEPT ![p] = "no"]
        /\ p \notin up
    BY <1>2, <1>7, <2>3
  <2>8. file' # Missing => file' \in Seq(Line) /\ FitsTerminated(file')
    BY <2>3, <2>4
  <2>9. \A q \in Procs : q # p /\ NoneLeft(q) /\ optOut[q] = "done" =>
           (file' # Missing => NoLineBy(q, file')) /\ NoLineBy(q, s)
    BY <2>3, <2>5
  <2>. QED
    BY <1>4, <1>5, <2>2, <2>6, <2>7, <2>8, <2>9, OneProcessStep
<1>. QED
  BY <1>6, <1>7 DEF InitTelemetry

(* InitTelemetry returning early.                                            *)
LEMMA InitFailsStep ==
    ASSUME TelemetryInv, NEW p \in Procs, InitFails(p)
    PROVE  TelemetryInv' /\ StaysOut
<1>1. /\ up \subseteq Procs /\ tel \in [Procs -> Flags]
      /\ closing \in [Procs -> {"no", "journal", "client", "done"}]
      /\ file = Missing \/ file \in Seq(Line)
      /\ Bounded
  BY Types DEF TelemetryInv
<1>2. /\ p \notin up /\ up' = up \cup {p}
      /\ tel' = [tel EXCEPT ![p] = [NoTelemetry EXCEPT !.enabled = TRUE]]
      /\ optOut' = [optOut EXCEPT ![p] = "no"]
      /\ closing' = [closing EXCEPT ![p] = "no"]
  BY DEF InitFails
<1>3. NoTelemetry \in Flags /\ NoTelemetry.optedOut = FALSE
  BY DEF NoTelemetry, Flags
<1>4. PICK x \in BOOLEAN : x = TRUE
  OBVIOUS
<1>5. PICK t : t = WithEnabled(NoTelemetry, x)
  OBVIOUS
<1>6. t \in Flags /\ t.optedOut = FALSE
  BY <1>3, <1>5, FlagChanges
<1>7. tel' = [tel EXCEPT ![p] = t]
  BY <1>2, <1>4, <1>5, Zenon DEF WithEnabled
<1>8. SetsFlags(p, t)
  BY <1>1, <1>6, <1>7, FlagsSet
<1>9. /\ closing' \in [Procs -> {"no", "journal", "client", "done"}]
      /\ up' \subseteq Procs
  BY <1>1, <1>2
<1>10. CASE /\ handle' = [handle EXCEPT ![p] = "nopath"]
            /\ entries' = [entries EXCEPT ![p] = <<>>]
            /\ UNCHANGED file
  <2>1. <<>> \in Seq(Entry) /\ Bytes(<<>>) <= MaxBytes
    BY BytesNone, TelemetryConstantsOK
  <2>2. file # Missing => file \in Seq(Line) /\ FitsTerminated(file)
    BY <1>1 DEF Bounded
  <2>3. \A q \in Procs : NoneLeft(q) => (file # Missing => NoLineBy(q, file))
    BY DEF NoneLeft
  <2>4. PICK f : f = file
    OBVIOUS
  <2>5. file' = f
    BY <1>10, <2>4
  <2>6. file' # Missing => file' \in Seq(Line) /\ FitsTerminated(file')
    BY <2>2, <2>4, <2>5
  <2>7. \A q \in Procs : NoneLeft(q) => (file' # Missing => NoLineBy(q, file'))
    BY <2>3, <2>4, <2>5
  <2>. QED
    BY <1>2, <1>6, <1>8, <1>9, <1>10, <2>1, <2>6, <2>7, OneProcessStep
<1>11. CASE /\ file # Missing
            /\ handle' = [handle EXCEPT ![p] = "none"]
            /\ entries' = [entries EXCEPT ![p] = Loaded(file)]
            /\ file' \in Partial(entries'[p])
  <2>1. PICK s : s = Loaded(file)
    OBVIOUS
  <2>2. s \in Seq(Entry) /\ Bytes(s) <= MaxBytes /\ \A q : NoLineBy(q, file) => NoLineBy(q, s)
    BY <1>1, <1>11, <2>1, LoadedFits DEF Bounded
  <2>3. entries' = [entries EXCEPT ![p] = s] /\ file' \in Partial(s)
    <3>1. entries \in [Procs -> Seq(Entry)]
      BY Types DEF TelemetryInv
    <3>. QED
      BY <1>11, <2>1, <3>1
  <2>4. PICK f : f = file' /\ f \in Partial(s)
    BY <2>3
  <2>5. f \in Seq(Line) /\ FitsTerminated(f) /\ \A q : NoLineBy(q, s) => NoLineBy(q, f)
    BY <2>2, <2>4, PartialFits
  <2>6. \A q \in Procs : NoneLeft(q) => NoLineBy(q, f)
    BY <1>11, <2>2, <2>5 DEF NoneLeft
  <2>. QED
    BY <1>2, <1>6, <1>8, <1>9, <1>11, <2>2, <2>3, <2>4, <2>5, <2>6, OneProcessStep
<1>. QED
  BY <1>10, <1>11 DEF InitFails

(* Record                                                                    *)
LEMMA RecordStep ==
    ASSUME TelemetryInv, NEW p \in Procs, NEW size \in Sizes, NEW brace \in BOOLEAN,
           Record(p, size, brace)
    PROVE  TelemetryInv' /\ StaysOut
<1>1. /\ up \subseteq Procs /\ tel \in [Procs -> Flags]
      /\ entries \in [Procs -> Seq(Entry)]
      /\ handle \in [Procs -> {"none", "nopath", "path", "unlinked"}]
      /\ optOut \in [Procs -> {"no", "client", "purge", "done", "failed"}]
      /\ closing \in [Procs -> {"no", "journal", "client", "done"}]
      /\ file = Missing \/ file \in Seq(Line)
      /\ Bounded
  BY Types DEF TelemetryInv
<1>2. PICK s : s = appended(p, size, brace)
  OBVIOUS
<1>3. /\ p \in up /\ ~tel[p].optedOut
      /\ entries' = [entries EXCEPT ![p] = s]
      /\ \/ handle[p] = "path" /\ file' \in {s} \cup Partial(s)
         \/ handle[p] # "path" /\ UNCHANGED file
      /\ UNCHANGED <<up, tel, handle, optOut, closing>>
  BY <1>1, <1>2 DEF Record, Collects
<1>4. /\ s \in Seq(Entry) /\ Bytes(s) <= MaxBytes
      /\ \A q : q # p /\ NoLineBy(q, entries[p]) => NoLineBy(q, s)
  BY <1>1, <1>2, AppendedFits
<1>5. PICK t : t = tel[p]
  OBVIOUS
<1>6. SetsFlags(p, t) /\ (t.optedOut => ~t.enabled) /\ optOut[p] # "done"
  BY <1>1, <1>3, <1>5 DEF SetsFlags, TelemetryInv, Out
<1>7. PICK h : h = handle[p]
  OBVIOUS
<1>8. h \in {"none", "nopath", "path", "unlinked"} /\ handle' = [handle EXCEPT ![p] = h]
  BY <1>1, <1>3, <1>7
<1>9. \A q \in Procs : q # p /\ NoneLeft(q) /\ h = "path" => NoLineBy(q, s)
  BY <1>4, <1>7 DEF NoneLeft
<1>10. PICK f : f = file'
  OBVIOUS
<1>11. /\ f # Missing => f \in Seq(Line) /\ FitsTerminated(f)
       /\ \A q \in Procs : q # p /\ NoneLeft(q) => (f # Missing => NoLineBy(q, f))
  <2>1. CASE h = "path" /\ f = s
    BY <1>4, <1>9, <2>1, WholeFits
  <2>2. CASE h = "path" /\ f \in Partial(s)
    <3>1. f \in Seq(Line) /\ FitsTerminated(f) /\ \A q : NoLineBy(q, s) => NoLineBy(q, f)
      BY <1>4, <2>2, PartialFits
    <3>. QED
      BY <1>9, <2>2, <3>1
  <2>3. CASE f = file
    BY <1>1, <2>3 DEF Bounded, NoneLeft
  <2>. QED
    BY <1>3, <1>7, <1>10, <2>1, <2>2, <2>3
<1>12. up' \subseteq Procs /\ closing' \in [Procs -> {"no", "journal", "client", "done"}]
  BY <1>1, <1>3
<1>13. optOut' = optOut /\ t.optedOut = tel[p].optedOut
  BY <1>3, <1>5
<1>14. file' # Missing => file' \in Seq(Line) /\ FitsTerminated(file')
  BY <1>10, <1>11
<1>15. \A q \in Procs : q # p /\ NoneLeft(q) /\ optOut[q] = "done" =>
          /\ file' # Missing => NoLineBy(q, file')
          /\ h = "path" => NoLineBy(q, s)
  BY <1>9, <1>10, <1>11
<1>16. p \in up /\ ~tel[p].optedOut /\ entries' = [entries EXCEPT ![p] = s]
  BY <1>3
<1>17. \/ optOut' = [optOut EXCEPT ![p] = "no"]
       \/ optOut' = optOut /\ optOut[p] # "done" /\ t.optedOut = tel[p].optedOut
  BY <1>6, <1>13
<1>18. p \notin up \/ p \notin up' \/ ~tel[p].optedOut
  BY <1>16
<1>. QED
  BY <1>4, <1>6, <1>8, <1>12, <1>14, <1>15, <1>16, <1>17, <1>18, OneProcessStep

(* The end of a process.                                                     *)
LEMMA ExitStep ==
    ASSUME TelemetryInv, NEW p \in Procs, Exit(p)
    PROVE  TelemetryInv' /\ StaysOut
<1>1. /\ up \subseteq Procs /\ tel \in [Procs -> Flags]
      /\ entries \in [Procs -> Seq(Entry)]
      /\ closing \in [Procs -> {"no", "journal", "client", "done"}]
      /\ file = Missing \/ file \in Seq(Line)
      /\ Bounded
  BY Types DEF TelemetryInv
<1>2. /\ p \in up /\ up' = up \ {p}
      /\ handle' = [handle EXCEPT ![p] = "none"]
      /\ entries' = [entries EXCEPT ![p] = <<>>]
      /\ tel' = [tel EXCEPT ![p] = NoTelemetry]
      /\ optOut' = [optOut EXCEPT ![p] = "no"]
      /\ closing' = [closing EXCEPT ![p] = "no"]
  BY DEF Exit
<1>3. NoTelemetry \in Flags /\ NoTelemetry.optedOut = FALSE
  BY DEF NoTelemetry, Flags
<1>4. PICK t : t = NoTelemetry
  OBVIOUS
<1>5. SetsFlags(p, t) /\ (t.optedOut => ~t.enabled)
  BY <1>1, <1>2, <1>3, <1>4, FlagsSet
<1>6. PICK f : f = file'
  OBVIOUS
<1>7. /\ f # Missing => f \in Seq(Line) /\ FitsTerminated(f)
      /\ \A q \in Procs : q # p /\ NoneLeft(q) => (f # Missing => NoLineBy(q, f))
  <2>1. CASE f = file
    BY <1>1, <2>1 DEF Bounded, NoneLeft
  <2>2. ASSUME handle[p] = "path", NEW size \in Sizes, f \in Partial(appended(p, size, FALSE))
        PROVE  /\ f \in Seq(Line) /\ FitsTerminated(f)
               /\ \A q \in Procs : q # p /\ NoneLeft(q) => NoLineBy(q, f)
    <3>1. PICK s : s = appended(p, size, FALSE)
      OBVIOUS
    <3>2. /\ s \in Seq(Entry) /\ Bytes(s) <= MaxBytes
          /\ \A q : q # p /\ NoLineBy(q, entries[p]) => NoLineBy(q, s)
      BY <1>1, <3>1, AppendedFits
    <3>3. f \in Seq(Line) /\ FitsTerminated(f) /\ \A q : NoLineBy(q, s) => NoLineBy(q, f)
      BY <2>2, <3>1, <3>2, PartialFits
    <3>. QED
      BY <2>2, <3>2, <3>3 DEF NoneLeft
  <2>. QED
    BY <1>6, <2>1, <2>2 DEF Exit
<1>8. <<>> \in Seq(Entry) /\ Bytes(<<>>) <= MaxBytes
  BY BytesNone, TelemetryConstantsOK
<1>9. up' \subseteq Procs /\ closing' \in [Procs -> {"no", "journal", "client", "done"}] /\ p \notin up'
  BY <1>1, <1>2
<1>. QED
  BY <1>2, <1>5, <1>6, <1>7, <1>8, <1>9, OneProcessStep

(* The invariant holds at the start.                                         *)
LEMMA TelemetryInitInv == TelemetryInit => TelemetryInv
<1>. SUFFICES ASSUME TelemetryInit PROVE TelemetryInv
  OBVIOUS
<1>1. /\ up = {} /\ tel = [p \in Procs |-> NoTelemetry] /\ entries = [p \in Procs |-> <<>>]
      /\ handle = [p \in Procs |-> "none"] /\ optOut = [p \in Procs |-> "no"]
      /\ closing = [p \in Procs |-> "no"] /\ file = Missing
  BY DEF TelemetryInit
<1>2. NoTelemetry \in Flags /\ NoTelemetry.optedOut = FALSE
  BY DEF NoTelemetry, Flags
<1>3. TelemetryTypeOK
  <2>1. tel \in [Procs -> Flags] /\ entries \in [Procs -> Seq(Entry)]
    BY <1>1, <1>2
  <2>. QED
    BY <1>1, <2>1 DEF TelemetryTypeOK, Flags, Entry
<1>4. Bounded
  BY <1>1, BytesNone, TelemetryConstantsOK DEF Bounded
<1>5. \A p \in Procs : Out(p)
  BY <1>1, <1>2 DEF Out
<1>. QED
  BY <1>3, <1>4, <1>5 DEF TelemetryInv

(* Every step keeps it, and no process comes back from opting out.           *)
LEMMA TelemetryStep == TelemetryInv /\ [TelemetryNext]_vars => TelemetryInv' /\ StaysOut
<1>. SUFFICES ASSUME TelemetryInv, [TelemetryNext]_vars PROVE TelemetryInv' /\ StaysOut
  OBVIOUS
<1>0. tel \in [Procs -> Flags] /\ closing \in [Procs -> {"no", "journal", "client", "done"}]
  BY Types DEF TelemetryInv
<1>1. ASSUME NEW p \in Procs, NEW mode \in {"on", "local", "off"}, InitTelemetry(p, mode)
      PROVE  TelemetryInv' /\ StaysOut
  BY <1>1, InitTelemetryStep
<1>2. ASSUME NEW p \in Procs, InitFails(p) PROVE TelemetryInv' /\ StaysOut
  BY <1>2, InitFailsStep
<1>3. ASSUME NEW p \in Procs, NEW size \in Sizes, NEW brace \in BOOLEAN, Record(p, size, brace)
      PROVE  TelemetryInv' /\ StaysOut
  BY <1>3, RecordStep
<1>4. ASSUME NEW p \in Procs, SetEnabled(p) PROVE TelemetryInv' /\ StaysOut
  <2>1. /\ p \in up /\ ~tel[p].optedOut
        /\ tel' = [tel EXCEPT ![p].enabled = TRUE]
        /\ UNCHANGED <<up, entries, handle, optOut, closing, file>>
    BY <1>4 DEF SetEnabled, MayEnable
  <2>2. PICK t : SetsFlags(p, t) /\ t.optedOut = tel[p].optedOut
    BY <1>0, <2>1, EnabledSets
  <2>3. UNCHANGED <<up, entries, file>> /\ handle' = handle /\ optOut' = optOut /\ closing' = closing
    BY <2>1
  <2>. QED
    BY <1>0, <2>1, <2>2, <2>3, FlagStep
<1>5. ASSUME NEW p \in Procs, SetDisabled(p) PROVE TelemetryInv' /\ StaysOut
  <2>1. /\ p \in up
        /\ tel' = [tel EXCEPT ![p].enabled = FALSE, ![p].optedOut = TRUE]
        /\ optOut' = [optOut EXCEPT ![p] = "client"]
        /\ UNCHANGED <<up, entries, file>> /\ handle' = handle /\ closing' = closing
    BY <1>5 DEF SetDisabled
  <2>2. PICK t : SetsFlags(p, t) /\ t.enabled = FALSE /\ t.optedOut = TRUE
    BY <1>0, <2>1, DisabledSets
  <2>3. \E o \in {"client", "purge"} : optOut' = [optOut EXCEPT ![p] = o]
    BY <2>1
  <2>. QED
    BY <1>0, <2>1, <2>2, <2>3, FlagStep
<1>6. ASSUME NEW p \in Procs, DropClient(p) PROVE TelemetryInv' /\ StaysOut
  <2>1. /\ p \in up /\ optOut[p] = "client" /\ CloseClient(p)
        /\ optOut' = [optOut EXCEPT ![p] = "purge"]
        /\ UNCHANGED <<up, entries, file>> /\ handle' = handle /\ closing' = closing
    BY <1>6 DEF DropClient
  <2>2. PICK t : SetsFlags(p, t) /\ t.enabled = tel[p].enabled /\ t.optedOut = tel[p].optedOut
    BY <1>0, <2>1, ClientSets
  <2>3. tel[p].optedOut /\ ~tel[p].enabled
    BY <2>1 DEF TelemetryInv, Out
  <2>4. \E o \in {"client", "purge"} : optOut' = [optOut EXCEPT ![p] = o]
    BY <2>1
  <2>. QED
    BY <1>0, <2>1, <2>2, <2>3, <2>4, FlagStep
<1>7. ASSUME NEW p \in Procs, purge(p) PROVE TelemetryInv' /\ StaysOut
  BY <1>7, PurgeStep
<1>8. ASSUME NEW p \in Procs, Close(p) PROVE TelemetryInv' /\ StaysOut
  <2>1. /\ p \in up
        /\ tel' = [tel EXCEPT ![p].closed = TRUE]
        /\ closing' = [closing EXCEPT ![p] = "journal"]
        /\ UNCHANGED <<up, entries, file>> /\ handle' = handle /\ optOut' = optOut
    BY <1>8 DEF Close
  <2>2. PICK t : SetsFlags(p, t) /\ t.enabled = tel[p].enabled /\ t.optedOut = tel[p].optedOut
    BY <1>0, <2>1, ClosedSets
  <2>3. closing' \in [Procs -> {"no", "journal", "client", "done"}]
    BY <1>0, <2>1
  <2>. QED
    BY <2>1, <2>2, <2>3, FlagStep
<1>9. ASSUME NEW p \in Procs, CloseSteps(p) PROVE TelemetryInv' /\ StaysOut
  <2>1. p \in up /\ UNCHANGED <<up, entries, file>> /\ optOut' = optOut
    BY <1>9 DEF CloseSteps
  <2>2. CASE /\ handle' = [handle EXCEPT ![p] = IF @ = "nopath" THEN @ ELSE "none"]
             /\ closing' = [closing EXCEPT ![p] = "client"]
             /\ UNCHANGED tel
    <3>1. PICK h : h = IF handle[p] = "nopath" THEN handle[p] ELSE "none"
      OBVIOUS
    <3>2. handle' = [handle EXCEPT ![p] = h] /\ h \in {"none", "nopath"}
      BY <2>2, <3>1
    <3>3. PICK t : t = tel[p]
      OBVIOUS
    <3>4. SetsFlags(p, t)
      BY <1>0, <2>2, <3>3 DEF SetsFlags
    <3>5. closing' \in [Procs -> {"no", "journal", "client", "done"}]
      BY <1>0, <2>2
    <3>. QED
      BY <2>1, <3>2, <3>3, <3>4, <3>5, FlagStep
  <2>3. CASE CloseClient(p) /\ closing' = [closing EXCEPT ![p] = "done"] /\ UNCHANGED handle
    <3>1. PICK t : SetsFlags(p, t) /\ t.enabled = tel[p].enabled /\ t.optedOut = tel[p].optedOut
      BY <1>0, <2>3, ClientSets
    <3>2. closing' \in [Procs -> {"no", "journal", "client", "done"}] /\ handle' = handle
      BY <1>0, <2>3
    <3>. QED
      BY <2>1, <3>1, <3>2, FlagStep
  <2>. QED
    BY <1>9, <2>2, <2>3 DEF CloseSteps
<1>10. ASSUME NEW p \in Procs, Exit(p) PROVE TelemetryInv' /\ StaysOut
  BY <1>10, ExitStep
<1>11. CASE UNCHANGED vars
  <2>1. /\ up' = up /\ tel' = tel /\ entries' = entries /\ handle' = handle
        /\ optOut' = optOut /\ closing' = closing /\ file' = file
    BY <1>11 DEF vars
  <2>2. TelemetryInv'
    <3>1. TelemetryTypeOK'
      BY <2>1 DEF TelemetryInv, TelemetryTypeOK
    <3>2. Bounded'
      BY <2>1 DEF TelemetryInv, Bounded, FitsTerminated
    <3>3. \A p \in Procs : NoneLeft(p) => NoneLeft(p)'
      BY <2>1 DEF NoneLeft, NoLineBy
    <3>4. \A p \in Procs : Out(p)'
      BY <2>1, <3>3 DEF TelemetryInv, Out
    <3>. QED
      BY <3>1, <3>2, <3>4 DEF TelemetryInv
  <2>3. StaysOut
    BY <2>1 DEF StaysOut
  <2>. QED
    BY <2>2, <2>3
<1>. QED
  BY <1>1, <1>2, <1>3, <1>4, <1>5, <1>6, <1>7, <1>8, <1>9, <1>10, <1>11 DEF TelemetryNext

-----------------------------------------------------------------------------
(* LUGO_TRACE_MAX_BYTES bounds what every process keeps and the file, and    *)
(* every entry in memory is a terminated line.                               *)
THEOREM JournalBoundedHolds == TelemetrySpec => []JournalBounded
<1>1. TelemetryInv => JournalBounded
  BY DEF TelemetryInv, Bounded, FitsTerminated, JournalBounded
<1>. QED
  BY <1>1, TelemetryInitInv, TelemetryStep, PTL DEF TelemetrySpec

(* Opting out is terminal and complete, for every process.                   *)
THEOREM OptOutComplete == TelemetrySpec => OptOutHolds
<1>. DEFINE Step == \A p \in Procs :
                /\ p \in up \cap up' /\ tel[p].optedOut =>
                      /\ tel'[p].optedOut /\ ~tel'[p].enabled
                      /\ entries'[p] \in {entries[p], <<>>}
                /\ p \in up' /\ optOut'[p] = "done" =>
                      /\ entries'[p] = <<>>
                      /\ file' # Missing => \A i \in DOMAIN file' : file'[i].by # p
<1>1. TelemetryInv' /\ StaysOut => Step
  BY DEF TelemetryInv, Out, NoneLeft, NoLineBy, StaysOut
<1>2. TelemetryInv /\ [TelemetryNext]_vars => TelemetryInv' /\ [Step]_vars
  BY <1>1, TelemetryStep
<1>. QED
  BY <1>2, TelemetryInitInv, PTL DEF TelemetrySpec, OptOutHolds
=============================================================================
