-------------------------- MODULE DispatcherProofs --------------------------
(* The message loop answers once, refuses what was cancelled and follows the *)
(* editor, for any number of messages, identifiers, folders and settings.    *)
(* Inv is inductive.  Two of its parts are not what the runs check: which    *)
(* cancellations are pending, and a history of the editor's folders, one set *)
(* for each frame, of which the server's folders are the one of the last     *)
(* frame it took.                                                            *)
EXTENDS Dispatcher, FiniteSetTheorems, SequenceTheorems, TLAPS

(* Induction on the naturals, over a set: by well-foundedness a set that is  *)
(* not all of Nat misses a least number.                                     *)
LEMMA SetInduction ==
    ASSUME NEW S, 0 \in S, \A n \in Nat : n \in S => n + 1 \in S
    PROVE  \A n \in Nat : n \in S
<1>. DEFINE R == OpToRel(<, Nat)
<1>1. IsWellFoundedOn(R, Nat)
  BY NatLessThanWellFounded
<1>2. \A m, n \in Nat : m < n => <<m, n>> \in R
  BY DEF OpToRel
<1>. HIDE DEF R
<1>3. SUFFICES ASSUME Nat \ S # {} PROVE FALSE
  OBVIOUS
<1>4. PICK n \in Nat \ S : \A m \in Nat \ S : <<m, n>> \notin R
  <2>1. Nat \ S \subseteq Nat
    OBVIOUS
  <2>. QED
    BY <1>1, <1>3, <2>1, WFMin
<1>5. n # 0 /\ n - 1 \in Nat /\ n - 1 < n /\ n = (n - 1) + 1
  BY <1>4
<1>6. <<n - 1, n>> \in R
  BY <1>2, <1>4, <1>5
<1>7. n - 1 \in S
  BY <1>4, <1>5, <1>6
<1>. QED
  BY <1>4, <1>5, <1>7

(* A function on 0 .. n is defined by its first value and its steps.         *)
StepsOf(n, V) == [1 .. n -> [V -> V]]
IsStepwise(g, n, V, base, step) ==
    g \in [0 .. n -> V] /\ g[0] = base /\ \A i \in 1 .. n : g[i] = step[i][g[i - 1]]

(* Such a function exists for every length.                                  *)
LEMMA StepwiseFunction ==
    ASSUME NEW n \in Nat, NEW V, NEW base \in V, NEW step \in StepsOf(n, V)
    PROVE  \E g : IsStepwise(g, n, V, base, step)
<1>. DEFINE Good(g, k) == g[0] = base /\ \A i \in 1 .. k : g[i] = step[i][g[i - 1]]
            S == {k \in Nat : k <= n => \E g \in [0 .. k -> V] : Good(g, k)}
<1>1. 0 \in S
  <2>1. Good([i \in 0 .. 0 |-> base], 0)
    OBVIOUS
  <2>. QED
    BY <2>1
<1>2. ASSUME NEW k \in Nat, k \in S PROVE k + 1 \in S
  <2>. SUFFICES ASSUME k + 1 <= n PROVE \E g \in [0 .. k + 1 -> V] : Good(g, k + 1)
    OBVIOUS
  <2>1. PICK g \in [0 .. k -> V] : Good(g, k)
    BY <1>2
  <2>. DEFINE h == [i \in 0 .. k + 1 |-> IF i <= k THEN g[i] ELSE step[k + 1][g[k]]]
  <2>2. h \in [0 .. k + 1 -> V]
    BY DEF StepsOf
  <2>3. h[0] = base
    BY <2>1
  <2>4. \A i \in 1 .. k : h[i] = g[i] /\ h[i - 1] = g[i - 1]
    OBVIOUS
  <2>5. h[k + 1] = step[k + 1][h[k]]
    OBVIOUS
  <2>. HIDE DEF h
  <2>6. \A i \in 1 .. k + 1 : h[i] = step[i][h[i - 1]]
    BY <2>1, <2>4, <2>5
  <2>. QED
    BY <2>2, <2>3, <2>6
<1>3. n \in S
  <2>. HIDE DEF S
  <2>. QED
    BY <1>1, <1>2, SetInduction
<1>. QED
  BY <1>3 DEF IsStepwise

-----------------------------------------------------------------------------
(* Folders.                                                                  *)
LEMMA AppendNew ==
    ASSUME NEW S, NEW s \in Seq(S), NEW e \in S
    PROVE  /\ Append(s, e) \in Seq(S)
           /\ ToSet(Append(s, e)) = ToSet(s) \cup {e}
           /\ IsInjective(s) /\ e \notin ToSet(s) => IsInjective(Append(s, e))
<1>. DEFINE t == Append(s, e)
<1>1. /\ t \in Seq(S) /\ DOMAIN t = 1 .. Len(s) + 1 /\ t[Len(s) + 1] = e
      /\ \A i \in 1 .. Len(s) : t[i] = s[i]
      /\ DOMAIN s = 1 .. Len(s) /\ Len(s) \in Nat
  OBVIOUS
<1>. HIDE DEF t
<1>2. ToSet(t) = ToSet(s) \cup {e}
  BY <1>1 DEF ToSet
<1>3. ASSUME IsInjective(s), e \notin ToSet(s) PROVE IsInjective(t)
  <2>. SUFFICES ASSUME NEW a \in 1 .. Len(s) + 1, NEW b \in 1 .. Len(s) + 1, t[a] = t[b], a # b
                PROVE  FALSE
    BY <1>1 DEF IsInjective
  <2>1. CASE a = Len(s) + 1 \/ b = Len(s) + 1
    BY <1>1, <1>3, <2>1 DEF ToSet
  <2>2. CASE a # Len(s) + 1 /\ b # Len(s) + 1
    <3>1. a \in 1 .. Len(s) /\ b \in 1 .. Len(s)
      BY <1>1, <2>2
    <3>. QED
      BY <1>1, <1>3, <3>1 DEF IsInjective
  <2>. QED
    BY <2>1, <2>2
<1>. QED
  BY <1>1, <1>2, <1>3 DEF t

(* A sequence without repetitions has as many places as elements.            *)
LEMMA InjectiveLength ==
    ASSUME NEW S, NEW s \in Seq(S), IsInjective(s)
    PROVE  IsFiniteSet(ToSet(s)) /\ Cardinality(ToSet(s)) = Len(s)
<1>1. s \in [1 .. Len(s) -> ToSet(s)] /\ Len(s) \in Nat
  BY DEF ToSet
<1>2. s \in Bijection(1 .. Len(s), ToSet(s))
  BY <1>1 DEF Bijection, Injection, Surjection, ToSet
<1>. QED
  BY <1>1, <1>2, FS_NatBijection, FS_CountingElements DEF ExistsBijection

(* The first loop drops what is removed and keeps the rest.                  *)
LEMMA WithoutKeeps ==
    ASSUME NEW S, NEW old \in Seq(S), NEW removed
    PROVE  /\ Without(old, removed) \in Seq(S)
           /\ ToSet(Without(old, removed)) = ToSet(old) \ removed
           /\ IsInjective(old) => IsInjective(Without(old, removed))
<1>. DEFINE n == Len(old)
            step == [i \in 1 .. n |-> [t \in Seq(S) |->
                       IF old[i] \in removed THEN t ELSE Append(t, old[i])]]
            Loop(g) == [i \in 0 .. n |->
                          IF i = 0 THEN <<>>
                          ELSE IF old[i] \in removed THEN g[i - 1] ELSE Append(g[i - 1], old[i])]
            kept == CHOOSE g : g = Loop(g)
<1>1. n \in Nat /\ DOMAIN old = 1 .. n /\ \A i \in 1 .. n : old[i] \in S
  OBVIOUS
<1>2. PICK g : IsStepwise(g, n, Seq(S), <<>>, step)
  <2>1. <<>> \in Seq(S) /\ \A i \in 1 .. n, t \in Seq(S) : Append(t, old[i]) \in Seq(S)
    BY <1>1
  <2>2. step \in StepsOf(n, Seq(S))
    BY <2>1 DEF StepsOf
  <2>. HIDE DEF n, step
  <2>. QED
    BY <1>1, <2>1, <2>2, StepwiseFunction
<1>3. g = Loop(g)
  <2>1. \A i \in 1 .. n : i - 1 \in 0 .. n /\ g[i - 1] \in Seq(S)
    <3>1. \A i \in 0 .. n : g[i] \in Seq(S)
      <4>. HIDE DEF n, step
      <4>. QED
        BY <1>2 DEF IsStepwise
    <3>2. \A i \in 1 .. n : i - 1 \in 0 .. n
      BY <1>1
    <3>. QED
      BY <3>1, <3>2
  <2>2. \A i \in 1 .. n : g[i] = IF old[i] \in removed THEN g[i - 1] ELSE Append(g[i - 1], old[i])
    BY <1>2, <2>1 DEF IsStepwise
  <2>3. \A i \in 0 .. n : i = 0 \/ i \in 1 .. n
    BY <1>1
  <2>. HIDE DEF n, step
  <2>. QED
    BY <1>2, <2>2, <2>3 DEF IsStepwise
<1>5. kept = Loop(kept)
  <2>. HIDE DEF Loop
  <2>. QED
    BY <1>3
<1>6. Without(old, removed) = kept[n]
  BY DEF Without
<1>. HIDE DEF n, kept
<1>7. /\ kept[0] = <<>>
      /\ \A i \in 1 .. n : kept[i] = IF old[i] \in removed THEN kept[i - 1]
                                     ELSE Append(kept[i - 1], old[i])
  <2>1. \A i \in 0 .. n : kept[i] = Loop(kept)[i]
    BY <1>5
  <2>. QED
    BY <1>1, <2>1
<1>. HIDE DEF Loop
<1>. DEFINE Good(i) == /\ kept[i] \in Seq(S)
                       /\ ToSet(kept[i]) = {old[j] : j \in 1 .. i} \ removed
                       /\ IsInjective(old) => IsInjective(kept[i])
            D == {i \in Nat : i <= n => Good(i)}
<1>8. 0 \in D
  <2>1. kept[0] = <<>> /\ 1 .. 0 = {}
    BY <1>7
  <2>2. ToSet(kept[0]) = {} /\ IsInjective(kept[0])
    BY <2>1 DEF ToSet, IsInjective
  <2>3. {old[j] : j \in 1 .. 0} = {}
    OBVIOUS
  <2>4. <<>> \in Seq(S)
    OBVIOUS
  <2>. QED
    BY <2>1, <2>2, <2>3, <2>4
<1>9. ASSUME NEW i \in Nat, i \in D PROVE i + 1 \in D
  <2>. SUFFICES ASSUME i + 1 <= n PROVE Good(i + 1)
    OBVIOUS
  <2>1. Good(i) /\ i + 1 \in 1 .. n /\ old[i + 1] \in S /\ (i + 1) - 1 = i
    <3>1. i <= n /\ i + 1 \in 1 .. n /\ (i + 1) - 1 = i
      BY <1>1
    <3>2. Good(i)
      <4>. HIDE DEF Good
      <4>. QED
        BY <1>9, <3>1
    <3>. QED
      BY <1>1, <3>1, <3>2
  <2>2. {old[j] : j \in 1 .. i + 1} = {old[j] : j \in 1 .. i} \cup {old[i + 1]}
    <3>1. 1 .. i + 1 = 1 .. i \cup {i + 1}
      OBVIOUS
    <3>. QED
      BY <3>1
  <2>3. CASE old[i + 1] \in removed
    BY <1>7, <2>1, <2>2, <2>3
  <2>4. CASE old[i + 1] \notin removed
    <3>1. kept[i + 1] = Append(kept[i], old[i + 1])
      BY <1>7, <2>1, <2>4
    <3>2. ASSUME IsInjective(old) PROVE old[i + 1] \notin ToSet(kept[i])
      <4>1. \A j \in 1 .. i : old[j] # old[i + 1]
        BY <1>1, <2>1, <3>2 DEF IsInjective
      <4>. QED
        BY <2>1, <4>1
    <3>. QED
      BY <2>1, <2>2, <2>4, <3>1, <3>2, AppendNew
  <2>. QED
    BY <2>3, <2>4
<1>10. n \in D
  <2>. HIDE DEF D
  <2>. QED
    BY <1>1, <1>8, <1>9, SetInduction
<1>11. ToSet(old) = {old[j] : j \in 1 .. n}
  BY <1>1 DEF ToSet
<1>. QED
  BY <1>1, <1>6, <1>10, <1>11

(* The second loop appends what is not in the list yet.                      *)
LEMMA WithAdds ==
    ASSUME NEW S, NEW old \in Seq(S), NEW added \in Seq(S)
    PROVE  /\ With(old, added) \in Seq(S)
           /\ ToSet(With(old, added)) = ToSet(old) \cup ToSet(added)
           /\ IsInjective(old) => IsInjective(With(old, added))
<1>. DEFINE n == Len(added)
            step == [i \in 1 .. n |-> [t \in Seq(S) |->
                       IF added[i] \in ToSet(t) THEN t ELSE Append(t, added[i])]]
            Loop(g) == [i \in 0 .. n |->
                          IF i = 0 THEN old
                          ELSE IF added[i] \in ToSet(g[i - 1]) THEN g[i - 1]
                               ELSE Append(g[i - 1], added[i])]
            list == CHOOSE g : g = Loop(g)
<1>1. n \in Nat /\ DOMAIN added = 1 .. n /\ \A i \in 1 .. n : added[i] \in S
  OBVIOUS
<1>2. PICK g : IsStepwise(g, n, Seq(S), old, step)
  <2>1. \A i \in 1 .. n, t \in Seq(S) : Append(t, added[i]) \in Seq(S)
    BY <1>1
  <2>2. step \in StepsOf(n, Seq(S))
    BY <2>1 DEF StepsOf
  <2>. HIDE DEF n, step
  <2>. QED
    BY <1>1, <2>1, <2>2, StepwiseFunction
<1>3. g = Loop(g)
  <2>1. \A i \in 1 .. n : i - 1 \in 0 .. n /\ g[i - 1] \in Seq(S)
    <3>1. \A i \in 0 .. n : g[i] \in Seq(S)
      <4>. HIDE DEF n, step
      <4>. QED
        BY <1>2 DEF IsStepwise
    <3>2. \A i \in 1 .. n : i - 1 \in 0 .. n
      BY <1>1
    <3>. QED
      BY <3>1, <3>2
  <2>2. \A i \in 1 .. n : g[i] = IF added[i] \in ToSet(g[i - 1]) THEN g[i - 1]
                                ELSE Append(g[i - 1], added[i])
    BY <1>2, <2>1 DEF IsStepwise
  <2>3. \A i \in 0 .. n : i = 0 \/ i \in 1 .. n
    BY <1>1
  <2>. HIDE DEF n, step
  <2>. QED
    BY <1>2, <2>2, <2>3 DEF IsStepwise
<1>4. list = Loop(list)
  <2>. HIDE DEF Loop
  <2>. QED
    BY <1>3
<1>5. With(old, added) = list[n]
  BY DEF With
<1>. HIDE DEF n, list
<1>6. /\ list[0] = old
      /\ \A i \in 1 .. n : list[i] = IF added[i] \in ToSet(list[i - 1]) THEN list[i - 1]
                                     ELSE Append(list[i - 1], added[i])
  <2>1. \A i \in 0 .. n : list[i] = Loop(list)[i]
    BY <1>4
  <2>. QED
    BY <1>1, <2>1
<1>. HIDE DEF Loop
<1>. DEFINE Good(i) == /\ list[i] \in Seq(S)
                       /\ ToSet(list[i]) = ToSet(old) \cup {added[j] : j \in 1 .. i}
                       /\ IsInjective(old) => IsInjective(list[i])
            D == {i \in Nat : i <= n => Good(i)}
<1>7. 0 \in D
  <2>1. {added[j] : j \in 1 .. 0} = {}
    OBVIOUS
  <2>. QED
    BY <1>6, <2>1
<1>8. ASSUME NEW i \in Nat, i \in D PROVE i + 1 \in D
  <2>. SUFFICES ASSUME i + 1 <= n PROVE Good(i + 1)
    OBVIOUS
  <2>1. Good(i) /\ i + 1 \in 1 .. n /\ added[i + 1] \in S /\ (i + 1) - 1 = i
    <3>1. i <= n /\ i + 1 \in 1 .. n /\ (i + 1) - 1 = i
      BY <1>1
    <3>2. Good(i)
      <4>. HIDE DEF Good
      <4>. QED
        BY <1>8, <3>1
    <3>. QED
      BY <1>1, <3>1, <3>2
  <2>2. {added[j] : j \in 1 .. i + 1} = {added[j] : j \in 1 .. i} \cup {added[i + 1]}
    <3>1. 1 .. i + 1 = 1 .. i \cup {i + 1}
      OBVIOUS
    <3>. QED
      BY <3>1
  <2>3. CASE added[i + 1] \in ToSet(list[i])
    <3>1. list[i + 1] = list[i]
      BY <1>6, <2>1, <2>3
    <3>2. ToSet(old) \cup {added[j] : j \in 1 .. i + 1} = ToSet(list[i])
      BY <2>1, <2>2, <2>3
    <3>. QED
      BY <2>1, <3>1, <3>2
  <2>4. CASE added[i + 1] \notin ToSet(list[i])
    <3>1. list[i + 1] = Append(list[i], added[i + 1])
      BY <1>6, <2>1, <2>4
    <3>2. PICK e \in S, s \in Seq(S) : e = added[i + 1] /\ s = list[i]
      BY <2>1
    <3>3. /\ list[i + 1] \in Seq(S) /\ ToSet(list[i + 1]) = ToSet(s) \cup {e}
          /\ IsInjective(s) => IsInjective(list[i + 1])
      BY <2>4, <3>1, <3>2, AppendNew
    <3>. QED
      BY <2>1, <2>2, <3>2, <3>3
  <2>. QED
    BY <2>3, <2>4
<1>9. n \in D
  <2>. HIDE DEF D
  <2>. QED
    BY <1>1, <1>7, <1>8, SetInduction
<1>10. ToSet(added) = {added[j] : j \in 1 .. n}
  BY <1>1 DEF ToSet
<1>. QED
  BY <1>1, <1>5, <1>9, <1>10

(* A change of folders: both loops.                                          *)
LEMMA FoldersChanged ==
    ASSUME NEW S, NEW old \in Seq(S), NEW event, event.added \in Seq(S)
    PROVE  /\ ChangedFolders(old, event) \in Seq(S)
           /\ ToSet(ChangedFolders(old, event)) = (ToSet(old) \ event.removed) \cup ToSet(event.added)
           /\ IsInjective(old) => IsInjective(ChangedFolders(old, event))
  BY WithoutKeeps, WithAdds DEF ChangedFolders

-----------------------------------------------------------------------------
(* The inductive invariant.                                                  *)
IsSeq(s) == s \in Seq(ToSet(s))

\* What an editor puts into a frame.
FrameOK(f) ==
    /\ f.id \in Nat /\ f.midLine \in BOOLEAN
    /\ f.id = NoId \/ f.method \in Requests \cup {"", "oldVersion"}
    /\ f.method \in Requests => f.id \in Ids
    /\ f.method = "$/cancelRequest" /\ f.good => f.arg \in Ids
    /\ f.method = "configuration" => f.arg \in Settings
    /\ f.method = "folders" => f.arg.added \in Seq(Folders)
    /\ f.method = "initialize" /\ f.good =>
          /\ f.arg.folders \in Seq(Folders) /\ IsInjective(f.arg.folders)
          /\ f.arg.settings \in Settings

\* initialize is the first message, and what precedes it shows nothing.
StreamInv ==
    /\ session \in Sessions
    /\ IsSeq(sent)
    /\ \A k \in 1 .. Len(sent) :
          FrameOK(sent[k]) /\ (sent[k].method = "initialize" => k = 1)
    /\ read \in 0 .. Len(sent) /\ taken \subseteq 1 .. read
    /\ torn \in BOOLEAN /\ hungUp \in BOOLEAN /\ replies \in Nat
    /\ running \in {"yes", "closed", "exited", "crashed"}
    /\ read = 0 => shown = {} /\ WorkspaceFolders = <<>>

Message == [kind : {"error", "result", "cancelled", "request"}, id : Nat, to : Nat]

\* A message answers what was read; a request of the server has a number.
MessageOK(w, n, r) ==
    /\ w.to \in 1 .. r
    /\ IF w.kind = "request" THEN w.id \in 1 .. n ELSE w.id = sent[w.to].id

\* Of two messages, the first written before the second, not both answer the
\* same, and of two requests the second has the larger number.
InOrder(v, w) ==
    IF v.kind = "request" THEN w.kind = "request" => v.id < w.id
    ELSE w.kind = "request" \/ v.to # w.to

\* What holds of an output out with n requests, when r messages were read.
OutputOK(out, n, r) ==
    /\ out \in Seq(Message) /\ n \in Nat
    /\ \A j \in 1 .. Len(out) : MessageOK(out[j], n, r)
    /\ \A m \in 1 .. n : \E j \in 1 .. Len(out) : out[j].kind = "request" /\ out[j].id = m
    /\ \A i, j \in 1 .. Len(out) : i < j => InOrder(out[i], out[j])

OutputInv == OutputOK(written, outgoingRequestID, read)

\* A cancellation of i is pending when no request read after it had that
\* identifier.
Asks(k, i) == sent[k].method \in Requests /\ sent[k].id = i
CancelledBy(c, i) == sent[c].method = "$/cancelRequest" /\ sent[c].good /\ sent[c].arg = i

PendingInv ==
    /\ canceledRequests \subseteq Ids
    /\ \A i \in Ids :
          i \in canceledRequests <=>
              \E c \in taken : CancelledBy(c, i) /\ \A m \in taken : c < m => ~Asks(m, i)

\* The folders of the editor after a frame, given those before it.
Told(f, before) ==
    IF f.method = "initialize" /\ f.good THEN ToSet(f.arg.folders)
    ELSE IF f.method = "folders" THEN (before \ f.arg.removed) \cup ToSet(f.arg.added)
    ELSE before

\* The editor's folders have a history, one set for each frame; a server that
\* took every frame it read has those of the last of them.
IsHistory(h, frames) ==
    /\ h = [n \in 0 .. Len(frames) |-> h[n]]
    /\ h[0] = {}
    /\ \A n \in 1 .. Len(frames) : h[n] = Told(frames[n], h[n - 1])
FoldersInv ==
    /\ WorkspaceFolders \in Seq(Folders) /\ IsInjective(WorkspaceFolders)
    /\ RootURI = IF WorkspaceFolders = <<>> THEN NoFolder ELSE WorkspaceFolders[1]
    /\ \E h : /\ IsHistory(h, sent)
              /\ h[Len(sent)] = editorFolders
              /\ taken = 1 .. read => ToSet(WorkspaceFolders) = h[read]

SettingsInv == settings \in Settings /\ ShownWithSettings

Inv == StreamInv /\ OutputInv /\ PendingInv /\ CancelledSince /\ FoldersInv /\ SettingsInv

(* What appending does to a sequence of anything.                            *)
LEMMA AppendAny ==
    ASSUME NEW s, IsSeq(s), NEW e
    PROVE  /\ IsSeq(Append(s, e))
           /\ Len(s) \in Nat /\ Len(Append(s, e)) = Len(s) + 1
           /\ DOMAIN Append(s, e) = 1 .. Len(s) + 1
           /\ \A i \in 1 .. Len(s) : Append(s, e)[i] = s[i]
           /\ Append(s, e)[Len(s) + 1] = e
<1>. DEFINE S == ToSet(s) \cup {e}
            t == Append(s, e)
<1>1. s \in Seq(S) /\ e \in S
  <2>1. ToSet(s) \subseteq S
    OBVIOUS
  <2>2. s \in Seq(ToSet(s))
    BY DEF IsSeq
  <2>. HIDE DEF S
  <2>. QED
    BY <2>1, <2>2, SeqMonotonic DEF S
<1>. HIDE DEF S
<1>2. /\ t \in Seq(S) /\ Len(t) = Len(s) + 1 /\ Len(s) \in Nat
      /\ \A i \in 1 .. Len(s) : t[i] = s[i]
      /\ t[Len(s) + 1] = e
      /\ DOMAIN t = 1 .. Len(s) + 1
  BY <1>1
<1>. HIDE DEF t
<1>3. t \in Seq(ToSet(t))
  <2>1. \A i \in 1 .. Len(t) : t[i] \in ToSet(t)
    BY <1>2 DEF ToSet
  <2>2. t = [i \in 1 .. Len(t) |-> t[i]] /\ Len(t) \in Nat
    BY <1>2
  <2>. QED
    BY <2>1, <2>2, IsASeq
<1>. QED
  BY <1>2, <1>3 DEF t, IsSeq

-----------------------------------------------------------------------------
(* The editor sends a frame.                                                 *)
LEMMA HistoryGrows ==
    ASSUME NEW h, IsSeq(sent), IsHistory(h, sent), NEW f
    PROVE  \E g : /\ IsHistory(g, Append(sent, f))
                  /\ g[Len(sent) + 1] = Told(f, h[Len(sent)])
                  /\ \A n \in 0 .. Len(sent) : g[n] = h[n]
<1>. DEFINE L == Len(sent)
            g == [n \in 0 .. L + 1 |-> IF n <= L THEN h[n] ELSE Told(f, h[L])]
            t == Append(sent, f)
<1>1. /\ L \in Nat /\ Len(t) = L + 1 /\ t[L + 1] = f /\ \A i \in 1 .. L : t[i] = sent[i]
  BY AppendAny
<1>. HIDE DEF t
<1>2. /\ g[L + 1] = Told(f, h[L]) /\ \A n \in 0 .. L : g[n] = h[n]
      /\ g = [n \in 0 .. L + 1 |-> g[n]]
  BY <1>1
<1>. HIDE DEF g, L
<1>3. h[0] = {} /\ \A n \in 1 .. L : h[n] = Told(sent[n], h[n - 1])
  BY DEF IsHistory, L
<1>4. g[0] = {}
  <2>1. 0 \in 0 .. L
    BY <1>1
  <2>. QED
    BY <1>2, <1>3, <2>1
<1>5. ASSUME NEW n \in 1 .. L + 1 PROVE g[n] = Told(t[n], g[n - 1])
  <2>1. CASE n = L + 1
    <3>1. n - 1 = L /\ L \in 0 .. L
      BY <1>1, <2>1
    <3>2. g[n] = Told(f, h[L]) /\ t[n] = f
      BY <1>1, <1>2, <2>1
    <3>3. g[n - 1] = h[L]
      BY <1>2, <3>1
    <3>. QED
      BY <3>2, <3>3, Zenon
  <2>2. CASE n # L + 1
    <3>1. n \in 1 .. L /\ n \in 0 .. L /\ n - 1 \in 0 .. L
      BY <1>1, <2>2
    <3>2. t[n] = sent[n] /\ g[n] = h[n] /\ g[n - 1] = h[n - 1]
      BY <1>1, <1>2, <3>1
    <3>3. h[n] = Told(sent[n], h[n - 1])
      BY <1>3, <3>1
    <3>. QED
      BY <3>2, <3>3, Zenon
  <2>. QED
    BY <2>1, <2>2
<1>. QED
  BY <1>1, <1>2, <1>4, <1>5 DEF IsHistory, t, L

(* A frame the editor sends takes its place in the history of the folders,   *)
(* and nothing that is already answered changes.                             *)
LEMMA SendKeeps ==
    ASSUME Inv, NEW f, FrameOK(f), f.method = "initialize" => sent = <<>>,
           Send(f), editorFolders' = Told(f, editorFolders),
           replies' \in Nat, UNCHANGED <<hungUp, reader, config, output, running, canceledRequests>>
    PROVE  Inv'
<1>. USE DEF Inv
<1>1. /\ IsSeq(sent) /\ Len(sent) \in Nat /\ sent' = Append(sent, f) /\ session' = session
      /\ Len(sent') = Len(sent) + 1 /\ IsSeq(sent') /\ sent'[Len(sent) + 1] = f
      /\ \A i \in 1 .. Len(sent) : sent'[i] = sent[i]
  BY AppendAny DEF Send, StreamInv
<1>2. /\ read' = read /\ torn' = torn /\ taken' = taken /\ hungUp' = hungUp /\ running' = running
      /\ WorkspaceFolders' = WorkspaceFolders /\ RootURI' = RootURI /\ settings' = settings
      /\ parsed' = parsed /\ shown' = shown /\ written' = written /\ outgoingRequestID' = outgoingRequestID
      /\ canceledRequests' = canceledRequests
  BY DEF reader, config, output
<1>3. read \in 0 .. Len(sent) /\ taken \subseteq 1 .. Len(sent) /\ read \in Nat
  BY <1>1 DEF StreamInv
<1>4. StreamInv'
  <2>1. sent = <<>> => Len(sent) = 0
    OBVIOUS
  <2>2. \A k \in 1 .. Len(sent') : FrameOK(sent'[k]) /\ (sent'[k].method = "initialize" => k = 1)
    <3>. TAKE k \in 1 .. Len(sent')
    <3>1. CASE k = Len(sent) + 1
      BY <1>1, <2>1, <3>1
    <3>2. CASE k # Len(sent) + 1
      <4>1. k \in 1 .. Len(sent)
        BY <1>1, <3>2
      <4>. QED
        BY <1>1, <4>1 DEF StreamInv
    <3>. QED
      BY <3>1, <3>2
  <2>. QED
    BY <1>1, <1>2, <1>3, <2>2 DEF StreamInv
<1>5. OutputInv'
  <2>1. ASSUME NEW w, MessageOK(w, outgoingRequestID, read)
        PROVE  MessageOK(w, outgoingRequestID, read)'
    BY <1>1, <1>2, <1>3, <2>1 DEF MessageOK
  <2>. QED
    BY <1>2, <2>1 DEF OutputInv, OutputOK
<1>6. PendingInv'
  BY <1>1, <1>2, <1>3 DEF PendingInv, Asks, CancelledBy
<1>7. CancelledSince'
  BY <1>1, <1>2, <1>3 DEF CancelledSince, Cancelled
<1>8. FoldersInv'
  <2>1. PICK h : IsHistory(h, sent) /\ h[Len(sent)] = editorFolders
                 /\ (taken = 1 .. read => ToSet(WorkspaceFolders) = h[read])
    BY DEF FoldersInv
  <2>2. PICK g : /\ IsHistory(g, sent') /\ g[Len(sent) + 1] = Told(f, h[Len(sent)])
                 /\ \A n \in 0 .. Len(sent) : g[n] = h[n]
    BY <1>1, <2>1, HistoryGrows
  <2>3. g[Len(sent')] = editorFolders' /\ g[read] = h[read]
    BY <1>1, <1>3, <2>1, <2>2
  <2>. QED
    BY <1>2, <2>1, <2>2, <2>3 DEF FoldersInv
<1>9. SettingsInv'
  BY <1>2 DEF SettingsInv, ShownWithSettings
<1>. QED
  BY <1>4, <1>5, <1>6, <1>7, <1>8, <1>9

(* The editor and its stream: sending, hanging up, breaking off a message.   *)
LEMMA EditorStep ==
    ASSUME Inv, Editor
    PROVE  Inv'
<1>. USE DispatcherAssumption DEF NoId
<1>1. /\ UNCHANGED <<reader, config, output, running, canceledRequests>>
      /\ replies \in Nat /\ session \in Sessions /\ editorFolders \in SUBSET editorFolders
  BY DEF Editor, Inv, StreamInv
<1>2. CASE SendInitialize
  <2>1. PICK id \in Ids, good \in BOOLEAN, start \in session.starts :
            /\ Send(Frame("initialize", id, good, start))
            /\ editorFolders' = IF good THEN ToSet(start.folders) ELSE {}
    BY <1>2 DEF SendInitialize
  <2>. DEFINE f == Frame("initialize", id, good, start)
  <2>2. sent = <<>> /\ UNCHANGED <<hungUp, replies>>
    BY <1>2 DEF SendInitialize
  <2>3. FrameOK(f)
    <3>1. start.folders \in Seq(Folders) /\ IsInjective(start.folders) /\ start.settings \in Settings
      BY <1>1, <2>1
    <3>. QED
      BY <3>1 DEF FrameOK, Frame, Requests
  <2>4. editorFolders = {}
    <3>1. PICK h : IsHistory(h, sent) /\ h[Len(sent)] = editorFolders
      BY DEF Inv, FoldersInv
    <3>. QED
      BY <2>2, <3>1 DEF IsHistory
  <2>5. editorFolders' = Told(f, editorFolders)
    BY <2>1, <2>4 DEF Told, Frame
  <2>. HIDE DEF f
  <2>. QED
    BY <1>1, <2>1, <2>2, <2>3, <2>5, SendKeeps DEF f
<1>3. ASSUME NEW f, Send(f), FrameOK(f), f.method \notin {"initialize", "folders"},
             UNCHANGED <<hungUp, editorFolders>>, replies' \in Nat
      PROVE  Inv'
  <2>1. editorFolders' = Told(f, editorFolders)
    BY <1>3 DEF Told
  <2>. QED
    BY <1>1, <1>3, <2>1, SendKeeps
<1>4. CASE SendRequest
  <2>1. PICK id \in Ids : \E f \in
            {Frame(method, id, TRUE, "none") : method \in Requests \ {"initialize"}} \cup
            {Frame("executeCommand", id, TRUE, arg) : arg \in {"edits", "unknown"}} \cup
            {Frame(method, id, FALSE, "none") : method \in {"query", "executeCommand"}} : Send(f)
    BY <1>4 DEF SendRequest
  <2>2. PICK method \in Requests \ {"initialize"}, good \in BOOLEAN,
               arg \in {"none", "edits", "unknown"} :
            Send(Frame(method, id, good, arg))
    <3>1. {"query", "executeCommand"} \subseteq Requests \ {"initialize"}
      BY DEF Requests
    <3>. QED
      BY <2>1, <3>1
  <2>3. FrameOK(Frame(method, id, good, arg))
        /\ Frame(method, id, good, arg).method \notin {"initialize", "folders"}
    BY DEF FrameOK, Frame, Requests
  <2>. QED
    BY <1>1, <1>3, <1>4, <2>2, <2>3 DEF SendRequest
<1>5. CASE SendOther
  <2>1. PICK f \in {Frame("initialized", NoId, TRUE, NoId), Frame("exit", NoId, TRUE, NoId),
                 Frame("garbage", NoId, TRUE, NoId), Frame("note", NoId, TRUE, NoId),
                 Frame("$/cancelRequest", NoId, FALSE, NoId), Refused(TRUE), Refused(FALSE)}
              \cup {Frame("$/cancelRequest", NoId, TRUE, id) : id \in Ids}
              \cup {Frame("oldVersion", id, TRUE, NoId) : id \in {i \in Ids : ~Open(i)}}
              \cup {Frame("configuration", NoId, TRUE, c) : c \in Settings} : Send(f)
    BY <1>5 DEF SendOther
  <2>2. FrameOK(f) /\ f.method \notin {"initialize", "folders"}
    <3>. DEFINE OK(g) == FrameOK(g) /\ g.method \notin {"initialize", "folders"}
    <3>1. ASSUME NEW m \in {"initialized", "exit", "garbage", "note", "$/cancelRequest"},
                 NEW good \in BOOLEAN, m = "$/cancelRequest" => ~good
          PROVE  OK(Frame(m, NoId, good, NoId))
      BY <3>1 DEF FrameOK, Frame, Requests
    <3>2. ASSUME NEW b \in BOOLEAN PROVE OK(Refused(b))
      BY DEF FrameOK, Frame, Refused, Requests
    <3>3. ASSUME NEW id \in Ids
          PROVE  OK(Frame("$/cancelRequest", NoId, TRUE, id)) /\ OK(Frame("oldVersion", id, TRUE, NoId))
      BY DEF FrameOK, Frame, Requests
    <3>4. ASSUME NEW c \in Settings PROVE OK(Frame("configuration", NoId, TRUE, c))
      BY DEF FrameOK, Frame, Requests
    <3>. HIDE DEF OK
    <3>5. OK(f)
      BY <3>1, <3>2, <3>3, <3>4
    <3>. QED
      BY <3>5 DEF OK
  <2>. QED
    BY <1>1, <1>3, <1>5, <2>1, <2>2 DEF SendOther
<1>6. CASE SendFolders
  <2>1. PICK added \in {s \in SeqOf(Folders, 2) : IsInjective(s)}, removed \in SUBSET editorFolders :
          /\ Send(Frame("folders", NoId, TRUE, [added |-> added, removed |-> removed]))
          /\ editorFolders' = (editorFolders \ removed) \cup ToSet(added)
    BY <1>6 DEF SendFolders
  <2>. DEFINE f == Frame("folders", NoId, TRUE, [added |-> added, removed |-> removed])
  <2>2. added \in Seq(Folders)
    <3>1. PICK m \in 0 .. 2 : added \in [1 .. m -> Folders]
      BY DEF SeqOf
    <3>. QED
      BY <3>1
  <2>3. FrameOK(f) /\ f.method # "initialize"
    BY <2>2 DEF FrameOK, Frame, Requests
  <2>4. editorFolders' = Told(f, editorFolders)
    BY <2>1 DEF Told, Frame
  <2>. HIDE DEF f
  <2>. QED
    BY <1>1, <1>6, <2>1, <2>3, <2>4, SendKeeps DEF SendFolders, f
<1>7. CASE SendReply
  <2>1. FrameOK(Frame("", replies + 1, TRUE, NoId))
        /\ Frame("", replies + 1, TRUE, NoId).method \notin {"initialize", "folders"}
    BY <1>1 DEF FrameOK, Frame, Requests
  <2>. QED
    <3>1. Send(Frame("", replies + 1, TRUE, NoId)) /\ UNCHANGED <<hungUp, editorFolders>>
      BY <1>7, Zenon DEF SendReply
    <3>2. replies' = replies + 1 /\ replies \in Nat
      BY <1>1, <1>7, Zenon DEF SendReply
    <3>3. replies' \in Nat
      BY <3>2
    <3>. QED
      BY <1>3, <2>1, <3>1, <3>3
<1>8. CASE HangUp
  <2>1. /\ UNCHANGED <<session, sent, editorFolders, replies>> /\ hungUp' \in BOOLEAN
        /\ UNCHANGED <<read, torn, taken, WorkspaceFolders, RootURI, settings, parsed, shown, written,
                       outgoingRequestID, running, canceledRequests>>
    BY <1>1, <1>8 DEF HangUp, reader, config, output
  <2>. QED
    BY <2>1 DEF Inv, StreamInv, OutputInv, OutputOK, MessageOK, PendingInv, CancelledSince, FoldersInv, SettingsInv,
                Asks, CancelledBy, Cancelled, ShownWithSettings
<1>. QED
  BY <1>2, <1>4, <1>5, <1>6, <1>7, <1>8 DEF Editor

-----------------------------------------------------------------------------
(* The server handles a message: what it writes.                             *)
\* One message more: an answer to the message that is read, or the request
\* that follows n others.
Puts(out, kind, id) == Append(out, Write(kind, id))
PutsNext(out, n) == Append(out, Write("request", n + 1))

Wrote(kinds) ==
    \/ written' = written /\ outgoingRequestID' = outgoingRequestID
    \/ /\ \E kind \in kinds : written' = Puts(written, kind, head.id)
       /\ outgoingRequestID' = outgoingRequestID
    \/ /\ outgoingRequestID' = outgoingRequestID + 1
       /\ written' = PutsNext(written, outgoingRequestID)
    \/ /\ outgoingRequestID' = outgoingRequestID + 1
       /\ \E kind \in kinds :
             written' = Puts(PutsNext(written, outgoingRequestID), kind, head.id)

\* No message of out answers message k.
Unanswered(out, k) == \A j \in 1 .. Len(out) : out[j].kind = "request" \/ out[j].to # k

(* A request of the server takes the next identifier and answers nothing.    *)
LEMMA PutsRequest ==
    ASSUME NEW out, NEW n \in Nat, OutputOK(out, n, read + 1), read \in Nat, Unanswered(out, read + 1),
           NEW new, new = PutsNext(out, n)
    PROVE  /\ OutputOK(new, n + 1, read + 1)
           /\ Unanswered(new, read + 1)
           /\ \A j \in 1 .. Len(out) : new[j] = out[j]
           /\ \A j \in 1 .. Len(new) : j \in 1 .. Len(out) \/ new[j].kind = "request"
           /\ Len(new) = Len(out) + 1
<1>. DEFINE L == Len(out)
<1>1. /\ out \in Seq(Message) /\ n \in Nat /\ L \in Nat
      /\ Write("request", n + 1) \in Message
  BY DEF OutputOK, Message, Write
<1>2. /\ new \in Seq(Message) /\ Len(new) = L + 1
      /\ \A j \in 1 .. L : new[j] = out[j]
      /\ new[L + 1].kind = "request" /\ new[L + 1].id = n + 1 /\ new[L + 1].to = read + 1
      /\ \A j \in 1 .. L + 1 : j \in 1 .. L \/ j = L + 1
  BY <1>1 DEF PutsNext, Write
<1>3. Unanswered(new, read + 1)
  BY <1>1, <1>2 DEF Unanswered
<1>4. /\ \A j \in 1 .. L : MessageOK(out[j], n, read + 1)
      /\ \A m \in 1 .. n : \E j \in 1 .. L : out[j].kind = "request" /\ out[j].id = m
      /\ \A i, j \in 1 .. L : i < j => InOrder(out[i], out[j])
  BY DEF OutputOK
<1>. HIDE DEF L
<1>5. ASSUME NEW j \in 1 .. L + 1 PROVE MessageOK(new[j], n + 1, read + 1)
  <2>1. CASE j \in 1 .. L
    <3>1. MessageOK(out[j], n, read + 1)
      BY <1>4, <2>1
    <3>. QED
      BY <1>1, <1>2, <2>1, <3>1 DEF MessageOK
  <2>2. CASE j = L + 1
    BY <1>1, <1>2, <2>2 DEF MessageOK
  <2>. QED
    BY <1>2, <2>1, <2>2
<1>6. \A m \in 1 .. n + 1 : \E j \in 1 .. L + 1 : new[j].kind = "request" /\ new[j].id = m
  <2>. TAKE m \in 1 .. n + 1
  <2>1. CASE m = n + 1
    BY <1>1, <1>2, <2>1
  <2>2. CASE m # n + 1
    <3>1. m \in 1 .. n
      BY <1>1, <2>2
    <3>2. PICK j \in 1 .. L : out[j].kind = "request" /\ out[j].id = m
      BY <1>4, <3>1
    <3>. QED
      BY <1>1, <1>2, <3>2
  <2>. QED
    BY <2>1, <2>2
<1>7. ASSUME NEW i \in 1 .. L + 1, NEW j \in 1 .. L + 1, i < j
      PROVE  InOrder(new[i], new[j])
  <2>1. i \in 1 .. L
    BY <1>1, <1>7
  <2>2. CASE j \in 1 .. L
    <3>1. InOrder(out[i], out[j])
      BY <1>4, <1>7, <2>1, <2>2
    <3>. QED
      BY <1>2, <2>1, <2>2, <3>1
  <2>3. CASE j = L + 1
    <3>1. MessageOK(out[i], n, read + 1)
      BY <1>4, <2>1
    <3>2. out[i].kind = "request" => out[i].id < n + 1
      BY <1>1, <3>1 DEF MessageOK
    <3>. QED
      BY <1>2, <2>1, <2>3, <3>2 DEF InOrder
  <2>. QED
    BY <1>2, <2>2, <2>3
<1>8. OutputOK(new, n + 1, read + 1)
  <2>1. /\ new \in Seq(Message) /\ n + 1 \in Nat
        /\ \A j \in 1 .. Len(new) : MessageOK(new[j], n + 1, read + 1)
        /\ \A m \in 1 .. n + 1 : \E j \in 1 .. Len(new) : new[j].kind = "request" /\ new[j].id = m
    BY <1>1, <1>2, <1>5, <1>6
  <2>2. \A i, j \in 1 .. Len(new) : i < j => InOrder(new[i], new[j])
    BY <1>2, <1>7
  <2>. QED
    BY <2>1, <2>2 DEF OutputOK
<1>. QED
  BY <1>2, <1>3, <1>8 DEF L

(* An answer goes to the message being handled, which had none.              *)
LEMMA PutsAnswer ==
    ASSUME NEW out, NEW n \in Nat, OutputOK(out, n, read + 1), read \in Nat, Unanswered(out, read + 1),
           head.id \in Nat, NEW kind \in {"error", "result", "cancelled"},
           NEW new, new = Puts(out, kind, head.id)
    PROVE  /\ OutputOK(new, n, read + 1)
           /\ \A j \in 1 .. Len(out) : new[j] = out[j]
           /\ Len(new) = Len(out) + 1
           /\ new[Len(out) + 1].kind = kind /\ new[Len(out) + 1].to = read + 1
<1>. DEFINE L == Len(out)
<1>1. /\ out \in Seq(Message) /\ n \in Nat /\ L \in Nat
      /\ Write(kind, head.id) \in Message
  BY DEF OutputOK, Message, Write
<1>2. /\ new \in Seq(Message) /\ Len(new) = L + 1
      /\ \A j \in 1 .. L : new[j] = out[j]
      /\ new[L + 1].kind = kind /\ new[L + 1].id = sent[read + 1].id /\ new[L + 1].to = read + 1
      /\ \A j \in 1 .. L + 1 : j \in 1 .. L \/ j = L + 1
  BY <1>1 DEF Puts, Write, head
<1>3. /\ \A j \in 1 .. L : MessageOK(out[j], n, read + 1)
      /\ \A m \in 1 .. n : \E j \in 1 .. L : out[j].kind = "request" /\ out[j].id = m
      /\ \A i, j \in 1 .. L : i < j => InOrder(out[i], out[j])
      /\ \A j \in 1 .. L : out[j].kind = "request" \/ out[j].to # read + 1
  BY DEF OutputOK, Unanswered
<1>. HIDE DEF L
<1>4. ASSUME NEW j \in 1 .. L + 1 PROVE MessageOK(new[j], n, read + 1)
  <2>1. CASE j \in 1 .. L
    BY <1>2, <1>3, <2>1
  <2>2. CASE j = L + 1
    BY <1>1, <1>2, <2>2 DEF MessageOK
  <2>. QED
    BY <1>2, <2>1, <2>2
<1>5. \A m \in 1 .. n : \E j \in 1 .. L + 1 : new[j].kind = "request" /\ new[j].id = m
  <2>. TAKE m \in 1 .. n
  <2>1. PICK j \in 1 .. L : out[j].kind = "request" /\ out[j].id = m
    BY <1>3
  <2>. QED
    BY <1>1, <1>2, <2>1
<1>6. ASSUME NEW i \in 1 .. L + 1, NEW j \in 1 .. L + 1, i < j
      PROVE  InOrder(new[i], new[j])
  <2>1. i \in 1 .. L
    BY <1>1, <1>6
  <2>2. CASE j \in 1 .. L
    <3>1. InOrder(out[i], out[j])
      BY <1>3, <1>6, <2>1, <2>2
    <3>. QED
      BY <1>2, <2>1, <2>2, <3>1
  <2>3. CASE j = L + 1
    <3>1. out[i].kind = "request" \/ out[i].to # read + 1
      BY <1>3, <2>1
    <3>. QED
      BY <1>2, <2>1, <2>3, <3>1 DEF InOrder
  <2>. QED
    BY <1>2, <2>2, <2>3
<1>7. OutputOK(new, n, read + 1)
  BY <1>1, <1>2, <1>4, <1>5, <1>6 DEF OutputOK
<1>. QED
  BY <1>2, <1>7 DEF L

\* An output refuses message k as cancelled.
RefusedIn(out, k) == \E j \in DOMAIN out : out[j].kind = "cancelled" /\ out[j].to = k

(* Whatever a handler writes, at most one of it is an answer.                *)
LEMMA OutputStep ==
    ASSUME Inv, read' = read + 1, sent' = sent, head.id \in Nat,
           NEW kinds \in SUBSET {"error", "result", "cancelled"}, Wrote(kinds)
    PROVE  /\ OutputInv'
           /\ \A k \in Nat : RefusedIn(written, k) => RefusedIn(written', k)
           /\ \A k \in Nat : RefusedIn(written', k) => RefusedIn(written, k) \/ (k = read + 1 /\ "cancelled" \in kinds)
<1>. DEFINE n == outgoingRequestID
            Kept(new) == \A j \in 1 .. Len(written) : new[j] = written[j]
            Added(new) == \A j \in 1 .. Len(new) :
                             \/ j \in 1 .. Len(written)
                             \/ new[j].kind = "request"
                             \/ new[j].to = read + 1 /\ new[j].kind \in kinds
            Grown == /\ OutputOK(written', outgoingRequestID', read + 1)
                     /\ Kept(written') /\ Added(written')
                     /\ Len(written') \in Nat /\ Len(written') >= Len(written)
<1>1. read \in Nat /\ written \in Seq(Message) /\ n \in Nat /\ Len(written) \in Nat
  BY DEF Inv, StreamInv, OutputInv, OutputOK
<1>2. OutputOK(written, n, read + 1)
  <2>1. ASSUME NEW w, MessageOK(w, n, read) PROVE MessageOK(w, n, read + 1)
    BY <1>1, <2>1 DEF MessageOK
  <2>. QED
    BY <2>1 DEF Inv, OutputInv, OutputOK
<1>3. Unanswered(written, read + 1)
  BY <1>1 DEF Inv, OutputInv, OutputOK, MessageOK, Unanswered
<1>4. ASSUME NEW new, new = PutsNext(written, n)
      PROVE  /\ OutputOK(new, n + 1, read + 1) /\ Unanswered(new, read + 1)
             /\ Kept(new) /\ Len(new) = Len(written) + 1
             /\ \A j \in 1 .. Len(new) : j \in 1 .. Len(written) \/ new[j].kind = "request"
  <2>. HIDE DEF n, Grown, Added, Kept
  <2>1. /\ OutputOK(new, n + 1, read + 1) /\ Unanswered(new, read + 1)
        /\ Len(new) = Len(written) + 1
    BY <1>1, <1>2, <1>3, <1>4, PutsRequest
  <2>2. PICK w : w = Write("request", n + 1)
    OBVIOUS
  <2>3. new = Append(written, w) /\ w.kind = "request"
    BY <1>4, <2>2 DEF PutsNext, Write
  <2>4. \A j \in 1 .. Len(written) : new[j] = written[j]
    BY <1>1, <2>3
  <2>5. \A j \in 1 .. Len(new) : j \in 1 .. Len(written) \/ new[j].kind = "request"
    BY <1>1, <2>3
  <2>. QED
    BY <2>1, <2>4, <2>5 DEF Kept
<1>5. Grown
  <2>1. CASE written' = written /\ outgoingRequestID' = n
    BY <1>1, <1>2, <2>1
  <2>2. ASSUME NEW kind \in kinds, written' = Puts(written, kind, head.id), outgoingRequestID' = n
        PROVE  Grown
    <3>1. PICK new : new = Puts(written, kind, head.id)
      OBVIOUS
    <3>2. /\ OutputOK(new, n, read + 1) /\ Kept(new) /\ Len(new) = Len(written) + 1
          /\ new[Len(written) + 1].kind = kind /\ new[Len(written) + 1].to = read + 1
      BY <1>1, <1>2, <1>3, <3>1, PutsAnswer
    <3>3. Added(new)
      BY <1>1, <3>2
    <3>. QED
      BY <1>1, <2>2, <3>1, <3>2, <3>3
  <2>3. CASE written' = PutsNext(written, n) /\ outgoingRequestID' = n + 1
    <3>1. PICK new : new = PutsNext(written, n)
      OBVIOUS
    <3>2. /\ OutputOK(new, n + 1, read + 1) /\ Kept(new) /\ Len(new) = Len(written) + 1
          /\ \A j \in 1 .. Len(new) : j \in 1 .. Len(written) \/ new[j].kind = "request"
      BY <1>4, <3>1
    <3>. QED
      BY <1>1, <2>3, <3>1, <3>2
  <2>4. ASSUME NEW kind \in kinds, outgoingRequestID' = n + 1,
               written' = Puts(PutsNext(written, n), kind, head.id)
        PROVE  Grown
    <3>1. PICK mid : mid = PutsNext(written, n)
      OBVIOUS
    <3>2. /\ OutputOK(mid, n + 1, read + 1) /\ Kept(mid) /\ Len(mid) = Len(written) + 1
          /\ \A j \in 1 .. Len(mid) : j \in 1 .. Len(written) \/ mid[j].kind = "request"
      BY <1>4, <3>1
    <3>3. Unanswered(mid, read + 1)
      BY <1>4, <3>1
    <3>4. PICK m \in Nat : m = n + 1
      BY <1>1
    <3>5. PICK new : new = Puts(mid, kind, head.id)
      OBVIOUS
    <3>6. OutputOK(mid, m, read + 1) /\ kind \in {"error", "result", "cancelled"}
      BY <3>2, <3>4
    <3>7. /\ OutputOK(new, m, read + 1) /\ Len(new) = Len(mid) + 1
          /\ \A j \in 1 .. Len(mid) : new[j] = mid[j]
          /\ new[Len(mid) + 1].kind = kind /\ new[Len(mid) + 1].to = read + 1
      BY <1>1, <3>3, <3>5, <3>6, PutsAnswer
    <3>8. Kept(new)
      BY <1>1, <3>2, <3>7
    <3>9. Added(new)
      <4>. SUFFICES ASSUME NEW j \in 1 .. Len(new), j \notin 1 .. Len(written)
                    PROVE  new[j].kind = "request" \/ (new[j].to = read + 1 /\ new[j].kind \in kinds)
        OBVIOUS
      <4>1. CASE j = Len(mid) + 1
        BY <3>7, <4>1
      <4>2. CASE j # Len(mid) + 1
        <5>1. j \in 1 .. Len(mid)
          BY <1>1, <3>2, <3>7, <4>2
        <5>. QED
          BY <3>2, <3>7, <5>1
      <4>. QED
        BY <4>1, <4>2
    <3>. QED
      BY <1>1, <2>4, <3>1, <3>2, <3>4, <3>5, <3>7, <3>8, <3>9
  <2>. QED
    BY <2>1, <2>2, <2>3, <2>4 DEF Wrote
<1>. HIDE DEF Kept, Added
<1>6. OutputInv'
  <2>1. OutputOK(written, outgoingRequestID, read)' = OutputOK(written', outgoingRequestID', read + 1)
    BY DEF OutputOK, MessageOK
  <2>. QED
    BY <1>5, <2>1 DEF OutputInv
<1>7. DOMAIN written = 1 .. Len(written) /\ DOMAIN written' = 1 .. Len(written')
  BY <1>1, <1>5 DEF OutputOK
<1>8. \A k \in Nat : RefusedIn(written, k) => RefusedIn(written', k)
  BY <1>1, <1>5, <1>7 DEF RefusedIn, Kept
<1>9. \A k \in Nat : RefusedIn(written', k) => RefusedIn(written, k) \/ (k = read + 1 /\ "cancelled" \in kinds)
  BY <1>1, <1>5, <1>7 DEF RefusedIn, Kept, Added
<1>. QED
  BY <1>6, <1>8, <1>9

\* The head is an uncancelled message: what its handler does to the output and
\* to the cancellations.
Uncancelled ==
    /\ Wrote({"error", "result"})
    /\ ~(head.method \in Requests /\ head.id \in canceledRequests)
    /\ canceledRequests' = canceledRequests \cup
           (IF head.method = "$/cancelRequest" /\ head.good THEN {head.arg} ELSE {})

(* refreshWorkspace writes requests and notifications only.                  *)
LEMMA RefreshWrites ==
    ASSUME written \in Seq(Message), outgoingRequestID \in Nat, refreshWorkspace(<<>>)
    PROVE  Wrote({"error", "result"})
<1>1. CASE workDoneProgressSupport
  <2>. DEFINE w == Write("request", outgoingRequestID + 1)
  <2>1. /\ outgoingRequestID' = outgoingRequestID + 1
        /\ written' = (written \o <<w>>) \o <<>>
    BY <1>1 DEF refreshWorkspace, nextOutgoingRequestID
  <2>. PICK v : v = w
    OBVIOUS
  <2>2. written \in Seq(Message \cup {v})
    OBVIOUS
  <2>3. (written \o <<v>>) \o <<>> = Append(written, v)
    BY <2>2
  <2>. QED
    BY <2>1, <2>3 DEF Wrote, PutsNext
<1>2. CASE ~workDoneProgressSupport
  <2>1. written' = written \o <<>> /\ UNCHANGED outgoingRequestID
    BY <1>2 DEF refreshWorkspace
  <2>. QED
    BY <2>1 DEF Wrote
<1>. QED
  BY <1>1, <1>2

(* A reply is one message.                                                   *)
LEMMA ReplyWrites ==
    ASSUME UNCHANGED outgoingRequestID, NEW kind \in {"error", "result"},
           Reply(kind) \/ ReplyIfRequest(kind)
    PROVE  Wrote({"error", "result"})
  BY DEF Reply, ReplyIfRequest, Wrote, Puts

(* workspace/executeCommand asks the editor for something and then replies.  *)
LEMMA CommandWrites ==
    ASSUME written \in Seq(Message), outgoingRequestID' = outgoingRequestID + 1,
           written' = written \o <<Write("request", outgoingRequestID + 1), Write("result", head.id)>>
    PROVE  Wrote({"error", "result"})
<1>1. PICK v : v = Write("request", outgoingRequestID + 1)
  OBVIOUS
<1>2. PICK w : w = Write("result", head.id)
  OBVIOUS
<1>3. written \in Seq(Message \cup {v, w})
  OBVIOUS
<1>4. written \o <<v, w>> = Append(Append(written, v), w)
  BY <1>3
<1>5. written' = Puts(PutsNext(written, outgoingRequestID), "result", head.id)
  BY <1>1, <1>2, <1>4 DEF Puts, PutsNext
<1>. QED
  BY <1>5 DEF Wrote

(* handleMessage refuses a request that was cancelled and answers every      *)
(* other at most once.                                                       *)
LEMMA HandlerOutput ==
    ASSUME Inv, handleMessage
    PROVE  Uncancelled \/ Canceled
<1>1. FrameOK(head)
  BY DEF Inv, StreamInv, handleMessage, ReadMessage, head
<1>2. written \in Seq(Message) /\ outgoingRequestID \in Nat
  BY DEF Inv, OutputInv, OutputOK
<1>3. head.method \in Requests /\ head.id \in canceledRequests => isCanceled
  BY <1>1, DispatcherAssumption DEF FrameOK, isCanceled, NoId, Requests
<1>4. ASSUME Wrote({"error", "result"}), head.method # "$/cancelRequest", UNCHANGED canceledRequests,
             head.method \notin Requests \/ ~isCanceled
      PROVE  Uncancelled
  BY <1>3, <1>4 DEF Uncancelled
<1>5. Silent => Wrote({"error", "result"})
  BY DEF Silent, output, Wrote
<1>6. Keeps => UNCHANGED canceledRequests
  BY DEF Keeps
<1>7. CASE ParseError
  BY <1>4, <1>6, <1>7, ReplyWrites DEF ParseError, Requests
<1>8. CASE InvalidRequest
  BY <1>4, <1>6, <1>8, ReplyWrites DEF InvalidRequest, Requests
<1>9. CASE handleCancelRequest
  BY <1>5, <1>9 DEF handleCancelRequest, Uncancelled, Requests
<1>10. CASE handleInitialize
  BY <1>4, <1>10, ReplyWrites DEF handleInitialize
<1>11. CASE handleInitialized
  BY <1>2, <1>4, <1>11, RefreshWrites DEF handleInitialized, Requests
<1>12. CASE handleDidChangeConfiguration
  BY <1>2, <1>4, <1>5, <1>12, RefreshWrites DEF handleDidChangeConfiguration, Requests
<1>13. CASE handleDidChangeWorkspaceFolders
  BY <1>2, <1>4, <1>13, RefreshWrites DEF handleDidChangeWorkspaceFolders, Requests
<1>14. CASE handleShutdown
  BY <1>4, <1>6, <1>14, ReplyWrites DEF handleShutdown
<1>15. CASE handleExit
  BY <1>4, <1>5, <1>15 DEF handleExit, Requests
<1>16. CASE handleExecuteCommand
  <2>1. Wrote({"error", "result"})
    <3>1. CASE Silent
      BY <1>5, <3>1
    <3>2. CASE Reply("result") /\ UNCHANGED outgoingRequestID
      BY <3>2, ReplyWrites
    <3>3. CASE /\ outgoingRequestID' = nextOutgoingRequestID
               /\ written' = written \o <<Write("request", nextOutgoingRequestID), Write("result", head.id)>>
      BY <1>2, <3>3, CommandWrites DEF nextOutgoingRequestID
    <3>. QED
      BY <1>16, <3>1, <3>2, <3>3 DEF handleExecuteCommand
  <2>. QED
    BY <1>4, <1>6, <1>16, <2>1 DEF handleExecuteCommand
<1>17. CASE HandleQuery
  BY <1>4, <1>5, <1>6, <1>17, ReplyWrites DEF HandleQuery
<1>18. CASE HandleNotification
  BY <1>4, <1>5, <1>6, <1>18 DEF HandleNotification, Requests
<1>19. CASE HandleUnknown
  BY <1>4, <1>6, <1>19, ReplyWrites DEF HandleUnknown
<1>20. CASE HandlerPanics
  BY <1>4, <1>20, ReplyWrites DEF HandlerPanics
<1>. QED
  BY <1>7, <1>8, <1>9, <1>10, <1>11, <1>12, <1>13, <1>14, <1>15, <1>16, <1>17, <1>18, <1>19, <1>20
  DEF handleMessage

(* What cancellations are pending, and which requests were refused.          *)
LEMMA CancellationStep ==
    ASSUME Inv, read < Len(sent), ReadMessage, sent' = sent, Uncancelled \/ Canceled
    PROVE  OutputInv' /\ PendingInv' /\ CancelledSince'
<1>0. PICK k \in Nat : k = read + 1
  BY DEF Inv, StreamInv
<1>. DEFINE Hit == head.method \in Requests /\ head.id \in canceledRequests
<1>1. /\ read \in Nat /\ k = read + 1 /\ FrameOK(sent[k]) /\ head = sent[k] /\ taken \subseteq 1 .. read
      /\ taken' = taken \cup {k} /\ read' = k
      /\ \A m \in taken : m \in Nat /\ m < k
  BY <1>0 DEF Inv, StreamInv, head, ReadMessage
<1>2. head.id \in Nat
  BY <1>1 DEF FrameOK
<1>3. PendingInv /\ CancelledSince
  BY DEF Inv
<1>4. /\ OutputInv'
      /\ \A m \in taken : RefusedIn(written', m) <=> RefusedIn(written, m)
      /\ RefusedIn(written', k) <=> Hit
      /\ canceledRequests' = IF Hit THEN canceledRequests \ {head.id}
                             ELSE IF CancelledBy(k, head.arg) THEN canceledRequests \cup {head.arg}
                             ELSE canceledRequests
  <2>1. ~RefusedIn(written, k)
    <3>1. \A j \in DOMAIN written : written[j].to \in 1 .. read
      BY DEF Inv, OutputInv, OutputOK, MessageOK
    <3>. QED
      BY <1>1, <3>1 DEF RefusedIn
  <2>2. CASE Uncancelled
    <3>1. /\ OutputInv'
          /\ \A m \in Nat : RefusedIn(written, m) => RefusedIn(written', m)
          /\ \A m \in Nat : RefusedIn(written', m) =>
                             RefusedIn(written, m) \/ (m = k /\ "cancelled" \in {"error", "result"})
      BY <1>1, <1>2, <2>2, OutputStep DEF Uncancelled
    <3>2. ~Hit
      BY <2>2 DEF Uncancelled
    <3>3. canceledRequests' = canceledRequests \cup (IF CancelledBy(k, head.arg) THEN {head.arg} ELSE {})
      BY <1>1, <2>2 DEF Uncancelled, CancelledBy
    <3>4. ~RefusedIn(written', k)
      BY <1>0, <2>1, <3>1
    <3>5. \A m \in taken : RefusedIn(written', m) <=> RefusedIn(written, m)
      <4>. TAKE m \in taken
      <4>1. m \in Nat /\ m # k
        BY <1>1
      <4>. QED
        BY <3>1, <4>1
    <3>. HIDE DEF Hit
    <3>. QED
      BY <3>1, <3>2, <3>3, <3>4, <3>5 DEF RefusedIn
  <2>3. CASE Canceled
    <3>1. /\ written' = Append(written, Write("cancelled", head.id))
          /\ outgoingRequestID' = outgoingRequestID
          /\ canceledRequests' = canceledRequests \ {head.id}
          /\ isCanceled /\ head.method \notin {"", "garbage", "oldVersion"}
      BY <2>3 DEF Canceled, takeCanceledRequest
    <3>2. Wrote({"cancelled"})
      BY <3>1 DEF Wrote, Puts
    <3>3. Hit
      BY <1>1, <3>1 DEF FrameOK, isCanceled
    <3>4. /\ OutputInv'
          /\ \A m \in Nat : RefusedIn(written, m) => RefusedIn(written', m)
          /\ \A m \in Nat : RefusedIn(written', m) => RefusedIn(written, m) \/ m = k
      BY <1>1, <1>2, <3>2, OutputStep
    <3>5. RefusedIn(written', k)
      <4>1. PICK w : w = Write("cancelled", head.id)
        OBVIOUS
      <4>2. w.kind = "cancelled" /\ w.to = k
        BY <1>1, <4>1 DEF Write
      <4>3. written \in Seq(Message \cup {w})
        BY DEF Inv, OutputInv, OutputOK
      <4>4. written' = Append(written, w)
        BY <3>1, <4>1
      <4>5. Len(written) + 1 \in DOMAIN written' /\ written'[Len(written) + 1] = w
        BY <4>3, <4>4
      <4>. QED
        BY <1>1, <4>2, <4>5 DEF RefusedIn
    <3>6. \A m \in taken : RefusedIn(written', m) <=> RefusedIn(written, m)
      <4>. TAKE m \in taken
      <4>1. m \in Nat /\ m # k
        BY <1>1
      <4>. QED
        BY <3>4, <4>1
    <3>. HIDE DEF Hit
    <3>. QED
      BY <3>1, <3>3, <3>4, <3>5, <3>6 DEF RefusedIn
  <2>. QED
    BY <2>2, <2>3
<1>5. \A m, i : Asks(m, i)' <=> Asks(m, i)
  BY DEF Asks
<1>6. \A c, i : CancelledBy(c, i)' <=> CancelledBy(c, i)
  BY DEF CancelledBy
<1>7. ~(Hit /\ CancelledBy(k, head.arg)) /\ (CancelledBy(k, head.arg) => head.arg \in Ids)
      /\ \A i : CancelledBy(k, i) => i = head.arg /\ ~Asks(k, i)
  BY <1>1 DEF FrameOK, CancelledBy, Requests, Asks
<1>. DEFINE Pending(S, i) == \E c \in S : CancelledBy(c, i) /\ \A m \in S : c < m => ~Asks(m, i)
<1>8. \A i \in Ids : i \in canceledRequests <=> Pending(taken, i)
  BY <1>3 DEF PendingInv
<1>9. ASSUME NEW i \in Ids
      PROVE  Pending(taken', i) <=> CancelledBy(k, i) \/ (Pending(taken, i) /\ ~Asks(k, i))
  BY <1>1, <1>7
<1>10. \A i \in Ids : Asks(k, i) <=> (head.method \in Requests /\ i = head.id)
  BY <1>1 DEF Asks
<1>11. PendingInv'
  <2>1. canceledRequests' \subseteq Ids
    BY <1>3, <1>4, <1>7 DEF PendingInv
  <2>2. ASSUME NEW i \in Ids PROVE i \in canceledRequests' <=> Pending(taken', i)
    <3>1. CASE Hit
      BY <1>4, <1>7, <1>8, <1>9, <1>10, <3>1
    <3>2. CASE ~Hit /\ CancelledBy(k, head.arg)
      BY <1>4, <1>7, <1>8, <1>9, <1>10, <3>2
    <3>3. CASE ~Hit /\ ~CancelledBy(k, head.arg)
      BY <1>4, <1>7, <1>8, <1>9, <1>10, <3>3
    <3>. QED
      BY <3>1, <3>2, <3>3
  <2>. QED
    BY <1>5, <1>6, <2>1, <2>2 DEF PendingInv
<1>12. CancelledSince'
  <2>. SUFFICES ASSUME NEW q \in taken', sent[q].method \in Requests
                PROVE  RefusedIn(written', q) <=>
                         \E c \in taken' : c < q /\ CancelledBy(c, sent[q].id)
                                           /\ \A m \in taken' : (c < m /\ m < q) => ~Asks(m, sent[q].id)
    BY DEF CancelledSince, Cancelled, RefusedIn, Asks, CancelledBy
  <2>1. CASE q \in taken
    <3>1. RefusedIn(written, q) <=>
             \E c \in taken : c < q /\ CancelledBy(c, sent[q].id)
                              /\ \A m \in taken : (c < m /\ m < q) => ~Asks(m, sent[q].id)
      BY <1>3, <2>1 DEF CancelledSince, Cancelled, RefusedIn, Asks, CancelledBy
    <3>. QED
      BY <1>1, <1>4, <2>1, <3>1
  <2>2. CASE q = k
    <3>1. sent[k].id \in Ids
      BY <1>1, <2>2 DEF FrameOK
    <3>2. RefusedIn(written', k) <=> Pending(taken, sent[k].id)
      BY <1>1, <1>4, <1>8, <2>2, <3>1
    <3>3. \A m \in taken' : m < k <=> m \in taken
      BY <1>1
    <3>. QED
      BY <1>1, <2>2, <3>2, <3>3
  <2>. QED
    BY <1>1, <2>1, <2>2
<1>. QED
  BY <1>4, <1>11, <1>12

(* What the handlers do to the folders and the settings.                     *)
\* The folders change as the editor told them to, or not at all.
FoldersTold ==
    \/ /\ ~(head.method = "initialize" /\ head.good) /\ head.method # "folders"
       /\ UNCHANGED <<WorkspaceFolders, RootURI>>
    \/ /\ head.method = "initialize" /\ head.good
       /\ WorkspaceFolders' = WorkspaceFolders \o head.arg.folders
       /\ RootURI' = IF head.arg.folders = <<>> THEN RootURI ELSE WorkspaceFolders'[1]
    \/ /\ head.method = "folders"
       /\ WorkspaceFolders' = ChangedFolders(WorkspaceFolders, head.arg)
       /\ RootURI' = IF WorkspaceFolders' = <<>> THEN NoFolder ELSE WorkspaceFolders'[1]

(* A handler that does with the folders what the editor did keeps the        *)
(* server on the history.                                                    *)
LEMMA FoldersStep ==
    ASSUME Inv, read < Len(sent), ReadMessage, sent' = sent, editorFolders' = editorFolders,
           FoldersTold
    PROVE  FoldersInv'
<1>1. /\ read \in Nat /\ FrameOK(head) /\ taken \subseteq 1 .. read
      /\ read' = read + 1 /\ taken' = taken \cup {read + 1} /\ read + 1 \in 1 .. Len(sent)
      /\ (head.method = "initialize" => read = 0)
      /\ (read = 0 => WorkspaceFolders = <<>>)
  BY DEF Inv, StreamInv, head, ReadMessage
<1>2. /\ WorkspaceFolders \in Seq(Folders) /\ IsInjective(WorkspaceFolders)
      /\ RootURI = IF WorkspaceFolders = <<>> THEN NoFolder ELSE WorkspaceFolders[1]
  BY DEF Inv, FoldersInv
<1>3. PICK h : /\ IsHistory(h, sent)
               /\ h[Len(sent)] = editorFolders
               /\ taken = 1 .. read => ToSet(WorkspaceFolders) = h[read]
  BY DEF Inv, FoldersInv
<1>4. h[read + 1] = Told(head, h[read])
  BY <1>1, <1>3 DEF IsHistory, head
<1>5. taken' = 1 .. read' => taken = 1 .. read
  <2>. SUFFICES ASSUME taken' = 1 .. read', NEW i \in 1 .. read PROVE i \in taken
    BY <1>1
  <2>1. i \in 1 .. read + 1 /\ i # read + 1
    BY <1>1
  <2>. QED
    BY <1>1, <2>1
<1>6. SUFFICES /\ WorkspaceFolders' \in Seq(Folders) /\ IsInjective(WorkspaceFolders')
               /\ RootURI' = IF WorkspaceFolders' = <<>> THEN NoFolder ELSE WorkspaceFolders'[1]
               /\ ToSet(WorkspaceFolders) = h[read] => ToSet(WorkspaceFolders') = Told(head, h[read])
  BY <1>1, <1>3, <1>4, <1>5 DEF FoldersInv
<1>7. CASE /\ ~(head.method = "initialize" /\ head.good) /\ head.method # "folders"
           /\ UNCHANGED <<WorkspaceFolders, RootURI>>
  BY <1>2, <1>7 DEF Told
<1>8. CASE /\ head.method = "initialize" /\ head.good
           /\ WorkspaceFolders' = WorkspaceFolders \o head.arg.folders
           /\ RootURI' = IF head.arg.folders = <<>> THEN RootURI ELSE WorkspaceFolders'[1]
  <2>1. WorkspaceFolders = <<>> /\ head.arg.folders \in Seq(Folders) /\ IsInjective(head.arg.folders)
    BY <1>1, <1>8 DEF FrameOK
  <2>2. WorkspaceFolders' = head.arg.folders
    BY <1>8, <2>1, ConcatEmptySeq
  <2>. QED
    BY <1>2, <1>8, <2>1, <2>2 DEF Told
<1>9. CASE /\ head.method = "folders"
           /\ WorkspaceFolders' = ChangedFolders(WorkspaceFolders, head.arg)
           /\ RootURI' = IF WorkspaceFolders' = <<>> THEN NoFolder ELSE WorkspaceFolders'[1]
  <2>1. head.arg.added \in Seq(Folders)
    BY <1>1, <1>9 DEF FrameOK
  <2>2. /\ WorkspaceFolders' \in Seq(Folders)
        /\ ToSet(WorkspaceFolders') = (ToSet(WorkspaceFolders) \ head.arg.removed) \cup ToSet(head.arg.added)
        /\ IsInjective(WorkspaceFolders')
    BY <1>2, <1>9, <2>1, FoldersChanged
  <2>. QED
    BY <1>9, <2>2 DEF Told
<1>. QED
  BY <1>7, <1>8, <1>9 DEF FoldersTold

(* What is published is computed with the settings in force, the stored      *)
(* errors of the parser excepted.                                            *)
LEMMA Published ==
    ASSUME settings' \in Settings, publishWorkspaceDiagnostics
    PROVE  \A c \in shown' : c.index = settings'.index /\ c.publish = settings'.publish
<1>1. PICK s : s = settings'
  OBVIOUS
<1>2. s = [index |-> s.index, publish |-> s.publish, parse |-> s.parse]
  BY <1>1, DispatcherAssumption
<1>3. \A p : [s EXCEPT !.parse = p] = [index |-> s.index, publish |-> s.publish, parse |-> p]
  BY <1>2
<1>. QED
  BY <1>1, <1>3 DEF publishWorkspaceDiagnostics

(* Every handler does with folders and settings what the message says.       *)
LEMMA HandlerConfig ==
    ASSUME Inv, read < Len(sent), handleMessage
    PROVE  FoldersTold /\ SettingsInv'
<1>1. /\ FrameOK(head) /\ read \in Nat
      /\ (head.method = "initialize" => read = 0)
      /\ (read = 0 => shown = {} /\ canceledRequests = {})
  <2>1. FrameOK(head) /\ read \in Nat /\ (head.method = "initialize" => read = 0)
        /\ taken \subseteq 1 .. read /\ (read = 0 => shown = {})
    BY DEF Inv, StreamInv, head
  <2>2. read = 0 => taken = {}
    BY <2>1
  <2>. QED
    BY <2>1, <2>2 DEF Inv, PendingInv
<1>2. settings \in Settings /\ \A c \in shown : c.index = settings.index /\ c.publish = settings.publish
  BY DEF Inv, SettingsInv, ShownWithSettings
<1>3. ASSUME UNCHANGED config, ~(head.method = "initialize" /\ head.good), head.method # "folders"
      PROVE  FoldersTold /\ SettingsInv'
  BY <1>2, <1>3 DEF config, FoldersTold, SettingsInv, ShownWithSettings
<1>4. CASE ParseError
  BY <1>3, <1>4 DEF ParseError, Keeps
<1>5. CASE InvalidRequest
  BY <1>3, <1>5 DEF InvalidRequest, Keeps
<1>6. CASE Canceled
  <2>1. head.method # "initialize" /\ head.method # "folders"
    BY <1>1, <1>6 DEF Canceled, isCanceled, FrameOK, Requests
  <2>. QED
    BY <1>3, <1>6, <2>1 DEF Canceled
<1>7. CASE handleCancelRequest
  BY <1>3, <1>7 DEF handleCancelRequest
<1>8. CASE handleInitialize
  <2>1. CASE ~head.good
    BY <1>2, <1>8, <2>1 DEF handleInitialize, FoldersTold, SettingsInv, ShownWithSettings
  <2>2. CASE head.good
    <3>1. /\ head.method = "initialize" /\ shown' = shown /\ settings' = head.arg.settings
          /\ WorkspaceFolders' = WorkspaceFolders \o head.arg.folders
          /\ RootURI' = IF head.arg.folders = <<>> THEN RootURI ELSE WorkspaceFolders'[1]
      BY <1>8, <2>2 DEF handleInitialize
    <3>2. shown = {} /\ head.arg.settings \in Settings
      BY <1>1, <2>2, <3>1 DEF FrameOK
    <3>. QED
      BY <2>2, <3>1, <3>2 DEF FoldersTold, SettingsInv, ShownWithSettings
  <2>. QED
    BY <2>1, <2>2
<1>9. CASE handleInitialized
  BY <1>2, <1>9, Published
  DEF handleInitialized, refreshWorkspace, FoldersTold, SettingsInv, ShownWithSettings
<1>10. CASE handleDidChangeConfiguration
  <2>1. /\ head.method = "configuration" /\ head.arg \in Settings /\ settings' = head.arg
        /\ UNCHANGED <<WorkspaceFolders, RootURI>>
    BY <1>1, <1>10 DEF handleDidChangeConfiguration, FrameOK
  <2>2. \A c \in shown' : c.index = settings'.index /\ c.publish = settings'.publish
    <3>1. CASE refreshWorkspace(<<>>)
      BY <2>1, <3>1, Published DEF refreshWorkspace
    <3>2. CASE publishWorkspaceDiagnostics
      BY <2>1, <3>2, Published
    <3>3. CASE /\ ~applyInitializationOptions.reindex /\ ~applyInitializationOptions.republish
               /\ UNCHANGED shown
      <4>1. settings.index = head.arg.index /\ settings.publish = head.arg.publish
        BY <3>3 DEF applyInitializationOptions
      <4>. QED
        BY <1>2, <2>1, <3>3, <4>1
    <3>. QED
      BY <1>10, <3>1, <3>2, <3>3 DEF handleDidChangeConfiguration
  <2>. QED
    BY <2>1, <2>2 DEF FoldersTold, SettingsInv, ShownWithSettings
<1>11. CASE handleDidChangeWorkspaceFolders
  BY <1>2, <1>11, Published
  DEF handleDidChangeWorkspaceFolders, refreshWorkspace, FoldersTold, SettingsInv, ShownWithSettings
<1>12. CASE handleShutdown
  BY <1>3, <1>12 DEF handleShutdown, Keeps
<1>13. CASE handleExit
  BY <1>3, <1>13 DEF handleExit
<1>14. CASE handleExecuteCommand
  BY <1>3, <1>14 DEF handleExecuteCommand, Keeps
<1>15. CASE HandleQuery
  BY <1>3, <1>15 DEF HandleQuery, Keeps
<1>16. CASE HandleNotification
  BY <1>3, <1>16 DEF HandleNotification, Keeps
<1>17. CASE HandleUnknown
  BY <1>3, <1>17 DEF HandleUnknown, Keeps
<1>18. CASE HandlerPanics
  BY <1>3, <1>18 DEF HandlerPanics
<1>. QED
  BY <1>4, <1>5, <1>6, <1>7, <1>8, <1>9, <1>10, <1>11, <1>12, <1>13, <1>14, <1>15, <1>16, <1>17, <1>18
  DEF handleMessage

(* No handler touches the stream it reads from.                              *)
LEMMA HandlerStream ==
    ASSUME handleMessage, running = "yes"
    PROVE  /\ UNCHANGED stream
           /\ running' \in {"yes", "exited", "crashed"}
  BY DEF handleMessage, ParseError, InvalidRequest, Canceled, handleCancelRequest, handleInitialize,
         handleInitialized, handleDidChangeConfiguration, handleDidChangeWorkspaceFolders,
         handleShutdown, handleExit, handleExecuteCommand, HandleQuery, HandleNotification,
         HandleUnknown, HandlerPanics, Keeps

(* The server: a message read and handled, or the end of the stream.         *)
LEMMA ServerStep ==
    ASSUME Inv, Server
    PROVE  Inv'
<1>1. running = "yes"
  BY DEF Server
<1>2. /\ read \in 0 .. Len(sent) /\ taken \subseteq 1 .. read /\ read \in Nat /\ IsSeq(sent)
      /\ Len(sent) \in Nat
      /\ \A k \in 1 .. Len(sent) : FrameOK(sent[k])
  BY AppendAny DEF Inv, StreamInv
<1>3. CASE ReadFails
  <2>1. /\ read < Len(sent) /\ read' = read + 1 /\ torn' = head.midLine /\ taken' = taken
        /\ UNCHANGED <<stream, config, output, running, canceledRequests>>
    BY <1>3 DEF ReadFails
  <2>2. /\ session' = session /\ sent' = sent /\ hungUp' = hungUp /\ editorFolders' = editorFolders
        /\ replies' = replies /\ running' = running /\ canceledRequests' = canceledRequests
        /\ WorkspaceFolders' = WorkspaceFolders /\ RootURI' = RootURI /\ settings' = settings
        /\ parsed' = parsed /\ shown' = shown /\ written' = written /\ outgoingRequestID' = outgoingRequestID
    BY <2>1 DEF stream, config, output
  <2>3. StreamInv'
    <3>1. read + 1 \in 1 .. Len(sent)
      BY <1>2, <2>1
    <3>2. torn' \in BOOLEAN
      BY <1>2, <2>1, <3>1 DEF head, FrameOK
    <3>3. read' \in 0 .. Len(sent) /\ read' # 0 /\ taken' \subseteq 1 .. read'
      BY <1>2, <2>1, <3>1
    <3>. QED
      BY <2>2, <3>2, <3>3 DEF Inv, StreamInv, FrameOK
  <2>4. OutputInv'
    <3>1. ASSUME NEW w, MessageOK(w, outgoingRequestID, read)
          PROVE  MessageOK(w, outgoingRequestID, read)'
      BY <1>2, <2>1, <2>2, <3>1 DEF MessageOK
    <3>. QED
      BY <2>2, <3>1 DEF Inv, OutputInv, OutputOK
  <2>5. PendingInv' /\ CancelledSince'
    BY <2>1, <2>2 DEF Inv, PendingInv, CancelledSince, Cancelled, Asks, CancelledBy
  <2>6. FoldersInv'
    <3>1. taken' # 1 .. read'
      BY <1>2, <2>1
    <3>. QED
      BY <2>2, <3>1 DEF Inv, FoldersInv
  <2>7. SettingsInv'
    BY <2>2 DEF Inv, SettingsInv, ShownWithSettings
  <2>. QED
    BY <2>3, <2>4, <2>5, <2>6, <2>7 DEF Inv
<1>4. CASE ReadEnds
  <2>1. /\ running' = "closed"
        /\ UNCHANGED <<session, sent, hungUp, editorFolders, replies, read, torn, taken, WorkspaceFolders,
                       RootURI, settings, parsed, shown, written, outgoingRequestID, canceledRequests>>
    BY <1>4 DEF ReadEnds, reader, stream, config, output
  <2>. QED
    BY <2>1 DEF Inv, StreamInv, OutputInv, OutputOK, MessageOK, PendingInv, CancelledSince, FoldersInv,
                SettingsInv, Asks, CancelledBy, Cancelled, ShownWithSettings
<1>5. CASE handleMessage
  <2>1. /\ read < Len(sent) /\ read' = read + 1 /\ taken' = taken \cup {read + 1} /\ torn' = FALSE
        /\ ReadMessage
    BY <1>5 DEF handleMessage, ReadMessage
  <2>2. /\ session' = session /\ sent' = sent /\ hungUp' = hungUp /\ editorFolders' = editorFolders
        /\ replies' = replies /\ running' \in {"yes", "exited", "crashed"}
    BY <1>1, <1>5, HandlerStream DEF stream
  <2>3. StreamInv'
    <3>1. read' \in 0 .. Len(sent) /\ read' # 0 /\ taken' \subseteq 1 .. read'
      BY <1>2, <2>1
    <3>. QED
      BY <1>2, <2>1, <2>2, <3>1 DEF Inv, StreamInv, FrameOK
  <2>4. OutputInv' /\ PendingInv' /\ CancelledSince'
    BY <1>5, <2>1, <2>2, HandlerOutput, CancellationStep
  <2>5. FoldersInv' /\ SettingsInv'
    BY <1>5, <2>1, <2>2, HandlerConfig, FoldersStep
  <2>. QED
    BY <2>3, <2>4, <2>5 DEF Inv
<1>. QED
  BY <1>3, <1>4, <1>5 DEF Server

(* The invariant holds at the start.                                         *)
LEMMA InitInv == Init => Inv
<1>. SUFFICES ASSUME Init PROVE Inv
  OBVIOUS
<1>. USE DEF Init
<1>1. Len(sent) = 0 /\ Len(written) = 0 /\ IsSeq(sent) /\ written \in Seq(Message)
      /\ WorkspaceFolders \in Seq(Folders) /\ IsInjective(WorkspaceFolders)
  BY DEF IsSeq, IsInjective
<1>2. settings \in Settings
  BY DispatcherAssumption
<1>3. StreamInv
  <2>1. read \in 0 .. Len(sent) /\ taken \subseteq 1 .. read /\ 1 .. Len(sent) = {} /\ replies \in Nat
    BY <1>1
  <2>2. torn \in BOOLEAN /\ hungUp \in BOOLEAN /\ session \in Sessions
    OBVIOUS
  <2>. QED
    BY <1>1, <2>1, <2>2 DEF StreamInv
<1>4. OutputInv
  BY <1>1 DEF OutputInv, OutputOK
<1>5. PendingInv /\ CancelledSince
  BY DEF PendingInv, CancelledSince
<1>6. FoldersInv
  <2>. DEFINE h == [n \in 0 .. 0 |-> {}]
  <2>1. IsHistory(h, sent) /\ h[Len(sent)] = {} /\ h[0] = {}
    BY <1>1 DEF IsHistory
  <2>2. ToSet(WorkspaceFolders) = {}
    BY DEF ToSet
  <2>. HIDE DEF h
  <2>. QED
    BY <1>1, <2>1, <2>2 DEF FoldersInv
<1>7. SettingsInv
  BY <1>2 DEF SettingsInv, ShownWithSettings
<1>. QED
  BY <1>3, <1>4, <1>5, <1>6, <1>7 DEF Inv

(* Every step keeps it.                                                      *)
LEMMA StepInv == Inv /\ [Next]_vars => Inv'
<1>. SUFFICES ASSUME Inv, [Next]_vars PROVE Inv'
  OBVIOUS
<1>1. CASE Editor
  BY <1>1, EditorStep
<1>2. CASE Server
  BY <1>2, ServerStep
<1>3. CASE UNCHANGED vars
  <2>1. UNCHANGED <<session, sent, hungUp, editorFolders, replies, read, torn, taken, WorkspaceFolders,
                    RootURI, settings, parsed, shown, written, outgoingRequestID, running, canceledRequests>>
    BY <1>3 DEF vars, stream, reader, config, output
  <2>2. StreamInv' /\ FoldersInv' /\ SettingsInv'
    BY <2>1 DEF Inv, StreamInv, FoldersInv, SettingsInv, ShownWithSettings, FrameOK
  <2>3. OutputInv'
    BY <2>1 DEF Inv, OutputInv, OutputOK, MessageOK
  <2>4. PendingInv' /\ CancelledSince'
    BY <2>1 DEF Inv, PendingInv, CancelledSince, Asks, CancelledBy, Cancelled
  <2>. QED
    BY <2>2, <2>3, <2>4 DEF Inv
<1>. QED
  BY <1>1, <1>2, <1>3 DEF Next

(* The output, the pending cancellations, the folders and the settings are   *)
(* at every moment what the messages taken so far make of them               *)
(* (Server.Start and the handlers it dispatches to).                         *)
THEOREM InvHolds == Spec => []Inv
  BY InitInv, StepInv, PTL DEF Spec

-----------------------------------------------------------------------------
(* No message is answered twice, and every answer has the identifier of the  *)
(* message it answers, however many messages are in the stream.              *)
THEOREM OneAnswerHolds == Spec => []OneAnswer
<1>1. Inv => OneAnswer
  <2>. SUFFICES ASSUME Inv PROVE OneAnswer
    OBVIOUS
  <2>1. /\ written \in Seq(Message) /\ outgoingRequestID \in Nat /\ DOMAIN written = 1 .. Len(written)
        /\ Len(written) \in Nat
        /\ \A j \in 1 .. Len(written) : MessageOK(written[j], outgoingRequestID, read)
        /\ \A m \in 1 .. outgoingRequestID :
              \E j \in 1 .. Len(written) : written[j].kind = "request" /\ written[j].id = m
        /\ \A i, j \in 1 .. Len(written) : i < j => InOrder(written[i], written[j])
    BY DEF Inv, OutputInv, OutputOK
  <2>2. DispatcherTypeOK
    <3>1. {written[j].id : j \in ServerRequests} = 1 .. outgoingRequestID
      <4>1. \A j \in ServerRequests : written[j].id \in 1 .. outgoingRequestID
        BY <2>1 DEF ServerRequests, MessageOK
      <4>2. \A m \in 1 .. outgoingRequestID : \E j \in ServerRequests : written[j].id = m
        BY <2>1 DEF ServerRequests
      <4>. QED
        BY <4>1, <4>2
    <3>2. \A i, j \in ServerRequests : i < j => written[i].id < written[j].id
      BY <2>1 DEF ServerRequests, InOrder
    <3>. QED
      BY <3>1, <3>2 DEF Inv, StreamInv, PendingInv, FoldersInv, SettingsInv, DispatcherTypeOK
  <2>3. \A j \in DOMAIN written :
            written[j].kind # "request" => written[j].id = sent[written[j].to].id
    BY <2>1 DEF MessageOK
  <2>4. ASSUME NEW k PROVE Cardinality(AnswersTo(k)) <= 1
    <3>1. \A i, j \in AnswersTo(k) : i = j
      <4>. SUFFICES ASSUME NEW i \in AnswersTo(k), NEW j \in AnswersTo(k), i < j PROVE FALSE
        BY <2>1 DEF AnswersTo
      <4>. QED
        BY <2>1 DEF AnswersTo, InOrder
    <3>2. CASE AnswersTo(k) = {}
      BY <3>2, FS_EmptySet
    <3>3. CASE AnswersTo(k) # {}
      <4>1. PICK i : AnswersTo(k) = {i}
        BY <3>1, <3>3
      <4>2. Cardinality({i}) = 1
        BY FS_Singleton
      <4>. QED
        BY <4>1, <4>2
    <3>. QED
      BY <3>2, <3>3
  <2>. QED
    BY <2>2, <2>3, <2>4 DEF OneAnswer
<1>. QED
  BY <1>1, InvHolds, PTL

(* A request is refused as cancelled exactly when a cancellation of its      *)
(* identifier is pending, in every order of requests and cancellations.      *)
THEOREM CancelledSinceHolds == Spec => []CancelledSince
<1>1. Inv => CancelledSince
  BY DEF Inv
<1>. QED
  BY <1>1, InvHolds, PTL

(* The server follows the editor's folders and settings, whatever set of     *)
(* folders and whatever configurations it is given, in any order.            *)
THEOREM EditorFollowedHolds == Spec => []EditorFollowed
<1>1. Inv => EditorFollowed
  <2>. SUFFICES ASSUME Inv PROVE EditorFollowed
    OBVIOUS
  <2>1. ASSUME taken = DOMAIN sent
        PROVE  /\ ToSet(WorkspaceFolders) = editorFolders
               /\ Len(WorkspaceFolders) = Cardinality(editorFolders)
               /\ RootURI = IF editorFolders = {} THEN NoFolder ELSE WorkspaceFolders[1]
    <3>1. DOMAIN sent = 1 .. Len(sent) /\ Len(sent) \in Nat /\ read \in 0 .. Len(sent)
          /\ taken \subseteq 1 .. read
      BY DEF Inv, StreamInv, IsSeq
    <3>2. read = Len(sent) /\ taken = 1 .. read
      <4>1. taken = 1 .. Len(sent)
        BY <2>1, <3>1
      <4>2. Len(sent) <= read
        BY <3>1, <4>1
      <4>3. PICK n \in Nat : n = Len(sent)
        BY <3>1
      <4>4. read \in 0 .. n /\ n <= read
        BY <3>1, <4>2, <4>3
      <4>. QED
        BY <4>1, <4>3, <4>4
    <3>3. ToSet(WorkspaceFolders) = editorFolders
      BY <3>2 DEF Inv, FoldersInv
    <3>4. /\ WorkspaceFolders \in Seq(Folders) /\ IsInjective(WorkspaceFolders)
          /\ RootURI = IF WorkspaceFolders = <<>> THEN NoFolder ELSE WorkspaceFolders[1]
      BY DEF Inv, FoldersInv
    <3>5. Len(WorkspaceFolders) = Cardinality(editorFolders)
      BY <3>3, <3>4, InjectiveLength
    <3>6. WorkspaceFolders = <<>> <=> ToSet(WorkspaceFolders) = {}
      BY <3>4 DEF ToSet
    <3>. QED
      BY <3>3, <3>4, <3>5, <3>6
  <2>. QED
    BY <2>1 DEF Inv, SettingsInv, EditorFollowed, FoldersFollow
<1>. QED
  BY <1>1, InvHolds, PTL

-----------------------------------------------------------------------------
(* Every request that can be answered is, when its frame has been read.      *)
AnsweredOnceRead == \A k \in 1 .. read : Answerable(k) => AnswersTo(k) # {}

\* Requests are sent in frames that are taken, and the stream is in the middle
\* of a line only after a refused body that ended there.
RequestsFit == \A k \in 1 .. Len(sent) : sent[k].method \in Requests => sent[k].fits
TornFollows == torn => \E j \in 1 .. read : ~sent[j].fits /\ sent[j].midLine

AnswerInv == Inv /\ RequestsFit /\ TornFollows /\ AnsweredOnceRead

\* An output answers message k.
Answers(out, k) == \E j \in 1 .. Len(out) : out[j].kind # "request" /\ out[j].to = k

(* AnswersTo, without the sets.                                              *)
LEMMA AnswersToIs ==
    ASSUME NEW k, IsSeq(written) \/ written \in Seq(Message)
    PROVE  AnswersTo(k) # {} <=> Answers(written, k)
<1>1. DOMAIN written = 1 .. Len(written)
  BY DEF IsSeq
<1>. QED
  BY <1>1 DEF AnswersTo, Answers

(* A message more in the output leaves the answers there are.                *)
LEMMA AnswersStay ==
    ASSUME NEW out \in Seq(Message), NEW w \in Message
    PROVE  /\ Append(out, w) \in Seq(Message)
           /\ \A k : Answers(out, k) => Answers(Append(out, w), k)
           /\ w.kind # "request" => Answers(Append(out, w), w.to)
<1>1. PICK new : new = Append(out, w)
  OBVIOUS
<1>2. /\ new \in Seq(Message) /\ Len(out) \in Nat /\ Len(new) = Len(out) + 1
      /\ \A j \in 1 .. Len(out) : new[j] = out[j]
      /\ new[Len(out) + 1] = w
  BY <1>1
<1>3. ASSUME NEW k, Answers(out, k) PROVE Answers(new, k)
  <2>1. PICK j \in 1 .. Len(out) : out[j].kind # "request" /\ out[j].to = k
    BY <1>3 DEF Answers
  <2>2. j \in 1 .. Len(new) /\ new[j] = out[j]
    BY <1>2
  <2>. QED
    BY <2>1, <2>2 DEF Answers
<1>4. ASSUME w.kind # "request" PROVE Answers(new, w.to)
  BY <1>2, <1>4 DEF Answers
<1>. QED
  BY <1>1, <1>2, <1>3, <1>4

(* Whatever a handler writes, the answers before it stay.                    *)
LEMMA WroteKeeps ==
    ASSUME Inv, head.id \in Nat, NEW kinds \in SUBSET {"error", "result", "cancelled"}, Wrote(kinds)
    PROVE  \A k : Answers(written, k) => Answers(written', k)
<1>1. written \in Seq(Message) /\ outgoingRequestID \in Nat /\ read \in Nat
  BY DEF Inv, StreamInv, OutputInv, OutputOK
<1>2. ASSUME NEW kind \in kinds PROVE Write(kind, head.id) \in Message
  <2>1. kind \in {"error", "result", "cancelled", "request"} /\ read + 1 \in Nat
    BY <1>1
  <2>. QED
    BY <2>1 DEF Write, Message
<1>3. Write("request", outgoingRequestID + 1) \in Message
  BY <1>1 DEF Write, Message
<1>4. PICK mid : mid = PutsNext(written, outgoingRequestID)
  OBVIOUS
<1>5. mid \in Seq(Message) /\ \A k : Answers(written, k) => Answers(mid, k)
  BY <1>1, <1>3, <1>4, AnswersStay DEF PutsNext
<1>6. CASE written' = written \/ written' = mid
  BY <1>5, <1>6
<1>7. ASSUME NEW kind \in kinds, written' = Puts(written, kind, head.id) \/ written' = Puts(mid, kind, head.id)
      PROVE  \A k : Answers(written, k) => Answers(written', k)
  BY <1>1, <1>2, <1>5, <1>7, AnswersStay DEF Puts
<1>. QED
  BY <1>4, <1>6, <1>7 DEF Wrote

(* An answer to the head answers it.                                         *)
LEMMA ReplyAnswers ==
    ASSUME Inv, head.id \in Nat, NEW kind \in {"error", "result", "cancelled"},
           \/ written' = Puts(written, kind, head.id)
           \/ written' = Puts(PutsNext(written, outgoingRequestID), kind, head.id)
    PROVE  Answers(written', read + 1)
<1>1. written \in Seq(Message) /\ outgoingRequestID \in Nat /\ read \in Nat
  BY DEF Inv, StreamInv, OutputInv, OutputOK
<1>2. PICK w : w = Write(kind, head.id)
  OBVIOUS
<1>3. w \in Message /\ w.kind # "request" /\ w.to = read + 1
  BY <1>1, <1>2 DEF Write, Message
<1>4. PICK v : v = Write("request", outgoingRequestID + 1)
  OBVIOUS
<1>5. v \in Message
  BY <1>1, <1>4 DEF Write, Message
<1>6. Append(written, v) \in Seq(Message)
  BY <1>1, <1>5
<1>7. written' = Append(written, w) \/ written' = Append(Append(written, v), w)
  BY <1>2, <1>4 DEF Puts, PutsNext
<1>8. CASE written' = Append(written, w)
  BY <1>1, <1>3, <1>8, AnswersStay
<1>9. CASE written' = Append(Append(written, v), w)
  BY <1>3, <1>6, <1>9, AnswersStay
<1>. QED
  BY <1>7, <1>8, <1>9

(* The handler of a request that can be answered answers it.                 *)
LEMMA HandlerAnswers ==
    ASSUME Inv, handleMessage, head.method \in Requests,
           head.good \/ head.method \in {"initialize", "unknown"},
           head.method = "executeCommand" => head.arg # "unknown"
    PROVE  Answers(written', read + 1)
<1>1. FrameOK(head)
  BY DEF Inv, StreamInv, handleMessage, ReadMessage, head
<1>2. head.id \in Nat /\ head.id # NoId
  BY <1>1, DispatcherAssumption DEF FrameOK, NoId
<1>3. ASSUME NEW kind \in {"error", "result"}, Reply(kind) PROVE Answers(written', read + 1)
  BY <1>2, <1>3, ReplyAnswers DEF Reply, Puts
<1>4. CASE Canceled
  BY <1>2, <1>4, ReplyAnswers DEF Canceled, Puts
<1>5. CASE handleInitialize \/ handleShutdown
  BY <1>3, <1>5 DEF handleInitialize, handleShutdown
<1>6. CASE HandleUnknown \/ HandlerPanics
  BY <1>2, <1>3, <1>6 DEF HandleUnknown, HandlerPanics, ReplyIfRequest
<1>7. CASE HandleQuery
  BY <1>3, <1>7 DEF HandleQuery
<1>8. CASE handleExecuteCommand
  <2>1. CASE Reply("result")
    BY <1>3, <2>1
  <2>2. CASE written' = written \o <<Write("request", nextOutgoingRequestID), Write("result", head.id)>>
    <3>1. PICK v, w : v = Write("request", outgoingRequestID + 1) /\ w = Write("result", head.id)
      OBVIOUS
    <3>2. written \in Seq(Message) /\ v \in Message /\ w \in Message
      BY <1>2, <3>1 DEF Inv, StreamInv, OutputInv, OutputOK, Write, Message
    <3>3. written \o <<v, w>> = Append(Append(written, v), w)
      BY <3>2
    <3>4. written' = Puts(PutsNext(written, outgoingRequestID), "result", head.id)
      BY <2>2, <3>1, <3>3 DEF nextOutgoingRequestID, Puts, PutsNext
    <3>. QED
      BY <1>2, <3>4, ReplyAnswers
  <2>. QED
    BY <1>8, <2>1, <2>2 DEF handleExecuteCommand
<1>9. ~(\/ ParseError \/ InvalidRequest \/ handleCancelRequest \/ handleInitialized
        \/ handleDidChangeConfiguration \/ handleDidChangeWorkspaceFolders \/ handleExit
        \/ HandleNotification)
  BY DEF ParseError, InvalidRequest, handleCancelRequest, handleInitialized,
         handleDidChangeConfiguration, handleDidChangeWorkspaceFolders, handleExit,
         HandleNotification, Requests
<1>. QED
  BY <1>4, <1>5, <1>6, <1>7, <1>8, <1>9 DEF handleMessage

(* The editor sends more, and what was read stays answered.                  *)
LEMMA EditorAnswers ==
    ASSUME AnswerInv, Editor
    PROVE  RequestsFit' /\ TornFollows' /\ AnsweredOnceRead'
<1>1. /\ UNCHANGED <<reader, config, output, running, canceledRequests>>
      /\ read \in 0 .. Len(sent) /\ IsSeq(sent)
  BY DEF Editor, AnswerInv, Inv, StreamInv
<1>2. sent' = sent \/ \E f : sent' = Append(sent, f) /\ (f.method \in Requests => f.fits)
  <2>. DEFINE Fits(f) == f.method \in Requests => f.fits
  <2>1. \A method, id, good, arg : Fits(Frame(method, id, good, arg))
    BY DEF Frame
  <2>2. \A midLine : Fits(Refused(midLine))
    BY DEF Refused, Frame, Requests
  <2>3. ASSUME NEW f, Send(f), Fits(f) PROVE \E g : sent' = Append(sent, g) /\ Fits(g)
    BY <2>3 DEF Send
  <2>4. CASE SendInitialize
    <3>1. PICK id \in Ids, good \in BOOLEAN, start \in session.starts :
              Send(Frame("initialize", id, good, start))
      BY <2>4 DEF SendInitialize
    <3>. HIDE DEF Fits
    <3>. QED
      BY <2>1, <2>3, <3>1 DEF Fits
  <2>5. CASE SendRequest
    <3>1. PICK id \in Ids : \E f \in
              {Frame(method, id, TRUE, "none") : method \in Requests \ {"initialize"}} \cup
              {Frame("executeCommand", id, TRUE, arg) : arg \in {"edits", "unknown"}} \cup
              {Frame(method, id, FALSE, "none") : method \in {"query", "executeCommand"}} : Send(f)
      BY <2>5 DEF SendRequest
    <3>2. PICK f : Send(f) /\ \E method, good, arg : f = Frame(method, id, good, arg)
      BY <3>1
    <3>3. Fits(f)
      BY <2>1, <3>2
    <3>. HIDE DEF Fits
    <3>. QED
      BY <2>3, <3>2, <3>3 DEF Fits
  <2>6. CASE SendOther
    <3>1. PICK f : Send(f) /\ \/ \E method, id, good, arg : f = Frame(method, id, good, arg)
                              \/ \E midLine : f = Refused(midLine)
      BY <2>6, Zenon DEF SendOther
    <3>2. Fits(f)
      BY <2>1, <2>2, <3>1
    <3>. HIDE DEF Fits
    <3>. QED
      BY <2>3, <3>1, <3>2 DEF Fits
  <2>7. CASE SendFolders \/ SendReply
    <3>1. PICK f : Send(f) /\ \E method, id, good, arg : f = Frame(method, id, good, arg)
      <4>1. CASE SendFolders
        <5>1. \E arg : Send(Frame("folders", NoId, TRUE, arg))
          BY <4>1, Zenon DEF SendFolders
        <5>. QED
          BY <5>1
      <4>2. CASE SendReply
        <5>1. Send(Frame("", replies + 1, TRUE, NoId))
          BY <4>2, Zenon DEF SendReply
        <5>. QED
          BY <5>1
      <4>. QED
        BY <2>7, <4>1, <4>2
    <3>2. Fits(f)
      BY <2>1, <3>1
    <3>. HIDE DEF Fits
    <3>. QED
      BY <2>3, <3>1, <3>2 DEF Fits
  <2>8. CASE HangUp
    BY <2>8 DEF HangUp
  <2>. QED
    BY <2>4, <2>5, <2>6, <2>7, <2>8 DEF Editor
<1>3. /\ Len(sent) \in Nat /\ Len(sent') \in Nat /\ Len(sent) <= Len(sent')
      /\ \A k \in 1 .. Len(sent) : sent'[k] = sent[k]
      /\ DOMAIN sent = 1 .. Len(sent) /\ DOMAIN sent' = 1 .. Len(sent')
      /\ \A k \in 1 .. Len(sent') : k \in 1 .. Len(sent) \/ (sent'[k].method \in Requests => sent'[k].fits)
  <2>1. CASE sent' = sent
    <3>1. Len(sent) \in Nat /\ DOMAIN sent = 1 .. Len(sent)
      BY <1>1, AppendAny DEF IsSeq
    <3>. QED
      BY <2>1, <3>1
  <2>2. CASE \E f : sent' = Append(sent, f) /\ (f.method \in Requests => f.fits)
    <3>0. PICK f : sent' = Append(sent, f) /\ (f.method \in Requests => f.fits)
      BY <2>2
    <3>1. PICK s : s = Append(sent, f)
      OBVIOUS
    <3>2. /\ IsSeq(s) /\ Len(sent) \in Nat /\ Len(s) = Len(sent) + 1 /\ DOMAIN s = 1 .. Len(sent) + 1
          /\ \A k \in 1 .. Len(sent) : s[k] = sent[k]
          /\ s[Len(sent) + 1] = f
      BY <1>1, <3>1, AppendAny
    <3>3. DOMAIN sent = 1 .. Len(sent)
      BY <1>1 DEF IsSeq
    <3>4. sent' = s
      BY <3>0, <3>1
    <3>. QED
      BY <3>0, <3>2, <3>3, <3>4
  <2>. QED
    BY <1>2, <2>1, <2>2
<1>4. RequestsFit'
  BY <1>3 DEF AnswerInv, RequestsFit
<1>5. TornFollows'
  BY <1>1, <1>3 DEF AnswerInv, TornFollows, reader
<1>6. ASSUME NEW k \in 1 .. read, Answerable(k)' PROVE Answerable(k)
  BY <1>1, <1>3, <1>6 DEF Answerable
<1>7. AnsweredOnceRead'
  BY <1>1, <1>6 DEF AnswerInv, AnsweredOnceRead, AnswersTo, reader, output
<1>. QED
  BY <1>4, <1>5, <1>7

(* A frame is read: refused, or handled.                                     *)
LEMMA ServerAnswers ==
    ASSUME AnswerInv, Server
    PROVE  RequestsFit' /\ TornFollows' /\ AnsweredOnceRead'
<1>1. /\ read \in Nat /\ read \in 0 .. Len(sent) /\ written \in Seq(Message) /\ torn \in BOOLEAN
      /\ IsSeq(sent) /\ DOMAIN sent = 1 .. Len(sent) /\ Len(sent) \in Nat
      /\ \A k \in 1 .. Len(sent) : FrameOK(sent[k])
  BY DEF AnswerInv, Inv, StreamInv, OutputInv, OutputOK, IsSeq
<1>2. RequestsFit /\ TornFollows /\ AnsweredOnceRead /\ running = "yes" /\ Inv
  BY DEF AnswerInv, Server
<1>3. CASE ReadEnds
  BY <1>2, <1>3 DEF ReadEnds, RequestsFit, TornFollows, AnsweredOnceRead, Answerable, AnswersTo,
                    reader, stream, config, output
<1>4. CASE ReadFails
  <2>1. /\ read < Len(sent) /\ read' = read + 1 /\ torn' = head.midLine /\ (torn \/ ~head.fits)
        /\ sent' = sent /\ written' = written /\ head = sent[read + 1] /\ read + 1 \in 1 .. Len(sent)
    BY <1>1, <1>4 DEF ReadFails, stream, output, head
  <2>2. RequestsFit'
    BY <1>2, <2>1 DEF RequestsFit
  <2>3. TornFollows'
    <3>. SUFFICES ASSUME torn' PROVE \E j \in 1 .. read + 1 : ~sent[j].fits /\ sent[j].midLine
      BY <2>1 DEF TornFollows
    <3>1. CASE torn
      BY <1>1, <1>2, <3>1 DEF TornFollows
    <3>2. CASE ~torn
      <4>1. ~head.fits /\ head.midLine
        BY <2>1, <3>2, Zenon
      <4>2. ~sent[read + 1].fits /\ sent[read + 1].midLine /\ read + 1 \in 1 .. read + 1
        BY <1>1, <2>1, <4>1
      <4>. QED
        BY <4>2
    <3>. QED
      BY <3>1, <3>2
  <2>4. ~Answerable(read + 1)
    <3>1. CASE torn
      BY <1>1, <1>2, <2>1, <3>1 DEF TornFollows, Answerable
    <3>2. CASE ~head.fits
      BY <1>2, <2>1, <3>2 DEF RequestsFit, Answerable
    <3>. QED
      BY <2>1, <3>1, <3>2
  <2>5. AnsweredOnceRead'
    <3>1. \A k \in 1 .. read + 1 : Answerable(k) => AnswersTo(k) # {}
      BY <1>1, <1>2, <2>4 DEF AnsweredOnceRead
    <3>2. \A k : Answerable(k)' <=> Answerable(k)
      BY <2>1 DEF Answerable
    <3>3. \A k : AnswersTo(k)' = AnswersTo(k)
      BY <2>1 DEF AnswersTo
    <3>. QED
      BY <2>1, <3>1, <3>2, <3>3 DEF AnsweredOnceRead
  <2>. QED
    BY <2>2, <2>3, <2>5
<1>5. CASE handleMessage
  <2>1. /\ read < Len(sent) /\ read' = read + 1 /\ torn' = FALSE
        /\ head = sent[read + 1] /\ read + 1 \in 1 .. Len(sent)
    BY <1>1, <1>5 DEF handleMessage, ReadMessage, head
  <2>2. sent' = sent
    BY <1>2, <1>5, HandlerStream DEF stream
  <2>3. RequestsFit' /\ TornFollows'
    BY <1>2, <2>1, <2>2 DEF RequestsFit, TornFollows
  <2>4. head.id \in Nat
    BY <1>1, <2>1 DEF FrameOK
  <2>5. \A k : Answers(written, k) => Answers(written', k)
    <3>1. CASE Uncancelled
      BY <1>2, <2>4, <3>1, WroteKeeps DEF Uncancelled
    <3>2. CASE Canceled
      <4>1. Wrote({"cancelled"})
        BY <3>2 DEF Canceled, Wrote, Puts
      <4>. QED
        BY <1>2, <2>4, <4>1, WroteKeeps
    <3>. QED
      BY <1>2, <1>5, <3>1, <3>2, HandlerOutput
  <2>6. Answerable(read + 1) => Answers(written', read + 1)
    BY <1>2, <1>5, <2>1, HandlerAnswers DEF Answerable
  <2>7. \A k \in 1 .. read : Answerable(k) => Answers(written, k)
    BY <1>1, <1>2, AnswersToIs DEF AnsweredOnceRead
  <2>8. \A k \in 1 .. read + 1 : Answerable(k) => Answers(written', k)
    BY <1>1, <2>5, <2>6, <2>7
  <2>9. \A k : Answerable(k)' <=> Answerable(k)
    BY <2>2 DEF Answerable
  <2>10. written' \in Seq(Message)
    <3>1. Inv'
      BY <1>2, ServerStep
    <3>. QED
      BY <3>1 DEF Inv, OutputInv, OutputOK
  <2>11. ASSUME NEW k, Answers(written', k) PROVE AnswersTo(k)' # {}
    <3>1. DOMAIN written' = 1 .. Len(written')
      BY <2>10
    <3>. QED
      BY <2>11, <3>1 DEF Answers, AnswersTo
  <2>12. AnsweredOnceRead'
    BY <2>1, <2>8, <2>9, <2>11 DEF AnsweredOnceRead
  <2>. QED
    BY <2>3, <2>12
<1>. QED
  BY <1>3, <1>4, <1>5 DEF Server

(* A request that the editor can expect to be answered was answered by the   *)
(* time the server reads the next frame, with OneAnswer exactly once:        *)
(* cancelled, unknown, or one whose handler panics, and whatever unreadable  *)
(* frames precede it, unless the body of one ends inside a line              *)
(* (handleMessageContext, ReadMessage).                                      *)
THEOREM AnsweredOnceReadHolds == Spec => []AnsweredOnceRead
<1>1. Init => AnswerInv
  <2>. SUFFICES ASSUME Init PROVE RequestsFit /\ TornFollows /\ AnsweredOnceRead
    BY InitInv DEF AnswerInv
  <2>. QED
    BY DEF Init, RequestsFit, TornFollows, AnsweredOnceRead
<1>2. AnswerInv /\ [Next]_vars => AnswerInv'
  <2>. SUFFICES ASSUME AnswerInv, [Next]_vars PROVE AnswerInv'
    OBVIOUS
  <2>1. Inv'
    BY StepInv DEF AnswerInv
  <2>2. CASE UNCHANGED vars
    BY <2>1, <2>2 DEF vars, stream, reader, output, AnswerInv, RequestsFit, TornFollows,
                      AnsweredOnceRead, Answerable, AnswersTo
  <2>. QED
    BY <2>1, <2>2, EditorAnswers, ServerAnswers DEF Next, AnswerInv
<1>3. AnswerInv => AnsweredOnceRead
  BY DEF AnswerInv
<1>. QED
  BY <1>1, <1>2, <1>3, PTL DEF Spec
=============================================================================
