------------------------------ MODULE Programs_proofs ------------------------------
(***************************************************************************)
(* Proofs about the programs of the desktop whose state is in lists and    *)
(* trees: the clipboard's history, the clock's alarms, the calendar, the   *)
(* backups, the snapshots, the quick settings' commands, the windows in    *)
(* their focus order, the panes of The Void, and the vault of Security     *)
(* Center; for every value of their constants.  The first lemmas are about *)
(* counters and about what RemoveAt, RemoveFirst, ReplaceAll, SelectSeq    *)
(* and Append do to the elements of a list.                                *)
(***************************************************************************)
EXTENDS Vault, Clipboard, Clock, Calendar, Backup, Snapshots, QuickSettings, Windows, Void,
        SequencesExt, SequenceTheorems, FunctionTheorems, FiniteSetTheorems, TLAPS

\* A counter below its bound can be counted up.
LEMMA CountUp ==
    ASSUME NEW M \in Nat, NEW n \in 0..M, n < M
    PROVE  n + 1 \in 0..M
  OBVIOUS

\* Taking one element out of a sequence.
LEMMA RemoveAtIs ==
    ASSUME NEW S, NEW s \in Seq(S), NEW i \in 1..Len(s)
    PROVE  /\ RemoveAt(s, i) \in Seq(S)
           /\ Len(RemoveAt(s, i)) = Len(s) - 1
           /\ \A j \in 1..(Len(s) - 1) : RemoveAt(s, i)[j] = IF j < i THEN s[j] ELSE s[j + 1]
<1> DEFINE a == SubSeq(s, 1, i - 1)
           b == SubSeq(s, i + 1, Len(s))
<1>0. Len(s) \in Nat /\ i \in Nat /\ \A j \in 1..Len(s) : s[j] \in S
  BY LenProperties, ElementOfSeq
<1>1. /\ a \in Seq(S) /\ Len(a) = i - 1
      /\ \A j \in 1..(i - 1) : a[j] = s[j]
  <2>1. 1 \in Int /\ i - 1 \in Int /\ \A j \in 1..(i - 1) : s[j] \in S
    BY <1>0
  <2>2. /\ SubSeq(s, 1, i - 1) \in Seq(S)
        /\ Len(SubSeq(s, 1, i - 1)) = IF 1 <= i - 1 THEN i - 1 - 1 + 1 ELSE 0
        /\ \A j \in 1..(i - 1 - 1 + 1) : SubSeq(s, 1, i - 1)[j] = s[1 + j - 1]
    BY <2>1, SubSeqProperties
  <2> QED BY <1>0, <2>2
<1>2. /\ b \in Seq(S) /\ Len(b) = Len(s) - i
      /\ \A j \in 1..(Len(s) - i) : b[j] = s[i + j]
  <2>1. i + 1 \in Int /\ Len(s) \in Int /\ \A j \in (i + 1)..Len(s) : s[j] \in S
    BY <1>0
  <2>2. /\ SubSeq(s, i + 1, Len(s)) \in Seq(S)
        /\ Len(SubSeq(s, i + 1, Len(s))) = IF i + 1 <= Len(s) THEN Len(s) - (i + 1) + 1 ELSE 0
        /\ \A j \in 1..(Len(s) - (i + 1) + 1) : SubSeq(s, i + 1, Len(s))[j] = s[i + 1 + j - 1]
    BY <2>1, SubSeqProperties
  <2> QED BY <1>0, <2>2
<1>3. RemoveAt(s, i) = a \o b
  BY DEF RemoveAt
<1> HIDE DEF a, b
<1>4. /\ a \o b \in Seq(S)
      /\ Len(a \o b) = Len(a) + Len(b)
      /\ \A j \in 1..(Len(a) + Len(b)) : (a \o b)[j] = IF j <= Len(a) THEN a[j] ELSE b[j - Len(a)]
  BY <1>1, <1>2, ConcatProperties
<1>5. ASSUME NEW j \in 1..(Len(s) - 1) PROVE (a \o b)[j] = IF j < i THEN s[j] ELSE s[j + 1]
  <2>1. j \in 1..(Len(a) + Len(b))
    BY <1>0, <1>1, <1>2
  <2>2. CASE j < i
    <3>1. j <= Len(a) /\ j \in 1..(i - 1)
      BY <1>0, <1>1, <2>2
    <3> QED BY <1>1, <1>4, <2>1, <2>2, <3>1
  <2>3. CASE ~(j < i)
    <3>1. ~(j <= Len(a)) /\ j - Len(a) \in 1..(Len(s) - i) /\ i + (j - Len(a)) = j + 1
      BY <1>0, <1>1, <2>3
    <3> QED BY <1>2, <1>4, <2>1, <2>3, <3>1
  <2> QED BY <2>2, <2>3
<1>6. Len(a) + Len(b) = Len(s) - 1
  BY <1>0, <1>1, <1>2
<1> QED BY <1>3, <1>4, <1>5, <1>6

\* What it means that no element is twice in a sequence.
LEMMA InjectiveMeans ==
    ASSUME NEW S, NEW s \in Seq(S)
    PROVE  IsInjective(s) <=> \A i, j \in 1..Len(s) : s[i] = s[j] => i = j
  BY LenProperties DEF IsInjective

\* The elements of a sequence are those at its indices.
LEMMA ToSetIs ==
    ASSUME NEW S, NEW s \in Seq(S)
    PROVE  ToSet(s) = {s[i] : i \in 1..Len(s)}
  BY LenProperties DEF ToSet

\* Taking the only occurrence of an element out of a sequence.
LEMMA RemoveFirstIs ==
    ASSUME NEW S, NEW s \in Seq(S), IsInjective(s), NEW a
    PROVE  /\ RemoveFirst(s, a) \in Seq(S)
           /\ IsInjective(RemoveFirst(s, a))
           /\ ToSet(RemoveFirst(s, a)) = ToSet(s) \ {a}
           /\ a \notin ToSet(s) => RemoveFirst(s, a) = s
           /\ a \in ToSet(s) => Len(RemoveFirst(s, a)) = Len(s) - 1
<1>0. Len(s) \in Nat /\ \A i, j \in 1..Len(s) : s[i] = s[j] => i = j
  BY InjectiveMeans, LenProperties
<1>t. ToSet(s) = {s[i] : i \in 1..Len(s)}
  BY ToSetIs
<1>1. CASE a \notin ToSet(s)
  <2>1. ~ \E i \in 1..Len(s) : s[i] = a
    BY <1>1, <1>t
  <2>2. RemoveFirst(s, a) = s
    BY <2>1 DEF RemoveFirst
  <2> QED BY <1>1, <2>2
<1>2. CASE a \in ToSet(s)
  <2>1. PICK i \in 1..Len(s) : s[i] = a
    BY <1>2, <1>t
  <2>2. {k \in 1..Len(s) : s[k] = a} = {i}
    BY <1>0, <2>1
  <2>3. i \in Nat
    BY <1>0
  <2>4. (CHOOSE x \in {i} : \A y \in {i} : x <= y) = i
    BY <2>3
  <2>5. SelectInSeq(s, LAMBDA v : v = a) = i
    BY <2>2, <2>4 DEF SelectInSeq, Min
  <2>6. RemoveFirst(s, a) = RemoveAt(s, i)
    BY <2>1, <2>5 DEF RemoveFirst
  <2> DEFINE r == RemoveAt(s, i)
  <2>7. /\ r \in Seq(S) /\ Len(r) = Len(s) - 1
        /\ \A j \in 1..(Len(s) - 1) : r[j] = IF j < i THEN s[j] ELSE s[j + 1]
    BY RemoveAtIs
  <2> HIDE DEF r
  <2>8. IsInjective(r)
    <3>1. ASSUME NEW j \in 1..(Len(s) - 1), NEW k \in 1..(Len(s) - 1), r[j] = r[k] PROVE j = k
      <4> DEFINE J == IF j < i THEN j ELSE j + 1
                 K == IF k < i THEN k ELSE k + 1
      <4>1. J \in 1..Len(s) /\ K \in 1..Len(s)
        BY <1>0, <2>3
      <4>2. s[J] = s[K]
        BY <2>7, <3>1
      <4>3. J = K
        BY <1>0, <4>1, <4>2
      <4> QED BY <1>0, <2>3, <4>3
    <3> QED BY <2>7, <3>1, InjectiveMeans
  <2>9. ToSet(r) = ToSet(s) \ {a}
    <3>1. ToSet(r) = {r[j] : j \in 1..(Len(s) - 1)}
      BY <2>7, ToSetIs
    <3>2. ASSUME NEW j \in 1..(Len(s) - 1) PROVE r[j] \in ToSet(s) \ {a}
      <4>1. CASE j < i
        <5>1. j \in 1..Len(s) /\ j # i
          BY <1>0, <2>3, <4>1
        <5>2. r[j] = s[j] /\ s[j] # a
          BY <1>0, <2>1, <2>7, <4>1, <5>1
        <5> QED BY <1>t, <5>1, <5>2
      <4>2. CASE ~(j < i)
        <5>1. j + 1 \in 1..Len(s) /\ j + 1 # i
          BY <1>0, <2>3, <4>2
        <5>2. r[j] = s[j + 1] /\ s[j + 1] # a
          BY <1>0, <2>1, <2>7, <4>2, <5>1
        <5> QED BY <1>t, <5>1, <5>2
      <4> QED BY <4>1, <4>2
    <3>3. ASSUME NEW k \in 1..Len(s), s[k] # a PROVE \E j \in 1..(Len(s) - 1) : r[j] = s[k]
      <4>0. k # i
        BY <2>1, <3>3
      <4>1. CASE k < i
        <5>1. k \in 1..(Len(s) - 1) /\ r[k] = s[k]
          BY <1>0, <2>3, <2>7, <4>1
        <5> QED BY <5>1
      <4>2. CASE k > i
        <5>1. k - 1 \in 1..(Len(s) - 1) /\ ~(k - 1 < i) /\ k - 1 + 1 = k
          BY <1>0, <2>3, <4>2
        <5>2. r[k - 1] = s[k]
          BY <2>7, <5>1
        <5> QED BY <5>1, <5>2
      <4> QED BY <1>0, <2>3, <4>0, <4>1, <4>2
    <3>4. ToSet(r) \subseteq ToSet(s) \ {a}
      BY <3>1, <3>2
    <3>5. ToSet(s) \ {a} \subseteq ToSet(r)
      <4> SUFFICES ASSUME NEW x \in ToSet(s), x # a PROVE x \in ToSet(r)
        OBVIOUS
      <4>1. PICK k \in 1..Len(s) : x = s[k]
        BY <1>t
      <4>2. PICK j \in 1..(Len(s) - 1) : r[j] = s[k]
        BY <3>3, <4>1
      <4> QED BY <3>1, <4>1, <4>2
    <3> QED BY <3>4, <3>5
  <2> QED BY <1>2, <2>6, <2>7, <2>8, <2>9 DEF r
<1> QED BY <1>1, <1>2

\* Putting an element in front of a sequence.
LEMMA InFrontIs ==
    ASSUME NEW S, NEW s \in Seq(S), NEW a \in S
    PROVE  /\ <<a>> \o s \in Seq(S)
           /\ Len(<<a>> \o s) = Len(s) + 1
           /\ (<<a>> \o s)[1] = a
           /\ \A j \in 1..Len(s) : (<<a>> \o s)[j + 1] = s[j]
           /\ ToSet(<<a>> \o s) = {a} \cup ToSet(s)
           /\ IsInjective(s) /\ a \notin ToSet(s) => IsInjective(<<a>> \o s)
<1> DEFINE r == <<a>> \o s
<1>0. Len(s) \in Nat /\ <<a>> \in Seq(S) /\ Len(<<a>>) = 1 /\ <<a>>[1] = a
  BY LenProperties
<1>1. /\ r \in Seq(S) /\ Len(r) = 1 + Len(s)
      /\ \A j \in 1..(1 + Len(s)) : r[j] = IF j <= 1 THEN <<a>>[j] ELSE s[j - 1]
  BY <1>0, ConcatProperties
<1> HIDE DEF r
<1>2. r[1] = a
  BY <1>0, <1>1
<1>3. ASSUME NEW j \in 1..Len(s) PROVE r[j + 1] = s[j]
  <2>1. j + 1 \in 1..(1 + Len(s)) /\ ~(j + 1 <= 1) /\ j + 1 - 1 = j
    BY <1>0
  <2> QED BY <1>1, <2>1
<1>t. /\ ToSet(r) = {r[j] : j \in 1..(1 + Len(s))}
      /\ ToSet(s) = {s[j] : j \in 1..Len(s)}
  BY <1>1, ToSetIs
<1>i. ASSUME NEW k \in 1..(1 + Len(s)), k # 1 PROVE k - 1 \in 1..Len(s) /\ r[k] = s[k - 1]
  <2>1. k - 1 \in 1..Len(s) /\ (k - 1) + 1 = k
    BY <1>0, <1>i
  <2> QED BY <1>3, <2>1
<1>4. ToSet(r) = {a} \cup ToSet(s)
  <2>1. ToSet(r) \subseteq {a} \cup ToSet(s)
    BY <1>t, <1>2, <1>i
  <2>2. a \in ToSet(r)
    <3>1. 1 \in 1..(1 + Len(s))
      BY <1>0
    <3> QED BY <1>t, <1>2, <3>1
  <2>3. ToSet(s) \subseteq ToSet(r)
    <3> SUFFICES ASSUME NEW j \in 1..Len(s) PROVE s[j] \in ToSet(r)
      BY <1>t
    <3>1. j + 1 \in 1..(1 + Len(s))
      BY <1>0
    <3> QED BY <1>t, <1>3, <3>1
  <2> QED BY <2>1, <2>2, <2>3
<1>5. ASSUME IsInjective(s), a \notin ToSet(s) PROVE IsInjective(r)
  <2>0. \A i, j \in 1..Len(s) : s[i] = s[j] => i = j
    BY <1>5, InjectiveMeans
  <2>1. ASSUME NEW j \in 1..(1 + Len(s)), NEW k \in 1..(1 + Len(s)), r[j] = r[k] PROVE j = k
    <3>1. CASE j = 1 /\ k # 1
      <4>1. s[k - 1] = a /\ k - 1 \in 1..Len(s)
        BY <2>1, <3>1, <1>2, <1>i
      <4> QED BY <4>1, <1>t, <1>5
    <3>2. CASE k = 1 /\ j # 1
      <4>1. s[j - 1] = a /\ j - 1 \in 1..Len(s)
        BY <2>1, <3>2, <1>2, <1>i
      <4> QED BY <4>1, <1>t, <1>5
    <3>3. CASE j # 1 /\ k # 1
      <4>1. j - 1 = k - 1
        BY <1>i, <2>0, <2>1, <3>3
      <4> QED BY <1>0, <4>1
    <3> QED BY <3>1, <3>2, <3>3
  <2> QED BY <1>1, <2>1, InjectiveMeans
<1>6. Len(r) = Len(s) + 1
  BY <1>0, <1>1
<1> QED BY <1>1, <1>2, <1>3, <1>4, <1>5, <1>6 DEF r

\* The elements of a sequence over S are in S.
LEMMA ToSetInside ==
    ASSUME NEW S, NEW s \in Seq(S)
    PROVE  ToSet(s) \subseteq S
  BY ToSetIs, ElementOfSeq

\* A sequence contains what is among its elements.
LEMMA ContainsIs ==
    ASSUME NEW S, NEW s \in Seq(S), NEW a
    PROVE  Contains(s, a) <=> a \in ToSet(s)
  BY ToSetIs DEF Contains

\* The empty sequence.
LEMMA NoneIs == \A S : <<>> \in Seq(S) /\ IsInjective(<<>>) /\ ToSet(<<>>) = {} /\ Len(<<>>) = 0
<1>1. IsInjective(<<>>)
  BY DEF IsInjective
<1>2. DOMAIN <<>> = {}
  OBVIOUS
<1>3. ToSet(<<>>) = {}
  BY <1>2 DEF ToSet
<1> QED BY <1>1, <1>3, EmptySeq

\* The first element stays first when another is taken out.
LEMMA FirstStays ==
    ASSUME NEW S, NEW s \in Seq(S), IsInjective(s), s # <<>>, NEW a, s[1] # a
    PROVE  RemoveFirst(s, a) # <<>> /\ RemoveFirst(s, a)[1] = s[1]
<1>0. Len(s) \in Nat /\ Len(s) # 0 /\ \A i, j \in 1..Len(s) : s[i] = s[j] => i = j
  BY InjectiveMeans, LenProperties, EmptySeq
<1>1. CASE a \notin ToSet(s)
  BY <1>1, RemoveFirstIs
<1>2. CASE a \in ToSet(s)
  <2>1. PICK i \in 1..Len(s) : s[i] = a
    BY <1>2, ToSetIs
  <2>2. {k \in 1..Len(s) : s[k] = a} = {i}
    BY <1>0, <2>1
  <2>3. i \in Nat /\ i > 1 /\ 1 \in 1..(Len(s) - 1) /\ Len(s) - 1 # 0
    <3>1. i # 1
      BY <2>1
    <3> QED BY <1>0, <3>1
  <2>4. (CHOOSE x \in {i} : \A y \in {i} : x <= y) = i
    BY <2>3
  <2>5. SelectInSeq(s, LAMBDA v : v = a) = i
    BY <2>2, <2>4 DEF SelectInSeq, Min
  <2>6. RemoveFirst(s, a) = RemoveAt(s, i)
    BY <2>1, <2>5 DEF RemoveFirst
  <2>7. /\ RemoveAt(s, i) \in Seq(S) /\ Len(RemoveAt(s, i)) = Len(s) - 1
        /\ \A j \in 1..(Len(s) - 1) : RemoveAt(s, i)[j] = IF j < i THEN s[j] ELSE s[j + 1]
    BY RemoveAtIs
  <2>8. RemoveAt(s, i)[1] = s[1]
    BY <2>3, <2>7
  <2>9. RemoveAt(s, i) # <<>>
    BY <2>3, <2>7, EmptySeq
  <2> QED BY <2>6, <2>8, <2>9
<1> QED BY <1>1, <1>2

\* The first elements of a sequence.
LEMMA PrefixIs ==
    ASSUME NEW S, NEW s \in Seq(S), NEW n \in 1..Len(s)
    PROVE  /\ SubSeq(s, 1, n) \in Seq(S) /\ Len(SubSeq(s, 1, n)) = n /\ SubSeq(s, 1, n) # <<>>
           /\ \A i \in 1..n : SubSeq(s, 1, n)[i] = s[i]
           /\ IsInjective(s) => IsInjective(SubSeq(s, 1, n))
<1> DEFINE r == SubSeq(s, 1, n)
<1>0. Len(s) \in Nat /\ n \in Nat /\ n # 0 /\ \A j \in 1..Len(s) : s[j] \in S
  BY LenProperties, ElementOfSeq
<1>1. 1 \in Int /\ n \in Int /\ \A j \in 1..n : s[j] \in S
  BY <1>0
<1>2. r \in Seq(S) /\ Len(r) = (IF 1 <= n THEN n - 1 + 1 ELSE 0)
      /\ \A i \in 1..(n - 1 + 1) : r[i] = s[1 + i - 1]
  BY <1>1, SubSeqProperties
<1> HIDE DEF r
<1>3. Len(r) = n /\ \A i \in 1..n : r[i] = s[i]
  BY <1>0, <1>2
<1>4. r # <<>>
  BY <1>0, <1>3, EmptySeq
<1>5. ASSUME IsInjective(s) PROVE IsInjective(r)
  <2>1. \A i, j \in 1..Len(s) : s[i] = s[j] => i = j
    BY <1>5, InjectiveMeans
  <2>2. \A i, j \in 1..n : i \in 1..Len(s)
    BY <1>0
  <2>3. \A i, j \in 1..Len(r) : r[i] = r[j] => i = j
    BY <1>3, <2>1, <2>2
  <2> QED BY <1>2, <2>3, InjectiveMeans
<1> QED BY <1>2, <1>3, <1>4, <1>5 DEF r

-----------------------------------------------------------------------------
(* The clipboard manager.                                                  *)

ClipboardCounts == asked \in 0..MaxCopies /\ copies \in 0..MaxCopies /\ asked <= copies

\* The text that came last is on top, if it is in the history.
ClipboardInv ==
    /\ clip \in Clips \cup {Blank} /\ lastText \in Clips \cup {Blank} /\ dropped \subseteq Clips
    /\ clipHistory \in Seq(Clips) /\ IsInjective(clipHistory) /\ Len(clipHistory) <= MaxHistory
    /\ lastText \in ToSet(clipHistory) => clipHistory[1] = lastText
    /\ overlooked \in BOOLEAN

\* What is pinned, in memory and on disk, is a list without doubles.
PinsInv ==
    /\ pinned \in Seq(Clips) /\ IsInjective(pinned)
    /\ pinFile \in Seq(Clips)

\* When nothing is asked any more the newest text was the last one answered.
AnsweredInv ==
    asked = 0 /\ clip \notin dropped \cup {Blank} =>
        lastText = clip /\ (overlooked \/ (clipHistory # <<>> /\ clipHistory[1] = clip))

\* No step copies more often than the bound, or answers what was not asked.
LEMMA ClipboardCountsKept ==
    ASSUME ClipboardCounts, [ClipboardNext]_clipboardVars
    PROVE  ClipboardCounts'
<1>1. MaxCopies \in Nat
  BY ClipboardConstants
<1>2. \/ copies < MaxCopies /\ copies' = copies + 1 /\ asked' = asked + 1
      \/ asked > 0 /\ asked' = asked - 1 /\ copies' = copies
      \/ asked' = asked /\ copies' = copies
  BY DEF ClipboardNext, clipboardVars, Received, ClearHistory, TogglePin, RemoveClip, Copy
<1> QED BY <1>1, <1>2 DEF ClipboardCounts

\* A text that comes is put on top.
LEMMA NewText ==
    ASSUME ClipboardInv, NEW c \in Clips
    PROVE  /\ Newest(ToTheFront(c)) \in Seq(Clips) /\ IsInjective(Newest(ToTheFront(c)))
           /\ Len(Newest(ToTheFront(c))) <= MaxHistory
           /\ Newest(ToTheFront(c)) # <<>> /\ Newest(ToTheFront(c))[1] = c
<1> DEFINE h == RemoveFirst(clipHistory, c)
           s == ToTheFront(c)
           n == IF Len(s) < MaxHistory THEN Len(s) ELSE MaxHistory
<1>1. h \in Seq(Clips) /\ IsInjective(h) /\ c \notin ToSet(h)
  BY RemoveFirstIs DEF ClipboardInv
<1>2. s = <<c>> \o h
  BY DEF ToTheFront
<1> HIDE DEF h
<1>3. s \in Seq(Clips) /\ Len(s) = Len(h) + 1 /\ s[1] = c /\ IsInjective(s)
  BY <1>1, <1>2, InFrontIs
<1>4. Len(h) \in Nat /\ MaxHistory \in Nat \ {0}
  BY <1>1, LenProperties, ClipboardConstants
<1> HIDE DEF s
<1>5. n \in 1..Len(s) /\ n <= MaxHistory /\ 1 \in 1..n
  BY <1>3, <1>4
<1>6. Newest(s) = SubSeq(s, 1, n)
  BY DEF Newest
<1> HIDE DEF n
<1>7. /\ SubSeq(s, 1, n) \in Seq(Clips) /\ Len(SubSeq(s, 1, n)) = n /\ SubSeq(s, 1, n) # <<>>
      /\ SubSeq(s, 1, n)[1] = s[1] /\ IsInjective(SubSeq(s, 1, n))
  BY <1>3, <1>5, PrefixIs
<1> QED BY <1>3, <1>5, <1>6, <1>7 DEF s

\* One that is removed, by itself or with all others, is not on top.
LEMMA WithoutText ==
    ASSUME ClipboardInv, NEW c
    PROVE  /\ RemoveFirst(clipHistory, c) \in Seq(Clips) /\ IsInjective(RemoveFirst(clipHistory, c))
           /\ Len(RemoveFirst(clipHistory, c)) <= MaxHistory
           /\ ToSet(RemoveFirst(clipHistory, c)) \subseteq ToSet(clipHistory) \ {c}
           /\ clipHistory # <<>> /\ clipHistory[1] # c =>
                  /\ RemoveFirst(clipHistory, c) # <<>>
                  /\ RemoveFirst(clipHistory, c)[1] = clipHistory[1]
<1>1. clipHistory \in Seq(Clips) /\ IsInjective(clipHistory) /\ Len(clipHistory) \in Nat
  BY LenProperties DEF ClipboardInv
<1>2. /\ RemoveFirst(clipHistory, c) \in Seq(Clips) /\ IsInjective(RemoveFirst(clipHistory, c))
      /\ c \notin ToSet(RemoveFirst(clipHistory, c))
      /\ ToSet(RemoveFirst(clipHistory, c)) = ToSet(clipHistory) \ {c}
      /\ RemoveFirst(clipHistory, c) = clipHistory
         \/ Len(RemoveFirst(clipHistory, c)) = Len(clipHistory) - 1
  BY <1>1, RemoveFirstIs
<1>3. Len(RemoveFirst(clipHistory, c)) <= MaxHistory
  BY <1>1, <1>2, ClipboardConstants DEF ClipboardInv
<1>4. clipHistory # <<>> /\ clipHistory[1] # c =>
          /\ RemoveFirst(clipHistory, c) # <<>>
          /\ RemoveFirst(clipHistory, c)[1] = clipHistory[1]
  BY <1>1, FirstStays
<1> QED BY <1>2, <1>3, <1>4

\* What is first in the history is one of its texts.
LEMMA SomeText ==
    ASSUME ClipboardInv
    PROVE  /\ ToSet(clipHistory) \subseteq Clips
           /\ clipHistory # <<>> => clipHistory[1] \in ToSet(clipHistory)
           /\ clipHistory = <<>> => ToSet(clipHistory) = {}
<1>1. clipHistory \in Seq(Clips) /\ Len(clipHistory) \in Nat
  BY LenProperties DEF ClipboardInv
<1>2. ASSUME clipHistory # <<>> PROVE clipHistory[1] \in ToSet(clipHistory)
  <2>1. 1 \in 1..Len(clipHistory)
    BY <1>1, <1>2, EmptySeq
  <2> QED BY <1>1, <2>1, ToSetIs
<1> QED BY <1>1, <1>2, ToSetInside, NoneIs

\* Every step keeps the history and the pins free of doubles.
LEMMA ClipboardInvKept ==
    ASSUME ClipboardInv, PinsInv, [ClipboardNext]_clipboardVars
    PROVE  ClipboardInv'
<1>0. UNCHANGED <<lastText, clipHistory>> /\ overlooked' \in BOOLEAN /\ clip' \in Clips \cup {Blank}
      /\ dropped' \subseteq dropped
      => ClipboardInv'
  BY DEF ClipboardInv
<1>c. clip \in Clips \cup {Blank} /\ overlooked \in BOOLEAN
  BY DEF ClipboardInv
<1>1. CASE Received
  <2>0. clip' = clip
    BY <1>1 DEF Received
  <2>1. PICK c \in {clip, Blank} :
            IF c = Blank THEN UNCHANGED <<lastText, clipHistory, dropped, overlooked>>
            ELSE SameAgain(c) \/ Lists(c)
    BY <1>1 DEF Received
  <2>2. CASE c = Blank \/ SameAgain(c)
    BY <1>0, <1>c, <2>0, <2>1, <2>2 DEF SameAgain
  <2>3. CASE c # Blank /\ Lists(c)
    <3>1. c \in Clips
      BY <1>c, <2>3
    <3> QED BY <1>c, <2>0, <2>3, <3>1, NewText DEF ClipboardInv, Lists
  <2> QED BY <2>1, <2>2, <2>3
<1>2. CASE ClearHistory
  <2>1. /\ clipHistory' = <<>> /\ dropped' = dropped \cup ToSet(clipHistory)
        /\ UNCHANGED <<clip, lastText, overlooked>>
    BY <1>2 DEF ClearHistory
  <2>2. Len(<<>>) <= MaxHistory
    BY ClipboardConstants, NoneIs
  <2> QED BY <1>c, <2>1, <2>2, NoneIs, SomeText DEF ClipboardInv
<1>3. ASSUME NEW c \in Clips, TogglePin(c) PROVE ClipboardInv'
  BY <1>3, <1>0, <1>c DEF TogglePin
<1>4. ASSUME NEW c \in Clips, RemoveClip(c) PROVE ClipboardInv'
  <2>1. CASE UNCHANGED <<clipHistory, dropped>>
    BY <1>4, <1>0, <1>c, <2>1 DEF RemoveClip
  <2>2. CASE ~UNCHANGED <<clipHistory, dropped>>
    <3>1. /\ clipHistory' = RemoveFirst(clipHistory, c) /\ dropped' = dropped \cup {c}
          /\ UNCHANGED <<clip, lastText, overlooked>>
      BY <1>4, <2>2 DEF RemoveClip
    <3>2. ASSUME lastText \in ToSet(clipHistory') PROVE clipHistory'[1] = lastText
      <4>1. lastText \in ToSet(clipHistory) /\ lastText # c
        BY <3>1, <3>2, WithoutText
      <4>2. clipHistory # <<>> /\ clipHistory[1] = lastText
        BY <4>1, SomeText DEF ClipboardInv
      <4> QED BY <3>1, <4>1, <4>2, WithoutText
    <3> QED BY <1>c, <3>1, <3>2, WithoutText DEF ClipboardInv
  <2> QED BY <2>1, <2>2
<1>5. ASSUME NEW c \in Clips \cup {Blank}, Copy(c) PROVE ClipboardInv'
  BY <1>5, <1>0, <1>c DEF Copy
<1>6. CASE UNCHANGED clipboardVars
  BY <1>6, <1>0, <1>c DEF clipboardVars
<1> QED BY <1>1, <1>2, <1>3, <1>4, <1>5, <1>6 DEF ClipboardNext

\* Every step keeps the pins, in memory and on disk, a list without doubles.
LEMMA PinsInvKept ==
    ASSUME PinsInv, [ClipboardNext]_clipboardVars
    PROVE  PinsInv'
<1>0. UNCHANGED <<pinned, pinFile>> => PinsInv'
  BY DEF PinsInv
<1>1. ASSUME NEW c \in Clips, TogglePin(c) \/ RemoveClip(c) PROVE PinsInv'
  <2>1. /\ pinned' \in {pinned, RemoveFirst(pinned, c)} \/ (c \notin ToSet(pinned) /\ pinned' = <<c>> \o pinned)
        /\ pinFile' \in {pinned', pinFile}
    BY <1>1, ContainsIs DEF TogglePin, RemoveClip, PinsInv
  <2>2. RemoveFirst(pinned, c) \in Seq(Clips) /\ IsInjective(RemoveFirst(pinned, c))
    BY RemoveFirstIs DEF PinsInv
  <2>3. c \notin ToSet(pinned) => <<c>> \o pinned \in Seq(Clips) /\ IsInjective(<<c>> \o pinned)
    BY InFrontIs DEF PinsInv
  <2> QED BY <2>1, <2>2, <2>3 DEF PinsInv
<1> QED BY <1>0, <1>1 DEF ClipboardNext, Received, ClearHistory, Copy, clipboardVars

\* Once every question is answered the newest text is on top, after every step.
LEMMA AnsweredInvKept ==
    ASSUME ClipboardCounts, ClipboardInv, AnsweredInv, [ClipboardNext]_clipboardVars
    PROVE  AnsweredInv'
<1>1. CASE Received
  <2>1. asked' = asked - 1 /\ clip' = clip /\ asked \in Nat
    BY <1>1, ClipboardConstants DEF Received, ClipboardCounts
  <2>2. asked' = 0 => ~(asked > 1)
    BY <2>1
  <2>3. ASSUME ~(asked > 1), clip # Blank
        PROVE  lastText' = clip /\ (overlooked' \/ (clipHistory' # <<>> /\ clipHistory'[1] = clip))
    <3>1. SameAgain(clip) \/ Lists(clip)
      BY <1>1, <2>3 DEF Received
    <3>2. CASE SameAgain(clip)
      BY <3>2, SomeText DEF SameAgain, ClipboardInv
    <3>3. CASE Lists(clip)
      <4>1. clip \in Clips
        BY <2>3 DEF ClipboardInv
      <4> QED BY <3>3, <4>1, NewText DEF Lists
    <3> QED BY <3>1, <3>2, <3>3
  <2> QED BY <2>1, <2>2, <2>3 DEF AnsweredInv
<1>2. ASSUME NEW c \in Clips \cup {Blank}, Copy(c) PROVE AnsweredInv'
  <2>1. asked' = asked + 1 /\ asked \in Nat
    BY <1>2, ClipboardConstants DEF Copy, ClipboardCounts
  <2>2. asked' # 0
    BY <2>1
  <2> QED BY <2>2 DEF AnsweredInv
<1>3. UNCHANGED <<asked, clip, lastText, clipHistory, dropped, overlooked>> => AnsweredInv'
  BY DEF AnsweredInv
<1>4. CASE ClearHistory
  BY <1>4, SomeText DEF ClearHistory, AnsweredInv
<1>5. ASSUME NEW c \in Clips, RemoveClip(c) PROVE AnsweredInv'
  <2>1. CASE UNCHANGED <<clipHistory, dropped>>
    BY <1>3, <1>5, <2>1 DEF RemoveClip
  <2>2. CASE ~UNCHANGED <<clipHistory, dropped>>
    <3>1. /\ clipHistory' = RemoveFirst(clipHistory, c) /\ dropped' = dropped \cup {c}
          /\ UNCHANGED <<asked, clip, lastText, overlooked>>
      BY <1>5, <2>2 DEF RemoveClip
    <3> QED BY <3>1, WithoutText DEF AnsweredInv
  <2> QED BY <2>1, <2>2
<1> QED BY <1>1, <1>2, <1>3, <1>4, <1>5 DEF ClipboardNext, TogglePin, clipboardVars

(* Clipboard manager: the history keeps its types, and when every question *)
(* is answered what was copied last is on top (_on_owner_change,           *)
(* _on_text_received, _remove, _clear_history), for any texts and limits,  *)
(* but for the text that came last and is copied again after its removal.  *)
THEOREM ClipboardShowsNewest == ClipboardSpec => [](ClipboardTypeOK /\ NewestOnTop)
<1>1. ClipboardInit => ClipboardInv
  <2>1. Len(<<>>) <= MaxHistory
    BY ClipboardConstants, NoneIs
  <2> QED BY <2>1, NoneIs DEF ClipboardInit, ClipboardInv
<1>2. ClipboardInit => PinsInv
  <2> SUFFICES ASSUME ClipboardInit PROVE PinsInv
    OBVIOUS
  <2>1. CASE pinFile = <<>>
    BY <2>1, NoneIs DEF ClipboardInit, PinsInv
  <2>2. CASE pinFile # <<>>
    <3>1. PICK c \in Clips : pinFile = <<c>>
      BY <2>2 DEF ClipboardInit
    <3>2. <<c>> \in Seq(Clips) /\ Len(<<c>>) = 1
      OBVIOUS
    <3>3. IsInjective(<<c>>)
      BY DEF IsInjective
    <3> QED BY <3>1, <3>2, <3>3 DEF ClipboardInit, PinsInv
  <2> QED BY <2>1, <2>2
<1>3. ClipboardInit => ClipboardCounts /\ AnsweredInv
  <2>1. ClipboardInit => asked = 0 /\ copies = 0 /\ clip = Blank
    BY DEF ClipboardInit
  <2> QED BY <2>1, ClipboardConstants DEF ClipboardCounts, AnsweredInv
<1>4. ClipboardInv /\ PinsInv /\ ClipboardCounts => ClipboardTypeOK
  BY ToSetInside DEF ClipboardInv, PinsInv, ClipboardCounts, ClipboardTypeOK
<1>5. ClipboardInv /\ AnsweredInv => NewestOnTop
  BY DEF ClipboardInv, AnsweredInv, NewestOnTop
<1> QED BY <1>1, <1>2, <1>3, <1>4, <1>5, ClipboardInvKept, PinsInvKept, AnsweredInvKept, ClipboardCountsKept, PTL
        DEF ClipboardSpec

-----------------------------------------------------------------------------
(* The clock.                                                              *)

Alarm == [minute : Minutes, enabled : BOOLEAN]

\* A minute rings when it is fired, and only then.
AlarmsInv ==
    /\ clockTab \in {"alarms", "timer", "stopwatch"} /\ time \in Times /\ ticked \in {"no", "yes"}
    /\ alarms \in Seq(Alarm) /\ Len(alarms) <= MaxAlarms
    /\ fired \subseteq Times /\ rings \in [Times -> Nat]
    /\ \A t \in Times : (t \in fired => rings[t] = 1) /\ (t \notin fired => rings[t] = 0)
    /\ ticked = "yes" /\ DueAt(time) # {} => time \in fired

\* Every step keeps it that a minute that was ticked rang once if it had to.
LEMMA AlarmsInvKept ==
    ASSUME AlarmsInv, [ClockNext]_clockVars
    PROVE  AlarmsInv'
<1>c. MaxTime \in Nat /\ MaxAlarms \in Nat
  BY ClockConstants
<1>1. CASE TimePasses
  <2>1. /\ time < MaxTime /\ time' = time + 1 /\ ticked' = "no"
        /\ UNCHANGED <<clockTab, alarms, fired, rings>>
    BY <1>1 DEF TimePasses, alarmVars
  <2>2. time \in 1..MaxTime
    BY DEF AlarmsInv, Times
  <2>3. time' \in 1..MaxTime
    BY <1>c, <2>1, <2>2
  <2> QED BY <2>1, <2>3 DEF AlarmsInv, Times
<1>2. ASSUME NEW m \in Minutes, AddAlarm(m) PROVE AlarmsInv'
  <2> DEFINE a == [minute |-> m, enabled |-> TRUE]
  <2>1. /\ Len(alarms) < MaxAlarms /\ alarms' = Append(alarms, a) /\ ticked' = "no"
        /\ UNCHANGED <<clockTab, time, fired, rings>>
    BY <1>2 DEF AddAlarm
  <2>2. a \in Alarm
    BY DEF Alarm
  <2> HIDE DEF a
  <2>3. Append(alarms, a) \in Seq(Alarm) /\ Len(Append(alarms, a)) = Len(alarms) + 1 /\ Len(alarms) \in Nat
    BY <2>2, AppendProperties, LenProperties DEF AlarmsInv
  <2>4. Len(alarms') <= MaxAlarms
    BY <1>c, <2>1, <2>3
  <2> QED BY <2>1, <2>3, <2>4 DEF AlarmsInv
<1>3. ASSUME NEW n \in DOMAIN alarms, ToggleAlarm(n) PROVE AlarmsInv'
  <2>1. alarms' = [alarms EXCEPT ![n].enabled = ~@] /\ ticked' = "no" /\ UNCHANGED <<clockTab, time, fired, rings>>
    BY <1>3 DEF ToggleAlarm
  <2>2. n \in 1..Len(alarms) /\ alarms[n] \in Alarm
    BY LenProperties, ElementOfSeq DEF AlarmsInv
  <2> DEFINE a == [alarms[n] EXCEPT !.enabled = ~@]
  <2>3. a \in Alarm
    BY <2>2 DEF Alarm
  <2>4. alarms' = [alarms EXCEPT ![n] = a]
    BY <2>1
  <2> HIDE DEF a
  <2>5. [alarms EXCEPT ![n] = a] \in Seq(Alarm) /\ Len([alarms EXCEPT ![n] = a]) = Len(alarms)
    BY <2>2, <2>3, ExceptSeq DEF AlarmsInv
  <2> QED BY <2>1, <2>4, <2>5 DEF AlarmsInv
<1>4. ASSUME NEW n \in DOMAIN alarms, RemoveAlarm(n) PROVE AlarmsInv'
  <2>1. alarms' = RemoveAt(alarms, n) /\ ticked' = "no" /\ UNCHANGED <<clockTab, time, fired, rings>>
    BY <1>4 DEF RemoveAlarm
  <2>2. n \in 1..Len(alarms) /\ Len(alarms) \in Nat
    BY LenProperties DEF AlarmsInv
  <2>3. RemoveAt(alarms, n) \in Seq(Alarm) /\ Len(RemoveAt(alarms, n)) = Len(alarms) - 1
    BY <2>2, RemoveAtIs DEF AlarmsInv
  <2>4. Len(alarms') <= MaxAlarms
    BY <1>c, <2>1, <2>2, <2>3 DEF AlarmsInv
  <2> QED BY <2>1, <2>3, <2>4 DEF AlarmsInv
<1>5. CASE ClockTicks
  <2>1. UNCHANGED <<clockTab, time, alarms>> /\ ticked' = "yes"
    BY <1>5 DEF ClockTicks
  <2>2. CASE DueAt(time) # {} /\ time \notin fired
    <3>1. fired' = fired \cup {time} /\ rings' = [rings EXCEPT ![time] = @ + 1]
      BY <1>5, <2>2 DEF ClockTicks, Rings, FireId
    <3>2. time \in Times /\ rings[time] = 0
      BY <2>2 DEF AlarmsInv
    <3>3. rings' = [rings EXCEPT ![time] = 1]
      BY <3>1, <3>2
    <3> QED BY <2>1, <3>1, <3>2, <3>3 DEF AlarmsInv
  <2>3. CASE ~(DueAt(time) # {} /\ time \notin fired)
    <3>1. UNCHANGED <<fired, rings>>
      BY <1>5, <2>3 DEF ClockTicks, Rings, FireId
    <3> QED BY <2>1, <2>3, <3>1 DEF AlarmsInv, DueAt
  <2> QED BY <2>2, <2>3
<1>6. UNCHANGED <<clockTab, time, ticked, alarmVars>> => AlarmsInv'
  BY DEF alarmVars, AlarmsInv, DueAt
<1>7. CASE TimerPauses \/ TimerResets \/ StopwatchToggles \/ StopwatchResets
           \/ (\E span \in Spans : TimerStarts(span)) \/ UNCHANGED clockVars
  BY <1>6, <1>7 DEF TimerPauses, TimerResets, StopwatchToggles, StopwatchResets, TimerStarts, clockVars, alarmVars
<1> QED BY <1>1, <1>2, <1>3, <1>4, <1>5, <1>7 DEF ClockNext

\* What the timer has yet to run.
Owed == IF goal > ran THEN goal - ran ELSE 0

\* The counters of the clock, and what of them cannot be negative.
CountersInv ==
    /\ remaining \in Nat /\ deadline \in Nat /\ elapsed \in Nat /\ startedAt \in 0..MaxTime
    /\ goal \in Nat /\ ran \in Nat

\* Only the tab that is used runs.
TimerInv ==
    IF clockTab = "timer"
    THEN /\ startedAt = 0
         /\ goal = 0 => deadline = 0
         /\ deadline = 0 => remaining = Owed
         /\ deadline # 0 => Left = Owed
    ELSE deadline = 0 /\ goal = 0

\* The timer is only done when it ran as long as it was set to.
FinishInv == finished \in {"no", "yes"} /\ goal \in {0} \cup Spans /\ (finished = "yes" => ran >= goal)

\* What the stopwatch will show is what it ran.
WatchInv ==
    IF clockTab = "stopwatch"
    THEN /\ ran < time
         /\ startedAt = 0 => elapsed = ran
         /\ startedAt # 0 => time - startedAt = ran
    ELSE startedAt = 0

RunInv == CountersInv /\ TimerInv /\ FinishInv /\ WatchInv

\* A minute passes: what runs has run a minute more.
LEMMA MinutePasses ==
    ASSUME AlarmsInv, RunInv, TimePasses
    PROVE  RunInv'
<1>1. /\ time' = time + 1 /\ (Running => ran' = ran + 1) /\ (~Running => ran' = ran)
      /\ UNCHANGED <<clockTab, remaining, deadline, finished, goal, elapsed, startedAt>>
  BY DEF TimePasses, timerVars, watchVars
<1>2. time \in Nat /\ MaxTime \in Nat /\ CountersInv
  BY ClockConstants DEF AlarmsInv, RunInv, Times
<1>3. CountersInv'
  BY <1>1, <1>2 DEF CountersInv
<1>4. TimerInv'
  <2>1. CASE clockTab = "timer"
    <3>1. /\ startedAt = 0 /\ (goal = 0 => deadline = 0)
          /\ (deadline = 0 => remaining = Owed) /\ (deadline # 0 => Left = Owed)
      BY <2>1 DEF RunInv, TimerInv
    <3>2. deadline = 0 => ran' = ran
      BY <1>1, <3>1 DEF Running
    <3>3. deadline # 0 => ran' = ran + 1
      BY <1>1 DEF Running
    <3>4. deadline' = 0 => remaining' = Owed'
      BY <1>1, <3>1, <3>2 DEF Owed
    <3>5. deadline' # 0 => Left' = Owed'
      BY <1>1, <1>2, <3>1, <3>3 DEF Owed, Left, CountersInv
    <3> QED BY <1>1, <2>1, <3>1, <3>4, <3>5 DEF TimerInv
  <2>2. CASE clockTab # "timer"
    BY <1>1, <2>2 DEF RunInv, TimerInv
  <2> QED BY <2>1, <2>2
<1>5. FinishInv'
  <2>1. ran >= goal => ran' >= goal'
    BY <1>1, <1>2 DEF CountersInv
  <2> QED BY <1>1, <2>1 DEF RunInv, FinishInv
<1>6. WatchInv'
  <2>1. CASE clockTab = "stopwatch"
    <3>1. ran < time /\ (startedAt = 0 => elapsed = ran) /\ (startedAt # 0 => time - startedAt = ran)
      BY <2>1 DEF RunInv, WatchInv
    <3>2. deadline = 0
      BY <2>1 DEF RunInv, TimerInv
    <3>3. (startedAt = 0 => ran' = ran) /\ (startedAt # 0 => ran' = ran + 1)
      BY <1>1, <3>2 DEF Running
    <3>4. ran' < time' /\ (startedAt' = 0 => elapsed' = ran') /\ (startedAt' # 0 => time' - startedAt' = ran')
      BY <1>1, <1>2, <3>1, <3>3 DEF CountersInv
    <3> QED BY <1>1, <2>1, <3>4 DEF WatchInv
  <2>2. CASE clockTab # "stopwatch"
    BY <1>1, <2>2 DEF RunInv, WatchInv
  <2> QED BY <2>1, <2>2
<1> QED BY <1>3, <1>4, <1>5, <1>6 DEF RunInv

\* Starting, pausing, resetting and ticking keep the timer's account.
LEMMA TimerMoves ==
    ASSUME AlarmsInv, RunInv,
           TimerPauses \/ TimerResets \/ ClockTicks \/ \E span \in Spans : TimerStarts(span)
    PROVE  RunInv'
<1>0. /\ UNCHANGED <<clockTab, time, elapsed, startedAt>>
      /\ clockTab = "stopwatch" => ran' = ran
  BY DEF TimerPauses, TimerResets, TimerStarts, ClockTicks, watchVars
<1>c. time \in Nat /\ CountersInv /\ 0 \in {0} \cup Spans
  BY ClockConstants DEF AlarmsInv, RunInv, Times
<1>w. WatchInv'
  BY <1>0 DEF RunInv, WatchInv
<1>i. CASE clockTab # "timer"
  <2>1. deadline = 0
    BY <1>i DEF RunInv, TimerInv
  <2>2. ~TimerPauses /\ ~TimerResets /\ ~(\E span \in Spans : TimerStarts(span))
    BY <1>i, <2>1 DEF TimerPauses, TimerResets, TimerStarts
  <2>3. UNCHANGED <<remaining, deadline, finished, goal, ran>>
    BY <2>1, <2>2 DEF ClockTicks, TimerTicks, timerVars
  <2>4. CountersInv'
    BY <1>0, <1>c, <2>3 DEF CountersInv
  <2>5. TimerInv'
    BY <1>0, <1>i, <2>3 DEF RunInv, TimerInv
  <2>6. FinishInv'
    BY <2>3 DEF RunInv, FinishInv
  <2> QED BY <1>w, <2>4, <2>5, <2>6 DEF RunInv
<1>t. CASE clockTab = "timer"
  <2>0. /\ startedAt = 0 /\ (goal = 0 => deadline = 0)
        /\ (deadline = 0 => remaining = Owed) /\ (deadline # 0 => Left = Owed)
    BY <1>t DEF RunInv, TimerInv
  <2>l. Left \in Nat /\ Owed \in Nat
    BY <1>c DEF Left, Owed, CountersInv
  <2>1. CASE TimerPauses
    <3>1. deadline # 0 /\ remaining' = Left /\ deadline' = 0 /\ UNCHANGED <<finished, goal, ran>>
      BY <2>1 DEF TimerPauses
    <3>2. CountersInv'
      BY <1>0, <1>c, <2>l, <3>1 DEF CountersInv
    <3>3. TimerInv'
      BY <1>0, <1>t, <2>0, <3>1 DEF TimerInv, Owed
    <3> QED BY <1>w, <3>1, <3>2, <3>3 DEF RunInv, FinishInv
  <2>2. CASE TimerResets
    <3>1. remaining' = 0 /\ deadline' = 0 /\ goal' = 0 /\ ran' = 0 /\ finished' = "no"
      BY <2>2 DEF TimerResets
    <3>2. CountersInv'
      BY <1>0, <1>c, <3>1 DEF CountersInv
    <3>o. Owed' = 0
      BY <3>1 DEF Owed
    <3>3. TimerInv'
      BY <1>0, <1>t, <2>0, <3>1, <3>o DEF TimerInv
    <3> QED BY <1>c, <1>w, <3>1, <3>2, <3>3 DEF RunInv, FinishInv
  <2>3. CASE ClockTicks
    <3>1. CASE deadline = 0
      <4>1. UNCHANGED <<remaining, deadline, finished, goal, ran>>
        BY <2>3, <3>1 DEF ClockTicks, TimerTicks, timerVars
      <4> QED BY <1>0, <1>c, <1>w, <4>1 DEF RunInv, CountersInv, TimerInv, FinishInv, Owed, Left
    <3>2. CASE deadline # 0
      <4>1. remaining' = Left /\ UNCHANGED <<goal, ran>>
            /\ (Left = 0 => deadline' = 0 /\ finished' = "yes")
            /\ (Left # 0 => UNCHANGED <<deadline, finished>>)
        BY <2>3, <3>2 DEF ClockTicks, TimerTicks
      <4>2. CountersInv'
        BY <1>0, <1>c, <2>l, <4>1 DEF CountersInv
      <4>3. Owed' = Owed /\ (Left # 0 => Left' = Left)
        BY <1>0, <4>1 DEF Owed, Left
      <4>4. TimerInv'
        BY <1>0, <1>t, <2>0, <3>2, <4>1, <4>3 DEF TimerInv
      <4>5. Left = 0 => ran' >= goal'
        BY <1>c, <2>0, <3>2, <4>1 DEF Owed, CountersInv
      <4>6. FinishInv'
        BY <4>1, <4>5 DEF FinishInv, RunInv
      <4> QED BY <1>w, <4>2, <4>4, <4>6 DEF RunInv
    <3> QED BY <3>1, <3>2
  <2>4. ASSUME NEW span \in Spans, TimerStarts(span) PROVE RunInv'
    <3>0. span \in Nat /\ span > 0
      BY ClockConstants
    <3>1. deadline = 0 /\ remaining' > 0 /\ deadline' = time + remaining' /\ finished' = "no"
      BY <2>4 DEF TimerStarts
    <3>2. remaining = 0 => remaining' = span /\ goal' = span /\ ran' = 0
      BY <2>4 DEF TimerStarts
    <3>3. remaining # 0 => UNCHANGED <<remaining, goal, ran>>
      BY <2>4 DEF TimerStarts
    <3>4. CountersInv'
      BY <1>0, <1>c, <3>0, <3>1, <3>2, <3>3 DEF CountersInv
    <3>5. remaining' = Owed' /\ goal' # 0
      BY <1>c, <2>0, <3>0, <3>1, <3>2, <3>3 DEF Owed, CountersInv
    <3>6. deadline' # 0 /\ Left' = remaining'
      <4>1. remaining' \in Nat /\ deadline' = time' + remaining' /\ remaining' > 0 /\ time' \in Nat
        BY <1>0, <1>c, <3>1, <3>4 DEF CountersInv
      <4>2. Left' = IF deadline' > time' THEN deadline' - time' ELSE 0
        BY DEF Left
      <4>3. deadline' > time' /\ deadline' # 0 /\ deadline' - time' = remaining'
        <5>1. \A t, r \in Nat : r > 0 => t + r > t /\ t + r # 0 /\ (t + r) - t = r
          OBVIOUS
        <5> QED BY <4>1, <5>1
      <4> QED BY <4>2, <4>3
    <3>7. TimerInv'
      BY <1>0, <1>t, <2>0, <3>5, <3>6 DEF TimerInv
    <3>8. FinishInv'
      BY <3>1, <3>2, <3>3 DEF FinishInv, RunInv
    <3> QED BY <1>w, <3>4, <3>7, <3>8 DEF RunInv
  <2> QED BY <2>1, <2>2, <2>3, <2>4
<1> QED BY <1>i, <1>t

\* Starting, stopping and resetting keep the stopwatch's account.
LEMMA WatchMoves ==
    ASSUME AlarmsInv, RunInv, StopwatchToggles \/ StopwatchResets
    PROVE  RunInv'
<1>0. clockTab = "stopwatch" /\ UNCHANGED <<clockTab, time, remaining, deadline, finished, goal>>
  BY DEF StopwatchToggles, StopwatchResets, timerVars
<1>1. ran < time /\ (startedAt = 0 => elapsed = ran) /\ (startedAt # 0 => time - startedAt = ran)
  BY <1>0 DEF RunInv, WatchInv
<1>2. time \in 1..MaxTime /\ MaxTime \in Nat /\ CountersInv
  BY ClockConstants DEF AlarmsInv, RunInv, Times
<1>3. TimerInv'
  BY <1>0 DEF RunInv, TimerInv
<1>4. CASE StopwatchResets
  <2>1. startedAt' = 0 /\ elapsed' = 0 /\ ran' = 0
    BY <1>4 DEF StopwatchResets
  <2>2. ran' < time'
    BY <1>0, <1>2, <2>1
  <2>3. WatchInv'
    BY <1>0, <2>1, <2>2 DEF WatchInv
  <2>4. CountersInv'
    BY <1>0, <1>2, <2>1 DEF CountersInv
  <2>5. finished = "yes" => ran' >= goal'
    <3>1. goal = 0
      BY <1>0 DEF RunInv, TimerInv
    <3> QED BY <1>0, <2>1, <3>1
  <2>6. FinishInv'
    BY <1>0, <2>5 DEF RunInv, FinishInv
  <2> QED BY <1>3, <2>3, <2>4, <2>6 DEF RunInv
<1>5. CASE StopwatchToggles
  <2>1. /\ ran' = ran
        /\ startedAt = 0 => startedAt' = time - elapsed /\ elapsed' = elapsed
        /\ startedAt # 0 => startedAt' = 0 /\ elapsed' = time - startedAt
    BY <1>5 DEF StopwatchToggles
  <2>2. CountersInv'
    BY <1>0, <1>1, <1>2, <2>1 DEF CountersInv
  <2>3. ran' < time' /\ (startedAt' = 0 => elapsed' = ran') /\ (startedAt' # 0 => time' - startedAt' = ran')
    BY <1>0, <1>1, <1>2, <2>1 DEF CountersInv
  <2>4. WatchInv'
    BY <1>0, <2>3 DEF WatchInv
  <2>5. FinishInv'
    BY <1>0, <2>1 DEF RunInv, FinishInv
  <2> QED BY <1>3, <2>2, <2>4, <2>5 DEF RunInv
<1> QED BY <1>4, <1>5

\* Every step keeps both accounts.
LEMMA RunInvKept ==
    ASSUME AlarmsInv, RunInv, [ClockNext]_clockVars
    PROVE  RunInv'
<1>1. UNCHANGED <<clockTab, time, timerVars, watchVars, ran>> => RunInv'
  BY DEF timerVars, watchVars, RunInv, CountersInv, TimerInv, FinishInv, WatchInv, Owed, Left
<1>2. CASE (\E m \in Minutes : AddAlarm(m)) \/ (\E n \in DOMAIN alarms : ToggleAlarm(n) \/ RemoveAlarm(n))
           \/ UNCHANGED clockVars
  BY <1>1, <1>2 DEF AddAlarm, ToggleAlarm, RemoveAlarm, clockVars, timerVars, watchVars
<1> QED BY <1>2, MinutePasses, TimerMoves, WatchMoves DEF ClockNext

(* Clock: it keeps its types; however late the ticks are, a minute that an *)
(* alarm is set for rings once, however many alarms it has (_tick), and    *)
(* the timer and the stopwatch count the time that ran (_tick,             *)
(* _timer_toggle, _sw_toggle).                                             *)
THEOREM ClockKeepsTime == ClockSpec => [](ClockTypeOK /\ AlarmsRingOnce /\ TimeIsKept)
<1>1. ClockInit => AlarmsInv
  <2> SUFFICES ASSUME ClockInit PROVE AlarmsInv
    OBVIOUS
  <2>1. time \in Times /\ Len(alarms) <= MaxAlarms /\ DueAt(time) = {}
    BY ClockConstants DEF ClockInit, Times, DueAt
  <2>2. rings = [t \in Times |-> 0] /\ fired = {} /\ alarms = <<>>
    BY DEF ClockInit
  <2>3. rings \in [Times -> Nat] /\ \A t \in Times : rings[t] = 0
    BY <2>2
  <2> QED BY <2>1, <2>2, <2>3 DEF ClockInit, AlarmsInv
<1>2. ClockInit => RunInv
  <2> SUFFICES ASSUME ClockInit PROVE RunInv
    OBVIOUS
  <2>1. remaining = 0 /\ deadline = 0 /\ goal = 0 /\ elapsed = 0 /\ startedAt = 0 /\ ran = 0 /\ time = 1
    BY DEF ClockInit
  <2>2. CountersInv
    BY <2>1, ClockConstants DEF CountersInv
  <2>3. Owed = 0 /\ ran < time /\ ran >= goal
    BY <2>1 DEF Owed
  <2>4. finished = "no"
    BY DEF ClockInit
  <2> QED BY <2>1, <2>2, <2>3, <2>4 DEF RunInv, TimerInv, FinishInv, WatchInv
<1>3. AlarmsInv /\ RunInv => ClockTypeOK
  BY DEF AlarmsInv, RunInv, CountersInv, FinishInv, ClockTypeOK, Alarm
<1>4. AlarmsInv => AlarmsRingOnce
  <2> SUFFICES ASSUME AlarmsInv PROVE AlarmsRingOnce
    OBVIOUS
  <2>1. ASSUME NEW t \in Times PROVE rings[t] <= 1
    <3>1. rings[t] = 0 \/ rings[t] = 1
      BY DEF AlarmsInv
    <3> QED BY <3>1
  <2>2. ticked = "yes" /\ DueAt(time) # {} => rings[time] = 1
    BY DEF AlarmsInv
  <2> QED BY <2>1, <2>2 DEF AlarmsRingOnce
<1>5. RunInv => TimeIsKept
  BY DEF RunInv, TimerInv, FinishInv, WatchInv, TimeIsKept, Owed
<1> QED BY <1>1, <1>2, <1>3, <1>4, <1>5, AlarmsInvKept, RunInvKept, PTL DEF ClockSpec

-----------------------------------------------------------------------------
(* Calendar.                                                               *)

\* What the community modules call the sequences of at most n elements.
LEMMA SeqOfIs ==
    ASSUME NEW S, NEW n \in Nat, NEW s
    PROVE  s \in SeqOf(S, n) <=> s \in Seq(S) /\ Len(s) <= n
<1>1. ASSUME s \in SeqOf(S, n) PROVE s \in Seq(S) /\ Len(s) <= n
  <2>1. PICK m \in 0..n : s \in [1..m -> S]
    BY <1>1 DEF SeqOf
  <2>2. m \in Nat /\ m <= n
    OBVIOUS
  <2>3. s \in Seq(S)
    BY <2>1, <2>2, SeqDef
  <2>4. Len(s) \in Nat /\ DOMAIN s = 1..Len(s) /\ DOMAIN s = 1..m
    BY <2>1, <2>3, LenProperties
  <2>5. Len(s) = m
    <3>1. ASSUME NEW a \in Nat, NEW b \in Nat, 1..a = 1..b, a < b PROVE FALSE
      <4>1. b \in 1..b /\ b \notin 1..a
        BY <3>1
      <4> QED BY <3>1, <4>1
    <3>2. ~(Len(s) < m) /\ ~(m < Len(s))
      BY <2>2, <2>4, <3>1
    <3>3. Len(s) \in Nat /\ m \in Nat
      BY <2>2, <2>4
    <3> QED BY <3>2, <3>3
  <2> QED BY <2>2, <2>3, <2>5
<1>2. ASSUME s \in Seq(S), Len(s) <= n PROVE s \in SeqOf(S, n)
  <2>1. Len(s) \in 0..n /\ s \in [1..Len(s) -> S]
    BY <1>2, LenProperties
  <2> QED BY <2>1 DEF SeqOf
<1> QED BY <1>1, <1>2

\* How often an event is in a list is the number of its places there.
LEMMA OccurrencesAre ==
    ASSUME NEW S, NEW s \in Seq(S), NEW f
    PROVE  /\ IsFiniteSet({n \in 1..Len(s) : s[n] = f}) /\ Occurrences(s, f) \in Nat
           /\ Occurrences(s, f) = Cardinality({n \in 1..Len(s) : s[n] = f})
<1>1. Len(s) \in Nat /\ DOMAIN s = 1..Len(s)
  BY LenProperties
<1>2. IsFiniteSet(1..Len(s))
  BY <1>1, FS_Interval
<1>3. IsFiniteSet({n \in 1..Len(s) : s[n] = f})
  BY <1>2, FS_Subset
<1> QED BY <1>1, <1>3, FS_CardinalityType DEF Occurrences

\* Appending an event counts it once more.
LEMMA OccurrencesAppended ==
    ASSUME NEW S, NEW s \in Seq(S), NEW e \in S, NEW f
    PROVE  Occurrences(Append(s, e), f) = IF f = e THEN Occurrences(s, f) + 1 ELSE Occurrences(s, f)
<1> DEFINE t == Append(s, e)
           A == {n \in 1..Len(s) : s[n] = f}
           B == {n \in 1..Len(t) : t[n] = f}
<1>0. Len(s) \in Nat
  BY LenProperties
<1>1. /\ t \in Seq(S) /\ Len(t) = Len(s) + 1 /\ t[Len(s) + 1] = e
      /\ \A i \in 1..Len(s) : t[i] = s[i]
  BY AppendProperties
<1> HIDE DEF t
<1>2. B = IF f = e THEN A \cup {Len(s) + 1} ELSE A
  BY <1>0, <1>1
<1>3. Len(s) + 1 \notin A
  BY <1>0
<1>4. IsFiniteSet(A) /\ Occurrences(s, f) = Cardinality(A) /\ Occurrences(t, f) = Cardinality(B)
  BY <1>1, OccurrencesAre
<1> HIDE DEF A, B
<1>5. Cardinality(A \cup {Len(s) + 1}) = Cardinality(A) + 1
  BY <1>3, <1>4, FS_AddElement
<1> QED BY <1>2, <1>4, <1>5 DEF t

\* Removing a place counts the event of that place once less.
LEMMA OccurrencesRemoved ==
    ASSUME NEW S, NEW s \in Seq(S), NEW i \in 1..Len(s), NEW f
    PROVE  Occurrences(RemoveAt(s, i), f) = IF f = s[i] THEN Occurrences(s, f) - 1 ELSE Occurrences(s, f)
<1> DEFINE r == RemoveAt(s, i)
           A == {n \in 1..Len(s) : s[n] = f}
           B == {n \in 1..Len(r) : r[n] = f}
           g == [n \in B |-> IF n < i THEN n ELSE n + 1]
<1>0. Len(s) \in Nat /\ i \in Nat /\ i >= 1 /\ i <= Len(s)
  BY LenProperties
<1>1. /\ r \in Seq(S) /\ Len(r) = Len(s) - 1
      /\ \A j \in 1..(Len(s) - 1) : r[j] = IF j < i THEN s[j] ELSE s[j + 1]
  BY RemoveAtIs
<1> HIDE DEF r
<1>2. IsFiniteSet(A) /\ IsFiniteSet(B) /\ Occurrences(s, f) = Cardinality(A) /\ Occurrences(r, f) = Cardinality(B)
  BY <1>1, OccurrencesAre
<1>3. g \in [B -> A \ {i}]
  <2> SUFFICES ASSUME NEW n \in B PROVE (IF n < i THEN n ELSE n + 1) \in A \ {i}
    OBVIOUS
  <2>1. n \in 1..(Len(s) - 1) /\ r[n] = f
    BY <1>1
  <2>2. CASE n < i
    BY <1>0, <1>1, <2>1, <2>2
  <2>3. CASE ~(n < i)
    BY <1>0, <1>1, <2>1, <2>3
  <2> QED BY <2>2, <2>3
<1>4. ASSUME NEW m \in B, NEW n \in B, g[m] = g[n] PROVE m = n
  <2>1. m \in Nat /\ n \in Nat /\ g[m] = (IF m < i THEN m ELSE m + 1) /\ g[n] = (IF n < i THEN n ELSE n + 1)
    BY <1>0, <1>1
  <2> QED BY <1>0, <1>4, <2>1
<1>5. ASSUME NEW k \in A \ {i} PROVE \E n \in B : g[n] = k
  <2>0. k \in 1..Len(s) /\ s[k] = f /\ k # i
    OBVIOUS
  <2>1. CASE k < i
    <3>1. k \in 1..(Len(s) - 1) /\ r[k] = f
      BY <1>0, <1>1, <2>0, <2>1
    <3>2. k \in B
      BY <1>1, <3>1
    <3> QED BY <2>1, <3>2
  <2>2. CASE k > i
    <3>1. k - 1 \in 1..(Len(s) - 1) /\ ~(k - 1 < i) /\ (k - 1) + 1 = k
      BY <1>0, <2>0, <2>2
    <3>2. k - 1 \in B
      BY <1>1, <2>0, <3>1
    <3> QED BY <3>1, <3>2
  <2> QED BY <1>0, <2>0, <2>1, <2>2
<1> HIDE DEF A, B, g
<1>6. g \in Bijection(B, A \ {i})
  BY <1>3, <1>4, <1>5, Fun_IsBij
<1>7. ExistsBijection(B, A \ {i})
  BY <1>6, Fun_ExistsBij
<1>8. Cardinality(B) = Cardinality(A \ {i})
  BY <1>2, <1>7, FS_Bijection
<1>9. i \in A <=> f = s[i]
  BY DEF A
<1>10. Cardinality(A \ {i}) = IF i \in A THEN Cardinality(A) - 1 ELSE Cardinality(A)
  BY <1>2, FS_RemoveElement
<1> QED BY <1>2, <1>8, <1>9, <1>10 DEF r

CalendarCounts == outages \in 0..MaxOutages

\* What is on screen is what is in memory, which is the file, or nothing when
\* the calendar was opened over a file it could not read.
CalendarInv ==
    /\ eventsFile \in EventLists /\ events \in EventLists
    /\ readable \in {"yes", "no"} /\ calendarOpen \in {"yes", "no"} /\ selectedDay \in Days
    /\ rowsOf \in Days /\ eventRows = events[rowsOf]
    /\ dialogOpen \in {"none", "add", "error"}
    /\ calendarOpen = "yes" => events = eventsFile \/ events = NoEvents

\* The file has each event as often as the user meant.
MeantInv ==
    /\ meantEvents \in [Days -> [Events -> Nat]]
    /\ \A d \in Days, e \in Events : Occurrences(eventsFile[d], e) = meantEvents[d][e]

\* No step passes the bounds on additions and outages.
LEMMA CalendarCountsKept ==
    ASSUME CalendarCounts, [CalendarNext]_calendarVars
    PROVE  CalendarCounts'
<1>1. MaxOutages \in Nat
  BY CalendarConstants
<1>2. outages' = outages \/ (outages < MaxOutages /\ outages' = outages + 1)
  BY DEF CalendarNext, calendarVars, CalendarOpens, AddsEvent, AddConfirmed, ErrorRead, CalendarCloses,
     ReadableChanges, SelectsDay, RemovesEvent, CannotLoad, CommitEvents
<1> QED BY <1>1, <1>2, CountUp DEF CalendarCounts

\* The list of a day, as long as the bound allows.
LEMMA ListsOf ==
    ASSUME NEW f \in EventLists, NEW d \in Days
    PROVE  f[d] \in Seq(Events) /\ Len(f[d]) \in Nat /\ Len(f[d]) <= MaxAdded /\ DOMAIN f[d] = 1..Len(f[d])
<1>1. f[d] \in SeqOf(Events, MaxAdded) /\ MaxAdded \in Nat
  BY CalendarConstants DEF EventLists
<1> QED BY <1>1, SeqOfIs, LenProperties

\* One list is replaced by one that is not too long.
LEMMA ListReplaced ==
    ASSUME NEW f \in EventLists, NEW d \in Days, NEW s \in Seq(Events), Len(s) <= MaxAdded
    PROVE  [f EXCEPT ![d] = s] \in EventLists
<1>1. s \in SeqOf(Events, MaxAdded)
  BY CalendarConstants, SeqOfIs
<1> QED BY <1>1 DEF EventLists

\* A calendar without events.
LEMMA EmptyCalendar == NoEvents \in EventLists /\ \A d \in Days : NoEvents[d] = <<>>
<1>1. <<>> \in SeqOf(Events, MaxAdded)
  <2>1. Len(<<>>) <= MaxAdded
    BY CalendarConstants, NoneIs
  <2> QED BY <2>1, CalendarConstants, SeqOfIs, NoneIs
<1> QED BY <1>1 DEF NoEvents, EventLists

\* A change is written and shown, or is not.
LEMMA Committed ==
    ASSUME CalendarInv, NEW updated \in EventLists, NEW wished, CommitEvents(updated, wished),
           UNCHANGED <<readable, calendarOpen, selectedDay>>
    PROVE  /\ CalendarInv'
           /\ \/ UNCHANGED <<eventsFile, meantEvents>>
              \/ eventsFile' = updated /\ meantEvents' = wished
  BY DEF CommitEvents, CalendarInv, ShowsDay

\* A change that adds an event adds it to what is meant, and one that takes one
\* off takes the one that is shown.
LEMMA AddsOne ==
    ASSUME CalendarInv, MeantInv, AddConfirmed
    PROVE  CalendarInv' /\ MeantInv'
<1>0. UNCHANGED <<readable, calendarOpen, selectedDay>>
  BY DEF AddConfirmed
<1>1. CASE UNCHANGED <<eventsFile, events, eventRows, rowsOf, meantEvents>> /\ dialogOpen' \in {"none", "error"}
  BY <1>0, <1>1 DEF CalendarInv, MeantInv
<1>2. ASSUME NEW e \in Events, Len(eventsFile[selectedDay]) < MaxAdded,
             CommitEvents([eventsFile EXCEPT ![selectedDay] = Append(@, e)],
                          [meantEvents EXCEPT ![selectedDay][e] = @ + 1])
      PROVE  CalendarInv' /\ MeantInv'
  <2> DEFINE d == selectedDay
             updated == [eventsFile EXCEPT ![d] = Append(@, e)]
             wished == [meantEvents EXCEPT ![d][e] = @ + 1]
  <2>0. d \in Days /\ eventsFile \in EventLists /\ MaxAdded \in Nat
    BY CalendarConstants DEF CalendarInv
  <2>1. eventsFile[d] \in Seq(Events) /\ Len(eventsFile[d]) \in Nat
    BY <2>0, ListsOf
  <2>2. Append(eventsFile[d], e) \in Seq(Events) /\ Len(Append(eventsFile[d], e)) = Len(eventsFile[d]) + 1
    BY <2>1, AppendProperties
  <2>3. Len(Append(eventsFile[d], e)) <= MaxAdded
    BY <1>2, <2>0, <2>1, <2>2
  <2>4. updated \in EventLists
    BY <2>0, <2>2, <2>3, ListReplaced
  <2>5. /\ CalendarInv'
        /\ \/ UNCHANGED <<eventsFile, meantEvents>>
           \/ eventsFile' = updated /\ meantEvents' = wished
    BY <1>0, <1>2, <2>4, Committed
  <2>6. ASSUME eventsFile' = updated, meantEvents' = wished PROVE MeantInv'
    <3>1. meantEvents' \in [Days -> [Events -> Nat]]
      BY <2>0, <2>6 DEF MeantInv
    <3>2. ASSUME NEW c \in Days, NEW x \in Events PROVE Occurrences(eventsFile'[c], x) = meantEvents'[c][x]
      <4>1. Occurrences(eventsFile[c], x) = meantEvents[c][x]
        BY DEF MeantInv
      <4>2. CASE c = d
        <5>1. eventsFile'[c] = Append(eventsFile[c], e)
          BY <2>0, <2>6, <4>2 DEF EventLists
        <5>2. meantEvents'[c][x] = IF x = e THEN meantEvents[c][x] + 1 ELSE meantEvents[c][x]
          BY <2>6, <4>2 DEF MeantInv
        <5>3. Occurrences(Append(eventsFile[c], e), x)
                = IF x = e THEN Occurrences(eventsFile[c], x) + 1 ELSE Occurrences(eventsFile[c], x)
          BY <2>1, <4>2, OccurrencesAppended
        <5> QED BY <4>1, <5>1, <5>2, <5>3
      <4>3. CASE c # d
        <5>1. eventsFile'[c] = eventsFile[c] /\ meantEvents'[c] = meantEvents[c]
          BY <2>6, <4>3, <2>0 DEF MeantInv, EventLists
        <5> QED BY <4>1, <5>1
      <4> QED BY <4>2, <4>3
    <3> QED BY <3>1, <3>2 DEF MeantInv
  <2>7. UNCHANGED <<eventsFile, meantEvents>> => MeantInv'
    BY DEF MeantInv
  <2> QED BY <2>5, <2>6, <2>7
<1> QED BY <1>1, <1>2 DEF AddConfirmed, CannotLoad, Loaded

\* Pressing the button of a row takes that row's event off, once.
LEMMA RemovesOne ==
    ASSUME CalendarInv, MeantInv, NEW n, RemovesEvent(n)
    PROVE  CalendarInv' /\ MeantInv'
<1>0. UNCHANGED <<readable, calendarOpen, selectedDay>> /\ calendarOpen = "yes" /\ n \in DOMAIN eventRows
  BY DEF RemovesEvent, AtCalendar
<1>1. CASE UNCHANGED <<eventsFile, events, eventRows, rowsOf, meantEvents>> /\ dialogOpen' \in {dialogOpen, "error"}
  BY <1>0, <1>1 DEF CalendarInv, MeantInv
<1>2. CASE CommitEvents([eventsFile EXCEPT ![rowsOf] = RemoveAt(@, n)],
                        [meantEvents EXCEPT ![rowsOf][eventRows[n]] = @ - 1])
  <2>d. PICK d \in Days : d = rowsOf
    BY DEF CalendarInv
  <2>e. PICK e : e = eventRows[n]
    OBVIOUS
  <2> DEFINE updated == [eventsFile EXCEPT ![d] = RemoveAt(@, n)]
             wished == [meantEvents EXCEPT ![d][e] = @ - 1]
  <2>0. eventsFile \in EventLists /\ MaxAdded \in Nat
    BY CalendarConstants DEF CalendarInv
  <2>1. /\ eventsFile[d] \in Seq(Events) /\ Len(eventsFile[d]) \in Nat /\ Len(eventsFile[d]) <= MaxAdded
        /\ DOMAIN eventsFile[d] = 1..Len(eventsFile[d])
    BY <2>0, ListsOf
  <2>2. events = eventsFile
    <3>1. events # NoEvents
      <4>1. DOMAIN <<>> = {}
        OBVIOUS
      <4> QED BY <1>0, <2>d, <4>1, EmptyCalendar DEF CalendarInv
    <3> QED BY <1>0, <3>1 DEF CalendarInv
  <2>3. n \in 1..Len(eventsFile[d]) /\ e = eventsFile[d][n]
    BY <1>0, <2>1, <2>2, <2>d, <2>e DEF CalendarInv
  <2>4. e \in Events
    BY <2>1, <2>3, ElementOfSeq
  <2>5. RemoveAt(eventsFile[d], n) \in Seq(Events) /\ Len(RemoveAt(eventsFile[d], n)) = Len(eventsFile[d]) - 1
    BY <2>1, <2>3, RemoveAtIs
  <2>6. Len(RemoveAt(eventsFile[d], n)) <= MaxAdded
    BY <2>0, <2>1, <2>5
  <2>7. updated \in EventLists
    BY <2>0, <2>5, <2>6, ListReplaced
  <2>8. CommitEvents(updated, wished)
    BY <1>2, <2>d, <2>e
  <2>9. /\ CalendarInv'
        /\ \/ UNCHANGED <<eventsFile, meantEvents>>
           \/ eventsFile' = updated /\ meantEvents' = wished
    BY <1>0, <2>7, <2>8, Committed
  <2>10. ASSUME eventsFile' = updated, meantEvents' = wished PROVE MeantInv'
    <3>0. ASSUME NEW x \in Events
          PROVE  Occurrences(RemoveAt(eventsFile[d], n), x)
                   = (IF x = e THEN meantEvents[d][x] - 1 ELSE meantEvents[d][x])
                 /\ Occurrences(RemoveAt(eventsFile[d], n), x) \in Nat
      <4>1. Occurrences(eventsFile[d], x) = meantEvents[d][x]
        BY DEF MeantInv
      <4>2. Occurrences(RemoveAt(eventsFile[d], n), x)
              = IF x = e THEN Occurrences(eventsFile[d], x) - 1 ELSE Occurrences(eventsFile[d], x)
        BY <2>1, <2>3, OccurrencesRemoved
      <4>3. Occurrences(RemoveAt(eventsFile[d], n), x) \in Nat
        BY <2>5, OccurrencesAre
      <4> QED BY <4>1, <4>2, <4>3
    <3>1. ASSUME NEW x \in Events PROVE meantEvents'[d][x] = IF x = e THEN meantEvents[d][x] - 1 ELSE meantEvents[d][x]
      BY <2>10 DEF MeantInv
    <3>2. ASSUME NEW c \in Days, c # d PROVE eventsFile'[c] = eventsFile[c] /\ meantEvents'[c] = meantEvents[c]
      BY <2>10, <3>2, <2>0 DEF MeantInv, EventLists
    <3>3. eventsFile'[d] = RemoveAt(eventsFile[d], n)
      BY <2>10, <2>0 DEF EventLists
    <3>4. meantEvents' \in [Days -> [Events -> Nat]]
      <4>1. meantEvents[d][e] - 1 \in Nat
        BY <2>4, <3>0
      <4> QED BY <2>4, <2>10, <4>1 DEF MeantInv
    <3>5. ASSUME NEW c \in Days, NEW x \in Events PROVE Occurrences(eventsFile'[c], x) = meantEvents'[c][x]
      <4>1. CASE c = d
        BY <3>0, <3>1, <3>3, <4>1
      <4>2. CASE c # d
        BY <3>2, <4>2 DEF MeantInv
      <4> QED BY <4>1, <4>2
    <3> QED BY <3>4, <3>5 DEF MeantInv
  <2>11. UNCHANGED <<eventsFile, meantEvents>> => MeantInv'
    BY DEF MeantInv
  <2> QED BY <2>9, <2>10, <2>11
<1> QED BY <1>1, <1>2 DEF RemovesEvent, CannotLoad, Loaded

\* Every step keeps the file what the user made of each day.
LEMMA CalendarInvKept ==
    ASSUME CalendarInv, MeantInv, [CalendarNext]_calendarVars
    PROVE  CalendarInv' /\ MeantInv'
<1>0. UNCHANGED <<eventsFile, meantEvents>> => MeantInv'
  BY DEF MeantInv
<1>1. CASE CalendarOpens
  BY <1>0, <1>1, EmptyCalendar DEF CalendarOpens, CalendarInv, ShowsDay
<1>2. CASE AddsEvent
  BY <1>0, <1>2 DEF AddsEvent, CalendarInv
<1>3. CASE ErrorRead
  BY <1>0, <1>3 DEF ErrorRead, CalendarInv
<1>4. CASE CalendarCloses
  BY <1>0, <1>4 DEF CalendarCloses, CalendarInv
<1>5. CASE ReadableChanges
  BY <1>0, <1>5 DEF ReadableChanges, CalendarInv
<1>6. ASSUME NEW d \in Days, SelectsDay(d) PROVE CalendarInv' /\ MeantInv'
  BY <1>0, <1>6 DEF SelectsDay, CalendarInv, ShowsDay
<1>7. CASE UNCHANGED calendarVars
  BY <1>0, <1>7 DEF calendarVars, CalendarInv
<1> QED BY <1>1, <1>2, <1>3, <1>4, <1>5, <1>6, <1>7, AddsOne, RemovesOne DEF CalendarNext

(* Calendar: it keeps its types; the file has each event as often as the   *)
(* user put it there and did not take it off (_load_events, _save_events), *)
(* and every row is the event its button removes.                          *)
THEOREM CalendarKeepsEvents == CalendarSpec => [](CalendarTypeOK /\ EventsAreKept)
<1>1. CalendarInit => CalendarInv
  BY CalendarConstants, EmptyCalendar DEF CalendarInit, CalendarInv
<1>2. CalendarInit => MeantInv
  <2> SUFFICES ASSUME CalendarInit PROVE MeantInv
    OBVIOUS
  <2>1. eventsFile = NoEvents /\ meantEvents = [d \in Days |-> [e \in Events |-> 0]]
    BY DEF CalendarInit
  <2>2. ASSUME NEW e PROVE Occurrences(<<>>, e) = 0
    <3>1. {n \in DOMAIN <<>> : <<>>[n] = e} = {}
      OBVIOUS
    <3> QED BY <3>1, FS_EmptySet DEF Occurrences
  <2> QED BY <2>1, <2>2, EmptyCalendar DEF MeantInv
<1>3. CalendarInit => CalendarCounts
  <2>1. CalendarInit => outages = 0
    BY DEF CalendarInit
  <2> QED BY <2>1, CalendarConstants DEF CalendarCounts
<1>4. CalendarInv /\ MeantInv /\ CalendarCounts => CalendarTypeOK
  <2>1. CalendarInv => eventRows \in SeqOf(Events, MaxAdded)
    BY DEF CalendarInv, EventLists
  <2> QED BY <2>1 DEF CalendarInv, MeantInv, CalendarCounts, CalendarTypeOK
<1>5. CalendarInv /\ MeantInv => EventsAreKept
  <2> SUFFICES ASSUME CalendarInv, MeantInv PROVE EventsAreKept
    OBVIOUS
  <2>1. ASSUME calendarOpen = "yes", NEW n \in DOMAIN eventRows PROVE eventsFile[rowsOf][n] = eventRows[n]
    <3>1. DOMAIN <<>> = {}
      OBVIOUS
    <3>2. events # NoEvents
      BY <2>1, <3>1, EmptyCalendar DEF CalendarInv
    <3> QED BY <2>1, <3>2 DEF CalendarInv
  <2> QED BY <2>1 DEF MeantInv, EventsAreKept
<1> QED BY <1>1, <1>2, <1>3, <1>4, <1>5, CalendarInvKept, CalendarCountsKept, PTL DEF CalendarSpec

-----------------------------------------------------------------------------
(* Backup.                                                                 *)

BackupCounts == trouble \in 0..MaxTrouble

\* The manifest and the rows are lists without doubles.
ListsInv ==
    /\ manifest \in Seq(Archives) /\ IsInjective(manifest)
    /\ backupRows \in Seq(Archives) /\ IsInjective(backupRows)

\* Where the handler stands says what is on disk.  An archive in the manifest
\* has been spoken of.
BackupInv ==
    /\ archive \in [Archives -> {"none", "torn", "complete"}]
    /\ backupStep \in {<<"idle", NoArchive>>} \cup BackupSteps \X Archives
    /\ asksDelete \in Archives \cup {NoArchive}
    /\ outcome \in [Archives -> Outcomes] /\ restores \subseteq {"complete", "torn"}
    /\ promised \subseteq Archives
    /\ \A a \in Archives :
           /\ a \in Listed => outcome[a] # "none"
           /\ At("archiving", a) \/ At("listing", a) => outcome[a] = "none"
           /\ At("removing", a) \/ At("unlisting", a) => a \notin promised
           /\ At("unlisting", a) => archive[a] = "none"
           /\ a \in promised => archive[a] = "complete" /\ a \in Listed
           /\ archive[a] # "none" =>
                  \/ a \in Listed \/ outcome[a] \in {"not in history", "killed"}
                  \/ At("archiving", a) \/ At("listing", a)
           /\ At("listing", a) => archive[a] = "complete"

\* No step passes the bound on trouble.
LEMMA BackupCountsKept ==
    ASSUME BackupCounts, [BackupNext]_backupVars
    PROVE  BackupCounts'
<1>1. MaxTrouble \in Nat
  BY BackupConstants
<1>2. trouble' = trouble \/ (trouble < MaxTrouble /\ trouble' = trouble + 1)
  BY DEF BackupNext, backupVars, Fails, RefreshHistory, KeepsArchive, DeletesArchive, BackupKilled, BackupStarts,
     BackupArchives, BackupListed, RestoreStarts, RestoreEnds, AsksToDelete, ArchiveRemoved
<1> QED BY <1>1, <1>2, CountUp DEF BackupCounts

\* Where the handler stands, if it does anything.
LEMMA WhereItStands ==
    ASSUME BackupInv, backupStep # <<"idle", NoArchive>>
    PROVE  \E step \in BackupSteps, a \in Archives :
               backupStep = <<step, a>> /\ backupStep[1] = step /\ backupStep[2] = a
<1>1. backupStep \in BackupSteps \X Archives
  BY DEF BackupInv
<1>2. /\ backupStep[1] \in BackupSteps /\ backupStep[2] \in Archives
      /\ backupStep = <<backupStep[1], backupStep[2]>>
  BY <1>1
<1> QED BY <1>2

\* The history lists archives.
LEMMA ListedAre == ListsInv => Listed \subseteq Archives
<1> SUFFICES ASSUME ListsInv PROVE Listed \subseteq Archives
  OBVIOUS
<1>1. manifest \in Seq(Archives)
  BY DEF ListsInv
<1>2. Listed = {manifest[i] : i \in 1..Len(manifest)}
  BY <1>1, ToSetIs DEF Listed
<1> QED BY <1>1, <1>2, ElementOfSeq

\* One more entry in front, one entry less, or none.
LEMMA ListsChange ==
    ASSUME ListsInv, NEW a \in Archives
    PROVE  /\ a \notin Listed => <<a>> \o manifest \in Seq(Archives) /\ IsInjective(<<a>> \o manifest)
           /\ ToSet(<<a>> \o manifest) = Listed \cup {a}
           /\ RemoveFirst(manifest, a) \in Seq(Archives) /\ IsInjective(RemoveFirst(manifest, a))
           /\ ToSet(RemoveFirst(manifest, a)) = Listed \ {a}
<1>1. manifest \in Seq(Archives) /\ IsInjective(manifest)
  BY DEF ListsInv
<1>2. /\ <<a>> \o manifest \in Seq(Archives)
      /\ ToSet(<<a>> \o manifest) = {a} \cup ToSet(manifest)
      /\ a \notin ToSet(manifest) => IsInjective(<<a>> \o manifest)
  BY <1>1, InFrontIs
<1>3. /\ RemoveFirst(manifest, a) \in Seq(Archives) /\ IsInjective(RemoveFirst(manifest, a))
      /\ ToSet(RemoveFirst(manifest, a)) = ToSet(manifest) \ {a}
  BY <1>1, RemoveFirstIs
<1> QED BY <1>2, <1>3 DEF Listed

\* What a step may do to the manifest and the rows.
LEMMA ListsKept ==
    ASSUME ListsInv, BackupInv, [BackupNext]_backupVars
    PROVE  ListsInv'
<1>0. (UNCHANGED manifest /\ (UNCHANGED backupRows \/ backupRows' = manifest' \/ backupRows' = <<>>)) => ListsInv'
  BY NoneIs DEF ListsInv
<1>1. ASSUME NEW a \in Archives, a \notin Listed, manifest' = <<a>> \o manifest,
             backupRows' = manifest' \/ UNCHANGED backupRows
      PROVE  ListsInv'
  BY <1>1, ListsChange DEF ListsInv
<1>2. ASSUME NEW a \in Archives, manifest' = RemoveFirst(manifest, a), backupRows' = manifest' \/ UNCHANGED backupRows
      PROVE  ListsInv'
  BY <1>2, ListsChange DEF ListsInv
<1>3. ASSUME NEW a \in Archives, At("listing", a) PROVE a \notin Listed
  BY <1>3 DEF BackupInv
<1>4. CASE RefreshHistory
  BY <1>4, <1>0 DEF RefreshHistory
<1>5. CASE KeepsArchive
  BY <1>5, <1>0 DEF KeepsArchive
<1>6. CASE DeletesArchive
  BY <1>6, <1>0 DEF DeletesArchive
<1>7. CASE BackupKilled
  <2>0. backupRows' = manifest'
    BY <1>7 DEF BackupKilled
  <2>1. CASE manifest' = manifest
    BY <2>0, <2>1, <1>0
  <2>2. CASE manifest' # manifest
    <3>1. backupStep[1] = "listing" /\ manifest' = <<backupStep[2]>> \o manifest
      BY <1>7, <2>2 DEF BackupKilled
    <3>0. backupStep # <<"idle", NoArchive>>
      BY <3>1
    <3>2. PICK a \in Archives : backupStep = <<"listing", a>> /\ backupStep[2] = a
      BY <3>0, <3>1, WhereItStands
    <3>3. At("listing", a) /\ manifest' = <<a>> \o manifest
      BY <3>1, <3>2 DEF At
    <3> QED BY <2>0, <3>3, <1>1, <1>3
  <2> QED BY <2>1, <2>2
<1>8. ASSUME NEW a \in Archives, BackupStarts(a) PROVE ListsInv'
  BY <1>8, <1>0 DEF BackupStarts
<1>9. ASSUME NEW a \in Archives, BackupArchives(a) PROVE ListsInv'
  BY <1>9, <1>0 DEF BackupArchives
<1>10. ASSUME NEW a \in Archives, BackupListed(a) PROVE ListsInv'
  <2>1. /\ At("listing", a)
        /\ manifest' = <<a>> \o manifest \/ manifest' = manifest
        /\ backupRows' = manifest' \/ UNCHANGED backupRows
    BY <1>10 DEF BackupListed, BackupSaved
  <2> QED BY <2>1, <1>0, <1>1, <1>3
<1>11. ASSUME NEW a \in Archives, RestoreStarts(a) PROVE ListsInv'
  BY <1>11, <1>0 DEF RestoreStarts
<1>12. ASSUME NEW a \in Archives, RestoreEnds(a) PROVE ListsInv'
  BY <1>12, <1>0 DEF RestoreEnds
<1>13. ASSUME NEW a \in Archives, AsksToDelete(a) PROVE ListsInv'
  BY <1>13, <1>0 DEF AsksToDelete
<1>14. ASSUME NEW a \in Archives, ArchiveRemoved(a) PROVE ListsInv'
  <2>1. /\ manifest' = RemoveFirst(manifest, a) \/ manifest' = manifest
        /\ backupRows' = manifest' \/ UNCHANGED backupRows
    BY <1>14 DEF ArchiveRemoved, DeletionStep, BackupSaved
  <2> QED BY <2>1, <1>0, <1>2
<1>15. CASE UNCHANGED backupVars
  BY <1>15, <1>0 DEF backupVars
<1> QED BY <1>4, <1>5, <1>6, <1>7, <1>8, <1>9, <1>10, <1>11, <1>12, <1>13, <1>14, <1>15 DEF BackupNext

\* Every step keeps what was promised on disk and in the history.
LEMMA BackupInvKept ==
    ASSUME ListsInv, BackupInv, [BackupNext]_backupVars
    PROVE  BackupInv'
<1> USE DEF BackupInv, At, Idle, Rest, BackupSteps, Outcomes
<1>n. NoArchive \notin Archives
  BY BackupConstants
<1>0. UNCHANGED manifest => Listed' = Listed
  BY DEF Listed
<1>4. CASE RefreshHistory
  BY <1>4, <1>0 DEF RefreshHistory
<1>5. CASE KeepsArchive
  BY <1>5, <1>0 DEF KeepsArchive
<1>6. CASE DeletesArchive
  <2>1. asksDelete \in Archives
    BY <1>6, ListedAre DEF DeletesArchive
  <2> QED BY <1>6, <1>0, <2>1 DEF DeletesArchive
<1>7. CASE BackupKilled
  <2>1. CASE Idle
    <3>1. Listed' = Listed /\ backupStep' = backupStep /\ asksDelete' = NoArchive
          /\ UNCHANGED <<archive, restores, promised, outcome>>
      BY <1>7, <1>0, <2>1 DEF BackupKilled
    <3> HIDE DEF At, Idle, Rest
    <3> QED BY <3>1 DEF At
  <2>2. CASE ~Idle
    <3>1. PICK step \in BackupSteps, a \in Archives :
              backupStep = <<step, a>> /\ backupStep[1] = step /\ backupStep[2] = a
      BY <2>2, WhereItStands
    <3>2. /\ backupStep' = <<"idle", NoArchive>> /\ asksDelete' = NoArchive
          /\ UNCHANGED <<archive, restores, promised>>
      BY <1>7 DEF BackupKilled
    <3>3. outcome' = IF outcome[a] # "none" THEN outcome ELSE [outcome EXCEPT ![a] = "killed"]
      BY <1>7, <2>2, <3>1 DEF BackupKilled
    <3>4. Listed' = Listed \/ (step = "listing" /\ Listed' = Listed \cup {a})
      BY <1>7, <1>0, <3>1, ListsChange DEF BackupKilled, Listed
    <3>5. outcome' \in [Archives -> Outcomes]
      BY <3>3
    <3>6. outcome'[a] # "none" /\ \A b \in Archives : b # a => outcome'[b] = outcome[b]
      BY <3>3
    <3>7. outcome[a] = "none" => outcome'[a] = "killed"
      BY <3>3
    <3>8. outcome[a] # "none" => outcome'[a] = outcome[a]
      BY <3>3
    <3> QED BY <3>1, <3>2, <3>4, <3>5, <3>6, <3>7, <3>8
  <2> QED BY <2>1, <2>2
<1>8. ASSUME NEW a \in Archives, BackupStarts(a) PROVE BackupInv'
  BY <1>8, <1>0 DEF BackupStarts
<1>9. ASSUME NEW a \in Archives, BackupArchives(a) PROVE BackupInv'
  <2>0. /\ backupStep = <<"archiving", a>> /\ Listed' = Listed
        /\ UNCHANGED <<asksDelete, restores, promised>>
    BY <1>9, <1>0 DEF BackupArchives
  <2>1. CASE /\ archive' = [archive EXCEPT ![a] = "complete"] /\ backupStep' = <<"listing", a>>
             /\ UNCHANGED outcome
    BY <2>0, <2>1, <1>n
  <2>2. CASE /\ archive' = [archive EXCEPT ![a] = "none"] /\ backupStep' = <<"idle", NoArchive>>
             /\ outcome' = [outcome EXCEPT ![a] = "failed"]
    <3>1. a \notin Listed /\ a \notin promised
      BY <2>0
    <3> QED BY <2>0, <2>2, <3>1, <1>n
  <2> QED BY <1>9, <2>1, <2>2 DEF BackupArchives
<1>10. ASSUME NEW a \in Archives, BackupListed(a) PROVE BackupInv'
  <2>0. backupStep = <<"listing", a>> /\ backupStep' = <<"idle", NoArchive>> /\ UNCHANGED <<archive, asksDelete, restores>>
    BY <1>10 DEF BackupListed
  <2>1. CASE trouble' = trouble
    <3>1. /\ Listed' = Listed \cup {a} /\ outcome' = [outcome EXCEPT ![a] = "saved"]
          /\ promised' = promised \cup {a}
      BY <1>10, <2>1, ListsChange DEF BackupListed, BackupSaved, Listed
    <3> QED BY <2>0, <3>1, <1>n
  <2>2. CASE trouble' # trouble
    <3>1. /\ Listed' = Listed /\ outcome' = [outcome EXCEPT ![a] = "not in history"]
          /\ promised' = promised
      BY <1>10, <2>2 DEF BackupListed, BackupSaved, Listed
    <3> QED BY <2>0, <3>1, <1>n
  <2> QED BY <2>1, <2>2
<1>11. ASSUME NEW a \in Archives, RestoreStarts(a) PROVE BackupInv'
  BY <1>11, <1>0 DEF RestoreStarts
<1>12. ASSUME NEW a \in Archives, RestoreEnds(a) PROVE BackupInv'
  BY <1>12, <1>0, <1>n DEF RestoreEnds
<1>13. ASSUME NEW a \in Archives, AsksToDelete(a) PROVE BackupInv'
  BY <1>13, <1>0 DEF AsksToDelete
<1>14. ASSUME NEW a \in Archives, ArchiveRemoved(a) PROVE BackupInv'
  <2>0. UNCHANGED <<asksDelete, outcome, restores, promised>> /\ a \notin promised
    BY <1>14 DEF ArchiveRemoved
  <2>1. CASE At("removing", a)
    <3>1. CASE trouble' = trouble
      <4>1. /\ archive' = [archive EXCEPT ![a] = "none"] /\ backupStep' = <<"unlisting", a>>
            /\ Listed' = Listed
        BY <1>14, <2>1, <3>1, <1>0 DEF ArchiveRemoved, DeletionStep
      <4> QED BY <2>0, <2>1, <4>1, <1>n
    <3>2. CASE trouble' # trouble
      <4>1. archive' = [archive EXCEPT ![a] = @] /\ backupStep' = <<"idle", NoArchive>> /\ Listed' = Listed
        BY <1>14, <2>1, <3>2, <1>0 DEF ArchiveRemoved, DeletionStep
      <4>2. archive' = archive
        BY <4>1
      <4> QED BY <2>0, <2>1, <4>1, <4>2, <1>n
    <3> QED BY <3>1, <3>2
  <2>2. CASE At("unlisting", a)
    <3>1. Listed' = Listed \/ Listed' = Listed \ {a}
      BY <1>14, <2>2, ListsChange DEF ArchiveRemoved, DeletionStep, BackupSaved, Listed
    <3>2. archive' = archive /\ backupStep' = <<"idle", NoArchive>>
      BY <1>14, <2>2 DEF ArchiveRemoved, DeletionStep
    <3> QED BY <2>0, <2>2, <3>1, <3>2, <1>n
  <2> QED BY <1>14, <2>1, <2>2 DEF ArchiveRemoved
<1>15. CASE UNCHANGED backupVars
  BY <1>15, <1>0 DEF backupVars
<1> QED BY <1>4, <1>5, <1>6, <1>7, <1>8, <1>9, <1>10, <1>11, <1>12, <1>13, <1>14, <1>15 DEF BackupNext

(* Backup: it keeps its types; a backup that was reported saved is on disk *)
(* and in the history until its deletion is confirmed (create_backup,      *)
(* delete_backup), whatever fails or is killed.                            *)
THEOREM BackupsAreKept == BackupSpec => [](BackupTypeOK /\ PromisedIsKept)
<1>1. BackupInit => ListsInv
  BY NoneIs DEF BackupInit, ListsInv
<1>2. BackupInit => BackupInv
  <2>1. BackupInit => Listed = {}
    BY NoneIs DEF BackupInit, Listed
  <2> QED BY <2>1, BackupConstants DEF BackupInit, BackupInv, At, Outcomes
<1>3. BackupInit => BackupCounts
  <2>1. BackupInit => trouble = 0
    BY DEF BackupInit
  <2> QED BY <2>1, BackupConstants DEF BackupCounts
<1>4. ListsInv /\ BackupInv /\ BackupCounts => BackupTypeOK
  BY DEF ListsInv, BackupInv, BackupCounts, BackupTypeOK
<1>5. BackupInv => PromisedIsKept
  <2> SUFFICES ASSUME BackupInv PROVE PromisedIsKept
    OBVIOUS
  <2>1. ASSUME NEW a \in Archives, At("archiving", a) \/ At("listing", a)
        PROVE  backupStep[1] \in {"archiving", "listing"} /\ backupStep[2] = a
    BY <2>1 DEF At
  <2>2. \A a \in promised : archive[a] = "complete" /\ a \in Listed
    BY DEF BackupInv
  <2> QED BY <2>1, <2>2 DEF BackupInv, PromisedIsKept
<1> QED BY <1>1, <1>2, <1>3, <1>4, <1>5, ListsKept, BackupInvKept, BackupCountsKept, PTL DEF BackupSpec

-----------------------------------------------------------------------------
(* Snapshots.                                                              *)

\* The names of snapshots are finitely many, and a stamp and a kind make one.
LEMMA NamesAre ==
    /\ IsFiniteSet(Names)
    /\ \A s \in Names : s[1] \in {"timed", "ai"} /\ s[2] \in 1..MaxSeconds /\ s[2] \in Nat
    /\ \A s, t \in Names : s[1] = t[1] /\ s[2] = t[2] => s = t
<1>1. MaxSeconds \in Nat
  BY SnapshotsConstants
<1>2. IsFiniteSet(1..MaxSeconds)
  BY <1>1, FS_Interval
<1>3. IsFiniteSet({"timed", "ai"})
  <2>1. IsFiniteSet({"timed"})
    BY FS_Singleton
  <2>2. IsFiniteSet({"timed"} \cup {"ai"})
    BY <2>1, FS_AddElement
  <2>3. {"timed"} \cup {"ai"} = {"timed", "ai"}
    OBVIOUS
  <2> QED BY <2>2, <2>3
<1>4. IsFiniteSet(Names)
  BY <1>2, <1>3, FS_Product DEF Names
<1>5. \A k \in 1..MaxSeconds : k \in Nat
  BY <1>1
<1>6. \A s \in Names : s[1] \in {"timed", "ai"} /\ s[2] \in 1..MaxSeconds
  BY DEF Names
<1>7. \A s, t \in Names : s[1] = t[1] /\ s[2] = t[2] => s = t
  BY DEF Names
<1> QED BY <1>4, <1>5, <1>6, <1>7

\* The names are in one order.
LEMMA NamesOrdered ==
    /\ \A s \in Names : ~Before(s, s)
    /\ \A s, t, u \in Names : Before(s, t) /\ Before(t, u) => Before(s, u)
    /\ \A s, t \in Names : s = t \/ Before(s, t) \/ Before(t, s)
    /\ \A s, t \in Names : ~(Before(s, t) /\ Before(t, s))
<1>0. \A s, t \in Names : s[1] = t[1] /\ s[2] = t[2] => s = t
  BY NamesAre
<1>1. ASSUME NEW s \in Names, NEW t \in Names, NEW u \in Names
      PROVE  /\ ~Before(s, s)
             /\ Before(s, t) /\ Before(t, u) => Before(s, u)
             /\ s = t \/ Before(s, t) \/ Before(t, s)
             /\ ~(Before(s, t) /\ Before(t, s))
  <2>1. /\ s[1] \in {"timed", "ai"} /\ t[1] \in {"timed", "ai"} /\ u[1] \in {"timed", "ai"}
        /\ s[2] \in Nat /\ t[2] \in Nat /\ u[2] \in Nat
    BY NamesAre
  <2>2. \A i, j, k \in Nat : ~(i < i) /\ (i < j /\ j < k => i < k) /\ (i = j \/ i < j \/ j < i) /\ ~(i < j /\ j < i)
    OBVIOUS
  <2>3. /\ ~(s[2] < s[2]) /\ (s[2] < t[2] /\ t[2] < u[2] => s[2] < u[2])
        /\ (s[2] = t[2] \/ s[2] < t[2] \/ t[2] < s[2]) /\ ~(s[2] < t[2] /\ t[2] < s[2])
    BY <2>1, <2>2
  <2> QED BY <1>0, <2>1, <2>3 DEF Before
<1> QED BY <1>1

\* How many snapshots of S are older than s.
RankIn(S, s) == Cardinality({t \in S : Before(t, s)})

\* Any snapshots of a subvolume can be counted, the older ones of each too.
LEMMA PartsAreFinite ==
    ASSUME NEW S, S \subseteq Names
    PROVE  /\ IsFiniteSet(S) /\ Cardinality(S) \in Nat
           /\ \A s \in Names : /\ IsFiniteSet({t \in S : Before(t, s)}) /\ RankIn(S, s) \in Nat
                               /\ IsFiniteSet({t \in S : Before(s, t)})
<1>1. IsFiniteSet(S)
  BY NamesAre, FS_Subset
<1>2. ASSUME NEW T \in SUBSET S PROVE IsFiniteSet(T) /\ Cardinality(T) \in Nat
  BY <1>1, FS_Subset, FS_CardinalityType
<1> QED BY <1>1, <1>2, FS_CardinalityType DEF RankIn

\* Who comes earlier has fewer in front of it.
LEMMA RankGrows ==
    ASSUME NEW S, S \subseteq Names, NEW s \in S, NEW t \in S, Before(s, t)
    PROVE  RankIn(S, s) < RankIn(S, t)
<1> DEFINE P == {u \in S : Before(u, s)}
           Q == {u \in S : Before(u, t)}
<1>1. IsFiniteSet(P) /\ IsFiniteSet(Q) /\ Cardinality(P) \in Nat /\ Cardinality(Q) \in Nat
  BY PartsAreFinite DEF RankIn
<1>2. P \subseteq Q /\ s \in Q /\ s \notin P
  BY NamesOrdered
<1> HIDE DEF P, Q
<1>3. Cardinality(P) <= Cardinality(Q) /\ (Cardinality(Q) = Cardinality(P) => Q = P)
  BY <1>1, <1>2, FS_Subset
<1>4. Cardinality(P) < Cardinality(Q)
  BY <1>1, <1>2, <1>3
<1> QED BY <1>4 DEF RankIn, P, Q

\* In front of it, itself, and behind it.
LEMMA RankSplits ==
    ASSUME NEW S, S \subseteq Names, NEW s \in S
    PROVE  RankIn(S, s) + 1 + Cardinality({t \in S : Before(s, t)}) = Cardinality(S)
<1> DEFINE P == {t \in S : Before(t, s)}
           Q == {t \in S : Before(s, t)}
<1>1. IsFiniteSet(P) /\ IsFiniteSet(Q) /\ Cardinality(P) \in Nat
  BY PartsAreFinite DEF RankIn
<1>2. s \notin P /\ s \notin Q /\ P \cap Q = {} /\ S = (P \cup {s}) \cup Q
  BY NamesOrdered
<1> HIDE DEF P, Q
<1>3. IsFiniteSet(P \cup {s}) /\ Cardinality(P \cup {s}) = Cardinality(P) + 1
  BY <1>1, <1>2, FS_AddElement
<1>4. Cardinality(Q) \in Nat
  BY <1>1, FS_CardinalityType
<1>5. (P \cup {s}) \cap Q = {} /\ Cardinality({}) = 0
  BY <1>2, FS_EmptySet
<1>6. Cardinality((P \cup {s}) \cup Q) = Cardinality(P \cup {s}) + Cardinality(Q) - 0
  BY <1>1, <1>3, <1>5, FS_Union
<1>7. Cardinality(S) = Cardinality(P) + 1 + Cardinality(Q)
  BY <1>1, <1>2, <1>3, <1>4, <1>6
<1> QED BY <1>7 DEF RankIn, P, Q

\* Somebody is at every place of the order.
LEMMA EveryRank ==
    ASSUME NEW S, S \subseteq Names, NEW k \in 1..Cardinality(S)
    PROVE  \E s \in S : RankIn(S, s) = k - 1
<1> DEFINE n == Cardinality(S)
           f == [s \in S |-> RankIn(S, s)]
<1>0. IsFiniteSet(S) /\ n \in Nat
  BY PartsAreFinite
<1>1. ASSUME NEW s \in S PROVE RankIn(S, s) \in 0..(n - 1)
  <2>1. RankIn(S, s) \in Nat /\ IsFiniteSet({t \in S : Before(s, t)})
    BY PartsAreFinite
  <2>2. Cardinality({t \in S : Before(s, t)}) \in Nat
    BY <2>1, FS_CardinalityType
  <2>3. \A r, m \in Nat : r + 1 + m = n => r \in 0..(n - 1)
    BY <1>0
  <2> QED BY <2>1, <2>2, <2>3, RankSplits
<1>2. f \in [S -> 0..(n - 1)]
  BY <1>1
<1>3. ASSUME NEW s \in S, NEW t \in S, f[s] = f[t] PROVE s = t
  <2>1. RankIn(S, s) = RankIn(S, t) /\ RankIn(S, s) \in Nat
    BY <1>3, PartsAreFinite
  <2>2. ~(RankIn(S, s) < RankIn(S, t)) /\ ~(RankIn(S, t) < RankIn(S, s))
    BY <2>1
  <2>3. s \in Names /\ t \in Names
    OBVIOUS
  <2>4. ~Before(s, t) /\ ~Before(t, s)
    BY <2>2, RankGrows
  <2> QED BY <2>3, <2>4, NamesOrdered
<1> HIDE DEF f
<1>4. f \in Injection(S, 0..(n - 1))
  BY <1>2, <1>3 DEF Injection, IsInjective
<1>5. IsFiniteSet(0..(n - 1)) /\ Cardinality(0..(n - 1)) = n
  <2>1. 0 \in Int /\ n - 1 \in Int /\ (IF 0 > n - 1 THEN 0 ELSE n - 1 - 0 + 1) = n
    BY <1>0
  <2>2. /\ IsFiniteSet(0..(n - 1))
        /\ Cardinality(0..(n - 1)) = IF 0 > n - 1 THEN 0 ELSE n - 1 - 0 + 1
    BY <2>1, FS_Interval
  <2> QED BY <2>1, <2>2
<1>6. f \in Surjection(S, 0..(n - 1))
  BY <1>4, <1>5, FS_Injection
<1>7. k - 1 \in 0..(n - 1)
  BY <1>0
<1>8. \E s \in S : f[s] = k - 1
  BY <1>6, <1>7 DEF Surjection
<1> QED BY <1>8 DEF f

\* The names of a listing, the first one the oldest; behind the k-th of n there
\* are n - k.
LEMMA ListSnapshotsIs ==
    ASSUME NEW S, S \subseteq Names
    PROVE  /\ ListSnapshots(S) \in Seq(S) /\ Len(ListSnapshots(S)) = Cardinality(S)
           /\ \A k \in 1..Cardinality(S) :
                  Cardinality({t \in S : Before(ListSnapshots(S)[k], t)}) = Cardinality(S) - k
<1> DEFINE n == Cardinality(S)
           l == [k \in 1..n |-> CHOOSE s \in S : RankIn(S, s) = k - 1]
<1>0. n \in Nat
  BY PartsAreFinite
<1>1. \A k \in 1..n : l[k] \in S /\ RankIn(S, l[k]) = k - 1
  BY EveryRank
<1>2. l \in [1..n -> S]
  BY <1>1
<1>3. l = ListSnapshots(S)
  BY DEF ListSnapshots, RankIn
<1> HIDE DEF l
<1>4. l \in Seq(S) /\ Len(l) = n
  <2>1. l \in Seq(S)
    BY <1>0, <1>2, SeqDef
  <2>2. DOMAIN l = 1..n
    BY <1>2
  <2> QED BY <1>0, <2>1, <2>2, LenProperties
<1>5. ASSUME NEW k \in 1..n PROVE Cardinality({t \in S : Before(l[k], t)}) = n - k
  <2>1. IsFiniteSet({t \in S : Before(l[k], t)})
    BY <1>1, PartsAreFinite
  <2>2. Cardinality({t \in S : Before(l[k], t)}) \in Nat /\ k \in Nat
    BY <1>0, <2>1, FS_CardinalityType
  <2>3. RankIn(S, l[k]) + 1 + Cardinality({t \in S : Before(l[k], t)}) = n /\ RankIn(S, l[k]) = k - 1
    BY <1>1, RankSplits
  <2> QED BY <1>0, <2>2, <2>3
<1> QED BY <1>3, <1>4, <1>5

\* As many names behind it as are kept.
Outlived(s, S) == Cardinality({t \in S : Before(s, t)}) >= Retention

\* A snapshot that as many newer ones have outlived stays one of those.
LEMMA OutlivedStays ==
    ASSUME NEW S, NEW T, S \subseteq T, T \subseteq Names, NEW s \in Names, Outlived(s, S)
    PROVE  Outlived(s, T)
<1> DEFINE P == {t \in S : Before(s, t)}
           Q == {t \in T : Before(s, t)}
<1>1. S \subseteq Names /\ P \subseteq Q
  OBVIOUS
<1>2. IsFiniteSet(P) /\ IsFiniteSet(Q)
  BY <1>1, PartsAreFinite
<1> HIDE DEF P, Q
<1>3. Cardinality(P) \in Nat /\ Cardinality(Q) \in Nat /\ Cardinality(P) <= Cardinality(Q) /\ Retention \in Nat
  BY <1>1, <1>2, FS_Subset, FS_CardinalityType, SnapshotsConstants
<1>4. Cardinality(P) >= Retention => Cardinality(Q) >= Retention
  BY <1>3
<1> QED BY <1>4 DEF Outlived, P, Q

\* What prune_old is to delete has been outlived.
LEMMA DoomedIs ==
    ASSUME NEW S, S \subseteq Names
    PROVE  /\ Doomed(S) \in Seq(S)
           /\ \A k \in 1..Len(Doomed(S)) : Outlived(Doomed(S)[k], S)
<1> DEFINE n == Cardinality(S)
           l == ListSnapshots(S)
           d == Excess(S)
<1>0. n \in Nat /\ Retention \in Nat /\ IsFiniteSet(S) /\ d = n - Retention
  BY PartsAreFinite, SnapshotsConstants DEF Excess
<1>1. /\ l \in Seq(S) /\ Len(l) = n
      /\ \A k \in 1..n : Cardinality({t \in S : Before(l[k], t)}) = n - k
  BY ListSnapshotsIs
<1> HIDE DEF n, l, d
<1>2. CASE d <= 0
  <2>1. Doomed(S) = <<>>
    BY <1>2 DEF Doomed, d
  <2> QED BY <2>1, NoneIs
<1>3. CASE ~(d <= 0)
  <2>1. Doomed(S) = SubSeq(l, 1, d)
    BY <1>3 DEF Doomed, Oldest, l, d
  <2>2. d \in 1..Len(l)
    BY <1>0, <1>1, <1>3
  <2>3. SubSeq(l, 1, d) \in Seq(S) /\ Len(SubSeq(l, 1, d)) = d /\ \A i \in 1..d : SubSeq(l, 1, d)[i] = l[i]
    BY <1>1, <2>2, PrefixIs
  <2>4. ASSUME NEW k \in 1..d PROVE Outlived(l[k], S)
    <3>1. k \in 1..n /\ n - k >= Retention /\ n - k \in Nat
      BY <1>0, <1>3
    <3>2. Cardinality({t \in S : Before(l[k], t)}) >= Retention
      BY <1>0, <1>1, <3>1
    <3> QED BY <3>2 DEF Outlived
  <2> QED BY <2>1, <2>3, <2>4
<1> QED BY <1>2, <1>3

SnapCounts == second \in 1..MaxSeconds /\ ai \in 0..MaxAi /\ refusals \in 0..MaxRefusals

\* The counters start within their bounds.
LEMMA SnapCountsStart == SnapshotsInit => SnapCounts
<1> SUFFICES ASSUME SnapshotsInit PROVE SnapCounts
  OBVIOUS
<1>1. MaxSeconds \in Nat \ {0} /\ MaxAi \in Nat /\ MaxRefusals \in Nat
  BY SnapshotsConstants
<1>2. second = 1 /\ ai = 0 /\ refusals = 0
  BY DEF SnapshotsInit
<1> QED BY <1>1, <1>2 DEF SnapCounts

\* No step passes the bounds on time, the assistant's snapshots and refusals.
LEMMA SnapCountsKept ==
    ASSUME SnapCounts, [SnapshotsNext]_snapVars
    PROVE  SnapCounts'
<1>0. MaxSeconds \in Nat /\ MaxAi \in Nat /\ MaxRefusals \in Nat
  BY SnapshotsConstants
<1>1. second' = second \/ (second < MaxSeconds /\ second' = second + 1)
  BY DEF SnapshotsNext, snapVars, SecondPasses, AiSnapshot, TakeStarts, TakesSnapshot, Prunes, TakerKilled, Restores
<1>2. ai' = ai \/ (ai < MaxAi /\ ai' = ai + 1)
  BY DEF SnapshotsNext, snapVars, SecondPasses, AiSnapshot, TakeStarts, TakesSnapshot, Prunes, TakerKilled, Restores
<1>3. refusals' = refusals \/ (refusals < MaxRefusals /\ refusals' = refusals + 1)
  BY DEF SnapshotsNext, snapVars, SecondPasses, AiSnapshot, TakeStarts, TakesSnapshot, Prunes, TakerKilled, Restores, Refused
<1>4. second' \in 1..MaxSeconds
  BY <1>0, <1>1 DEF SnapCounts
<1>5. ai' \in 0..MaxAi
  BY <1>0, <1>2, CountUp DEF SnapCounts
<1>6. refusals' \in 0..MaxRefusals
  BY <1>0, <1>3, CountUp DEF SnapCounts
<1> QED BY <1>4, <1>5, <1>6 DEF SnapCounts

\* A run at work: what it will prune has been outlived.
TakerOK(w) ==
    /\ w \in [left : {<<>>, <<"home">>, SUBVOLUMES}, doomed : Seq(Names)]
    /\ w.doomed # <<>> =>
           /\ w.left # <<>>
           /\ \A i \in 1..Len(w.doomed) : Outlived(w.doomed[i], seen[Head(w.left)])

\* What was seen of a subvolume and is gone was outlived.
DirsInv ==
    /\ snaps \in [Subvolumes -> SUBSET Names] /\ seen \in [Subvolumes -> SUBSET Names]
    /\ stagedSnapshot \in [Subvolumes -> SUBSET Names]
    /\ \A v \in Subvolumes :
           /\ snaps[v] \subseteq seen[v]
           /\ \A s \in seen[v] \ snaps[v] : Outlived(s, seen[v])

\* What every run will delete was outlived.
TakersInv == DOMAIN taker = Takers /\ taker = [r \in Takers |-> taker[r]] /\ \A r \in Takers : TakerOK(taker[r])

\* The subvolumes a run has left.
LeftIs(left) == left \in {<<>>, <<"home">>, SUBVOLUMES}

\* Taking the next subvolume leaves those after it.
LEMMA LeftGoes ==
    ASSUME NEW left, LeftIs(left), left # <<>>
    PROVE  Head(left) \in Subvolumes /\ LeftIs(Tail(left))
<1>1. CASE left = <<"home">>
  <2>1. Head(left) = "home" /\ Tail(left) = <<>>
    BY <1>1
  <2> QED BY <2>1 DEF LeftIs, Subvolumes
<1>2. CASE left = <<"root", "home">>
  <2>1. Head(left) = "root" /\ Tail(left) = <<"home">>
    BY <1>2
  <2> QED BY <2>1 DEF LeftIs, Subvolumes
<1> QED BY <1>1, <1>2 DEF LeftIs, SUBVOLUMES

\* The invariant holds before anything is taken.
LEMMA SnapInit == SnapshotsInit => DirsInv /\ TakersInv
<1> SUFFICES ASSUME SnapshotsInit PROVE DirsInv /\ TakersInv
  OBVIOUS
<1>1. DirsInv
  BY DEF SnapshotsInit, DirsInv
<1>2. Idler \in [left : {<<>>, <<"home">>, SUBVOLUMES}, doomed : Seq(Names)] /\ Idler.doomed = <<>>
  BY NoneIs DEF Idler
<1>3. TakersInv
  BY <1>2 DEF SnapshotsInit, TakersInv, TakerOK
<1> QED BY <1>1, <1>3

\* The directories: what is in them comes and goes.
LEMMA OneMore ==
    ASSUME DirsInv, NEW v \in Subvolumes, NEW s \in Names,
           snaps' = [snaps EXCEPT ![v] = @ \cup {s}], seen' = [seen EXCEPT ![v] = @ \cup {s}],
           UNCHANGED stagedSnapshot
    PROVE  DirsInv'
<1>1. /\ snaps' \in [Subvolumes -> SUBSET Names] /\ seen' \in [Subvolumes -> SUBSET Names]
      /\ stagedSnapshot' \in [Subvolumes -> SUBSET Names]
  BY DEF DirsInv
<1>2. ASSUME NEW u \in Subvolumes
      PROVE  /\ snaps'[u] \subseteq seen'[u]
             /\ \A t \in seen'[u] \ snaps'[u] : Outlived(t, seen'[u])
  <2>1. seen[u] \subseteq seen'[u] /\ seen'[u] \subseteq Names /\ snaps'[u] \subseteq seen'[u]
        /\ seen'[u] \ snaps'[u] \subseteq seen[u] \ snaps[u]
    BY DEF DirsInv
  <2>2. \A t \in seen[u] \ snaps[u] : t \in Names /\ Outlived(t, seen[u])
    BY DEF DirsInv
  <2> QED BY <2>1, <2>2, OutlivedStays
<1>3. (\A u \in Subvolumes :
           /\ snaps[u] \subseteq seen[u]
           /\ \A t \in seen[u] \ snaps[u] : Outlived(t, seen[u]))'
  BY <1>2 DEF Outlived
<1> QED BY <1>1, <1>3 DEF DirsInv

\* Taking a snapshot forgets none that was seen before.
LEMMA SeenGrows ==
    ASSUME DirsInv, NEW v \in Subvolumes, NEW s \in Names, seen' = [seen EXCEPT ![v] = @ \cup {s}]
    PROVE  \A u \in Subvolumes : seen[u] \subseteq seen'[u] /\ seen'[u] \subseteq Names
  BY DEF DirsInv

\* Deleting a snapshot that was outlived keeps the directories' invariant.
LEMMA OneLess ==
    ASSUME DirsInv, NEW v \in Subvolumes, NEW s \in snaps[v], Outlived(s, seen[v]),
           snaps' = [snaps EXCEPT ![v] = @ \ {s}], UNCHANGED <<seen, stagedSnapshot>>
    PROVE  DirsInv'
<1>1. /\ snaps' \in [Subvolumes -> SUBSET Names] /\ seen' \in [Subvolumes -> SUBSET Names]
      /\ stagedSnapshot' \in [Subvolumes -> SUBSET Names]
  BY DEF DirsInv
<1>2. ASSUME NEW u \in Subvolumes
      PROVE  /\ snaps'[u] \subseteq seen[u]
             /\ \A t \in seen[u] \ snaps'[u] : Outlived(t, seen[u])
  <2>1. CASE u = v
    BY <2>1 DEF DirsInv
  <2>2. CASE u # v
    BY <2>2 DEF DirsInv
  <2> QED BY <2>1, <2>2
<1>3. (\A u \in Subvolumes :
           /\ snaps[u] \subseteq seen[u]
           /\ \A t \in seen[u] \ snaps[u] : Outlived(t, seen[u]))'
  BY <1>2 DEF Outlived
<1> QED BY <1>1, <1>3 DEF DirsInv

\* The runs: the others go on while one changes.
LEMMA TakersGoOn ==
    ASSUME TakersInv, DirsInv, \A u \in Subvolumes : seen[u] \subseteq seen'[u] /\ seen'[u] \subseteq Names,
           NEW r \in Takers, TakerOK(taker[r])
    PROVE  TakerOK(taker[r])'  \/ taker'[r] # taker[r]
<1> SUFFICES ASSUME taker'[r] = taker[r] PROVE TakerOK(taker[r])'
  OBVIOUS
<1> PICK w : w = taker[r]
  OBVIOUS
<1>1. TakerOK(w)
  OBVIOUS
<1>2. w \in [left : {<<>>, <<"home">>, SUBVOLUMES}, doomed : Seq(Names)]
  BY <1>1 DEF TakerOK
<1>3. ASSUME w.doomed # <<>>
      PROVE  w.left # <<>> /\ \A i \in 1..Len(w.doomed) : Outlived(w.doomed[i], seen'[Head(w.left)])
  <2>1. w.left # <<>> /\ \A i \in 1..Len(w.doomed) : Outlived(w.doomed[i], seen[Head(w.left)])
    BY <1>1, <1>3 DEF TakerOK
  <2>2. Head(w.left) \in Subvolumes
    BY <1>2, <2>1, LeftGoes DEF LeftIs
  <2>3. \A i \in 1..Len(w.doomed) : w.doomed[i] \in Names
    BY <1>2, ElementOfSeq
  <2> QED BY <2>1, <2>2, <2>3, OutlivedStays
<1>4. TakerOK(w)'
  BY <1>2, <1>3 DEF TakerOK, Outlived
<1> QED BY <1>4

\* A step of one run leaves the others what they were entitled to delete.
LEMMA OneTaker ==
    ASSUME TakersInv, DirsInv, \A u \in Subvolumes : seen[u] \subseteq seen'[u] /\ seen'[u] \subseteq Names,
           NEW r \in Takers, NEW w, taker' = [taker EXCEPT ![r] = w], TakerOK(w)'
    PROVE  TakersInv'
<1>1. DOMAIN taker' = Takers /\ taker' = [q \in Takers |-> taker'[q]] /\ taker'[r] = w
      /\ \A q \in Takers : q # r => taker'[q] = taker[q]
  BY DEF TakersInv
<1>2. ASSUME NEW q \in Takers PROVE TakerOK(taker[q])'
  <2>1. CASE q = r
    <3>1. taker'[q] = w
      BY <1>1, <2>1
    <3> QED BY <3>1
  <2>2. CASE q # r
    BY <1>1, <2>2, TakersGoOn DEF TakersInv
  <2> QED BY <2>1, <2>2
<1> QED BY <1>1, <1>2 DEF TakersInv

\* So does a step of no run.
LEMMA NoTaker ==
    ASSUME TakersInv, DirsInv, \A u \in Subvolumes : seen[u] \subseteq seen'[u] /\ seen'[u] \subseteq Names,
           UNCHANGED taker
    PROVE  TakersInv'
<1>2. ASSUME NEW q \in Takers PROVE TakerOK(taker[q])'
    BY TakersGoOn DEF TakersInv
<1> QED BY <1>2 DEF TakersInv

\* The subvolume is left as it is: an error, or the end of its list.
LEMMA GivingUpKeeps ==
    ASSUME TakersInv, DirsInv, \A u \in Subvolumes : seen[u] \subseteq seen'[u] /\ seen'[u] \subseteq Names,
           NEW r \in Takers, taker[r].left # <<>>, GivesUp(r)
    PROVE  TakersInv'
<1> PICK w : w = [left |-> Tail(taker[r].left), doomed |-> <<>>]
  OBVIOUS
<1>1. taker' = [taker EXCEPT ![r] = w]
  BY DEF GivesUp
<1>2. taker[r].left \in {<<>>, <<"home">>, SUBVOLUMES}
  BY DEF TakersInv, TakerOK
<1>3. w \in [left : {<<>>, <<"home">>, SUBVOLUMES}, doomed : Seq(Names)] /\ w.doomed = <<>>
  BY <1>2, LeftGoes, NoneIs DEF LeftIs
<1>4. TakerOK(w)'
  BY <1>3 DEF TakerOK
<1> QED BY <1>1, <1>4, OneTaker

\* A step that takes no snapshot forgets none.
LEMMA SeenSame ==
    ASSUME DirsInv, UNCHANGED seen
    PROVE  \A u \in Subvolumes : seen[u] \subseteq seen'[u] /\ seen'[u] \subseteq Names
  BY DEF DirsInv

\* Starting --take keeps the invariant.
LEMMA TakeStartsKeeps ==
    ASSUME TakersInv, DirsInv, NEW r \in Takers, TakeStarts(r)
    PROVE  DirsInv' /\ TakersInv'
<1>1. UNCHANGED <<snaps, seen, stagedSnapshot>> /\ taker[r] = Idler /\ taker' = [taker EXCEPT ![r].left = SUBVOLUMES]
  BY DEF TakeStarts
<1> PICK w : w = [left |-> SUBVOLUMES, doomed |-> <<>>]
  OBVIOUS
<1>2. taker' = [taker EXCEPT ![r] = w]
  <2>1. [Idler EXCEPT !.left = SUBVOLUMES] = w
    BY DEF Idler
  <2> QED BY <1>1, <2>1
<1>3. TakerOK(w)'
  BY NoneIs DEF TakerOK
<1>4. DirsInv'
  BY <1>1 DEF DirsInv, Outlived
<1> QED BY <1>1, <1>2, <1>3, <1>4, OneTaker, SeenSame

\* Killing a run, wherever it was, keeps the invariant.
LEMMA KilledKeeps ==
    ASSUME TakersInv, DirsInv, NEW r \in Takers, TakerKilled(r)
    PROVE  DirsInv' /\ TakersInv'
<1>1. UNCHANGED <<snaps, seen, stagedSnapshot>> /\ taker' = [taker EXCEPT ![r] = Idler]
  BY DEF TakerKilled
<1>3. TakerOK(Idler)'
  BY NoneIs DEF TakerOK, Idler
<1>4. DirsInv'
  BY <1>1 DEF DirsInv, Outlived
<1> QED BY <1>1, <1>3, <1>4, OneTaker, SeenSame

\* What the list of the next turn holds.
LEMMA TailKeeps ==
    ASSUME NEW S, NEW d \in Seq(S), d # <<>>
    PROVE  /\ Head(d) = d[1] /\ 1 \in 1..Len(d) /\ Tail(d) \in Seq(S)
           /\ \A i \in 1..Len(Tail(d)) : i + 1 \in 1..Len(d) /\ Tail(d)[i] = d[i + 1]
<1>1. Len(d) \in Nat /\ Len(d) # 0
  BY EmptySeq, LenProperties
<1>2. Head(d) = d[1] /\ Tail(d) \in Seq(S) /\ Len(Tail(d)) = Len(d) - 1
      /\ \A i \in 1..Len(Tail(d)) : Tail(d)[i] = d[i + 1]
  BY HeadTailProperties
<1> QED BY <1>1, <1>2

\* A run takes its snapshot, or is refused, and lists what it will delete.
LEMMA TakesKeeps ==
    ASSUME SnapCounts, TakersInv, DirsInv, NEW r \in Takers, TakesSnapshot(r)
    PROVE  DirsInv' /\ TakersInv'
<1> PICK v : v = Head(taker[r].left)
  OBVIOUS
<1> PICK s : s = <<"timed", second>>
  OBVIOUS
<1> DEFINE now == snaps[v] \cup {s}
<1>0. taker[r].left # <<>> /\ taker[r].left \in {<<>>, <<"home">>, SUBVOLUMES} /\ stagedSnapshot' = stagedSnapshot
  BY DEF TakesSnapshot, TakersInv, TakerOK
<1>1. v \in Subvolumes
  BY <1>0, LeftGoes DEF LeftIs
<1>2. s \in Names
  BY DEF SnapCounts, Names
<1>3. CASE GivesUp(r) /\ UNCHANGED <<snaps, seen>>
  <2>1. DirsInv'
    BY <1>0, <1>3 DEF DirsInv, Outlived
  <2> QED BY <1>0, <1>3, <2>1, GivingUpKeeps, SeenSame
<1>4. CASE /\ s \notin snaps[v]
           /\ snaps' = [snaps EXCEPT ![v] = now] /\ seen' = [seen EXCEPT ![v] = @ \cup {s}]
           /\ IF Doomed(now) = <<>> THEN GivesUp(r)
              ELSE taker' = [taker EXCEPT ![r].doomed = Doomed(now)]
  <2>1. snaps' = [snaps EXCEPT ![v] = @ \cup {s}]
    BY <1>4
  <2>2. DirsInv'
    BY <1>0, <1>1, <1>2, <1>4, <2>1, OneMore
  <2>3. \A u \in Subvolumes : seen[u] \subseteq seen'[u] /\ seen'[u] \subseteq Names
    BY <1>1, <1>2, <1>4, SeenGrows
  <2>4. CASE Doomed(now) = <<>>
    BY <1>0, <1>4, <2>2, <2>3, <2>4, GivingUpKeeps
  <2>5. CASE Doomed(now) # <<>>
    <3> PICK w : w = [left |-> taker[r].left, doomed |-> Doomed(now)]
      OBVIOUS
    <3>1. taker' = [taker EXCEPT ![r] = w]
      <4>1. taker' = [taker EXCEPT ![r].doomed = Doomed(now)]
        BY <1>4, <2>5
      <4>2. taker[r] = [left |-> taker[r].left, doomed |-> taker[r].doomed]
        BY DEF TakersInv, TakerOK
      <4>3. [taker[r] EXCEPT !.doomed = Doomed(now)] = w
        <5> HIDE DEF now
        <5> QED BY <4>2
      <4> HIDE DEF now
      <4> QED BY <4>1, <4>3
    <3>2. now \subseteq seen'[v] /\ now \subseteq Names /\ seen'[v] \subseteq Names
      BY <1>1, <1>2, <1>4 DEF DirsInv
    <3> HIDE DEF now
    <3>3. Doomed(now) \in Seq(now) /\ \A k \in 1..Len(Doomed(now)) : Outlived(Doomed(now)[k], now)
      BY <3>2, DoomedIs
    <3>4. \A k \in 1..Len(Doomed(now)) : Doomed(now)[k] \in Names
      BY <3>2, <3>3, ElementOfSeq
    <3>5. \A k \in 1..Len(w.doomed) : Outlived(w.doomed[k], seen'[Head(w.left)])
      BY <3>2, <3>3, <3>4, OutlivedStays
    <3>6. Doomed(now) \in Seq(Names)
      BY <3>2, <3>3, SeqMonotonic
    <3>7. w \in [left : {<<>>, <<"home">>, SUBVOLUMES}, doomed : Seq(Names)] /\ w.left # <<>>
      BY <1>0, <3>6
    <3>8. TakerOK(w)'
      BY <3>5, <3>7 DEF TakerOK, Outlived
    <3> QED BY <2>2, <2>3, <3>1, <3>8, OneTaker
  <2> QED BY <2>4, <2>5
<1>5. QED
  BY <1>3, <1>4 DEF TakesSnapshot

\* A run that goes on with its list keeps the subvolumes left to it.
LEMMA OtherList ==
    ASSUME TakersInv, NEW r \in Takers, NEW n, taker' = [taker EXCEPT ![r].doomed = n]
    PROVE  taker' = [taker EXCEPT ![r] = [left |-> taker[r].left, doomed |-> n]]
<1>2. taker[r] = [left |-> taker[r].left, doomed |-> taker[r].doomed]
  BY DEF TakersInv, TakerOK
<1>3. [taker[r] EXCEPT !.doomed = n] = [left |-> taker[r].left, doomed |-> n]
  BY <1>2
<1> QED BY <1>3

\* A run deletes the next of its list, which as many newer ones have outlived.
LEMMA PrunesKeeps ==
    ASSUME TakersInv, DirsInv, NEW r \in Takers, Prunes(r)
    PROVE  DirsInv' /\ TakersInv'
<1> PICK v : v = Head(taker[r].left)
  OBVIOUS
<1> PICK d : d = taker[r].doomed
  OBVIOUS
<1>0. /\ d # <<>> /\ d \in Seq(Names) /\ taker[r].left # <<>>
      /\ taker[r].left \in {<<>>, <<"home">>, SUBVOLUMES}
      /\ \A i \in 1..Len(d) : Outlived(d[i], seen[v])
      /\ UNCHANGED <<seen, stagedSnapshot>>
  BY DEF Prunes, TakersInv, TakerOK
<1>1. v \in Subvolumes
  BY <1>0, LeftGoes DEF LeftIs
<1>2. /\ Head(d) = d[1] /\ 1 \in 1..Len(d) /\ Tail(d) \in Seq(Names)
      /\ \A i \in 1..Len(Tail(d)) : i + 1 \in 1..Len(d) /\ Tail(d)[i] = d[i + 1]
  BY <1>0, TailKeeps
<1>3. CASE GivesUp(r) /\ UNCHANGED snaps
  <2>1. DirsInv'
    BY <1>0, <1>3 DEF DirsInv, Outlived
  <2> QED BY <1>0, <1>3, <2>1, GivingUpKeeps, SeenSame
<1>4. CASE /\ Head(d) \in snaps[v] /\ snaps' = [snaps EXCEPT ![v] = @ \ {Head(d)}]
           /\ IF Tail(d) = <<>> THEN GivesUp(r) ELSE taker' = [taker EXCEPT ![r].doomed = Tail(d)]
  <2>1. DirsInv'
    BY <1>0, <1>1, <1>2, <1>4, OneLess
  <2>2. CASE Tail(d) = <<>>
    BY <1>0, <1>4, <2>1, <2>2, GivingUpKeeps, SeenSame
  <2>3. CASE Tail(d) # <<>>
    <3> PICK w : w = [left |-> taker[r].left, doomed |-> Tail(d)]
      OBVIOUS
    <3>1. taker' = [taker EXCEPT ![r] = w]
      <4>1. taker' = [taker EXCEPT ![r].doomed = Tail(d)]
        BY <1>4, <2>3
      <4> QED BY <4>1, OtherList
    <3>2. \A i \in 1..Len(w.doomed) : Outlived(w.doomed[i], seen[Head(w.left)])
      BY <1>0, <1>2
    <3>3. TakerOK(w)'
      BY <1>0, <1>2, <3>2 DEF TakerOK, Outlived
    <3> QED BY <1>0, <2>1, <3>1, <3>3, OneTaker, SeenSame
  <2> QED BY <2>2, <2>3
<1>5. QED
  BY <1>3, <1>4 DEF Prunes

\* Every step keeps the directories' and the runs' invariant.
LEMMA SnapStep ==
    ASSUME SnapCounts, TakersInv, DirsInv, [SnapshotsNext]_snapVars
    PROVE  DirsInv' /\ TakersInv'
<1>1. ASSUME UNCHANGED <<snaps, taker, seen, stagedSnapshot>> PROVE DirsInv' /\ TakersInv'
  <2>1. DirsInv'
    BY <1>1 DEF DirsInv, Outlived
  <2> QED BY <1>1, <2>1, NoTaker, SeenSame
<1>2. CASE SecondPasses
  BY <1>1, <1>2 DEF SecondPasses
<1>3. CASE AiSnapshot
  <2> PICK s : s = <<"ai", second>>
    OBVIOUS
  <2>1. s \in Names /\ "root" \in Subvolumes
    BY DEF SnapCounts, Names, Subvolumes
  <2>2. /\ snaps' = [snaps EXCEPT !["root"] = @ \cup {s}] /\ seen' = [seen EXCEPT !["root"] = @ \cup {s}]
        /\ UNCHANGED <<stagedSnapshot, taker>>
    BY <1>3 DEF AiSnapshot
  <2>3. DirsInv'
    BY <2>1, <2>2, OneMore
  <2>4. \A u \in Subvolumes : seen[u] \subseteq seen'[u] /\ seen'[u] \subseteq Names
    BY <2>1, <2>2, SeenGrows
  <2> QED BY <2>2, <2>3, <2>4, NoTaker
<1>4. ASSUME NEW v \in Subvolumes, NEW s \in snaps[v], Restores(v, s) PROVE DirsInv' /\ TakersInv'
  <2>1. /\ UNCHANGED <<snaps, taker, seen>>
        /\ stagedSnapshot' = [stagedSnapshot EXCEPT ![v] = @ \cup {s}]
    BY <1>4 DEF Restores
  <2>2. DirsInv'
    <3>1. s \in Names /\ stagedSnapshot' \in [Subvolumes -> SUBSET Names]
      BY <1>4, <2>1 DEF DirsInv
    <3> QED BY <2>1, <3>1 DEF DirsInv, Outlived
  <2> QED BY <2>1, <2>2, NoTaker, SeenSame
<1>5. ASSUME NEW r \in Takers, TakeStarts(r) \/ TakesSnapshot(r) \/ Prunes(r) \/ TakerKilled(r)
      PROVE  DirsInv' /\ TakersInv'
  BY <1>5, TakeStartsKeeps, TakesKeeps, PrunesKeeps, KilledKeeps
<1>6. CASE UNCHANGED snapVars
  BY <1>1, <1>6 DEF snapVars
<1> QED BY <1>2, <1>3, <1>4, <1>5, <1>6 DEF SnapshotsNext

\* The invariant has the types.
LEMMA SnapTypes == SnapCounts /\ DirsInv /\ TakersInv => SnapshotsTypeOK
  BY DEF SnapCounts, DirsInv, TakersInv, TakerOK, SnapshotsTypeOK

\* The invariant keeps the newest ones.
LEMMA SnapKept == DirsInv => LastByNameKept
<1> SUFFICES ASSUME DirsInv, NEW v \in Subvolumes, NEW s \in seen[v],
                    Cardinality({t \in seen[v] : Before(s, t)}) < Retention, s \notin snaps[v]
             PROVE  FALSE
  BY DEF LastByNameKept
<1>1. seen[v] \subseteq Names /\ Outlived(s, seen[v])
  BY DEF DirsInv
<1> DEFINE a == Cardinality({t \in seen[v] : Before(s, t)})
<1>2. a >= Retention /\ a < Retention
  BY <1>1 DEF Outlived
<1>3. a \in Nat /\ Retention \in Nat
  <2>1. IsFiniteSet({t \in seen[v] : Before(s, t)})
    BY <1>1, PartsAreFinite
  <2> QED BY <2>1, FS_CardinalityType, SnapshotsConstants
<1> HIDE DEF a
<1> QED BY <1>2, <1>3

(* Snapshots: they keep their types; a snapshot is there until as many     *)
(* whose names sort after its own have been taken as are kept, whatever    *)
(* runs of --take overlap, fail and are killed while they prune            *)
(* (take_snapshot, list_snapshots); the assistant's names sort after all   *)
(* of the timer's.                                                         *)
THEOREM SnapshotsAreKept == SnapshotsSpec => [](SnapshotsTypeOK /\ LastByNameKept)
<1>1. SnapshotsInit => SnapCounts /\ DirsInv /\ TakersInv
  BY SnapCountsStart, SnapInit
<1>2. SnapCounts /\ DirsInv /\ TakersInv /\ [SnapshotsNext]_snapVars => (SnapCounts /\ DirsInv /\ TakersInv)'
  BY SnapCountsKept, SnapStep
<1>3. SnapCounts /\ DirsInv /\ TakersInv => SnapshotsTypeOK /\ LastByNameKept
  BY SnapTypes, SnapKept
<1> QED BY <1>1, <1>2, <1>3, PTL DEF SnapshotsSpec

-----------------------------------------------------------------------------
(* Quick settings.                                                         *)

Command == [sets : SUBSET Radios, to : Switch]

\* When every command has ended in its order, r is v.
Settles(r, v) ==
    /\ \A i \in DOMAIN launched :
           r \in launched[i].sets /\ (\A j \in DOMAIN launched : j > i => r \notin launched[j].sets)
               => launched[i].to = v
    /\ (\A i \in DOMAIN launched : r \notin launched[i].sets) => radio[r] = v

\* The types of what radios, buttons and commands are.
RadioTypes ==
    /\ toggle \in [ToggleNames -> Switch] /\ keptValues \in {<<>>} \cup [Radios -> Switch]
    /\ radio \in [Radios -> Switch] /\ launched \in Seq(Command)
    /\ meantRadio \in [Radios -> Switch] /\ astray \subseteq Radios /\ mislaid \in BOOLEAN

\* What the radios are to be, what airplane mode has remembered, and what the
\* buttons of the other two show.
RadioInv ==
    /\ RadioTypes
    /\ toggle["airplane"] = "off" =>
           /\ keptValues = <<>>
           /\ \A r \in {"wifi", "bluetooth"} : toggle[r] = meantRadio[r]
           /\ \A r \in Radios \ astray : (r = "wwan" /\ mislaid) \/ Settles(r, meantRadio[r])
    /\ toggle["airplane"] = "on" =>
           /\ keptValues # <<>>
           /\ \A r \in {"wifi", "bluetooth"} : toggle[r] = "off" /\ keptValues[r] = meantRadio[r]
           /\ ~mislaid => keptValues["wwan"] = meantRadio["wwan"]
           /\ \A r \in Radios \ astray : Settles(r, "off")

\* What Focus and the night light show as on is on.
ModesInv ==
    /\ sunset \in Switch \cup {"gone"} /\ quiet \in Switch
    /\ toggle \in [ToggleNames -> Switch]
    /\ toggle["focus"] = "on" => quiet = "on"
    /\ toggle["night_light"] = "on" => sunset # "off"

PressesInv == presses \in 0..MaxToggles

\* The types of the levels.
LevelsInv ==
    /\ slider \in Levels /\ volume \in Levels /\ chosen \in Levels /\ slides \in 0..MaxSlides
    /\ fetches \in Seq(Levels) /\ mixers \in Seq(Levels) /\ slipped \in BOOLEAN

\* The newest pamixer sets what was chosen, or has done it.
FlushInv ==
    /\ levelTimer \in Switch /\ chosen \in Levels
    /\ levelTimer = "on" => pendingLevel = <<chosen>>
    /\ levelTimer = "off" =>
           /\ pendingLevel = <<>>
           /\ ~slipped => IF mixers = <<>> THEN volume = chosen ELSE mixers[Len(mixers)] = chosen

\* A sequence without one of its elements.
LEMMA AllButIs ==
    ASSUME NEW S, NEW s \in Seq(S), NEW i \in DOMAIN s
    PROVE  /\ Len(s) \in Nat /\ i \in 1..Len(s) /\ DOMAIN s = 1..Len(s) /\ \A j \in 1..Len(s) : s[j] \in S
           /\ AllBut(s, i) \in Seq(S) /\ Len(AllBut(s, i)) = Len(s) - 1
           /\ DOMAIN AllBut(s, i) = 1..(Len(s) - 1)
           /\ \A j \in 1..(Len(s) - 1) : AllBut(s, i)[j] = s[IF j < i THEN j ELSE j + 1]
<1>0. Len(s) \in Nat /\ i \in 1..Len(s) /\ DOMAIN s = 1..Len(s) /\ \A j \in 1..Len(s) : s[j] \in S
  BY LenProperties, ElementOfSeq
<1>1. AllBut(s, i) = [j \in 1..(Len(s) - 1) |-> s[IF j < i THEN j ELSE j + 1]]
  BY DEF AllBut
<1>2. ASSUME NEW j \in 1..(Len(s) - 1) PROVE (IF j < i THEN j ELSE j + 1) \in 1..Len(s)
  BY <1>0
<1>3. AllBut(s, i) \in [1..(Len(s) - 1) -> S]
  BY <1>0, <1>1, <1>2
<1>4. Len(s) - 1 \in Nat
  BY <1>0
<1>5. AllBut(s, i) \in Seq(S)
  BY <1>3, <1>4, SeqDef
<1>6. DOMAIN AllBut(s, i) = 1..(Len(s) - 1)
  BY <1>1
<1>7. Len(AllBut(s, i)) = Len(s) - 1
  BY <1>4, <1>5, <1>6, LenProperties
<1> QED BY <1>0, <1>1, <1>5, <1>6, <1>7

\* Commands are started after those that have not ended.
LEMMA Launching ==
    ASSUME RadioTypes, NEW cmds \in Seq(Command), launched' = launched \o cmds, radio' = radio,
           NEW r \in Radios, NEW v
    PROVE  /\ launched' \in Seq(Command)
           /\ (/\ \A k \in 1..Len(cmds) : r \in cmds[k].sets => cmds[k].to = v
               /\ (\E k \in 1..Len(cmds) : r \in cmds[k].sets) \/ Settles(r, v)) => Settles(r, v)'
<1>0. /\ launched \in Seq(Command) /\ Len(launched) \in Nat /\ Len(cmds) \in Nat
      /\ DOMAIN launched = 1..Len(launched)
  BY LenProperties DEF RadioTypes
<1>1. /\ launched' \in Seq(Command) /\ Len(launched') = Len(launched) + Len(cmds)
      /\ \A i \in 1..(Len(launched) + Len(cmds)) :
             launched'[i] = IF i <= Len(launched) THEN launched[i] ELSE cmds[i - Len(launched)]
  BY <1>0, ConcatProperties
<1>2. DOMAIN launched' = 1..(Len(launched) + Len(cmds))
  BY <1>1, LenProperties
<1>o. ASSUME NEW i \in 1..Len(launched) PROVE i \in DOMAIN launched' /\ launched'[i] = launched[i]
  BY <1>0, <1>1, <1>2
<1>n. ASSUME NEW k \in 1..Len(cmds)
      PROVE  /\ k + Len(launched) \in DOMAIN launched' /\ launched'[k + Len(launched)] = cmds[k]
             /\ \A i \in 1..Len(launched) : k + Len(launched) > i
  <2>1. /\ k + Len(launched) \in 1..(Len(launched) + Len(cmds)) /\ ~(k + Len(launched) <= Len(launched))
        /\ (k + Len(launched)) - Len(launched) = k
    BY <1>0
  <2>2. \A i \in 1..Len(launched) : k + Len(launched) > i
    BY <1>0
  <2> QED BY <1>1, <1>2, <2>1, <2>2
<1>c. ASSUME NEW i \in DOMAIN launched', i \notin 1..Len(launched)
      PROVE  \E k \in 1..Len(cmds) : launched'[i] = cmds[k]
  <2>1. i - Len(launched) \in 1..Len(cmds) /\ i = (i - Len(launched)) + Len(launched)
    BY <1>0, <1>2, <1>c
  <2> QED BY <1>n, <2>1
<1>3. ASSUME \A k \in 1..Len(cmds) : r \in cmds[k].sets => cmds[k].to = v,
             (\E k \in 1..Len(cmds) : r \in cmds[k].sets) \/ Settles(r, v)
      PROVE  Settles(r, v)'
  <2>1. ASSUME NEW i \in DOMAIN launched', r \in launched'[i].sets,
               \A j \in DOMAIN launched' : j > i => r \notin launched'[j].sets
        PROVE  launched'[i].to = v
    <3>1. CASE i \in 1..Len(launched)
      <4>1. ASSUME NEW k \in 1..Len(cmds) PROVE r \notin cmds[k].sets
        BY <1>n, <2>1, <3>1
      <4>2. Settles(r, v)
        BY <1>3, <4>1
      <4>3. launched[i] = launched'[i] /\ \A j \in DOMAIN launched : j > i => r \notin launched[j].sets
        BY <1>0, <1>o, <2>1, <3>1
      <4> QED BY <1>0, <2>1, <3>1, <4>2, <4>3 DEF Settles
    <3>2. CASE i \notin 1..Len(launched)
      BY <1>3, <1>c, <2>1, <3>2
    <3> QED BY <3>1, <3>2
  <2>2. ASSUME \A i \in DOMAIN launched' : r \notin launched'[i].sets PROVE radio'[r] = v
    <3>1. \A k \in 1..Len(cmds) : r \notin cmds[k].sets
      BY <1>n, <2>2
    <3>2. \A i \in DOMAIN launched : r \notin launched[i].sets
      BY <1>0, <1>o, <2>2
    <3> QED BY <1>3, <3>1, <3>2 DEF Settles
  <2> QED BY <2>1, <2>2 DEF Settles
<1> QED BY <1>1, <1>3

\* One ends: the radios that do not go astray settle as before.
LEMMA Ending ==
    ASSUME RadioTypes, NEW i \in DOMAIN launched, NEW works \in BOOLEAN, CommandEnds(i, works)
    PROVE  /\ launched' \in Seq(Command) /\ radio' \in [Radios -> Switch] /\ astray \subseteq astray'
           /\ astray' \subseteq Radios
           /\ \A r \in Radios \ astray' : \A v : Settles(r, v) => Settles(r, v)'
<1> DEFINE n == Len(launched)
           was(j) == IF j < i THEN j ELSE j + 1
<1>0. /\ launched \in Seq(Command) /\ n \in Nat /\ i \in 1..n /\ DOMAIN launched = 1..n
      /\ launched[i] \in Command
  BY AllButIs DEF RadioTypes
<1>1. /\ radio' = [r \in Radios |-> IF works /\ r \in launched[i].sets THEN launched[i].to ELSE radio[r]]
      /\ astray' = astray \cup {r \in launched[i].sets : ~Newer(r, i) /\ (Older(r, i) \/ ~works)}
      /\ launched' = AllBut(launched, i)
  BY DEF CommandEnds
<1>2. ASSUME NEW j \in 1..(n - 1) PROVE was(j) \in 1..n /\ was(j) # i
  BY <1>0
<1>3. ASSUME NEW k \in 1..n, k # i PROVE \E j \in 1..(n - 1) : was(j) = k
  <2>1. CASE k < i
    <3>1. k \in 1..(n - 1) /\ was(k) = k
      BY <1>0, <2>1
    <3> QED BY <3>1
  <2>2. CASE k > i
    <3>1. k - 1 \in 1..(n - 1) /\ was(k - 1) = k
      BY <1>0, <2>2
    <3> QED BY <3>1
  <2> QED BY <1>0, <1>3, <2>1, <2>2
<1>4. ASSUME NEW j \in 1..(n - 1), NEW k \in 1..(n - 1), was(k) > was(j) PROVE k > j
  BY <1>0, <1>4
<1>5. launched' \in Seq(Command)
  BY <1>0, <1>1, AllButIs
<1>6. radio' \in [Radios -> Switch] /\ astray' \subseteq Radios
  BY <1>0, <1>1 DEF Command, RadioTypes
<1>7. DOMAIN launched' = 1..(n - 1) /\ \A j \in 1..(n - 1) : launched'[j] = launched[was(j)]
  BY <1>0, <1>1, AllButIs
<1> HIDE DEF was
<1>8. ASSUME NEW r \in Radios \ astray', NEW v, Settles(r, v) PROVE Settles(r, v)'
  <2>0. ASSUME r \in launched[i].sets, \A j \in 1..n : j > i => r \notin launched[j].sets
        PROVE  works /\ \A j \in 1..n : j < i => r \notin launched[j].sets
    <3>1. ~Newer(r, i)
      BY <1>0, <2>0 DEF Newer
    <3>2. works /\ ~Older(r, i)
      BY <1>1, <1>8, <2>0, <3>1
    <3> QED BY <1>0, <3>2 DEF Older
  <2>1. ASSUME NEW j \in 1..(n - 1), r \in launched'[j].sets,
               \A k \in 1..(n - 1) : k > j => r \notin launched'[k].sets
        PROVE  launched'[j].to = v
    <3>1. was(j) \in 1..n /\ was(j) # i /\ r \in launched[was(j)].sets
      BY <1>2, <1>7, <2>1
    <3>o. ASSUME NEW m \in 1..n, m > was(j), m # i PROVE r \notin launched[m].sets
      <4>1. PICK k \in 1..(n - 1) : was(k) = m
        BY <1>3, <3>o
      <4>2. k > j
        BY <1>4, <3>o, <4>1
      <4> QED BY <1>7, <2>1, <4>1, <4>2
    <3>2. ASSUME NEW m \in 1..n, m > was(j) PROVE r \notin launched[m].sets
      <4>1. CASE m = i
        <5>1. was(j) < i
          BY <1>0, <3>1, <3>2, <4>1
        <5>2. \A k \in 1..n : k > i => k > was(j) /\ k # i
          BY <1>0, <3>1, <5>1
        <5> QED BY <2>0, <3>1, <3>o, <4>1, <5>1, <5>2
      <4>2. CASE m # i
        BY <3>o, <3>2, <4>2
      <4> QED BY <4>1, <4>2
    <3> QED BY <1>0, <1>7, <1>8, <3>1, <3>2 DEF Settles
  <2>2. ASSUME \A j \in 1..(n - 1) : r \notin launched'[j].sets PROVE radio'[r] = v
    <3>1. \A k \in 1..n : k # i => r \notin launched[k].sets
      BY <1>3, <1>7, <2>2
    <3>2. CASE r \in launched[i].sets
      <4>1. \A j \in 1..n : j > i => r \notin launched[j].sets
        BY <1>0, <3>1
      <4>2. radio'[r] = launched[i].to
        BY <1>1, <2>0, <3>2, <4>1
      <4> QED BY <1>0, <1>8, <3>2, <4>1, <4>2 DEF Settles
    <3>3. CASE r \notin launched[i].sets
      <4>1. radio'[r] = radio[r]
        BY <1>1, <3>3
      <4> QED BY <1>0, <1>8, <3>1, <3>3, <4>1 DEF Settles
    <3> QED BY <3>2, <3>3
  <2> QED BY <1>7, <2>1, <2>2 DEF Settles
<1> QED BY <1>1, <1>5, <1>6, <1>8

\* Every step keeps each radio what its commands in flight will make of it.
LEMMA RadioInvKept ==
    ASSUME RadioInv, [TogglesNext \/ LevelsNext]_quickVars
    PROVE  RadioInv'
<1>t. /\ RadioTypes /\ toggle \in [ToggleNames -> Switch] /\ radio \in [Radios -> Switch]
      /\ toggle["airplane"] \in {"on", "off"}
  BY DEF RadioInv, RadioTypes, ToggleNames, Switch
<1>r. "wifi" \in Radios /\ "bluetooth" \in Radios /\ "wwan" \in Radios
      /\ Radios = {"wifi", "bluetooth", "wwan"} /\ "on" \in Switch /\ "off" \in Switch
  BY DEF Radios, Switch
<1>0. UNCHANGED radioVars /\ toggle' \in [ToggleNames -> Switch]
         /\ (\A n \in {"wifi", "bluetooth", "airplane"} : toggle'[n] = toggle[n])
      => RadioInv'
  BY DEF RadioInv, RadioTypes, Settles, radioVars
<1>1. ASSUME NEW name \in {"wifi", "bluetooth"}, TogglesRadio(name) PROVE RadioInv'
  <2>0. PICK other \in Switch : other = Other(name)
    BY DEF Other, Switch
  <2> DEFINE cmd == [sets |-> {name}, to |-> other]
  <2>1. /\ toggle["airplane"] = "off" /\ toggle' = [toggle EXCEPT ![name] = other]
        /\ launched' = Append(launched, cmd) /\ meantRadio' = [meantRadio EXCEPT ![name] = other]
        /\ astray' = astray \ {name} /\ UNCHANGED <<keptValues, radio, mislaid>>
    BY <1>1, <2>0 DEF TogglesRadio
  <2>2. cmd \in Command /\ name \in Radios /\ cmd.sets = {name} /\ cmd.to = other
    BY <1>r DEF Command
  <2> HIDE DEF cmd
  <2>4. /\ <<cmd>> \in Seq(Command) /\ Len(<<cmd>>) = 1 /\ launched' = launched \o <<cmd>>
        /\ \A k \in 1..1 : <<cmd>>[k] = cmd
    BY <2>1, <2>2, AppendIsConcat DEF RadioTypes, RadioInv
  <2>5. launched' \in Seq(Command)
    BY <1>t, <1>r, <2>1, <2>4, Launching
  <2>6. toggle' \in [ToggleNames -> Switch] /\ meantRadio' \in [Radios -> Switch] /\ toggle'["airplane"] = "off"
    BY <1>t, <2>1, <2>2 DEF RadioInv, RadioTypes, ToggleNames
  <2>7. ASSUME NEW r \in Radios \ astray' PROVE (r = "wwan" /\ mislaid) \/ Settles(r, meantRadio[r])'
    <3>1. CASE r = name
      <4>1. meantRadio'[r] = other
        BY <2>1, <3>1 DEF RadioInv, RadioTypes
      <4>2. Settles(r, other)'
        <5>1. 1 \in 1..1 /\ r \in <<cmd>>[1].sets /\ \A k \in 1..1 : r \in <<cmd>>[k].sets => <<cmd>>[k].to = other
          BY <2>2, <2>4, <3>1
        <5> QED BY <1>t, <2>1, <2>4, <5>1, Launching
      <4> QED BY <4>1, <4>2 DEF Settles
    <3>2. CASE r # name
      <4>0. PICK v : v = meantRadio[r]
        OBVIOUS
      <4>1. meantRadio'[r] = v
        BY <2>1, <3>2, <4>0 DEF RadioInv, RadioTypes
      <4>2. (r = "wwan" /\ mislaid) \/ Settles(r, v)
        BY <2>1, <3>2, <4>0 DEF RadioInv
      <4>4. \A k \in 1..1 : r \notin <<cmd>>[k].sets
        BY <2>2, <2>4, <3>2
      <4>5. (r = "wwan" /\ mislaid) \/ Settles(r, v)'
        BY <1>t, <2>1, <2>4, <4>2, <4>4, Launching
      <4> QED BY <4>1, <4>5 DEF Settles
    <3> QED BY <3>1, <3>2
  <2>8. \A r \in {"wifi", "bluetooth"} : toggle'[r] = meantRadio'[r]
    <3>1. \A r \in {"wifi", "bluetooth"} : toggle[r] = meantRadio[r]
      BY <2>1 DEF RadioInv
    <3> QED BY <1>t, <2>1, <3>1 DEF RadioInv, RadioTypes, ToggleNames, Radios
  <2>9. keptValues' = <<>>
    BY <2>1 DEF RadioInv
  <2> QED BY <1>t, <2>1, <2>5, <2>6, <2>7, <2>8, <2>9 DEF RadioInv, RadioTypes
<1>2. CASE AirplaneOn
  <2> DEFINE forWireless == [sets |-> {"wifi", "wwan"}, to |-> "off"]
             forBluetooth == [sets |-> {"bluetooth"}, to |-> "off"]
  <2>1. /\ toggle["airplane"] = "off" /\ launched' = launched \o <<forWireless, forBluetooth>>
        /\ toggle' = [toggle EXCEPT !["airplane"] = "on", !["wifi"] = "off", !["bluetooth"] = "off"]
        /\ astray' = {} /\ UNCHANGED <<radio, meantRadio>>
    BY <1>2 DEF AirplaneOn
  <2>a. PICK answer \in {radio["wwan"], "off"} :
            /\ keptValues' = IF keptValues = <<>> THEN Remembered(answer) ELSE keptValues
            /\ mislaid' = (mislaid \/ answer # radio["wwan"] \/ "wwan" \in Pending \cup astray)
    BY <1>2 DEF AirplaneOn
  <2>2. keptValues' = Remembered(answer) /\ \A r \in {"wifi", "bluetooth"} : toggle[r] = meantRadio[r]
    BY <2>1, <2>a DEF RadioInv
  <2>3. forWireless \in Command /\ forBluetooth \in Command /\ forWireless.sets = {"wifi", "wwan"} /\ forBluetooth.sets = {"bluetooth"}
        /\ forWireless.to = "off" /\ forBluetooth.to = "off"
    BY <1>r DEF Command
  <2> HIDE DEF forWireless, forBluetooth
  <2>4. /\ <<forWireless, forBluetooth>> \in Seq(Command) /\ Len(<<forWireless, forBluetooth>>) = 2
        /\ <<forWireless, forBluetooth>>[1] = forWireless /\ <<forWireless, forBluetooth>>[2] = forBluetooth
    BY <2>3
  <2>k. \A k \in 1..2 : k = 1 \/ k = 2
    OBVIOUS
  <2>5. ASSUME NEW r \in Radios PROVE launched' \in Seq(Command) /\ Settles(r, "off")'
    <3>1. \A k \in 1..2 : <<forWireless, forBluetooth>>[k].to = "off"
      BY <2>3, <2>4, <2>k
    <3>2. \E k \in 1..2 : r \in <<forWireless, forBluetooth>>[k].sets
      <4>1. r \in forWireless.sets \/ r \in forBluetooth.sets
        BY <1>r, <2>3
      <4> QED BY <2>4, <4>1
    <3> QED BY <1>t, <2>1, <2>4, <3>1, <3>2, Launching
  <2>6. toggle' \in [ToggleNames -> Switch] /\ toggle'["airplane"] = "on"
        /\ \A r \in {"wifi", "bluetooth"} : toggle'[r] = "off"
    BY <1>t, <2>1 DEF ToggleNames, Switch
  <2>7. /\ keptValues' \in [Radios -> Switch] /\ keptValues' # <<>>
        /\ \A r \in {"wifi", "bluetooth"} : keptValues'[r] = meantRadio'[r]
        /\ keptValues'["wwan"] = answer
    <3>1. \A r \in Radios : Remembered(answer)[r] = IF r = "wwan" THEN answer ELSE toggle[r]
      BY DEF Remembered
    <3>2. Remembered(answer) \in [Radios -> Switch]
      BY <1>t, <1>r DEF Remembered, ToggleNames
    <3>3. Remembered(answer) # <<>>
      <4>1. DOMAIN Remembered(answer) = Radios /\ DOMAIN <<>> = {}
        BY <3>2
      <4> QED BY <1>r, <4>1
    <3> QED BY <1>r, <2>1, <2>2, <3>1, <3>2, <3>3
  <2>8. ASSUME ~mislaid' PROVE answer = meantRadio["wwan"]
    <3>1. ~mislaid /\ answer = radio["wwan"] /\ "wwan" \notin Pending /\ "wwan" \in Radios \ astray
      BY <1>r, <2>a, <2>8
    <3>2. \A i \in DOMAIN launched : "wwan" \notin launched[i].sets
      BY <3>1 DEF Pending
    <3>3. Settles("wwan", meantRadio["wwan"])
      BY <2>1, <3>1 DEF RadioInv
    <3> QED BY <3>1, <3>2, <3>3 DEF Settles
  <2>9. astray' \subseteq Radios /\ meantRadio' \in [Radios -> Switch] /\ mislaid' \in BOOLEAN
    BY <1>r, <2>1, <2>a DEF RadioInv, RadioTypes
  <2> QED BY <1>t, <1>r, <2>1, <2>5, <2>6, <2>7, <2>8, <2>9 DEF RadioInv, RadioTypes
<1>3. CASE AirplaneOff
  <2>0. /\ toggle["airplane"] = "on" /\ keptValues # <<>> /\ keptValues \in [Radios -> Switch]
        /\ \A r \in {"wifi", "bluetooth"} : keptValues[r] = meantRadio[r]
        /\ ~mislaid => keptValues["wwan"] = meantRadio["wwan"]
    BY <1>3 DEF AirplaneOff, RadioInv, RadioTypes
  <2> DEFINE cmd(r) == [sets |-> {r}, to |-> keptValues[r]]
             cmds == <<cmd("wifi"), cmd("wwan"), cmd("bluetooth")>>
  <2>1. /\ launched' = launched \o cmds /\ keptValues' = <<>>
        /\ toggle' = [toggle EXCEPT !["airplane"] = "off", !["wifi"] = keptValues["wifi"],
                                    !["bluetooth"] = keptValues["bluetooth"]]
        /\ astray' = {} /\ UNCHANGED <<radio, meantRadio, mislaid>>
    BY <1>3, <2>0 DEF AirplaneOff
  <2>2. \A r \in Radios : cmd(r) \in Command /\ cmd(r).sets = {r} /\ cmd(r).to = keptValues[r]
    BY <2>0 DEF Command
  <2> HIDE DEF cmd
  <2>3. /\ cmds \in Seq(Command) /\ Len(cmds) = 3
        /\ cmds[1] = cmd("wifi") /\ cmds[2] = cmd("wwan") /\ cmds[3] = cmd("bluetooth")
    BY <1>r, <2>2
  <2>k. \A k \in 1..3 : k = 1 \/ k = 2 \/ k = 3
    OBVIOUS
  <2> HIDE DEF cmds
  <2>4. ASSUME NEW r \in Radios, NEW v, v = keptValues[r] PROVE launched' \in Seq(Command) /\ Settles(r, v)'
    <3>1. \A k \in 1..3 : r \in cmds[k].sets => cmds[k].to = v
      BY <1>r, <2>2, <2>3, <2>k, <2>4
    <3>2. \E k \in 1..3 : r \in cmds[k].sets
      <4>1. 1 \in 1..3 /\ 2 \in 1..3 /\ 3 \in 1..3
        OBVIOUS
      <4> QED BY <1>r, <2>2, <2>3, <4>1
    <3> QED BY <1>t, <2>1, <2>3, <3>1, <3>2, Launching
  <2>5. /\ toggle' \in [ToggleNames -> Switch] /\ toggle'["airplane"] = "off"
        /\ \A r \in {"wifi", "bluetooth"} : toggle'[r] = meantRadio'[r]
    BY <1>t, <1>r, <2>0, <2>1 DEF ToggleNames
  <2>6. ASSUME NEW r \in Radios PROVE (r = "wwan" /\ mislaid) \/ Settles(r, meantRadio[r])'
    <3>0. PICK v : v = keptValues[r]
      OBVIOUS
    <3>1. (r = "wwan" /\ mislaid) \/ meantRadio'[r] = v
      BY <1>r, <2>0, <2>1, <3>0
    <3>2. Settles(r, v)'
      BY <2>4, <3>0
    <3> QED BY <3>1, <3>2 DEF Settles
  <2>7. launched' \in Seq(Command)
    BY <1>r, <2>4
  <2> QED BY <1>t, <2>1, <2>5, <2>6, <2>7 DEF RadioInv, RadioTypes
<1>4. ASSUME NEW i \in DOMAIN launched, NEW works \in BOOLEAN, CommandEnds(i, works) PROVE RadioInv'
  <2>1. UNCHANGED <<toggle, keptValues, meantRadio, mislaid>>
    BY <1>4 DEF CommandEnds
  <2>2. /\ launched' \in Seq(Command) /\ radio' \in [Radios -> Switch] /\ astray \subseteq astray'
        /\ astray' \subseteq Radios
        /\ \A r \in Radios \ astray' : \A v : Settles(r, v) => Settles(r, v)'
    BY <1>4, <1>t, Ending
  <2>3. RadioTypes'
    BY <2>1, <2>2 DEF RadioInv, RadioTypes
  <2>4. CASE toggle["airplane"] = "off"
    <3>1. ASSUME NEW r \in Radios \ astray' PROVE (r = "wwan" /\ mislaid) \/ Settles(r, meantRadio[r])'
      <4>0. PICK v : v = meantRadio[r]
        OBVIOUS
      <4>1. (r = "wwan" /\ mislaid) \/ Settles(r, v)
        BY <2>2, <2>4, <4>0 DEF RadioInv
      <4>2. ((r = "wwan" /\ mislaid) \/ Settles(r, v)') /\ meantRadio'[r] = v
        BY <2>1, <2>2, <4>0, <4>1
      <4> QED BY <4>2 DEF Settles
    <3> QED BY <2>1, <2>3, <2>4, <3>1 DEF RadioInv
  <2>5. CASE toggle["airplane"] = "on"
    <3>1. ASSUME NEW r \in Radios \ astray' PROVE Settles(r, "off")'
      BY <2>2, <2>5 DEF RadioInv
    <3> QED BY <2>1, <2>2, <2>3, <2>5, <3>1 DEF RadioInv
  <2> QED BY <1>t, <2>4, <2>5
<1>5. CASE TogglesNightLight
  BY <1>5, <1>0, <1>t DEF TogglesNightLight, Other, ToggleNames, Switch, AfterFailure
<1>9. CASE SunsetExits
  BY <1>9, <1>0, <1>t DEF SunsetExits
<1>6. CASE TogglesFocus
  BY <1>6, <1>0, <1>t DEF TogglesFocus, Other, ToggleNames, Switch, AfterFailure
<1>7. CASE LevelsNext
  BY <1>7, <1>0, <1>t DEF LevelsNext, LevelChanges, FlushLevels, MixerEnds, PanelOpens, ApplyLevels, toggleVars
<1>8. CASE UNCHANGED quickVars
  BY <1>8, <1>0, <1>t DEF quickVars, toggleVars
<1> QED BY <1>1, <1>2, <1>3, <1>4, <1>5, <1>6, <1>7, <1>8, <1>9 DEF TogglesNext

\* Every step keeps what is shown of Focus, the night light and the volume true.
LEMMA ModesInvKept ==
    ASSUME ModesInv, RadioTypes, [TogglesNext \/ LevelsNext]_quickVars
    PROVE  ModesInv'
<1>1. ASSUME toggle' \in [ToggleNames -> Switch], UNCHANGED <<sunset, quiet>>,
             \A n \in {"focus", "night_light"} : toggle'[n] = toggle[n]
      PROVE  ModesInv'
  BY <1>1 DEF ModesInv
<1>2. ASSUME NEW name \in {"wifi", "bluetooth"}, TogglesRadio(name) PROVE ModesInv'
  BY <1>1, <1>2 DEF TogglesRadio, Other, ToggleNames, Switch, ModesInv
<1>3. CASE AirplaneOn
  BY <1>1, <1>3 DEF AirplaneOn, ToggleNames, Switch, ModesInv
<1>4. CASE AirplaneOff
  <2>0. PICK restored \in [Radios -> Switch] :
            toggle' = [toggle EXCEPT !["airplane"] = "off", !["wifi"] = restored["wifi"], !["bluetooth"] = restored["bluetooth"]]
    <3>1. [r \in Radios |-> "off"] \in [Radios -> Switch]
      BY DEF Switch
    <3> QED BY <1>4, <3>1 DEF AirplaneOff, RadioTypes
  <2>1. restored["wifi"] \in Switch /\ restored["bluetooth"] \in Switch
    BY DEF Radios
  <2>2. toggle' \in [ToggleNames -> Switch] /\ \A n \in {"focus", "night_light"} : toggle'[n] = toggle[n]
    BY <2>0, <2>1 DEF ToggleNames, Switch, ModesInv
  <2>3. UNCHANGED <<sunset, quiet>>
    BY <1>4 DEF AirplaneOff
  <2> QED BY <1>1, <2>2, <2>3
<1>5. ASSUME NEW i \in DOMAIN launched, NEW works \in BOOLEAN, CommandEnds(i, works) PROVE ModesInv'
  BY <1>1, <1>5 DEF CommandEnds, ModesInv
<1>6. CASE TogglesNightLight
  BY <1>6 DEF TogglesNightLight, Other, ToggleNames, Switch, AfterFailure, ModesInv
<1>9. CASE SunsetExits
  BY <1>9 DEF SunsetExits, ModesInv
<1>7. CASE TogglesFocus
  BY <1>7 DEF TogglesFocus, Other, ToggleNames, Switch, AfterFailure, ModesInv
<1>8. CASE LevelsNext \/ UNCHANGED quickVars
  BY <1>8, <1>1 DEF LevelsNext, LevelChanges, FlushLevels, MixerEnds, PanelOpens, ApplyLevels, toggleVars, quickVars, ModesInv
<1> QED BY <1>2, <1>3, <1>4, <1>5, <1>6, <1>7, <1>8, <1>9 DEF TogglesNext

\* No step passes the bounds on presses, slides and choices.
LEMMA PressesInvKept ==
    ASSUME PressesInv, [TogglesNext \/ LevelsNext]_quickVars
    PROVE  PressesInv'
<1>1. MaxToggles \in Nat
  BY QuickConstants
<1>2. presses' = presses \/ (presses < MaxToggles /\ presses' = presses + 1)
  BY DEF TogglesNext, LevelsNext, quickVars, toggleVars, Pressed, TogglesRadio, AirplaneOn, AirplaneOff,
     CommandEnds, TogglesNightLight, SunsetExits, TogglesFocus, LevelChanges, FlushLevels, MixerEnds, PanelOpens,
     ApplyLevels
<1> QED BY <1>1, <1>2, CountUp DEF PressesInv

\* Levels that were left, set or read.
LEMMA LevelsInvKept ==
    ASSUME LevelsInv, FlushInv, [TogglesNext \/ LevelsNext]_quickVars
    PROVE  LevelsInv' /\ FlushInv'
<1>0. MaxSlides \in Nat
  BY QuickConstants
<1>1. CASE LevelChanges
  <2>1. /\ slides < MaxSlides /\ slides' = slides + 1 /\ slider' = slides + 1 /\ chosen' = slides + 1
        /\ pendingLevel' = <<chosen'>> /\ levelTimer' = "on"
        /\ UNCHANGED <<volume, fetches, mixers, slipped>>
    BY <1>1 DEF LevelChanges, Slides
  <2>2. slides \in 0..MaxSlides
    BY DEF LevelsInv
  <2>3. slides + 1 \in 0..MaxSlides
    BY <1>0, <2>1, <2>2
  <2>4. LevelsInv'
    BY <2>1, <2>3 DEF LevelsInv, Levels
  <2>5. FlushInv'
    BY <2>1, <2>3 DEF FlushInv, Switch, Levels
  <2> QED BY <2>4, <2>5
<1>2. CASE FlushLevels
  <2>1. /\ levelTimer = "on" /\ levelTimer' = "off" /\ mixers' = Append(mixers, chosen) /\ pendingLevel' = <<>>
        /\ slipped' = FALSE /\ UNCHANGED <<slider, volume, fetches, slides, chosen>>
    BY <1>2 DEF FlushLevels, FlushInv
  <2>2. /\ mixers' \in Seq(Levels) /\ Len(mixers') = Len(mixers) + 1 /\ mixers'[Len(mixers) + 1] = chosen
        /\ Len(mixers) \in Nat
    BY <2>1, AppendProperties, LenProperties DEF LevelsInv, FlushInv
  <2>3. mixers' # <<>>
    BY <2>2, EmptySeq
  <2> QED BY <2>1, <2>2, <2>3 DEF LevelsInv, FlushInv, Switch
<1>6. ASSUME NEW i \in DOMAIN mixers, NEW works \in BOOLEAN, MixerEnds(i, works) PROVE LevelsInv' /\ FlushInv'
  <2>1. /\ volume' = (IF works THEN mixers[i] ELSE volume) /\ mixers' = AllBut(mixers, i)
        /\ slipped' = (slipped \/ (i = Len(mixers) /\ (i > 1 \/ ~works)))
        /\ UNCHANGED <<slider, pendingLevel, levelTimer, fetches, slides, chosen>>
    BY <1>6 DEF MixerEnds
  <2>2. /\ Len(mixers) \in Nat /\ i \in 1..Len(mixers) /\ mixers[i] \in Levels /\ mixers # <<>>
        /\ mixers' \in Seq(Levels) /\ Len(mixers') = Len(mixers) - 1
        /\ \A j \in 1..(Len(mixers) - 1) : mixers'[j] = mixers[IF j < i THEN j ELSE j + 1]
    BY <2>1, AllButIs, EmptySeq DEF LevelsInv
  <2>3. LevelsInv'
    BY <2>1, <2>2 DEF LevelsInv
  <2>4. ASSUME levelTimer = "off", ~slipped'
        PROVE  IF mixers' = <<>> THEN volume' = chosen ELSE mixers'[Len(mixers')] = chosen
    <3>1. ~slipped /\ mixers[Len(mixers)] = chosen
      BY <2>1, <2>2, <2>4 DEF FlushInv
    <3>2. CASE i = Len(mixers)
      <4>1. ~(i > 1) /\ works
        BY <2>1, <2>4, <3>2
      <4>2. i = 1 /\ Len(mixers') = 0
        BY <2>2, <3>2, <4>1
      <4>3. mixers' = <<>>
        BY <2>2, <4>2, EmptySeq
      <4> QED BY <2>1, <3>1, <3>2, <4>1, <4>3
    <3>3. CASE i # Len(mixers)
      <4>1. Len(mixers) - 1 \in 1..(Len(mixers) - 1) /\ ~(Len(mixers) - 1 < i) /\ (Len(mixers) - 1) + 1 = Len(mixers)
        BY <2>2, <3>3
      <4>2. mixers'[Len(mixers')] = mixers[Len(mixers)]
        BY <2>2, <4>1
      <4>3. mixers' # <<>>
        BY <2>2, <4>1, EmptySeq
      <4> QED BY <3>1, <4>2, <4>3
    <3> QED BY <3>2, <3>3
  <2> QED BY <2>1, <2>3, <2>4 DEF FlushInv
<1>3. CASE PanelOpens
  <2>1. /\ slides < MaxSlides /\ slides' = slides + 1 /\ fetches' = Append(fetches, volume)
        /\ UNCHANGED <<slider, volume, pendingLevel, levelTimer, mixers, chosen, slipped>>
    BY <1>3 DEF PanelOpens, Slides
  <2>2. slides \in 0..MaxSlides
    BY DEF LevelsInv
  <2>3. slides + 1 \in 0..MaxSlides
    BY <1>0, <2>1, <2>2
  <2>4. fetches' \in Seq(Levels)
    BY <2>1, AppendProperties DEF LevelsInv
  <2> QED BY <2>1, <2>3, <2>4 DEF LevelsInv, FlushInv
<1>4. CASE ApplyLevels
  <2>1. /\ fetches # <<>> /\ slider' \in {Head(fetches), slider} /\ fetches' = Tail(fetches)
        /\ UNCHANGED <<volume, pendingLevel, levelTimer, slides, mixers, chosen, slipped>>
    BY <1>4 DEF ApplyLevels
  <2>2. slider' \in Levels /\ fetches' \in Seq(Levels)
    BY <2>1, HeadTailProperties DEF LevelsInv
  <2> QED BY <2>1, <2>2 DEF LevelsInv, FlushInv
<1>5. UNCHANGED levelVars => LevelsInv' /\ FlushInv'
  BY DEF levelVars, LevelsInv, FlushInv
<1> QED BY <1>1, <1>2, <1>3, <1>4, <1>5, <1>6
        DEF LevelsNext, TogglesNext, quickVars, TogglesRadio, AirplaneOn, AirplaneOff, CommandEnds, TogglesNightLight,
            SunsetExits, TogglesFocus

(* Quick settings: they keep their types; what the buttons show is so, and *)
(* the volume is what was chosen, once everything that was started has     *)
(* ended (set_toggle, _flush_levels): for each radio and for the volume    *)
(* whose newest command has worked and was not overtaken by an older one,  *)
(* as nobody waits for these.                                              *)
THEOREM QuickSettingsAreTrue == QuickSpec => [](QuickTypeOK /\ ControlsAreTrue)
<1>1. QuickInit => RadioInv
  <2> SUFFICES ASSUME QuickInit PROVE RadioInv
    OBVIOUS
  <2>1. /\ radio \in [Radios -> Switch] /\ keptValues = <<>> /\ launched = <<>> /\ mislaid = FALSE
        /\ astray \subseteq {"wifi", "bluetooth"}
        /\ toggle = [n \in ToggleNames |-> IF n \in {"wifi", "bluetooth"} \ astray THEN radio[n] ELSE "off"]
        /\ meantRadio = [r \in Radios |-> IF r \in astray THEN "off" ELSE radio[r]]
    BY DEF QuickInit
  <2>r. /\ meantRadio \in [Radios -> Switch] /\ astray \subseteq Radios
        /\ \A r \in Radios \ astray : meantRadio[r] = radio[r]
    BY <2>1 DEF Switch, Radios
  <2>2. /\ toggle \in [ToggleNames -> Switch] /\ toggle["airplane"] = "off"
        /\ \A r \in {"wifi", "bluetooth"} : toggle[r] = meantRadio[r]
    BY <2>1 DEF ToggleNames, Switch, Radios
  <2>3. launched \in Seq(Command) /\ DOMAIN launched = {}
    BY <2>1
  <2>4. \A r \in Radios \ astray : Settles(r, meantRadio[r])
    BY <2>r, <2>3 DEF Settles
  <2> QED BY <2>1, <2>r, <2>2, <2>3, <2>4 DEF RadioInv, RadioTypes
<1>2. QuickInit => ModesInv
  <2> SUFFICES ASSUME QuickInit PROVE ModesInv
    OBVIOUS
  <2>1. /\ radio \in [Radios -> Switch] /\ sunset = "off" /\ quiet = "off"
        /\ toggle = [n \in ToggleNames |-> IF n \in {"wifi", "bluetooth"} \ astray THEN radio[n] ELSE "off"]
    BY DEF QuickInit
  <2> QED BY <2>1 DEF ModesInv, ToggleNames, Switch, Radios
<1>3. QuickInit => PressesInv /\ LevelsInv
  <2> SUFFICES ASSUME QuickInit PROVE PressesInv /\ LevelsInv
    OBVIOUS
  <2>1. presses = 0 /\ slider = 0 /\ volume = 0 /\ chosen = 0 /\ slides = 0
    BY DEF QuickInit
  <2>2. fetches = <<>> /\ mixers = <<>> /\ slipped = FALSE
    BY DEF QuickInit
  <2>3. 0 \in 0..MaxToggles /\ 0 \in Levels
    BY QuickConstants DEF Levels
  <2> QED BY <2>1, <2>2, <2>3, NoneIs DEF PressesInv, LevelsInv, Levels
<1>4. QuickInit => FlushInv
  <2>1. 0 \in Levels
    BY QuickConstants DEF Levels
  <2> QED BY <2>1 DEF QuickInit, FlushInv, Switch
<1>5. RadioInv /\ ModesInv /\ PressesInv /\ LevelsInv /\ FlushInv => QuickTypeOK
  <2>1. FlushInv => levelTimer \in Switch /\ pendingLevel \in {<<>>} \cup {<<n>> : n \in Levels}
    BY DEF FlushInv, Switch
  <2> QED BY <2>1 DEF RadioInv, RadioTypes, ModesInv, PressesInv, LevelsInv, QuickTypeOK, Command
<1>6. RadioInv /\ ModesInv /\ FlushInv => ControlsAreTrue
  <2> SUFFICES ASSUME RadioInv, ModesInv, FlushInv PROVE ControlsAreTrue
    OBVIOUS
  <2>0. toggle["airplane"] \in {"on", "off"}
    BY DEF RadioInv, RadioTypes, ToggleNames, Switch
  <2>d. launched = <<>> => DOMAIN launched = {}
    OBVIOUS
  <2>1. ASSUME launched = <<>>, NEW r \in Radios \ astray
        PROVE  IF toggle["airplane"] = "on" THEN radio[r] = "off"
               ELSE (r = "wwan" /\ mislaid) \/ radio[r] = meantRadio[r]
    BY <2>0, <2>d, <2>1 DEF RadioInv, Settles
  <2>2. ASSUME launched = <<>>, NEW r \in {"wifi", "bluetooth"} \ astray PROVE toggle[r] = radio[r]
    <3>1. r \in Radios \ astray /\ r # "wwan"
      BY <2>2 DEF Radios
    <3> QED BY <2>0, <2>1, <2>2, <3>1 DEF RadioInv
  <2>3. levelTimer = "off" /\ mixers = <<>> /\ ~slipped => volume = chosen
    BY DEF FlushInv
  <2> QED BY <2>1, <2>2, <2>3 DEF ControlsAreTrue, ModesInv
<1>7. RadioInv => RadioTypes
  BY DEF RadioInv
<1> QED BY <1>1, <1>2, <1>3, <1>4, <1>5, <1>6, <1>7, RadioInvKept, ModesInvKept, PressesInvKept, LevelsInvKept, PTL
        DEF QuickSpec

-----------------------------------------------------------------------------
(* Window effects.                                                         *)

WindowCounts == pressed \in 0..MaxPresses /\ focuses \in 0..MaxFocuses

\* No step passes the bounds on key presses and focus changes.
LEMMA WindowCountsKept ==
    ASSUME WindowCounts, [WindowsNext]_windowsVars
    PROVE  WindowCounts'
<1>0. MaxPresses \in Nat /\ MaxFocuses \in Nat
  BY WindowsConstants
<1>1. pressed' = pressed \/ (pressed < MaxPresses /\ pressed' = pressed + 1)
  BY DEF WindowsNext, windowsVars, UserFocuses, WindowCloses, Press, Reads, CancelsEffect, Confirms, Dispatches, Sets, Picks
<1>2. focuses' = focuses \/ (focuses < MaxFocuses /\ focuses' = focuses + 1)
  BY DEF WindowsNext, windowsVars, UserFocuses, WindowCloses, Press, Reads, CancelsEffect, Confirms, Dispatches, Sets, Picks
<1>3. pressed' \in 0..MaxPresses
  BY <1>0, <1>1, CountUp DEF WindowCounts
<1>4. focuses' \in 0..MaxFocuses
  BY <1>0, <1>2, CountUp DEF WindowCounts
<1> QED BY <1>3, <1>4 DEF WindowCounts

\* The focus history is a list of the open windows.
HistoryInv ==
    /\ recent \in Seq(WindowIds) /\ IsInjective(recent)
    /\ scratch \subseteq WindowIds

\* How far the switches in a row have come.
BackInv ==
    /\ back = [from |-> back.from, times |-> back.times, stayed |-> "never"]
    /\ back.times \in {0, 1, 2}
    /\ back.times = 0 /\ recent # <<>> => back.from = recent[1]
    /\ back.times = 1 =>
           /\ recent # <<>> /\ recent[1] # back.from /\ recent[1] \notin scratch
           /\ back.from \notin scratch => Len(recent) > 1 /\ recent[2] = back.from
    /\ back.times = 2 /\ back.from \notin scratch => recent[1] = back.from

\* The windows shown, in order.
Behind(i) == Cardinality({j \in Shown : j < i})

\* The windows the switcher shows are finitely many places of the history.
LEMMA ShownAre ==
    ASSUME HistoryInv
    PROVE  /\ IsFiniteSet(Shown) /\ Cardinality(Shown) \in Nat /\ Len(recent) \in Nat
           /\ Shown \subseteq 1..Len(recent) /\ Shown \subseteq Nat
           /\ \A i : IsFiniteSet({j \in Shown : j < i}) /\ Behind(i) \in Nat
           /\ \A i \in 1..Len(recent) : recent[i] \in WindowIds
<1>1. Len(recent) \in Nat /\ \A i \in 1..Len(recent) : recent[i] \in WindowIds
  BY LenProperties, ElementOfSeq DEF HistoryInv
<1>2. IsFiniteSet(1..Len(recent))
  BY <1>1, FS_Interval
<1>3. Shown \subseteq 1..Len(recent)
  BY DEF Shown
<1>4. ASSUME NEW T \in SUBSET Shown PROVE IsFiniteSet(T) /\ Cardinality(T) \in Nat
  BY <1>2, <1>3, FS_Subset, FS_CardinalityType
<1>5. \A i : {j \in Shown : j < i} \subseteq Shown
  OBVIOUS
<1>6. \A i : IsFiniteSet({j \in Shown : j < i}) /\ Behind(i) \in Nat
  BY <1>4, <1>5 DEF Behind
<1>7. Shown \subseteq Nat
  BY <1>1, <1>3
<1> QED BY <1>1, <1>3, <1>4, <1>6, <1>7

\* A window that was focused earlier has more windows before it.
LEMMA BehindGrows ==
    ASSUME HistoryInv, NEW i \in Shown, NEW j \in Shown, i < j
    PROVE  Behind(i) < Behind(j)
<1> DEFINE P == {k \in Shown : k < i}
           Q == {k \in Shown : k < j}
<1>1. IsFiniteSet(P) /\ IsFiniteSet(Q) /\ Cardinality(P) \in Nat /\ Cardinality(Q) \in Nat
  BY ShownAre DEF Behind
<1>2. P \subseteq Q /\ i \in Q /\ i \notin P
  BY ShownAre
<1> HIDE DEF P, Q
<1>3. Cardinality(P) <= Cardinality(Q) /\ (Cardinality(Q) = Cardinality(P) => Q = P)
  BY <1>1, <1>2, FS_Subset
<1>4. Cardinality(P) < Cardinality(Q)
  BY <1>1, <1>2, <1>3
<1> QED BY <1>4 DEF Behind, P, Q

\* Fewer windows are before one than are shown.
LEMMA BehindBounded ==
    ASSUME HistoryInv, NEW i \in Shown
    PROVE  Behind(i) \in 0..(Cardinality(Shown) - 1)
<1> DEFINE P == {k \in Shown : k < i}
<1>1. IsFiniteSet(P) /\ Cardinality(P) \in Nat /\ IsFiniteSet(Shown) /\ Cardinality(Shown) \in Nat
  BY ShownAre DEF Behind
<1>2. P \subseteq Shown /\ i \in Shown /\ i \notin P
  BY ShownAre
<1> HIDE DEF P
<1>3. Cardinality(P) <= Cardinality(Shown) /\ (Cardinality(Shown) = Cardinality(P) => Shown = P)
  BY <1>1, <1>2, FS_Subset
<1>4. Cardinality(P) < Cardinality(Shown)
  BY <1>1, <1>2, <1>3
<1>5. Cardinality(P) \in 0..(Cardinality(Shown) - 1)
  BY <1>1, <1>4
<1> QED BY <1>5 DEF Behind, P

\* Every place of the switcher's list is taken by some window.
LEMMA EveryPlace ==
    ASSUME HistoryInv, NEW k \in 1..Cardinality(Shown)
    PROVE  \E i \in Shown : Behind(i) = k - 1
<1> DEFINE n == Cardinality(Shown)
           f == [i \in Shown |-> Behind(i)]
<1>0. n \in Nat
  BY ShownAre
<1>2. f \in [Shown -> 0..(n - 1)]
  BY BehindBounded
<1>3. ASSUME NEW s \in Shown, NEW t \in Shown, f[s] = f[t] PROVE s = t
  <2>1. Behind(s) = Behind(t) /\ Behind(s) \in Nat /\ s \in Nat /\ t \in Nat
    BY <1>3, ShownAre
  <2>2. ~(Behind(s) < Behind(t)) /\ ~(Behind(t) < Behind(s))
    BY <2>1
  <2>3. ~(s < t) /\ ~(t < s)
    BY <2>2, BehindGrows
  <2> QED BY <2>1, <2>3
<1> HIDE DEF f
<1>4. f \in Injection(Shown, 0..(n - 1))
  BY <1>2, <1>3 DEF Injection, IsInjective
<1>5. IsFiniteSet(0..(n - 1)) /\ Cardinality(0..(n - 1)) = n
  <2>1. 0 \in Int /\ n - 1 \in Int /\ (IF 0 > n - 1 THEN 0 ELSE n - 1 - 0 + 1) = n
    BY <1>0
  <2>2. /\ IsFiniteSet(0..(n - 1))
        /\ Cardinality(0..(n - 1)) = IF 0 > n - 1 THEN 0 ELSE n - 1 - 0 + 1
    BY <2>1, FS_Interval
  <2> QED BY <2>1, <2>2
<1>6. f \in Surjection(Shown, 0..(n - 1))
  BY <1>4, <1>5, FS_Injection
<1>7. k - 1 \in 0..(n - 1)
  BY <1>0
<1>8. \E s \in Shown : f[s] = k - 1
  BY <1>6, <1>7 DEF Surjection
<1> QED BY <1>8 DEF f

\* The second window shown is not the focused one; if the first two of the
\* history are shown it is the second of those.
LEMMA VisibleIs ==
    ASSUME HistoryInv
    PROVE  /\ Visible \in Seq(WindowIds)
           /\ Len(Visible) > 1 =>
                  /\ recent # <<>> /\ Visible[2] # recent[1] /\ Visible[2] \notin scratch
                  /\ recent[1] \notin scratch /\ Len(recent) > 1 /\ recent[2] \notin scratch =>
                         Visible[2] = recent[2]
<1> DEFINE n == Cardinality(Shown)
           Place(k) == CHOOSE i \in Shown : Behind(i) = k - 1
           f == [k \in 1..n |-> recent[Place(k)]]
<1>0. /\ n \in Nat /\ Len(recent) \in Nat /\ Shown \subseteq 1..Len(recent) /\ Shown \subseteq Nat
      /\ \A i \in 1..Len(recent) : recent[i] \in WindowIds
  BY ShownAre
<1>1. \A k \in 1..n : Place(k) \in Shown /\ Behind(Place(k)) = k - 1
  BY EveryPlace
<1> HIDE DEF Place
<1>2. f = Visible
  BY DEF Visible, Behind, Place
<1>3. f \in [1..n -> WindowIds] /\ \A k \in 1..n : f[k] = recent[Place(k)]
  BY <1>0, <1>1
<1> HIDE DEF f
<1>4. f \in Seq(WindowIds) /\ Len(f) = n
  <2>1. f \in Seq(WindowIds)
    BY <1>0, <1>3, SeqDef
  <2>2. DOMAIN f = 1..n
    BY <1>3
  <2> QED BY <1>0, <2>1, <2>2, LenProperties
<1>5. ASSUME n > 1
      PROVE  /\ recent # <<>> /\ f[2] # recent[1] /\ f[2] \notin scratch
             /\ recent[1] \notin scratch /\ Len(recent) > 1 /\ recent[2] \notin scratch => f[2] = recent[2]
  <2>0. 2 \in 1..n /\ 2 - 1 = 1
    BY <1>0, <1>5
  <2>1. Place(2) \in Shown /\ Behind(Place(2)) = 1 /\ f[2] = recent[Place(2)]
    BY <1>1, <1>3, <2>0
  <2>2. Place(2) \in 1..Len(recent) /\ Place(2) \in Nat /\ recent[Place(2)] \notin scratch
    BY <1>0, <2>1 DEF Shown
  <2>3. 1 \in 1..Len(recent) /\ Len(recent) # 0
    BY <1>0, <2>2
  <2>4. recent # <<>>
    BY <2>3, EmptySeq
  <2>5. Place(2) # 1
    <3> SUFFICES ASSUME Place(2) = 1 PROVE FALSE
      OBVIOUS
    <3>0. \A j \in 1..Len(recent) : ~(j < 1)
      BY <1>0
    <3>1. {j \in Shown : j < 1} = {}
      BY <1>0, <3>0
    <3>2. Behind(1) = 0
      BY <3>1, FS_EmptySet DEF Behind
    <3> QED BY <2>1, <3>2
  <2>6. \A i, j \in 1..Len(recent) : recent[i] = recent[j] => i = j
    BY InjectiveMeans DEF HistoryInv
  <2>7. recent[Place(2)] # recent[1]
    BY <2>2, <2>3, <2>5, <2>6
  <2>8. ASSUME recent[1] \notin scratch, Len(recent) > 1, recent[2] \notin scratch PROVE f[2] = recent[2]
    <3>1. 1 \in Shown /\ 2 \in Shown
      BY <1>0, <2>8 DEF Shown
    <3>0. \A j \in 1..Len(recent) : j < 2 <=> j = 1
      BY <1>0
    <3>2. {j \in Shown : j < 2} = {1}
      BY <1>0, <3>0, <3>1
    <3>3. Behind(2) = 1
      BY <3>2, FS_Singleton DEF Behind
    <3>4. ~(Behind(2) < Behind(Place(2))) /\ ~(Behind(Place(2)) < Behind(2))
      BY <2>1, <3>3
    <3>5. ~(Place(2) < 2) /\ ~(2 < Place(2))
      BY <2>1, <3>1, <3>4, BehindGrows
    <3>6. Place(2) = 2
      BY <2>2, <3>5
    <3> QED BY <2>1, <3>6
  <2> QED BY <2>1, <2>2, <2>4, <2>7, <2>8
<1> QED BY <1>2, <1>4, <1>5

\* The switcher begins with the window before the active one.
LEMMA OrderedIs ==
    ASSUME HistoryInv
    PROVE  /\ Ordered \in Seq(WindowIds)
           /\ Len(Visible) > 1 => Ordered[1] = Visible[2]
<1>1. Visible \in Seq(WindowIds) /\ Len(Visible) \in Nat
  BY VisibleIs, LenProperties
<1> PICK v : v = Visible
  OBVIOUS
<1>2. CASE Len(v) > 1
  <2>1. v # <<>> /\ 1 \in 1..Len(v)
    BY <1>1, <1>2, EmptySeq
  <2>2. Tail(v) \in Seq(WindowIds) /\ Len(Tail(v)) = Len(v) - 1
        /\ \A i \in 1..Len(Tail(v)) : Tail(v)[i] = v[i + 1]
    BY <1>1, <2>1, HeadTailProperties
  <2>3. 1 \in 1..Len(Tail(v)) /\ 1 + 1 = 2 /\ Len(Tail(v)) \in Nat
    BY <1>1, <1>2, <2>2
  <2>4. Tail(v)[1] = v[2]
    BY <2>2, <2>3
  <2>5. v[1] \in WindowIds
    BY <1>1, <2>1, ElementOfSeq
  <2>6. <<v[1]>> \in Seq(WindowIds) /\ Len(<<v[1]>>) = 1
    BY <2>5
  <2> DEFINE o == Tail(v) \o <<v[1]>>
  <2>7. o \in Seq(WindowIds)
        /\ \A i \in 1..(Len(Tail(v)) + Len(<<v[1]>>)) :
               o[i] = IF i <= Len(Tail(v)) THEN Tail(v)[i] ELSE <<v[1]>>[i - Len(Tail(v))]
    BY <2>2, <2>6, ConcatProperties
  <2>8. 1 \in 1..(Len(Tail(v)) + Len(<<v[1]>>)) /\ 1 <= Len(Tail(v))
    BY <2>3, <2>6
  <2> HIDE DEF o
  <2>9. o[1] = v[2]
    BY <2>4, <2>7, <2>8
  <2>10. Ordered = o
    BY <1>2 DEF Ordered, o
  <2> QED BY <2>7, <2>9, <2>10
<1>3. CASE ~(Len(v) > 1)
  BY <1>1, <1>3 DEF Ordered
<1> QED BY <1>2, <1>3

\* A strip is opened over a window, and its first choice is another one.
LEMMA StripIs ==
    ASSUME HistoryInv, Ordered # <<>>
    PROVE  recent[1] \in WindowIds /\ (Len(Ordered) > 1 => Ordered[1] # recent[1])
<1>0. Visible \in Seq(WindowIds) /\ Len(Visible) \in Nat /\ recent \in Seq(WindowIds) /\ Len(recent) \in Nat
  BY VisibleIs, LenProperties DEF HistoryInv
<1>1. Visible # <<>>
  <2>1. Visible = <<>> => Len(Visible) = 0
    BY NoneIs
  <2>2. ~(Len(Visible) > 1) => Ordered = Visible
    BY DEF Ordered
  <2> QED BY <1>0, <2>1, <2>2
<1>2. recent # <<>>
  <2> SUFFICES ASSUME recent = <<>> PROVE FALSE
    OBVIOUS
  <2>1. Len(recent) = 0
    BY NoneIs
  <2>2. Shown = {}
    BY <2>1 DEF Shown
  <2>3. Cardinality(Shown) = 0
    BY <2>2, FS_EmptySet
  <2>4. DOMAIN Visible = 1..0
    BY <2>3 DEF Visible
  <2>5. Len(Visible) = 0
    BY <1>0, <2>4, LenProperties
  <2> QED BY <1>0, <1>1, <2>5, EmptySeq
<1>3. 1 \in 1..Len(recent)
  BY <1>0, <1>2, EmptySeq
<1>4. recent[1] \in WindowIds
  BY <1>0, <1>3, ElementOfSeq
<1>5. ASSUME Len(Ordered) > 1 PROVE Ordered[1] # recent[1]
  <2>1. Len(Visible) > 1
    BY <1>5 DEF Ordered
  <2>2. Ordered[1] = Visible[2] /\ Visible[2] # recent[1]
    BY <2>1, OrderedIs, VisibleIs
  <2> QED BY <2>2
<1> QED BY <1>4, <1>5

\* What the focus history becomes.
LEMMA FocusedIs ==
    ASSUME HistoryInv, NEW w, Focused(w), UNCHANGED scratch
    PROVE  /\ HistoryInv' /\ ToSet(recent)' = ToSet(recent)
           /\ recent' # <<>> /\ recent'[1] = w /\ w \in WindowIds
           /\ recent # <<>> /\ recent[1] # w => Len(recent') > 1 /\ recent'[2] = recent[1]
<1>1. w \in ToSet(recent) /\ recent' = <<w>> \o RemoveFirst(recent, w)
  BY DEF Focused
<1>2. recent \in Seq(WindowIds) /\ IsInjective(recent) /\ w \in WindowIds
  BY <1>1, ToSetInside DEF HistoryInv
<1>3. /\ RemoveFirst(recent, w) \in Seq(WindowIds) /\ IsInjective(RemoveFirst(recent, w))
      /\ ToSet(RemoveFirst(recent, w)) = ToSet(recent) \ {w}
  BY <1>2, RemoveFirstIs
<1> PICK r : r = RemoveFirst(recent, w)
  OBVIOUS
<1>4. /\ <<w>> \o r \in Seq(WindowIds) /\ Len(<<w>> \o r) = Len(r) + 1 /\ (<<w>> \o r)[1] = w
      /\ \A j \in 1..Len(r) : (<<w>> \o r)[j + 1] = r[j]
      /\ ToSet(<<w>> \o r) = {w} \cup ToSet(r)
      /\ IsInjective(r) /\ w \notin ToSet(r) => IsInjective(<<w>> \o r)
  BY <1>2, <1>3, InFrontIs
<1>5. recent' = <<w>> \o r
  BY <1>1
<1>6. HistoryInv' /\ ToSet(recent)' = ToSet(recent)
  BY <1>1, <1>3, <1>4, <1>5 DEF HistoryInv
<1>7. Len(r) \in Nat
  BY <1>3, LenProperties
<1>8. recent' # <<>> /\ recent'[1] = w
  <2>1. Len(recent') # 0
    BY <1>4, <1>5, <1>7
  <2> QED BY <1>4, <1>5, <2>1, EmptySeq
<1>9. ASSUME recent # <<>>, recent[1] # w PROVE Len(recent') > 1 /\ recent'[2] = recent[1]
  <2>1. r # <<>> /\ r[1] = recent[1]
    BY <1>2, <1>9, FirstStays
  <2>2. Len(r) # 0
    BY <1>3, <2>1, EmptySeq
  <2>3. 1 \in 1..Len(r) /\ 1 + 1 = 2
    BY <1>7, <2>2
  <2>4. (<<w>> \o r)[2] = r[1]
    BY <1>4, <2>3
  <2>5. Len(<<w>> \o r) > 1
    BY <1>4, <1>7, <2>2
  <2> QED BY <1>5, <2>1, <2>4, <2>5
<1> QED BY <1>2, <1>6, <1>8, <1>9

\* A new beginning.
LEMMA BeginsAgain ==
    ASSUME BackInv, back' = Forgotten
    PROVE  BackInv'
<1>0. back.stayed = "never"
  BY DEF BackInv
<1>1. back' = [from |-> back'.from, times |-> 0, stayed |-> "never"] /\ back'.times = 0
  BY <1>0 DEF Forgotten
<1>2. recent' # <<>> => back'.from = recent'[1]
  BY DEF Forgotten
<1> QED BY <1>1, <1>2 DEF BackInv

\* A switch to the second window shown.
LEMMA Switched ==
    ASSUME HistoryInv, BackInv, Len(Visible) > 1, NEW w, w = Visible[2], Focused(w), UNCHANGED scratch,
           back.times < 2, back' = [back EXCEPT !.times = @ + 1]
    PROVE  BackInv'
<1>1. /\ recent # <<>> /\ w # recent[1] /\ w \notin scratch
      /\ recent[1] \notin scratch /\ Len(recent) > 1 /\ recent[2] \notin scratch => w = recent[2]
  BY VisibleIs
<1>2. recent' # <<>> /\ recent'[1] = w /\ Len(recent') > 1 /\ recent'[2] = recent[1]
  BY <1>1, FocusedIs
<1> PICK a, t : a = back.from /\ t = back.times
  OBVIOUS
<1>3. back = [from |-> a, times |-> t, stayed |-> "never"]
  BY DEF BackInv
<1>4. t = 0 \/ t = 1
  BY DEF BackInv
<1>5. CASE t = 0
  <2>1. back' = [from |-> a, times |-> 1, stayed |-> "never"]
    BY <1>3, <1>5
  <2>2. back'.from = a /\ back'.times = 1 /\ a = recent[1]
    BY <1>1, <1>5, <2>1 DEF BackInv
  <2> QED BY <1>1, <1>2, <2>1, <2>2 DEF BackInv
<1>6. CASE t = 1
  <2>1. back' = [from |-> a, times |-> 2, stayed |-> "never"]
    BY <1>3, <1>6
  <2>2. back'.from = a /\ back'.times = 2
    BY <2>1
  <2>3. a \notin scratch => w = a
    BY <1>1, <1>6 DEF BackInv
  <2> QED BY <1>2, <2>1, <2>2, <2>3 DEF BackInv
<1> QED BY <1>4, <1>5, <1>6

\* What a step may be.
LEMMA WindowsSteps ==
    ASSUME [WindowsNext]_windowsVars
    PROVE  \/ \E w \in WindowIds : UserFocuses(w) \/ WindowCloses(w)
           \/ \E p \in Presses : \E what \in EffectKinds, side \in {"none", "pip"} \cup Sides \cup Zooms :
                  /\ Press(p, what, side)
                  /\ what = "snap" => side \in Sides
                  /\ what = "pip" => side = "pip"
           \/ \E p \in Presses : \E side \in Sides : Picks(p, side)
           \/ \E p \in Presses : Reads(p) \/ CancelsEffect(p) \/ (Sets(p) /\ UNCHANGED <<pressed, focuses, back, floatedFirst>>)
           \/ \E p \in Presses : \E i \in DOMAIN effect[p].list : Confirms(p, i)
           \/ \E p \in Presses :
                  Dispatches(p) /\ UNCHANGED <<scratch, recent, factor, pressed, focuses, back, floatedFirst>>
           \/ UNCHANGED windowsVars
  BY DEF WindowsNext, EffectKinds

EffectSteps == {"ended", "reads", "chooses", "floats", "sizes", "moves", "pins", "unpins", "tiles", "sets"}

\* What a process does, and for which side.
EffectOK(e) ==
    /\ e \in [does : {"none"} \cup EffectKinds, at : EffectSteps, list : Seq(WindowIds),
              saw : {"none"} \cup 4..16 \cup WindowIds, side : {"none", "pip"} \cup Sides \cup Zooms]
    /\ e.at = "sets" => e.saw \in 4..16
    /\ e.at = "chooses" /\ e.does = "switcher" /\ Len(e.list) > 1 => e.list[1] # e.saw
    /\ e.at \in {"sizes", "moves", "floats"} => e.does \in {"snap", "pip"}
    /\ e.does = "snap" => e.side \in Sides
    /\ e.does = "pip" => e.side = "pip"

\* Every process is at a possible point.
EffectsInv == effect = [p \in Presses |-> effect[p]] /\ \A p \in Presses : EffectOK(effect[p])

\* Every step keeps the focus history one of the open windows, without doubles.
LEMMA HistoryKept ==
    ASSUME HistoryInv, BackInv, EffectsInv, [WindowsNext]_windowsVars
    PROVE  HistoryInv' /\ BackInv'
<1>0. ASSUME UNCHANGED <<recent, back, scratch>> PROVE HistoryInv' /\ BackInv'
  BY <1>0 DEF HistoryInv, BackInv
<1>1. ASSUME NEW w \in WindowIds, UserFocuses(w) PROVE HistoryInv' /\ BackInv'
  BY <1>1, FocusedIs, BeginsAgain DEF UserFocuses
<1>2. ASSUME NEW w \in WindowIds, WindowCloses(w) PROVE HistoryInv' /\ BackInv'
  <2>1. recent' = RemoveFirst(recent, w) /\ UNCHANGED scratch /\ back' = Forgotten
    BY <1>2 DEF WindowCloses
  <2>2. HistoryInv'
    BY <2>1, RemoveFirstIs DEF HistoryInv
  <2> QED BY <2>1, <2>2, BeginsAgain
<1>3. ASSUME NEW p \in Presses, NEW i \in DOMAIN effect[p].list, Confirms(p, i) PROVE HistoryInv' /\ BackInv'
  <2> PICK w : w = effect[p].list[i]
    OBVIOUS
  <2>1. UNCHANGED scratch
    BY <1>3 DEF Confirms
  <2>2. CASE UNCHANGED <<recent, back>>
    BY <1>0, <2>1, <2>2
  <2>s. (i = 1 /\ Len(effect[p].list) > 1 /\ w = effect[p].saw) = FALSE
    <3>1. EffectOK(effect[p]) /\ effect[p].at = "chooses" /\ effect[p].does = "switcher"
      BY <1>3 DEF Confirms, EffectsInv
    <3> QED BY <3>1 DEF EffectOK
  <2>3. CASE Focused(w) /\ back' = Forgotten
    BY <2>1, <2>3, FocusedIs, BeginsAgain
  <2>4. CASE /\ Focused(w) /\ i = 1 /\ back.times < 2 /\ Len(Visible) > 1 /\ effect[p].list = Ordered
             /\ back' = [back EXCEPT !.times = @ + 1]
    <3>1. w = Visible[2]
      BY <2>4, OrderedIs
    <3> QED BY <2>1, <2>4, <3>1, FocusedIs, Switched
  <2> DEFINE next == IF i = 1 /\ back.times < 2 /\ Len(Visible) > 1 /\ effect[p].list = Ordered
                     THEN [back EXCEPT !.times = @ + 1] ELSE Forgotten
  <2>5. next = [from |-> next.from, times |-> next.times, stayed |-> "never"]
    <3>1. back = [from |-> back.from, times |-> back.times, stayed |-> "never"]
      BY DEF BackInv
    <3>2. back.stayed = "never"
      BY <3>1
    <3>3. Forgotten = [from |-> Forgotten.from, times |-> Forgotten.times, stayed |-> "never"]
      BY <3>2 DEF Forgotten
    <3>4. [back EXCEPT !.times = @ + 1] = [from |-> back.from, times |-> back.times + 1, stayed |-> "never"]
      BY <3>1
    <3> QED BY <3>3, <3>4
  <2> HIDE DEF next
  <2>6. \A x : x = FALSE => [next EXCEPT !.stayed = IF x THEN "once" ELSE @] = next
    BY <2>5
  <2>7. UNCHANGED <<recent, back>> \/ (Focused(w) /\ back' = next)
    BY <1>3, <2>s, <2>6 DEF Confirms, next
  <2> QED BY <2>2, <2>3, <2>4, <2>7 DEF next
<1>4. ASSUME NEW p \in Presses, NEW what, NEW side, Press(p, what, side) PROVE HistoryInv' /\ BackInv'
  BY <1>0, <1>4 DEF Press, Hyprland
<1>5. ASSUME NEW p \in Presses, NEW side, Picks(p, side) PROVE HistoryInv' /\ BackInv'
  BY <1>0, <1>5 DEF Picks, Hyprland
<1>6. ASSUME NEW p \in Presses, Reads(p) \/ CancelsEffect(p) \/ (Sets(p) /\ UNCHANGED <<pressed, focuses, back, floatedFirst>>)
      PROVE  HistoryInv' /\ BackInv'
  BY <1>0, <1>6 DEF Reads, CancelsEffect, Sets, Hyprland
<1>7. CASE UNCHANGED windowsVars
  BY <1>0, <1>7 DEF windowsVars
<1>8. ASSUME NEW p \in Presses, UNCHANGED <<scratch, recent, factor, pressed, focuses, back, floatedFirst>>
      PROVE  HistoryInv' /\ BackInv'
  BY <1>0, <1>8
<1> QED BY <1>1, <1>2, <1>3, <1>4, <1>5, <1>6, <1>7, <1>8, WindowsSteps

\* So it is when the session starts.
LEMMA HistoryStart == WindowsInit => HistoryInv /\ BackInv /\ recent # <<>> /\ ToSet(recent) = WindowIds
<1> SUFFICES ASSUME WindowsInit PROVE HistoryInv /\ BackInv /\ recent # <<>> /\ ToSet(recent) = WindowIds
  OBVIOUS
<1>0. IsFiniteSet(WindowIds) /\ WindowIds # {}
  BY WindowsConstants
<1> DEFINE n == Cardinality(WindowIds)
<1>1. n \in Nat /\ n # 0 /\ ExistsBijection(1..n, WindowIds)
  BY <1>0, FS_CardinalityType, FS_EmptySet
<1>2. \E f \in [1..n -> WindowIds] : IsInjective(f)
  <2>1. PICK f \in Bijection(1..n, WindowIds) : TRUE
    BY <1>1 DEF ExistsBijection
  <2> QED BY <2>1 DEF Bijection, Injection
<1>3. recent = CHOOSE f \in [1..n -> WindowIds] : IsInjective(f)
  BY DEF WindowsInit, SetToSeq
<1>4. recent \in [1..n -> WindowIds] /\ IsInjective(recent)
  BY <1>2, <1>3
<1>5. recent \in Seq(WindowIds) /\ Len(recent) = n
  <2>1. recent \in Seq(WindowIds)
    BY <1>1, <1>4, SeqDef
  <2>2. DOMAIN recent = 1..n
    BY <1>4
  <2> QED BY <1>1, <2>1, <2>2, LenProperties
<1>6. recent # <<>>
  BY <1>1, <1>5, EmptySeq
<1>7. ToSet(recent) = WindowIds
  <2>1. recent \in Injection(1..n, WindowIds)
    BY <1>4 DEF Injection
  <2>2. Cardinality(1..n) = n
    BY <1>1, FS_Interval
  <2>3. recent \in Surjection(1..n, WindowIds)
    BY <1>0, <2>1, <2>2, FS_Injection
  <2>4. \A w \in WindowIds : \E i \in 1..n : recent[i] = w
    BY <2>3 DEF Surjection
  <2>5. ToSet(recent) = {recent[i] : i \in 1..n}
    BY <1>5, ToSetIs
  <2> QED BY <1>4, <2>4, <2>5
<1>8. HistoryInv
  BY <1>4, <1>5 DEF HistoryInv, WindowsInit
<1>9. BackInv
  BY <1>6 DEF BackInv, WindowsInit
<1> QED BY <1>6, <1>7, <1>8, <1>9

\* The invariant gives the property.
LEMMA HistoryReturns == BackInv => AltTabReturns
  BY DEF BackInv, AltTabReturns

\* A list that is not empty has a first place.
LEMMA TailKeepsFirst == \A s \in Seq(WindowIds) : s # <<>> => 1 \in 1..Len(s)
  BY LenProperties, EmptySeq

\* A process that has ended is a possible one.
LEMMA NoEffectOK == EffectOK(NoEffect)
  BY NoneIs DEF EffectOK, NoEffect, EffectSteps, EffectKinds

\* A process that goes on to a possible point keeps the processes' types.
LEMMA EffectChanges ==
    ASSUME EffectsInv, NEW p \in Presses, NEW e, EffectOK(e), effect' = [effect EXCEPT ![p] = e]
    PROVE  EffectsInv'
<1>1. effect' = [q \in Presses |-> IF q = p THEN e ELSE effect[q]]
  BY DEF EffectsInv
<1> QED BY <1>1 DEF EffectsInv

\* The next step of what a process does.
LEMMA EffectGoesOn ==
    ASSUME EffectsInv, NEW p \in Presses, NEW step \in EffectSteps,
           step \in {"sizes", "moves", "floats"} => effect[p].does \in {"snap", "pip"}, step # "sets",
           step = "chooses" => effect[p].does # "switcher", Goes(p, step)
    PROVE  EffectsInv'
<1> PICK e : e = [effect[p] EXCEPT !.at = step]
  OBVIOUS
<1>1. effect' = [effect EXCEPT ![p] = e]
  BY DEF Goes
<1>2. EffectOK(effect[p])
  BY DEF EffectsInv
<1>3. EffectOK(e)
  BY <1>2 DEF EffectOK
<1> QED BY <1>1, <1>3, EffectChanges

\* A process that ends keeps them.
LEMMA EffectEnds ==
    ASSUME EffectsInv, NEW p \in Presses, Ends(p)
    PROVE  EffectsInv'
  BY NoEffectOK, EffectChanges DEF Ends

\* A key press begins a process at a possible point.
LEMMA EffectBegins ==
    ASSUME NEW what \in EffectKinds, NEW side \in {"none", "pip"} \cup Sides \cup Zooms,
           what = "snap" => side \in Sides, what = "pip" => side = "pip"
    PROVE  EffectOK([NoEffect EXCEPT !.does = what, !.at = "reads", !.side = side])
<1> PICK n : n = [NoEffect EXCEPT !.does = what, !.at = "reads", !.side = side]
  OBVIOUS
<1>1. EffectOK(NoEffect)
  BY NoEffectOK
<1>2. EffectOK(n)
  BY <1>1 DEF EffectOK, EffectSteps
<1> QED BY <1>2

\* Every step keeps the types of the processes.
LEMMA EffectsKept ==
    ASSUME HistoryInv, EffectsInv, factor \in 4..16, [WindowsNext]_windowsVars
    PROVE  EffectsInv'
<1>1. ASSUME UNCHANGED effect PROVE EffectsInv'
  BY <1>1 DEF EffectsInv
<1>2. ASSUME NEW w \in WindowIds, UserFocuses(w) \/ WindowCloses(w) PROVE EffectsInv'
  BY <1>1, <1>2 DEF UserFocuses, WindowCloses
<1>3. ASSUME NEW p \in Presses, NEW i \in DOMAIN effect[p].list, Confirms(p, i) PROVE EffectsInv'
  BY <1>3, EffectEnds DEF Confirms
<1>4. ASSUME NEW p \in Presses, NEW what \in EffectKinds, NEW side \in {"none", "pip"} \cup Sides \cup Zooms,
             what = "snap" => side \in Sides, what = "pip" => side = "pip", Press(p, what, side)
      PROVE  EffectsInv'
  BY <1>4, EffectBegins, EffectChanges DEF Press
<1>5. ASSUME NEW p \in Presses, NEW side \in Sides, Picks(p, side) PROVE EffectsInv'
  <2>1. "snap" \in EffectKinds
    BY DEF EffectKinds
  <2> QED BY <1>5, <2>1, EffectBegins, EffectChanges DEF Picks
<1>6. ASSUME NEW p \in Presses, CancelsEffect(p) \/ Sets(p) PROVE EffectsInv'
  BY <1>6, EffectEnds DEF CancelsEffect, Sets
<1>7. ASSUME NEW p \in Presses, Dispatches(p) PROVE EffectsInv'
  <2>1. /\ "sizes" \in EffectSteps /\ "moves" \in EffectSteps /\ "pins" \in EffectSteps /\ "tiles" \in EffectSteps
    BY DEF EffectSteps
  <2>2. EffectOK(effect[p])
    BY DEF EffectsInv
  <2>3. effect[p].at \in {"sizes", "moves", "floats"} => effect[p].does \in {"snap", "pip"}
    BY <2>2 DEF EffectOK
  <2> QED BY <1>7, <2>1, <2>3, EffectGoesOn, EffectEnds DEF Dispatches
<1>8. ASSUME NEW p \in Presses, Reads(p) PROVE EffectsInv'
  <2>0. EffectOK(effect[p])
    BY DEF EffectsInv
  <2> PICK e : e = effect[p]
    OBVIOUS
  <2>1. CASE Ends(p)
    BY <2>1, EffectEnds
  <2>2. CASE e.does = "picker" /\ Goes(p, "chooses")
    <3>1. "chooses" \in EffectSteps
      BY DEF EffectSteps
    <3> QED BY <2>2, <3>1, EffectGoesOn
  <2>3. CASE /\ Ordered # <<>>
             /\ effect' = [effect EXCEPT ![p].list = Ordered, ![p].at = "chooses", ![p].saw = recent[1]]
    <3> PICK o, x : o = Ordered /\ x = recent[1]
      OBVIOUS
    <3> PICK n : n = [[[e EXCEPT !.list = o] EXCEPT !.at = "chooses"] EXCEPT !.saw = x]
      OBVIOUS
    <3>1. effect' = [effect EXCEPT ![p] = n]
      BY <2>3
    <3>2. o \in Seq(WindowIds) /\ x \in WindowIds /\ (Len(o) > 1 => o[1] # x)
      BY <2>3, OrderedIs, StripIs
    <3>3. EffectOK(n)
      BY <2>0, <3>2 DEF EffectOK, EffectSteps
    <3> QED BY <3>1, <3>3, EffectChanges
  <2>4. CASE /\ e.does \in {"snap", "pip"} /\ Active # {}
             /\ effect' = [effect EXCEPT
                   ![p].list = <<recent[1]>>,
                   ![p].at = CASE e.does = "pip" /\ windowMode[recent[1]] = "pinned" -> "unpins"
                               [] windowMode[recent[1]] = "tiled" -> "floats"
                               [] OTHER -> "sizes"]
    <3> PICK step \in {"unpins", "floats", "sizes"} :
            step = CASE e.does = "pip" /\ windowMode[recent[1]] = "pinned" -> "unpins"
                     [] windowMode[recent[1]] = "tiled" -> "floats"
                     [] OTHER -> "sizes"
      OBVIOUS
    <3> PICK o : o = <<recent[1]>>
      OBVIOUS
    <3> PICK n : n = [[e EXCEPT !.list = o] EXCEPT !.at = step]
      OBVIOUS
    <3>1. effect' = [effect EXCEPT ![p] = n]
      BY <2>4
    <3>2. o \in Seq(WindowIds)
      <4>1. recent # <<>> /\ recent \in Seq(WindowIds)
        BY <2>4 DEF Active, HistoryInv
      <4>2. 1 \in 1..Len(recent)
        BY <4>1, TailKeepsFirst
      <4>3. recent[1] \in WindowIds
        BY <4>1, <4>2, ElementOfSeq
      <4> QED BY <4>3
    <3>3. EffectOK(n)
      BY <2>0, <2>4, <3>2 DEF EffectOK, EffectSteps
    <3> QED BY <3>1, <3>3, EffectChanges
  <2>5. CASE \E factorRead \in {factor, 4} : effect' = [effect EXCEPT ![p].at = "sets", ![p].saw = factorRead]
    <3>0. \A factorRead \in {factor, 4} : factorRead \in 4..16
      OBVIOUS
    <3> PICK x \in 4..16 : effect' = [effect EXCEPT ![p].at = "sets", ![p].saw = x]
      BY <2>5, <3>0
    <3> PICK n : n = [[e EXCEPT !.at = "sets"] EXCEPT !.saw = x]
      OBVIOUS
    <3>1. effect' = [effect EXCEPT ![p] = n]
      BY <2>5
    <3>3. EffectOK(n)
      BY <2>0 DEF EffectOK, EffectSteps
    <3> QED BY <3>1, <3>3, EffectChanges
  <2> QED BY <1>8, <2>1, <2>2, <2>3, <2>4, <2>5 DEF Reads
<1>9. CASE UNCHANGED windowsVars
  BY <1>1, <1>9 DEF windowsVars
<1> QED BY <1>2, <1>3, <1>4, <1>5, <1>6, <1>7, <1>8, <1>9, WindowsSteps

Corners == {"free", "origin", "middle", "corner"}
Extents == {"free", "tall", "quarter", "small"}

\* The open windows are those in the history; the rest are types.
LayoutInv ==
    /\ windowMode \in [WindowIds -> Modes]
    /\ place \in [WindowIds -> Corners \X Extents]
    /\ ToSet(recent) = {w \in WindowIds : windowMode[w] # "closed"}
    /\ floatedFirst \subseteq WindowIds
    /\ factor \in 4..16

\* A side of the screen is a corner and an extent.
LEMMA RectIs ==
    ASSUME NEW side \in {"pip"} \cup Sides
    PROVE  Rect(side) \in Corners \X Extents
<1>1. Rect("left") = <<"origin", "tall">> /\ Rect("bottom-right") = <<"middle", "quarter">>
      /\ Rect("pip") = <<"corner", "small">>
  BY DEF Rect
<1> QED BY <1>1 DEF Sides, Corners, Extents

\* Half of a rectangle may be placed before the other half.
LEMMA RectanglePlaced ==
    ASSUME NEW spot \in Corners \X Extents, NEW rect \in Corners \X Extents, NEW k \in {1, 2}
    PROVE  [spot EXCEPT ![k] = rect[k]] \in Corners \X Extents
<1>1. PICK a \in Corners, b \in Extents : spot = <<a, b>>
  OBVIOUS
<1>2. PICK c \in Corners, d \in Extents : rect = <<c, d>>
  OBVIOUS
<1>3. CASE k = 1
  <2>1. [spot EXCEPT ![1] = rect[1]] = <<c, b>>
    BY <1>1, <1>2
  <2> QED BY <1>3, <2>1
<1>4. CASE k = 2
  <2>1. [spot EXCEPT ![2] = rect[2]] = <<a, d>>
    BY <1>1, <1>2
  <2> QED BY <1>4, <2>1
<1> QED BY <1>3, <1>4

\* Floating, tiling and pinning open no window and close none.
LEMMA ModesGoOn ==
    ASSUME LayoutInv, NEW ws, ToggleFloating(ws) \/ Pin(ws), UNCHANGED <<place, recent, floatedFirst, factor>>
    PROVE  LayoutInv'
<1>1. windowMode' \in [WindowIds -> Modes]
      /\ \A w \in WindowIds : windowMode'[w] # "closed" <=> windowMode[w] # "closed"
  <2>1. CASE ToggleFloating(ws)
    BY <2>1 DEF LayoutInv, ToggleFloating, Modes
  <2>2. CASE Pin(ws)
    BY <2>2 DEF LayoutInv, Pin, Modes
  <2> QED BY <2>1, <2>2
<1>2. {w \in WindowIds : windowMode'[w] # "closed"} = {w \in WindowIds : windowMode[w] # "closed"}
  BY <1>1
<1> QED BY <1>1, <1>2 DEF LayoutInv

\* Moving or sizing a window keeps the layout's types.
LEMMA PlacesGoOn ==
    ASSUME LayoutInv, NEW ws, NEW side \in {"pip"} \cup Sides, NEW k \in {1, 2}, Put(ws, k, Rect(side)),
           UNCHANGED <<windowMode, recent, floatedFirst, factor>>
    PROVE  LayoutInv'
<1>1. ASSUME NEW w \in WindowIds PROVE place'[w] \in Corners \X Extents
  BY RectIs, RectanglePlaced DEF LayoutInv, Put
<1>2. place' \in [WindowIds -> Corners \X Extents]
  BY <1>1 DEF Put
<1> QED BY <1>2 DEF LayoutInv

\* Every step keeps the layout's types.
LEMMA LayoutKept ==
    ASSUME HistoryInv, EffectsInv, LayoutInv, [WindowsNext]_windowsVars
    PROVE  LayoutInv'
<1>1. ASSUME UNCHANGED <<windowMode, place, recent, floatedFirst, factor>> PROVE LayoutInv'
  BY <1>1 DEF LayoutInv
<1>2. ASSUME NEW w \in WindowIds, UserFocuses(w) PROVE LayoutInv'
  <2>1. ToSet(recent)' = ToSet(recent) /\ UNCHANGED <<windowMode, place, floatedFirst, factor>>
    BY <1>2, FocusedIs DEF UserFocuses
  <2> QED BY <2>1 DEF LayoutInv
<1>3. ASSUME NEW w \in WindowIds, WindowCloses(w) PROVE LayoutInv'
  <2>1. /\ windowMode' = [windowMode EXCEPT ![w] = "closed"] /\ recent' = RemoveFirst(recent, w)
        /\ place' = [place EXCEPT ![w] = FreePress] /\ floatedFirst' = floatedFirst \ {w}
        /\ UNCHANGED factor
    BY <1>3 DEF WindowCloses
  <2>2. ToSet(recent') = ToSet(recent) \ {w}
    BY <2>1, RemoveFirstIs DEF HistoryInv
  <2>3. windowMode' \in [WindowIds -> Modes] /\ FreePress \in Corners \X Extents
    BY <2>1 DEF LayoutInv, Modes, FreePress, Corners, Extents
  <2>4. place' \in [WindowIds -> Corners \X Extents]
    BY <2>1, <2>3 DEF LayoutInv
  <2>5. {v \in WindowIds : windowMode'[v] # "closed"} = {v \in WindowIds : windowMode[v] # "closed"} \ {w}
    BY <2>1 DEF LayoutInv
  <2> QED BY <2>1, <2>2, <2>3, <2>4, <2>5 DEF LayoutInv
<1>4. ASSUME NEW p \in Presses, NEW i \in DOMAIN effect[p].list, Confirms(p, i) PROVE LayoutInv'
  <2>1. ToSet(recent)' = ToSet(recent) /\ UNCHANGED <<windowMode, place, floatedFirst, factor>>
    <3>1. UNCHANGED recent \/ Focused(effect[p].list[i])
      BY <1>4 DEF Confirms
    <3> QED BY <1>4, <3>1, FocusedIs DEF Confirms
  <2> QED BY <2>1 DEF LayoutInv
<1>5. ASSUME NEW p \in Presses, NEW what, NEW side, Press(p, what, side) PROVE LayoutInv'
  BY <1>1, <1>5 DEF Press, Hyprland
<1>6. ASSUME NEW p \in Presses, NEW side, Picks(p, side) PROVE LayoutInv'
  BY <1>1, <1>6 DEF Picks, Hyprland
<1>7. ASSUME NEW p \in Presses, CancelsEffect(p) PROVE LayoutInv'
  BY <1>1, <1>7 DEF CancelsEffect, Hyprland
<1>8. ASSUME NEW p \in Presses, Reads(p) PROVE LayoutInv'
  <2>1. UNCHANGED <<windowMode, place, recent, factor>>
    BY <1>8 DEF Reads, Hyprland
  <2>2. effect'[p].does = "pip" => recent # <<>>
    <3> SUFFICES ASSUME recent = <<>> PROVE effect'[p].does # "pip"
      OBVIOUS
    <3>1. Active = {} /\ effect = [q \in Presses |-> effect[q]] /\ EffectOK(effect[p])
      BY DEF Active, EffectsInv
    <3>2. CASE Ends(p)
      BY <3>1, <3>2 DEF Ends, NoEffect
    <3>3. CASE ~Ends(p)
      <4> PICK e : e = effect[p]
        OBVIOUS
      <4>1. e.does # "pip"
        BY <1>8, <3>1, <3>3 DEF Reads
      <4>2. \E n : effect' = [effect EXCEPT ![p] = n] /\ n.does = e.does
        <5>1. CASE effect' = [effect EXCEPT ![p].list = Ordered, ![p].at = "chooses", ![p].saw = recent[1]]
          <6> PICK n : n = [[[e EXCEPT !.list = Ordered] EXCEPT !.at = "chooses"] EXCEPT !.saw = recent[1]]
            OBVIOUS
          <6>1. n.does = e.does
            BY <3>1 DEF EffectOK
          <6> QED BY <5>1, <6>1
        <5>2. CASE Goes(p, "chooses")
          <6> PICK n : n = [e EXCEPT !.at = "chooses"]
            OBVIOUS
          <6>1. n.does = e.does
            BY <3>1 DEF EffectOK
          <6> QED BY <5>2, <6>1 DEF Goes
        <5>3. CASE \E factorRead \in {factor, 4} : effect' = [effect EXCEPT ![p].at = "sets", ![p].saw = factorRead]
          <6> PICK x : effect' = [effect EXCEPT ![p].at = "sets", ![p].saw = x]
            BY <5>3
          <6> PICK n : n = [[e EXCEPT !.at = "sets"] EXCEPT !.saw = x]
            OBVIOUS
          <6>1. n.does = e.does
            BY <3>1 DEF EffectOK
          <6> QED BY <5>3, <6>1
        <5> QED BY <1>8, <3>1, <3>3, <5>1, <5>2, <5>3 DEF Reads
      <4> QED BY <3>1, <4>1, <4>2
    <3> QED BY <3>2, <3>3
  <2>3. recent # <<>> => recent[1] \in WindowIds
    BY TailKeepsFirst, ElementOfSeq DEF HistoryInv
  <2>4. \/ floatedFirst' = floatedFirst \/ floatedFirst' = floatedFirst \ {recent[1]}
        \/ (effect'[p].does = "pip" /\ floatedFirst' = floatedFirst \cup {recent[1]})
    BY <1>8 DEF Reads
  <2>5. floatedFirst' \subseteq WindowIds
    BY <2>2, <2>3, <2>4 DEF LayoutInv
  <2> QED BY <2>1, <2>5 DEF LayoutInv
<1>9. ASSUME NEW p \in Presses, Sets(p), UNCHANGED floatedFirst PROVE LayoutInv'
  <2>1. effect[p].at = "sets" /\ factor' \in {NextZoom(effect[p].saw, effect[p].side), factor}
        /\ UNCHANGED <<windowMode, place, recent>>
    BY <1>9 DEF Sets
  <2>2. effect[p].saw \in 4..16
    BY <2>1 DEF EffectsInv, EffectOK
  <2>3. \A q \in 4..16 : /\ (IF q < 16 THEN q + 1 ELSE 16) \in 4..16 /\ (IF q > 4 THEN q - 1 ELSE 4) \in 4..16
                         /\ (IF q > 4 THEN 4 ELSE 8) \in 4..16 /\ 4 \in 4..16
    OBVIOUS
  <2>4. \A q \in 4..16 : \A action : NextZoom(q, action) \in 4..16
    <3> SUFFICES ASSUME NEW q \in 4..16, NEW action PROVE NextZoom(q, action) \in 4..16
      OBVIOUS
    <3>1. CASE action = "in"
      BY <2>3, <3>1 DEF NextZoom
    <3>2. CASE action = "out"
      BY <2>3, <3>2 DEF NextZoom
    <3>3. CASE action = "toggle"
      BY <2>3, <3>3 DEF NextZoom
    <3>4. CASE action \notin {"in", "out", "toggle"}
      BY <2>3, <3>4 DEF NextZoom
    <3> QED BY <3>1, <3>2, <3>3, <3>4
  <2> QED BY <1>9, <2>1, <2>2, <2>4 DEF LayoutInv
<1>10. ASSUME NEW p \in Presses, Dispatches(p), UNCHANGED <<recent, factor, floatedFirst>> PROVE LayoutInv'
  <2> PICK e : e = effect[p]
    OBVIOUS
  <2>0. EffectOK(e)
    BY DEF EffectsInv
  <2>1. e.at \in {"sizes", "moves"} => e.side \in {"pip"} \cup Sides
    BY <2>0 DEF EffectOK
  <2>2. (IF e.does = "pip" THEN 2 ELSE 1) \in {1, 2} /\ 3 - (IF e.does = "pip" THEN 2 ELSE 1) \in {1, 2}
    OBVIOUS
  <2>3. CASE e.at \in {"floats", "pins", "unpins", "tiles"}
    <3>1. PICK ws : UNCHANGED place /\ (ToggleFloating(ws) \/ Pin(ws))
      BY <1>10, <2>3 DEF Dispatches
    <3> QED BY <1>10, <3>1, ModesGoOn
  <2>4. CASE e.at = "sizes"
    <3>1. PICK ws : UNCHANGED windowMode /\ Put(ws, IF e.does = "pip" THEN 2 ELSE 1, Rect(e.side))
      BY <1>10, <2>4 DEF Dispatches
    <3> QED BY <1>10, <2>1, <2>2, <2>4, <3>1, PlacesGoOn
  <2>5. CASE e.at = "moves"
    <3>1. PICK ws : UNCHANGED windowMode /\ Put(ws, 3 - (IF e.does = "pip" THEN 2 ELSE 1), Rect(e.side))
      BY <1>10, <2>5 DEF Dispatches
    <3> QED BY <1>10, <2>1, <2>2, <2>5, <3>1, PlacesGoOn
  <2> QED BY <1>10, <2>3, <2>4, <2>5 DEF Dispatches
<1>11. CASE UNCHANGED windowsVars
  BY <1>1, <1>11 DEF windowsVars
<1> QED BY <1>2, <1>3, <1>4, <1>5, <1>6, <1>7, <1>8, <1>9, <1>10, <1>11, WindowsSteps

WindowsInv == HistoryInv /\ BackInv /\ EffectsInv /\ LayoutInv

\* The whole invariant holds when the session starts.
LEMMA WindowsStart == WindowsInit => WindowsInv /\ WindowCounts
<1> SUFFICES ASSUME WindowsInit PROVE WindowsInv /\ WindowCounts
  OBVIOUS
<1>1. HistoryInv /\ BackInv /\ ToSet(recent) = WindowIds
  BY HistoryStart
<1>2. EffectsInv
  BY NoEffectOK DEF WindowsInit, EffectsInv
<1>3. FreePress \in Corners \X Extents
  BY DEF FreePress, Corners, Extents
<1>4. factor \in 4..16
  BY DEF WindowsInit
<1>5. windowMode \in [WindowIds -> Modes] /\ {w \in WindowIds : windowMode[w] # "closed"} = WindowIds
  BY DEF WindowsInit, Modes
<1>6. LayoutInv
  BY <1>1, <1>3, <1>4, <1>5 DEF LayoutInv, WindowsInit
<1>7. pressed = 0 /\ focuses = 0 /\ MaxPresses \in Nat /\ MaxFocuses \in Nat
  BY WindowsConstants DEF WindowsInit
<1>8. WindowCounts
  BY <1>7 DEF WindowCounts
<1> QED BY <1>1, <1>2, <1>6, <1>8 DEF WindowsInv

\* The invariant has the types.
LEMMA WindowsTypes == WindowsInv /\ WindowCounts => WindowsTypeOK
<1> SUFFICES ASSUME WindowsInv, WindowCounts PROVE WindowsTypeOK
  OBVIOUS
<1>1. DOMAIN effect = Presses
  BY DEF WindowsInv, EffectsInv
<1>2. back.times \in 0..2
  BY DEF WindowsInv, BackInv
<1>3. back.stayed = "never"
  BY DEF WindowsInv, BackInv
<1> QED BY <1>1, <1>2, <1>3 DEF WindowsInv, WindowCounts, WindowsTypeOK, HistoryInv, LayoutInv, Corners, Extents

(* Window switcher: it keeps its types; the first choice of the strip goes *)
(* to another window than the one it was opened over, however stale its    *)
(* list is (run_switcher), and while the list is still true the next       *)
(* switch comes back, with any number of windows and of key presses, each  *)
(* a process of its own.                                                   *)
THEOREM SwitchesReturn == WindowsSpec => [](WindowsTypeOK /\ AltTabReturns)
<1>1. WindowsInv /\ WindowCounts /\ [WindowsNext]_windowsVars => (WindowsInv /\ WindowCounts)'
  <2> SUFFICES ASSUME WindowsInv, WindowCounts, [WindowsNext]_windowsVars PROVE WindowsInv' /\ WindowCounts'
    OBVIOUS
  <2>1. factor \in 4..16
    BY DEF WindowsInv, LayoutInv
  <2> QED BY <2>1, HistoryKept, EffectsKept, LayoutKept, WindowCountsKept DEF WindowsInv
<1>2. WindowsInv /\ WindowCounts => WindowsTypeOK /\ AltTabReturns
  BY WindowsTypes, HistoryReturns DEF WindowsInv
<1> QED BY <1>1, <1>2, WindowsStart, PTL DEF WindowsSpec

-----------------------------------------------------------------------------
(* The Void's trees.  K says what is in each container; what a widget       *)
(* reaches is the least set that is closed under it.                        *)

\* S has what is packed in its containers.
ClosedUnder(K, S) == \A c \in S \cap Containers : K[c] \subseteq S

\* What is packed in t, directly or not.
Reach(K, t) ==
    {w \in Everything : \A S \in SUBSET Everything : t \in S /\ ClosedUnder(K, S) => w \in S}

\* What is reached from a container is the least set that has it and is closed.
LEMMA ReachIs ==
    ASSUME NEW K \in [Containers -> SUBSET Everything], NEW t \in Containers
    PROVE  /\ t \in Reach(K, t) /\ Reach(K, t) \subseteq Everything
           /\ ClosedUnder(K, Reach(K, t))
           /\ \A S \in SUBSET Everything : t \in S /\ ClosedUnder(K, S) => Reach(K, t) \subseteq S
<1>1. t \in Reach(K, t) /\ Reach(K, t) \subseteq Everything
  BY DEF Reach, Everything
<1>2. ASSUME NEW S \in SUBSET Everything, t \in S, ClosedUnder(K, S) PROVE Reach(K, t) \subseteq S
  BY <1>2 DEF Reach
<1>3. ASSUME NEW c \in Reach(K, t) \cap Containers, NEW w \in K[c] PROVE w \in Reach(K, t)
  <2>1. w \in Everything
    OBVIOUS
  <2>2. ASSUME NEW S \in SUBSET Everything, t \in S, ClosedUnder(K, S) PROVE w \in S
    <3>1. c \in S
      BY <1>2, <2>2
    <3> QED BY <2>2, <3>1 DEF ClosedUnder
  <2> QED BY <2>1, <2>2 DEF Reach
<1>4. ClosedUnder(K, Reach(K, t))
  BY <1>3 DEF ClosedUnder
<1> QED BY <1>1, <1>2, <1>4

\* Whatever is reached, but for the root, is in another container that is.
LEMMA ReachEnters ==
    ASSUME NEW K \in [Containers -> SUBSET Everything], NEW t \in Containers,
           NEW x \in Reach(K, t), x # t
    PROVE  \E c \in Reach(K, t) \cap Containers : c # x /\ x \in K[c]
<1> DEFINE S == Reach(K, t) \ {x}
<1> SUFFICES ASSUME \A c \in Reach(K, t) \cap Containers : c # x => x \notin K[c] PROVE FALSE
  OBVIOUS
<1>1. ClosedUnder(K, S)
  BY ReachIs DEF ClosedUnder
<1>2. t \in S /\ S \in SUBSET Everything
  BY ReachIs
<1> QED BY <1>1, <1>2, ReachIs

\* What is reached depends on the containers that are.
LEMMA ReachSame ==
    ASSUME NEW K \in [Containers -> SUBSET Everything], NEW L \in [Containers -> SUBSET Everything],
           NEW t \in Containers, \A c \in Reach(K, t) \cap Containers : L[c] = K[c]
    PROVE  Reach(L, t) = Reach(K, t)
<1>1. ClosedUnder(L, Reach(K, t))
  BY ReachIs DEF ClosedUnder
<1>2. Reach(L, t) \subseteq Reach(K, t)
  BY <1>1, ReachIs
<1>3. ClosedUnder(K, Reach(L, t))
  BY <1>2, ReachIs DEF ClosedUnder
<1>4. Reach(K, t) \subseteq Reach(L, t)
  BY <1>3, ReachIs
<1> QED BY <1>2, <1>4

\* A split: new takes the place of old in p, and has old and leaf.
LEMMA ReachGrows ==
    ASSUME NEW K \in [Containers -> SUBSET Everything], NEW L \in [Containers -> SUBSET Everything],
           NEW t \in Containers, NEW p \in Reach(K, t) \cap Containers, NEW old \in K[p],
           NEW new \in Containers, new # p, K[new] = {}, NEW leaf \in Panes,
           L[p] = (K[p] \ {old}) \cup {new}, L[new] = {old, leaf},
           \A c \in Containers \ {p, new} : L[c] = K[c]
    PROVE  Reach(L, t) = Reach(K, t) \cup {new, leaf}
<1> DEFINE R == Reach(K, t) \cup {new, leaf}
           S == Reach(L, t)
<1>1. Panes \cap Containers = {}
  BY VoidConstants DEF Containers
<1>2. old \in Reach(K, t) /\ t \in R /\ R \in SUBSET Everything
  BY ReachIs DEF ClosedUnder, Everything
<1>3. ASSUME NEW c \in R \cap Containers PROVE L[c] \subseteq R
  <2>1. CASE c = new
    BY <1>2, <2>1
  <2>2. CASE c # new
    <3>1. c \in Reach(K, t) \cap Containers
      BY <1>1, <2>2
    <3>2. K[c] \subseteq Reach(K, t)
      BY <3>1, ReachIs DEF ClosedUnder
    <3>3. L[c] \subseteq K[c] \cup {new}
      BY <2>2
    <3> QED BY <3>2, <3>3
  <2> QED BY <2>1, <2>2
<1>4. S \subseteq R
  <2>1. ClosedUnder(L, R)
    BY <1>3 DEF ClosedUnder
  <2> QED BY <1>2, <2>1, ReachIs
<1>5. t \in S /\ S \in SUBSET Everything /\ \A c \in S \cap Containers : L[c] \subseteq S
  BY ReachIs DEF ClosedUnder
<1> HIDE DEF R, S
<1>6. ASSUME NEW c \in S \cap Containers PROVE K[c] \subseteq S
  <2>1. CASE c = new
    BY <2>1
  <2>2. CASE c = p
    <3>1. new \in S
      BY <1>5, <2>2
    <3>2. old \in S
      BY <1>5, <3>1
    <3> QED BY <1>5, <2>2, <3>2
  <2>3. CASE c \notin {new, p}
    BY <1>5, <2>3
  <2> QED BY <2>1, <2>2, <2>3
<1>7. Reach(K, t) \subseteq S
  <2>1. ClosedUnder(K, S)
    BY <1>6 DEF ClosedUnder
  <2> QED BY <1>5, <2>1, ReachIs
<1>8. new \in S
  BY <1>5, <1>7
<1>9. leaf \in S
  BY <1>5, <1>8
<1> QED BY <1>4, <1>7, <1>8, <1>9 DEF R, S

\* A merge: sibling takes the place of parent in grand, and parent is empty.
LEMMA ReachShrinks ==
    ASSUME NEW K \in [Containers -> SUBSET Everything], NEW L \in [Containers -> SUBSET Everything],
           NEW t \in Containers, NEW grand \in Reach(K, t) \cap Containers,
           NEW parent \in K[grand] \cap Containers, parent # grand, parent # t,
           NEW leaf \in Panes, NEW sibling, sibling # leaf, sibling # parent, K[parent] = {leaf, sibling},
           \A c \in Containers : parent \in K[c] => c = grand,
           \A c \in Containers : leaf \in K[c] => c = parent,
           L[grand] = (K[grand] \ {parent}) \cup {sibling}, L[parent] = {},
           \A c \in Containers \ {grand, parent} : L[c] = K[c]
    PROVE  Reach(L, t) = Reach(K, t) \ {parent, leaf}
<1> DEFINE R == Reach(K, t) \ {parent, leaf}
           S == Reach(L, t)
<1>1. Panes \cap Containers = {}
  BY VoidConstants DEF Containers
<1>2. parent \in Reach(K, t)
  BY ReachIs DEF ClosedUnder
<1>3. sibling \in Reach(K, t)
  BY <1>2, ReachIs DEF ClosedUnder
<1>4. t \in R /\ R \in SUBSET Everything
  BY <1>1, ReachIs
<1>5. ASSUME NEW c \in R \cap Containers PROVE L[c] \subseteq R
  <2>1. K[c] \subseteq Reach(K, t) /\ leaf \notin K[c]
    BY ReachIs DEF ClosedUnder
  <2>2. CASE c = grand
    BY <1>3, <2>1, <2>2
  <2>3. CASE c # grand
    BY <2>1, <2>3
  <2> QED BY <2>2, <2>3
<1>6. S \subseteq R
  <2>1. ClosedUnder(L, R)
    BY <1>5 DEF ClosedUnder
  <2> QED BY <1>4, <2>1, ReachIs
<1>7. t \in S /\ S \in SUBSET Everything /\ \A c \in S \cap Containers : L[c] \subseteq S
  BY ReachIs DEF ClosedUnder
<1>8. parent \notin S /\ leaf \notin S
  BY <1>6
<1> HIDE DEF R, S
<1>9. grand \in S
  <2> SUFFICES ASSUME grand \notin S PROVE FALSE
    OBVIOUS
  <2>1. ASSUME NEW c \in S \cap Containers PROVE K[c] \subseteq S
    BY <1>7, <1>8
  <2>2. Reach(K, t) \subseteq S
    BY <1>7, <2>1, ReachIs DEF ClosedUnder
  <2> QED BY <2>2
<1>10. sibling \in S
  BY <1>7, <1>9
<1>11. ASSUME NEW c \in (S \cup {parent, leaf}) \cap Containers PROVE K[c] \subseteq S \cup {parent, leaf}
  <2>1. CASE c = parent
    BY <1>10, <2>1
  <2>2. CASE c = grand
    BY <1>7, <1>9, <2>2
  <2>3. CASE c \notin {parent, grand}
    <3>1. c \in S \cap Containers
      BY <1>1, <2>3
    <3> QED BY <1>7, <2>3, <3>1
  <2> QED BY <2>1, <2>2, <2>3
<1>12. Reach(K, t) \subseteq S \cup {parent, leaf}
  <2>1. t \in S \cup {parent, leaf} /\ S \cup {parent, leaf} \in SUBSET Everything
    BY <1>7 DEF Everything
  <2>2. ClosedUnder(K, S \cup {parent, leaf})
    BY <1>11 DEF ClosedUnder
  <2> QED BY <2>1, <2>2, ReachIs
<1> QED BY <1>6, <1>12 DEF R, S

\* The model's trees reach the same.
PackedIn(ch) == [c \in Containers |-> ToSet(ch[c])]

\* Subtree, as a constant expression of the children.
SubtreeIn(ch, t) ==
    LET whole == {S \in SUBSET Containers :
                      t \in S /\ \A c \in S : ToSet(ch[c]) \cap Containers \subseteq S}
        inner == {c \in Containers : \A S \in whole : c \in S}
    IN inner \cup UNION {ToSet(ch[c]) : c \in inner}

\* What is packed in each container, as a set.
LEMMA PackedIs ==
    ASSUME NEW ch \in [Containers -> Seq(Everything)]
    PROVE  PackedIn(ch) \in [Containers -> SUBSET Everything]
<1>1. \A c \in Containers : ch[c] \in Seq(Everything)
  OBVIOUS
<1>2. \A c \in Containers : ToSet(ch[c]) \subseteq Everything
  BY <1>1, ToSetInside
<1> QED BY <1>2 DEF PackedIn

\* A widget's subtree is what is reached from it over what is packed.
LEMMA SubtreeReaches ==
    ASSUME NEW ch \in [Containers -> Seq(Everything)], NEW t \in Containers
    PROVE  SubtreeIn(ch, t) = Reach(PackedIn(ch), t)
<1> DEFINE K == PackedIn(ch)
           whole == {S \in SUBSET Containers :
                         t \in S /\ \A c \in S : ToSet(ch[c]) \cap Containers \subseteq S}
           inner == {c \in Containers : \A S \in whole : c \in S}
           all == inner \cup UNION {ToSet(ch[c]) : c \in inner}
<1>1. K \in [Containers -> SUBSET Everything] /\ \A c \in Containers : K[c] = ToSet(ch[c])
  BY PackedIs DEF PackedIn
<1>2. t \in inner
  OBVIOUS
<1>3. ASSUME NEW c \in inner, NEW d \in ToSet(ch[c]) \cap Containers PROVE d \in inner
  <2>1. ASSUME NEW S \in whole PROVE d \in S
    <3>1. c \in S
      OBVIOUS
    <3>2. ToSet(ch[c]) \cap Containers \subseteq S
      BY <3>1
    <3> QED BY <3>2
  <2> QED BY <2>1
<1>4. all \subseteq Everything
  BY <1>1 DEF Everything
<1>5. ASSUME NEW c \in all \cap Containers PROVE K[c] \subseteq all
  <2>1. c \in inner
    BY <1>3
  <2> QED BY <1>1, <2>1
<1>6. Reach(K, t) \subseteq all
  <2>1. ClosedUnder(K, all)
    BY <1>5 DEF ClosedUnder
  <2>2. t \in all /\ all \in SUBSET Everything
    BY <1>2, <1>4
  <2> HIDE DEF all, K
  <2> QED BY <1>1, <2>1, <2>2, ReachIs
<1>7. Reach(K, t) \cap Containers \in whole
  <2>1. t \in Reach(K, t) /\ ClosedUnder(K, Reach(K, t))
    BY <1>1, ReachIs
  <2> QED BY <1>1, <2>1 DEF ClosedUnder
<1>8. inner \subseteq Reach(K, t)
  BY <1>7
<1>9. ASSUME NEW c \in inner PROVE ToSet(ch[c]) \subseteq Reach(K, t)
  <2>1. c \in Reach(K, t) \cap Containers
    BY <1>8
  <2> QED BY <1>1, <2>1, ReachIs DEF ClosedUnder
<1>10. all \subseteq Reach(K, t)
  BY <1>8, <1>9
<1>11. SubtreeIn(ch, t) = all
  BY DEF SubtreeIn
<1> HIDE DEF all, K
<1> QED BY <1>6, <1>10, <1>11 DEF K

\* The subtree depends on the children alone, so that it can be primed.
LEMMA SubtreeIs ==
    ASSUME NEW t
    PROVE  Subtree(t) = SubtreeIn(children, t) /\ Subtree(t)' = SubtreeIn(children', t)
BY DEF Subtree, ContainersOf, Closed, SubtreeIn

(* What the slots of a container hold.                                     *)
LEMMA ReplaceAllIs ==
    ASSUME NEW S, NEW s \in Seq(S), IsInjective(s), NEW a \in ToSet(s), NEW b \in S, b \notin ToSet(s)
    PROVE  /\ ReplaceAll(s, a, b) \in Seq(S) /\ Len(ReplaceAll(s, a, b)) = Len(s)
           /\ IsInjective(ReplaceAll(s, a, b))
           /\ ToSet(ReplaceAll(s, a, b)) = (ToSet(s) \ {a}) \cup {b}
<1> DEFINE r == ReplaceAll(s, a, b)
<1>0. Len(s) \in Nat /\ (\A i \in 1..Len(s) : s[i] \in S) /\ ToSet(s) = {s[i] : i \in 1..Len(s)}
  BY LenProperties, ElementOfSeq, ToSetIs
<1>1. r = [i \in 1..Len(s) |-> IF s[i] = a THEN b ELSE s[i]]
  BY DEF ReplaceAll
<1>2. r \in [1..Len(s) -> S]
  BY <1>0, <1>1
<1>3. r \in Seq(S) /\ Len(r) = Len(s)
  <2>1. r \in Seq(S)
    BY <1>0, <1>2, SeqDef
  <2>2. DOMAIN r = 1..Len(s) /\ DOMAIN r = 1..Len(r) /\ Len(r) \in Nat
    BY <1>2, <2>1, LenProperties
  <2> QED BY <1>0, <2>1, <2>2
<1> HIDE DEF r
<1>4. IsInjective(r)
  <2>1. \A i, j \in 1..Len(s) : s[i] = s[j] => i = j
    BY InjectiveMeans
  <2>2. \A i \in 1..Len(s) : s[i] # b
    BY <1>0
  <2>3. \A i, j \in 1..Len(r) : r[i] = r[j] => i = j
    BY <1>1, <1>3, <2>1, <2>2
  <2> QED BY <1>3, <2>3, InjectiveMeans
<1>5. ToSet(r) = {r[i] : i \in 1..Len(s)}
  BY <1>3, ToSetIs
<1>6. ToSet(r) \subseteq (ToSet(s) \ {a}) \cup {b}
  BY <1>0, <1>1, <1>5
<1>7. (ToSet(s) \ {a}) \cup {b} \subseteq ToSet(r)
  BY <1>0, <1>1, <1>5
<1> QED BY <1>3, <1>4, <1>6, <1>7 DEF r

\* A list of two.
LEMMA PairIs ==
    ASSUME NEW S, NEW a \in S, NEW b \in S, a # b
    PROVE  <<a, b>> \in Seq(S) /\ Len(<<a, b>>) = 2 /\ IsInjective(<<a, b>>) /\ ToSet(<<a, b>>) = {a, b}
<1>1. <<a, b>> \in Seq(S) /\ Len(<<a, b>>) = 2 /\ <<a, b>>[1] = a /\ <<a, b>>[2] = b
  OBVIOUS
<1>2. 1..2 = {1, 2}
  OBVIOUS
<1>3. IsInjective(<<a, b>>)
  BY <1>1, <1>2, InjectiveMeans
<1>4. ToSet(<<a, b>>) = {a, b}
  <2> DEFINE s == <<a, b>>
  <2>1. ToSet(s) = {s[i] : i \in 1..Len(s)}
    BY <1>1, ToSetIs
  <2> HIDE DEF s
  <2>2. ToSet(s) = {s[1], s[2]}
    BY <1>1, <1>2, <2>1 DEF s
  <2> QED BY <1>1, <2>2 DEF s
<1> QED BY <1>1, <1>3, <1>4

\* A list of one.
LEMMA AloneIs ==
    ASSUME NEW S, NEW a \in S
    PROVE  <<a>> \in Seq(S) /\ Len(<<a>>) = 1 /\ IsInjective(<<a>>) /\ ToSet(<<a>>) = {a}
<1>1. <<a>> \in Seq(S) /\ Len(<<a>>) = 1 /\ <<a>>[1] = a
  OBVIOUS
<1>2. 1..1 = {1}
  OBVIOUS
<1>3. IsInjective(<<a>>)
  BY <1>1, <1>2, InjectiveMeans
<1>4. ToSet(<<a>>) = {a}
  <2> DEFINE s == <<a>>
  <2>1. ToSet(s) = {s[i] : i \in 1..Len(s)}
    BY <1>1, ToSetIs
  <2> HIDE DEF s
  <2>2. ToSet(s) = {s[1]}
    BY <1>1, <1>2, <2>1 DEF s
  <2> QED BY <1>1, <2>2 DEF s
<1> QED BY <1>1, <1>3, <1>4

\* A list of two without doubles has one element beside each.
LEMMA PairHas ==
    ASSUME NEW S, NEW s \in Seq(S), Len(s) = 2, IsInjective(s), NEW a \in ToSet(s)
    PROVE  \E b \in ToSet(s) : b # a /\ ToSet(s) = {a, b}
<1>1. 1..2 = {1, 2}
  OBVIOUS
<1>2. ToSet(s) = {s[1], s[2]} /\ s[1] # s[2]
  BY <1>1, ToSetIs, InjectiveMeans
<1> QED BY <1>2

\* Appending what is not in a list without doubles.
LEMMA PutLastIs ==
    ASSUME NEW S, NEW s \in Seq(S), IsInjective(s), NEW a \in S, a \notin ToSet(s)
    PROVE  /\ Append(s, a) \in Seq(S) /\ Len(Append(s, a)) = Len(s) + 1
           /\ IsInjective(Append(s, a)) /\ ToSet(Append(s, a)) = ToSet(s) \cup {a}
<1> DEFINE r == Append(s, a)
<1>0. Len(s) \in Nat /\ ToSet(s) = {s[i] : i \in 1..Len(s)} /\ \A i, j \in 1..Len(s) : s[i] = s[j] => i = j
  BY LenProperties, ToSetIs, InjectiveMeans
<1>1. r \in Seq(S) /\ Len(r) = Len(s) + 1 /\ r[Len(s) + 1] = a /\ \A i \in 1..Len(s) : r[i] = s[i]
  BY AppendProperties
<1> HIDE DEF r
<1>2. 1..Len(r) = 1..Len(s) \cup {Len(s) + 1}
  BY <1>0, <1>1
<1>3. ToSet(r) = {r[i] : i \in 1..Len(r)}
  BY <1>1, ToSetIs
<1>4. ToSet(r) = ToSet(s) \cup {a}
  BY <1>0, <1>1, <1>2, <1>3
<1>5. \A i \in 1..Len(s) : s[i] # a
  BY <1>0
<1>6. \A i, j \in 1..Len(r) : r[i] = r[j] => i = j
  BY <1>0, <1>1, <1>2, <1>5
<1>7. IsInjective(r)
  BY <1>1, <1>6, InjectiveMeans
<1> QED BY <1>1, <1>4, <1>7 DEF r

(* No widget is packed twice, nothing is packed into what belongs to no    *)
(* page, a Paned of a page has two slots, and a page has one more pane than *)
(* it has splits, so that a pane with a Paned around it is not the last.    *)
TreeInv ==
    /\ \A c \in Containers : ToSet(children[c]) \cap Tabs = {}
    /\ \A c, d \in Containers : ToSet(children[c]) \cap ToSet(children[d]) # {} => c = d
    /\ \A c \in Containers : children[c] # <<>> => \E t \in ToSet(pages) : c \in Subtree(t)
    /\ \A s, t \in ToSet(pages) : s # t => Subtree(s) \cap Subtree(t) = {}

\* A page holds one widget and each Paned of it two.
SlotsInv ==
    /\ \A t \in ToSet(pages) : Len(children[t]) = 1
    /\ \A t \in ToSet(pages) : \A s \in Subtree(t) \cap Splits : Len(children[s]) = 2
    /\ \A c \in Containers : IsInjective(children[c])

\* The panes a page lists are those of its tree, one more than its splits.
LeavesInv ==
    /\ \A t \in ToSet(pages) :
        /\ ToSet(leaves[t]) = Subtree(t) \cap Panes
        /\ focused[t] \in ToSet(leaves[t])
        /\ IsFiniteSet(Subtree(t) \cap Splits)
        /\ Len(leaves[t]) = Cardinality(Subtree(t) \cap Splits) + 1
    /\ \A t \in Tabs : IsInjective(leaves[t]) /\ (t \notin ToSet(pages) => leaves[t] = <<>>)

\* A page is shown as long as there is one.
PagesInv ==
    /\ IsInjective(pages)
    /\ currentPage \in ToSet(pages) \/ (pages = <<>> /\ currentPage = NoWidget)

TreesTyped ==
    /\ children \in [Containers -> Seq(Everything)]
    /\ leaves \in [Tabs -> Seq(Panes)]
    /\ focused \in [Tabs -> Panes \cup {NoWidget}]
    /\ pages \in Seq(Tabs) /\ exited \subseteq Panes

TreesInv == TreesTyped /\ TreeInv /\ SlotsInv /\ LeavesInv /\ PagesInv

\* The launcher is open over a pane or not, and typed nothing elsewhere.
TypedInv ==
    /\ launcher \in {<<>>} \cup {<<p>> : p \in Panes}
    /\ prompt \in {<<>>} \cup {<<p>> : p \in Panes \cup {NoWidget}} /\ shaken \in BOOLEAN
    /\ engaged \in VoidTargets /\ typed \in {"nowhere", "where asked", "moved"}

PromptInv == prompt \in {<<>>, <<NoWidget>>} \/ shaken \/ FocusedPane = prompt[1]

\* Tabs, splits and panes are different widgets.
LEMMA WidgetKinds ==
    /\ Tabs \cap Splits = {} /\ Tabs \cap Panes = {} /\ Splits \cap Panes = {}
    /\ Containers = Tabs \cup Splits /\ Everything = Tabs \cup Splits \cup Panes
    /\ Containers \cap Panes = {}
    /\ NoWidget \notin Tabs /\ NoWidget \notin Panes
BY VoidConstants DEF Containers, Everything

\* What the invariant says of packing, once for all the proofs below.
LEMMA Belongs ==
    ASSUME TreesInv
    PROVE  /\ PackedIn(children) \in [Containers -> SUBSET Everything]
           /\ \A c \in Containers : /\ PackedIn(children)[c] = ToSet(children[c])
                                    /\ ToSet(children[c]) = {} <=> children[c] = <<>>
           /\ \A t \in Tabs : /\ Subtree(t) = Reach(PackedIn(children), t) /\ t \in Subtree(t)
                              /\ Subtree(t) \subseteq Everything
                              /\ \A c \in Subtree(t) \cap Containers : ToSet(children[c]) \subseteq Subtree(t)
           /\ ToSet(pages) \subseteq Tabs
<1>1. children \in [Containers -> Seq(Everything)] /\ pages \in Seq(Tabs)
  BY DEF TreesInv, TreesTyped
<1>2. PackedIn(children) \in [Containers -> SUBSET Everything]
  BY <1>1, PackedIs
<1>3. \A c \in Containers : PackedIn(children)[c] = ToSet(children[c])
  BY DEF PackedIn
<1>4. ASSUME NEW c \in Containers PROVE ToSet(children[c]) = {} <=> children[c] = <<>>
  <2>1. children[c] \in Seq(Everything)
    BY <1>1
  <2>2. Len(children[c]) \in Nat /\ (children[c] = <<>> <=> Len(children[c]) = 0)
        /\ ToSet(children[c]) = {children[c][i] : i \in 1..Len(children[c])}
    BY <2>1, LenProperties, EmptySeq, ToSetIs
  <2>3. Len(children[c]) = 0 \/ 1 \in 1..Len(children[c])
    BY <2>2
  <2>4. Len(children[c]) = 0 => 1..Len(children[c]) = {}
    OBVIOUS
  <2>5. CASE Len(children[c]) = 0
    BY <2>2, <2>4, <2>5
  <2>6. CASE 1 \in 1..Len(children[c])
    <3>1. children[c][1] \in ToSet(children[c])
      BY <2>2, <2>6
    <3>2. Len(children[c]) # 0
      BY <2>6
    <3> QED BY <2>2, <3>1, <3>2
  <2> QED BY <2>3, <2>5, <2>6
<1>5. ASSUME NEW t \in Tabs
      PROVE  /\ Subtree(t) = Reach(PackedIn(children), t) /\ t \in Subtree(t)
             /\ Subtree(t) \subseteq Everything
             /\ \A c \in Subtree(t) \cap Containers : ToSet(children[c]) \subseteq Subtree(t)
  <2>1. t \in Containers
    BY DEF Containers
  <2>2. Subtree(t) = Reach(PackedIn(children), t)
    BY <1>1, <2>1, SubtreeIs, SubtreeReaches
  <2>3. /\ t \in Reach(PackedIn(children), t) /\ Reach(PackedIn(children), t) \subseteq Everything
        /\ ClosedUnder(PackedIn(children), Reach(PackedIn(children), t))
    BY <1>2, <2>1, ReachIs
  <2> QED BY <1>3, <2>2, <2>3 DEF ClosedUnder
<1>6. ToSet(pages) \subseteq Tabs
  BY <1>1, ToSetInside
<1> QED BY <1>2, <1>3, <1>4, <1>5, <1>6

\* The only container of a widget of a page.
LEMMA ParentIs ==
    ASSUME TreesInv, NEW t \in ToSet(pages), NEW x \in Subtree(t), x # t
    PROVE  /\ Parent(x) \in Subtree(t) \cap Containers /\ Parent(x) # x
           /\ x \in ToSet(children[Parent(x)])
           /\ \A c \in Containers : x \in ToSet(children[c]) => c = Parent(x)
<1>1. t \in Tabs /\ t \in Containers
  BY Belongs DEF Containers
<1>2. PICK c \in Subtree(t) \cap Containers : c # x /\ x \in ToSet(children[c])
  <2>1. x \in Reach(PackedIn(children), t) /\ PackedIn(children) \in [Containers -> SUBSET Everything]
    BY <1>1, Belongs
  <2>2. PICK c \in Reach(PackedIn(children), t) \cap Containers : c # x /\ x \in PackedIn(children)[c]
    BY <1>1, <2>1, ReachEnters
  <2> QED BY <1>1, <2>2, Belongs
<1>3. \A d \in Containers : x \in ToSet(children[d]) => d = c
  BY <1>2 DEF TreesInv, TreeInv
<1>4. Parent(x) = c
  BY <1>2, <1>3 DEF Parent
<1> QED BY <1>2, <1>3, <1>4

\* What is packed belongs to a page, which is the only one that has it.
LEMMA InAPage ==
    ASSUME TreesInv, NEW c \in Containers, NEW x \in ToSet(children[c])
    PROVE  \E t \in ToSet(pages) : c \in Subtree(t) /\ x \in Subtree(t)
<1>1. children[c] # <<>>
  BY Belongs
<1>2. PICK t \in ToSet(pages) : c \in Subtree(t)
  BY <1>1 DEF TreesInv, TreeInv
<1> QED BY <1>2, Belongs

\* A page that a step leaves alone.
LEMMA SubtreeStays ==
    ASSUME TreesInv, children' \in [Containers -> Seq(Everything)], NEW t \in Tabs,
           \A c \in Subtree(t) \cap Containers : ToSet(children'[c]) = ToSet(children[c])
    PROVE  Subtree(t)' = Subtree(t)
<1> DEFINE K == PackedIn(children)
           L == PackedIn(children')
<1>1. t \in Containers
  BY DEF Containers
<1>2. K \in [Containers -> SUBSET Everything] /\ L \in [Containers -> SUBSET Everything]
  BY PackedIs DEF TreesInv, TreesTyped
<1>3. \A c \in Containers : K[c] = ToSet(children[c]) /\ L[c] = ToSet(children'[c])
  BY DEF PackedIn
<1>4. Subtree(t) = Reach(K, t) /\ Subtree(t)' = Reach(L, t)
  BY <1>1, SubtreeIs, SubtreeReaches DEF TreesInv, TreesTyped
<1> HIDE DEF K, L
<1>5. \A c \in Reach(K, t) \cap Containers : L[c] = K[c]
  BY <1>3, <1>4
<1> QED BY <1>1, <1>2, <1>4, <1>5, ReachSame

\* A split that was not used yet is packed nowhere.
LEMMA FreshSplitIs ==
    ASSUME TreesInv, NEW s \in Splits, s \notin Used
    PROVE  /\ children[s] = <<>> /\ \A c \in Containers : s \notin ToSet(children[c])
           /\ \A t \in ToSet(pages) : s \notin Subtree(t)
<1>1. \A c \in Containers : s \notin ToSet(children[c])
  BY DEF Used
<1>2. ASSUME NEW t \in ToSet(pages), s \in Subtree(t) PROVE FALSE
  <2>1. s # t
    BY Belongs, WidgetKinds
  <2>2. s \in ToSet(children[Parent(s)]) /\ Parent(s) \in Containers
    BY <1>2, <2>1, ParentIs
  <2> QED BY <1>1, <2>2
<1>3. children[s] = <<>>
  BY <1>2, WidgetKinds DEF TreesInv, TreeInv
<1> QED BY <1>1, <1>2, <1>3

\* A pane that was not opened yet is packed nowhere.
LEMMA FreshPaneIs ==
    ASSUME TreesInv, NEW p \in Panes, p \notin Opened
    PROVE  /\ \A c \in Containers : p \notin ToSet(children[c])
           /\ \A t \in ToSet(pages) : p \notin Subtree(t)
           /\ \A t \in Tabs : p \notin ToSet(leaves[t])
<1>1. \A t \in Tabs : p \notin ToSet(leaves[t])
  BY DEF Opened
<1>2. \A t \in ToSet(pages) : p \notin Subtree(t)
  BY <1>1, Belongs DEF TreesInv, LeavesInv
<1>3. \A c \in Containers : p \notin ToSet(children[c])
  BY <1>2, InAPage
<1> QED BY <1>1, <1>2, <1>3

\* What a split does to the trees.
LEMMA SplitDoes ==
    ASSUME TreesInv, Split
    PROVE  /\ currentPage \in ToSet(pages) /\ FocusedPane = focused[currentPage]
           /\ FocusedPane \in Subtree(currentPage) \cap Panes
           /\ FreshSplit \in Splits /\ FreshSplit \notin Used
           /\ FreshPane \in Panes /\ FreshPane \notin Opened
           /\ Parent(FocusedPane) # FreshSplit
           /\ Parent(FocusedPane) \in Subtree(currentPage) \cap Containers
           /\ children' \in [Containers -> Seq(Everything)]
           /\ children'[Parent(FocusedPane)] = ReplaceAll(children[Parent(FocusedPane)], FocusedPane, FreshSplit)
           /\ children'[FreshSplit] = <<FocusedPane, FreshPane>>
           /\ \A c \in Containers \ {Parent(FocusedPane), FreshSplit} : children'[c] = children[c]
           /\ ToSet(children'[Parent(FocusedPane)])
              = (ToSet(children[Parent(FocusedPane)]) \ {FocusedPane}) \cup {FreshSplit}
           /\ ToSet(children'[FreshSplit]) = {FocusedPane, FreshPane}
           /\ Subtree(currentPage)' = Subtree(currentPage) \cup {FreshSplit, FreshPane}
           /\ \A t \in ToSet(pages) \ {currentPage} : Subtree(t)' = Subtree(t)
<1> DEFINE tab == currentPage
           target == FocusedPane
           paned == FreshSplit
           leaf == FreshPane
           p == Parent(target)
           K == PackedIn(children)
           L == PackedIn(children')
<1>1. AtKeyboard /\ AnyLeft(Splits, Used) /\ AnyLeft(Panes, Opened)
      /\ children' = [children EXCEPT ![p] = ReplaceAll(@, target, paned), ![paned] = <<target, leaf>>]
      /\ pages' = pages
  BY DEF Split
<1>2. target # NoWidget
  BY <1>1 DEF AtKeyboard
<1>3. tab \in ToSet(pages) /\ target = focused[tab]
  BY <1>2 DEF FocusedPane, TreesInv, PagesInv
<1>4. target \in ToSet(leaves[tab]) /\ target \in Subtree(tab) \cap Panes /\ tab \in Tabs
  BY <1>3, Belongs DEF TreesInv, LeavesInv
<1>5. paned \in Splits /\ paned \notin Used
  BY <1>1 DEF AnyLeft, FreshSplit
<1>6. leaf \in Panes /\ leaf \notin Opened
  BY <1>1 DEF AnyLeft, FreshPane
<1> HIDE DEF paned, leaf, tab, target
<1>7. /\ p \in Subtree(tab) \cap Containers /\ target \in ToSet(children[p])
      /\ \A c \in Containers : target \in ToSet(children[c]) => c = p
  <2>1. target # tab
    BY <1>4, WidgetKinds
  <2> QED BY <1>3, <1>4, <2>1, ParentIs
<1> HIDE DEF p
<1>8. /\ children[paned] = <<>> /\ (\A c \in Containers : paned \notin ToSet(children[c]))
      /\ \A t \in ToSet(pages) : paned \notin Subtree(t)
  BY <1>5, FreshSplitIs
<1>9. p # paned /\ paned \in Containers /\ tab \in Containers
  BY <1>3, <1>4, <1>5, <1>7, <1>8, WidgetKinds
<1>10. leaf # target
  BY <1>4, <1>6, <1>3, FreshPaneIs
<1>11. children \in [Containers -> Seq(Everything)]
  BY DEF TreesInv, TreesTyped
<1>12. ReplaceAll(children[p], target, paned) \in Seq(Everything) /\ <<target, leaf>> \in Seq(Everything)
       /\ ToSet(ReplaceAll(children[p], target, paned)) = (ToSet(children[p]) \ {target}) \cup {paned}
       /\ ToSet(<<target, leaf>>) = {target, leaf}
  <2>1. children[p] \in Seq(Everything) /\ IsInjective(children[p])
    BY <1>7, <1>11 DEF TreesInv, SlotsInv
  <2>2. target \in Everything /\ leaf \in Everything /\ paned \in Everything
    BY <1>4, <1>5, <1>6, WidgetKinds
  <2>3. ReplaceAll(children[p], target, paned) \in Seq(Everything)
        /\ ToSet(ReplaceAll(children[p], target, paned)) = (ToSet(children[p]) \ {target}) \cup {paned}
    BY <1>7, <1>8, <2>1, <2>2, ReplaceAllIs
  <2> QED BY <1>10, <2>2, <2>3, PairIs
<1>13. children'[p] = ReplaceAll(children[p], target, paned) /\ children'[paned] = <<target, leaf>>
       /\ \A c \in Containers \ {p, paned} : children'[c] = children[c]
  BY <1>1, <1>7, <1>9, <1>11
<1>14. children' \in [Containers -> Seq(Everything)]
  BY <1>1, <1>11, <1>12
<1>15. K \in [Containers -> SUBSET Everything] /\ L \in [Containers -> SUBSET Everything]
  BY <1>11, <1>14, PackedIs
<1>16. \A c \in Containers : K[c] = ToSet(children[c]) /\ L[c] = ToSet(children'[c])
  BY DEF PackedIn
<1>17. L[p] = (K[p] \ {target}) \cup {paned} /\ L[paned] = {target, leaf}
       /\ (\A c \in Containers \ {p, paned} : L[c] = K[c]) /\ K[paned] = {}
  <2>1. ToSet(children[paned]) = {}
    BY <1>8, <1>9, Belongs
  <2> QED BY <1>7, <1>9, <1>12, <1>13, <1>16, <2>1
<1>18. Subtree(tab) = Reach(K, tab) /\ SubtreeIn(children', tab) = Reach(L, tab)
  BY <1>4, <1>9, <1>14, Belongs, SubtreeReaches
<1> HIDE DEF K, L
<1>19. Reach(L, tab) = Reach(K, tab) \cup {paned, leaf}
  BY <1>6, <1>7, <1>9, <1>15, <1>16, <1>17, <1>18, ReachGrows
<1>20. Subtree(currentPage)' = SubtreeIn(children', currentPage')
  BY DEF Subtree, ContainersOf, Closed, SubtreeIn
<1>21. currentPage' = currentPage
  BY DEF Split
<1>22. Subtree(currentPage)' = Subtree(currentPage) \cup {paned, leaf}
  BY <1>18, <1>19, <1>20, <1>21 DEF tab
<1>23. ASSUME NEW t \in ToSet(pages) \ {tab} PROVE Subtree(t)' = Subtree(t)
  <2>1. Subtree(t) \cap Subtree(tab) = {} /\ t \in Tabs
    BY <1>3, Belongs DEF TreesInv, TreeInv
  <2>2. \A c \in Subtree(t) \cap Containers : ToSet(children'[c]) = ToSet(children[c])
    BY <1>7, <1>8, <1>13, <2>1
  <2> QED BY <1>14, <2>1, <2>2, SubtreeStays
<1>24. ToSet(children'[p]) = (ToSet(children[p]) \ {target}) \cup {paned} /\ ToSet(children'[paned]) = {target, leaf}
  BY <1>12, <1>13
<1> QED BY <1>3, <1>4, <1>5, <1>6, <1>7, <1>9, <1>13, <1>14, <1>22, <1>23, <1>24 DEF tab, target, paned, leaf, p

\* Splitting a pane keeps the trees: the new split takes its place, with both in it.
LEMMA SplitKeeps ==
    ASSUME TreesInv, Split
    PROVE  TreesInv'
<1>0. PICK tab \in ToSet(pages), target \in Panes, paned \in Splits, leaf \in Panes, p \in Containers :
          /\ tab = currentPage /\ target = FocusedPane /\ paned = FreshSplit /\ leaf = FreshPane
          /\ p = Parent(FocusedPane)
  <2>1. /\ currentPage \in ToSet(pages) /\ FocusedPane \in Panes /\ FreshSplit \in Splits /\ FreshPane \in Panes
        /\ Parent(FocusedPane) \in Containers
    BY SplitDoes
  <2> QED BY <2>1
<1>1. /\ target \in Subtree(tab) /\ paned \notin Used /\ leaf \notin Opened /\ p # paned /\ p \in Subtree(tab)
      /\ children' \in [Containers -> Seq(Everything)]
      /\ children'[p] = ReplaceAll(children[p], target, paned) /\ children'[paned] = <<target, leaf>>
      /\ \A c \in Containers \ {p, paned} : children'[c] = children[c]
      /\ ToSet(children'[p]) = (ToSet(children[p]) \ {target}) \cup {paned}
      /\ ToSet(children'[paned]) = {target, leaf}
      /\ Subtree(tab)' = Subtree(tab) \cup {paned, leaf}
      /\ \A t \in ToSet(pages) \ {tab} : Subtree(t)' = Subtree(t)
  <2>1. currentPage' = currentPage
    BY DEF Split
  <2>2. Subtree(tab)' = Subtree(currentPage)'
    BY <1>0, <2>1 DEF Subtree, ContainersOf, Closed
  <2> QED BY <1>0, <2>2, SplitDoes
<1>2. /\ leaves' = [leaves EXCEPT ![tab] = Append(@, leaf)] /\ focused' = [focused EXCEPT ![tab] = leaf]
      /\ UNCHANGED <<pages, currentPage, exited>>
  BY <1>0 DEF Split
<1>3. /\ children[paned] = <<>> /\ (\A c \in Containers : paned \notin ToSet(children[c]))
      /\ \A t \in ToSet(pages) : paned \notin Subtree(t)
  BY <1>1, FreshSplitIs
<1>4. /\ \A c \in Containers : leaf \notin ToSet(children[c])
      /\ \A t \in ToSet(pages) : leaf \notin Subtree(t)
      /\ \A t \in Tabs : leaf \notin ToSet(leaves[t])
  BY <1>1, FreshPaneIs
<1>5. /\ tab \in Tabs /\ paned \in Containers /\ target # leaf /\ paned \in Everything /\ leaf \in Everything
      /\ target \in Everything /\ p \in Containers
  BY <1>1, <1>4, Belongs, WidgetKinds
<1>6. /\ leaves \in [Tabs -> Seq(Panes)] /\ leaves[tab] \in Seq(Panes) /\ focused \in [Tabs -> Panes \cup {NoWidget}]
      /\ \A c \in Containers : children[c] \in Seq(Everything)
  BY <1>5 DEF TreesInv, TreesTyped
<1>7. /\ leaves'[tab] \in Seq(Panes) /\ Len(leaves'[tab]) = Len(leaves[tab]) + 1
      /\ IsInjective(leaves'[tab]) /\ ToSet(leaves'[tab]) = ToSet(leaves[tab]) \cup {leaf}
      /\ (\A t \in Tabs \ {tab} : leaves'[t] = leaves[t]) /\ leaves' \in [Tabs -> Seq(Panes)]
  <2>1. /\ Append(leaves[tab], leaf) \in Seq(Panes) /\ Len(Append(leaves[tab], leaf)) = Len(leaves[tab]) + 1
        /\ IsInjective(Append(leaves[tab], leaf)) /\ ToSet(Append(leaves[tab], leaf)) = ToSet(leaves[tab]) \cup {leaf}
    BY <1>4, <1>5, <1>6, PutLastIs DEF TreesInv, LeavesInv
  <2>2. leaves'[tab] = Append(leaves[tab], leaf) /\ \A t \in Tabs \ {tab} : leaves'[t] = leaves[t]
    BY <1>2, <1>5, <1>6
  <2>3. leaves' \in [Tabs -> Seq(Panes)]
    BY <1>2, <1>6, <2>1
  <2> QED BY <2>1, <2>2, <2>3
<1>8. TreesTyped'
  <2>1. focused' \in [Tabs -> Panes \cup {NoWidget}]
    BY <1>2, <1>6
  <2> QED BY <1>1, <1>2, <1>7, <2>1 DEF TreesInv, TreesTyped
<1>9. TreeInv'
  <2>1. ASSUME NEW c \in Containers PROVE ToSet(children'[c]) \cap Tabs = {}
    <3>1. ToSet(children'[c]) \subseteq ToSet(children[c]) \cup {paned, target, leaf}
      BY <1>1
    <3> QED BY <3>1, WidgetKinds DEF TreesInv, TreeInv
  <2>2. ASSUME NEW c \in Containers, NEW d \in Containers, NEW x \in ToSet(children'[c]) \cap ToSet(children'[d])
        PROVE  c = d
    <3>1. target \in ToSet(children[p])
      <4>1. target # tab
        BY <1>5, WidgetKinds
      <4> QED BY <1>0, <1>1, <4>1, ParentIs
    <3>2. \A e \in Containers : target \in ToSet(children[e]) => e = p
      BY <3>1, <1>5 DEF TreesInv, TreeInv
    <3>3. CASE x = paned
      <4>1. \A e \in Containers : paned \in ToSet(children'[e]) => e = p
        BY <1>1, <1>3, <1>5, WidgetKinds
      <4> QED BY <3>3, <4>1
    <3>4. CASE x \in {target, leaf}
      <4>1. ASSUME NEW e \in Containers, x \in ToSet(children'[e]), e # paned PROVE FALSE
        <5>1. x # paned /\ x \notin ToSet(children'[p])
          BY <1>1, <1>4, <3>4, WidgetKinds
        <5>2. e # p
          BY <4>1, <5>1
        <5>3. children'[e] = children[e]
          BY <1>1, <4>1, <5>2
        <5>4. x \in ToSet(children[e])
          BY <4>1, <5>3
        <5> QED BY <1>4, <3>2, <3>4, <5>2, <5>4
      <4> QED BY <4>1
    <3>5. CASE x \notin {paned, target, leaf}
      <4>1. ASSUME NEW e \in Containers, x \in ToSet(children'[e]) PROVE x \in ToSet(children[e])
        <5>1. CASE e = p
          BY <1>1, <3>5, <4>1, <5>1
        <5>2. CASE e = paned
          BY <1>1, <3>5, <4>1, <5>2
        <5>3. CASE e \notin {p, paned}
          <6>1. children'[e] = children[e]
            BY <1>1, <5>3
          <6> QED BY <4>1, <6>1
        <5> QED BY <5>1, <5>2, <5>3
      <4>2. x \in ToSet(children[c]) /\ x \in ToSet(children[d])
        BY <4>1
      <4> QED BY <4>2 DEF TreesInv, TreeInv
    <3> QED BY <3>3, <3>4, <3>5
  <2>3. ASSUME NEW c \in Containers, children'[c] # <<>> PROVE \E t \in ToSet(pages') : c \in Subtree(t)'
    <3>1. CASE c \in {p, paned}
      BY <1>1, <1>2, <3>1
    <3>2. CASE c \notin {p, paned}
      <4>1. PICK t \in ToSet(pages) : c \in Subtree(t)
        BY <1>1, <2>3, <3>2 DEF TreesInv, TreeInv
      <4>2. c \in Subtree(t)'
        BY <1>1, <4>1
      <4> QED BY <1>2, <4>2
    <3> QED BY <3>1, <3>2
  <2>4. ASSUME NEW s \in ToSet(pages'), NEW t \in ToSet(pages'), s # t PROVE Subtree(s)' \cap Subtree(t)' = {}
    <3>1. s \in ToSet(pages) /\ t \in ToSet(pages)
      BY <1>2
    <3>2. Subtree(s)' \subseteq Subtree(s) \cup {paned, leaf} /\ Subtree(t)' \subseteq Subtree(t) \cup {paned, leaf}
      BY <1>1, <3>1
    <3>3. Subtree(s) \cap Subtree(t) = {}
      BY <2>4, <3>1 DEF TreesInv, TreeInv
    <3>4. ASSUME NEW u \in ToSet(pages), paned \in Subtree(u)' \/ leaf \in Subtree(u)' PROVE u = tab
      BY <1>1, <1>3, <1>4, <3>4
    <3> QED BY <2>4, <3>1, <3>2, <3>3, <3>4
  <2> QED BY <2>1, <2>2, <2>3, <2>4 DEF TreeInv
<1>10. SlotsInv'
  <2>1. \A c \in Containers : IsInjective(children'[c]) /\ (c # paned => Len(children'[c]) = Len(children[c]))
    <3>1. target \in ToSet(children[p])
      <4>1. target # tab
        BY <1>5, WidgetKinds
      <4> QED BY <1>0, <1>1, <4>1, ParentIs
    <3>2. IsInjective(children'[p]) /\ Len(children'[p]) = Len(children[p])
      BY <1>1, <1>3, <1>5, <1>6, <3>1, ReplaceAllIs DEF TreesInv, SlotsInv
    <3>3. IsInjective(children'[paned])
      BY <1>1, <1>5, PairIs
    <3> QED BY <1>1, <3>2, <3>3 DEF TreesInv, SlotsInv
  <2>2. Len(children'[paned]) = 2
    BY <1>1, <1>5, PairIs
  <2>3. ASSUME NEW t \in ToSet(pages) PROVE Len(children'[t]) = 1
    <3>1. t \in Containers /\ t # paned
      BY Belongs, WidgetKinds
    <3> QED BY <2>1, <3>1 DEF TreesInv, SlotsInv
  <2>4. ASSUME NEW t \in ToSet(pages), NEW s \in Subtree(t)' \cap Splits PROVE Len(children'[s]) = 2
    <3>1. s = paned \/ s \in Subtree(t)
      BY <1>1, WidgetKinds
    <3>2. s \in Containers
      BY WidgetKinds
    <3> QED BY <2>1, <2>2, <3>1, <3>2 DEF TreesInv, SlotsInv
  <2>5. pages' = pages
    BY <1>2
  <2> QED BY <2>1, <2>3, <2>4, <2>5 DEF SlotsInv
<1>11. LeavesInv'
  <2>1. ASSUME NEW t \in ToSet(pages), t # tab
        PROVE  /\ Subtree(t)' = Subtree(t) /\ leaves'[t] = leaves[t] /\ focused'[t] = focused[t]
    <3>1. t \in Tabs
      BY Belongs
    <3> QED BY <1>1, <1>2, <1>6, <1>7, <2>1, <3>1
  <2>2. /\ ToSet(leaves'[tab]) = Subtree(tab)' \cap Panes /\ focused'[tab] \in ToSet(leaves'[tab])
    <3>1. ToSet(leaves[tab]) = Subtree(tab) \cap Panes
      BY DEF TreesInv, LeavesInv
    <3>2. focused'[tab] = leaf
      BY <1>2, <1>5, <1>6
    <3> QED BY <1>1, <1>7, <3>1, <3>2, WidgetKinds
  <2>3. /\ IsFiniteSet(Subtree(tab)' \cap Splits)
        /\ Len(leaves'[tab]) = Cardinality(Subtree(tab)' \cap Splits) + 1
    <3>1. IsFiniteSet(Subtree(tab) \cap Splits) /\ Len(leaves[tab]) = Cardinality(Subtree(tab) \cap Splits) + 1
      BY DEF TreesInv, LeavesInv
    <3>2. Subtree(tab)' \cap Splits = (Subtree(tab) \cap Splits) \cup {paned}
      BY <1>1, WidgetKinds
    <3>3. paned \notin Subtree(tab) \cap Splits
      BY <1>3
    <3>4. IsFiniteSet((Subtree(tab) \cap Splits) \cup {paned})
          /\ Cardinality((Subtree(tab) \cap Splits) \cup {paned}) = Cardinality(Subtree(tab) \cap Splits) + 1
      BY <3>1, <3>3, FS_AddElement
    <3> QED BY <1>7, <3>1, <3>2, <3>4
  <2>4. \A t \in Tabs : IsInjective(leaves'[t]) /\ (t \notin ToSet(pages) => leaves'[t] = <<>>)
    BY <1>7 DEF TreesInv, LeavesInv
  <2>5. pages' = pages
    BY <1>2
  <2> QED BY <2>1, <2>2, <2>3, <2>4, <2>5 DEF TreesInv, LeavesInv
<1>12. PagesInv'
  BY <1>2 DEF TreesInv, PagesInv
<1> QED BY <1>8, <1>9, <1>10, <1>11, <1>12 DEF TreesInv

\* Closing a pane beside another moves that one, or its split, a level up.
LEMMA MergeKeeps ==
    ASSUME TreesInv, NEW tab \in ToSet(pages), NEW leaf \in ToSet(leaves[tab]),
           Parent(leaf) # tab, ClosePane(tab, leaf)
    PROVE  TreesInv'
<1>0. PICK parent, grand, sibling :
          /\ parent = Parent(leaf) /\ grand = Parent(parent)
          /\ sibling = CHOOSE w \in ToSet(children[parent]) : w # leaf
  OBVIOUS
<1>1. tab \in Tabs /\ leaf \in Subtree(tab) /\ leaf \in Panes /\ leaf # tab
  <2>1. ToSet(leaves[tab]) = Subtree(tab) \cap Panes
    BY DEF TreesInv, LeavesInv
  <2> QED BY <2>1, Belongs, WidgetKinds
<1>2. /\ parent \in Subtree(tab) \cap Containers /\ leaf \in ToSet(children[parent])
      /\ (\A c \in Containers : leaf \in ToSet(children[c]) => c = parent) /\ parent # tab
  BY <1>0, <1>1, ParentIs
<1>3. /\ grand \in Subtree(tab) \cap Containers /\ grand # parent /\ parent \in ToSet(children[grand])
      /\ \A c \in Containers : parent \in ToSet(children[c]) => c = grand
  BY <1>0, <1>2, ParentIs
<1>4. parent \in Splits
  <2>1. parent \notin Tabs
    BY <1>3 DEF TreesInv, TreeInv
  <2> QED BY <1>2, <2>1, WidgetKinds
<1>5. \A c \in Containers : children[c] \in Seq(Everything) /\ IsInjective(children[c])
  BY DEF TreesInv, TreesTyped, SlotsInv
<1>6. sibling \in ToSet(children[parent]) /\ sibling # leaf /\ ToSet(children[parent]) = {leaf, sibling}
  <2>1. Len(children[parent]) = 2
    BY <1>2, <1>4 DEF TreesInv, SlotsInv
  <2>2. PICK b \in ToSet(children[parent]) : b # leaf /\ ToSet(children[parent]) = {leaf, b}
    BY <1>2, <1>5, <2>1, PairHas
  <2> QED BY <1>0, <2>2
<1>7. /\ sibling \in Everything /\ sibling \notin Tabs /\ sibling # parent /\ sibling \notin ToSet(children[grand])
      /\ \A c \in Containers : sibling \in ToSet(children[c]) => c = parent
  <2>1. \A c \in Containers : sibling \in ToSet(children[c]) => c = parent
    BY <1>2, <1>6 DEF TreesInv, TreeInv
  <2>2. sibling \in Everything
    BY <1>2, <1>5, <1>6, ToSetInside
  <2>3. sibling \notin Tabs
    BY <1>2, <1>6 DEF TreesInv, TreeInv
  <2> QED BY <1>2, <1>3, <1>6, <2>1, <2>2, <2>3
<1>8. /\ children' = [children EXCEPT ![grand] = ReplaceAll(@, parent, sibling), ![parent] = <<>>]
      /\ leaves' = [leaves EXCEPT ![tab] = RemoveFirst(leaves[tab], leaf)]
      /\ focused' = [focused EXCEPT ![tab] = Last(RemoveFirst(leaves[tab], leaf))]
      /\ exited' = exited \ {leaf} /\ UNCHANGED <<pages, currentPage>>
  BY <1>0 DEF ClosePane, MergedInto
<1>9. /\ ReplaceAll(children[grand], parent, sibling) \in Seq(Everything)
      /\ Len(ReplaceAll(children[grand], parent, sibling)) = Len(children[grand])
      /\ IsInjective(ReplaceAll(children[grand], parent, sibling))
      /\ ToSet(ReplaceAll(children[grand], parent, sibling)) = (ToSet(children[grand]) \ {parent}) \cup {sibling}
  BY <1>3, <1>5, <1>7, ReplaceAllIs
<1>10. children \in [Containers -> Seq(Everything)] /\ <<>> \in Seq(Everything) /\ ToSet(<<>>) = {} /\ IsInjective(<<>>)
  BY NoneIs DEF TreesInv, TreesTyped
<1>11. /\ children' \in [Containers -> Seq(Everything)]
       /\ children'[grand] = ReplaceAll(children[grand], parent, sibling) /\ children'[parent] = <<>>
       /\ \A c \in Containers \ {grand, parent} : children'[c] = children[c]
  BY <1>2, <1>3, <1>8, <1>9, <1>10
<1>12. /\ ToSet(children'[grand]) = (ToSet(children[grand]) \ {parent}) \cup {sibling}
       /\ ToSet(children'[parent]) = {}
  BY <1>9, <1>10, <1>11
<1>13. Subtree(tab)' = Subtree(tab) \ {parent, leaf}
  <2> DEFINE K == PackedIn(children)
             L == PackedIn(children')
  <2>1. K \in [Containers -> SUBSET Everything] /\ L \in [Containers -> SUBSET Everything]
    BY <1>10, <1>11, PackedIs
  <2>2. \A c \in Containers : K[c] = ToSet(children[c]) /\ L[c] = ToSet(children'[c])
    BY DEF PackedIn
  <2>3. tab \in Containers /\ Subtree(tab) = Reach(K, tab) /\ Subtree(tab)' = Reach(L, tab)
    BY <1>1, <1>10, <1>11, SubtreeIs, SubtreeReaches, WidgetKinds
  <2> HIDE DEF K, L
  <2>4. /\ L[grand] = (K[grand] \ {parent}) \cup {sibling} /\ L[parent] = {} /\ K[parent] = {leaf, sibling}
        /\ \A c \in Containers \ {grand, parent} : L[c] = K[c]
    BY <1>2, <1>3, <1>6, <1>11, <1>12, <2>2
  <2>5. /\ \A c \in Containers : parent \in K[c] => c = grand
        /\ \A c \in Containers : leaf \in K[c] => c = parent
        /\ grand \in Reach(K, tab) \cap Containers /\ parent \in K[grand] \cap Containers
    BY <1>2, <1>3, <2>2, <2>3
  <2> QED BY <1>1, <1>2, <1>3, <1>6, <1>7, <2>1, <2>3, <2>4, <2>5, ReachShrinks
<1>14. ASSUME NEW t \in ToSet(pages) \ {tab} PROVE Subtree(t)' = Subtree(t)
  <2>1. Subtree(t) \cap Subtree(tab) = {} /\ t \in Tabs
    BY Belongs DEF TreesInv, TreeInv
  <2>2. \A c \in Subtree(t) \cap Containers : ToSet(children'[c]) = ToSet(children[c])
    BY <1>2, <1>3, <1>11, <2>1
  <2> QED BY <1>11, <2>1, <2>2, SubtreeStays
<1>15. /\ leaves \in [Tabs -> Seq(Panes)] /\ leaves[tab] \in Seq(Panes) /\ IsInjective(leaves[tab])
       /\ focused \in [Tabs -> Panes \cup {NoWidget}]
  BY <1>1 DEF TreesInv, TreesTyped, LeavesInv
<1> DEFINE rest == RemoveFirst(leaves[tab], leaf)
<1>16. /\ rest \in Seq(Panes) /\ IsInjective(rest) /\ ToSet(rest) = ToSet(leaves[tab]) \ {leaf}
       /\ Len(rest) = Len(leaves[tab]) - 1
  BY <1>15, RemoveFirstIs
<1>17. /\ leaves' \in [Tabs -> Seq(Panes)] /\ leaves'[tab] = rest
       /\ \A t \in Tabs \ {tab} : leaves'[t] = leaves[t]
  BY <1>1, <1>8, <1>15, <1>16
<1> HIDE DEF rest
<1>18. /\ IsFiniteSet(Subtree(tab) \cap Splits) /\ Len(leaves[tab]) = Cardinality(Subtree(tab) \cap Splits) + 1
       /\ ToSet(leaves[tab]) = Subtree(tab) \cap Panes
  BY DEF TreesInv, LeavesInv
<1>19. /\ IsFiniteSet(Subtree(tab)' \cap Splits)
       /\ Cardinality(Subtree(tab)' \cap Splits) = Cardinality(Subtree(tab) \cap Splits) - 1
  <2>1. Subtree(tab)' \cap Splits = (Subtree(tab) \cap Splits) \ {parent}
    BY <1>1, <1>13, WidgetKinds
  <2>2. parent \in Subtree(tab) \cap Splits
    BY <1>2, <1>4
  <2>3. /\ IsFiniteSet((Subtree(tab) \cap Splits) \ {parent})
        /\ Cardinality((Subtree(tab) \cap Splits) \ {parent}) = Cardinality(Subtree(tab) \cap Splits) - 1
    BY <1>18, <2>2, FS_RemoveElement
  <2> QED BY <2>1, <2>3
<1>20. Len(rest) = Cardinality(Subtree(tab)' \cap Splits) + 1 /\ Len(rest) \in 1..Len(rest)
  <2>1. Cardinality(Subtree(tab)' \cap Splits) \in Nat /\ Cardinality(Subtree(tab) \cap Splits) \in Nat
    BY <1>18, <1>19, FS_CardinalityType
  <2> QED BY <1>16, <1>18, <1>19, <2>1
<1>21. Last(rest) \in ToSet(rest) /\ Last(rest) \in Panes
  <2>1. ToSet(rest) = {rest[i] : i \in 1..Len(rest)}
    BY <1>16, ToSetIs
  <2>2. Last(rest) \in ToSet(rest)
    BY <1>20, <2>1 DEF Last
  <2> QED BY <1>16, <2>2, ToSetInside
<1>22. focused' \in [Tabs -> Panes \cup {NoWidget}] /\ focused'[tab] = Last(rest)
       /\ \A t \in Tabs \ {tab} : focused'[t] = focused[t]
  BY <1>1, <1>8, <1>15, <1>21 DEF rest
<1>23. TreesTyped'
  BY <1>8, <1>11, <1>17, <1>22 DEF TreesInv, TreesTyped
<1>24. TreeInv'
  <2>1. ASSUME NEW c \in Containers, NEW x \in ToSet(children'[c]), x # sibling
        PROVE  x \in ToSet(children[c]) /\ x # parent
    <3>1. CASE c = grand
      BY <1>12, <2>1, <3>1
    <3>2. CASE c = parent
      BY <1>12, <2>1, <3>2
    <3>3. CASE c \notin {grand, parent}
      BY <1>3, <1>11, <2>1, <3>3
    <3> QED BY <3>1, <3>2, <3>3
  <2>2. ASSUME NEW c \in Containers, sibling \in ToSet(children'[c]) PROVE c = grand
    <3>1. c # parent
      BY <1>12, <2>2
    <3>2. c \notin {grand, parent} => children'[c] = children[c]
      BY <1>11
    <3> QED BY <1>7, <2>2, <3>1, <3>2
  <2>3. ASSUME NEW c \in Containers PROVE ToSet(children'[c]) \cap Tabs = {}
    BY <1>7, <2>1 DEF TreesInv, TreeInv
  <2>4. ASSUME NEW c \in Containers, NEW d \in Containers, NEW x \in ToSet(children'[c]) \cap ToSet(children'[d])
        PROVE  c = d
    <3>1. CASE x = sibling
      BY <2>2, <3>1
    <3>2. CASE x # sibling
      BY <2>1, <3>2 DEF TreesInv, TreeInv
    <3> QED BY <3>1, <3>2
  <2>5. ASSUME NEW c \in Containers, children'[c] # <<>> PROVE \E t \in ToSet(pages') : c \in Subtree(t)'
    <3>1. c # parent
      BY <1>11, <2>5
    <3>2. PICK t \in ToSet(pages) : c \in Subtree(t)
      <4>1. CASE c = grand
        BY <1>3, <4>1
      <4>2. CASE c # grand
        BY <1>11, <2>5, <3>1, <4>2 DEF TreesInv, TreeInv
      <4> QED BY <4>1, <4>2
    <3>3. c # leaf
      BY <1>1, WidgetKinds
    <3>4. c \in Subtree(t)'
      BY <1>13, <1>14, <3>1, <3>2, <3>3
    <3> QED BY <1>8, <3>2, <3>4
  <2>6. ASSUME NEW s \in ToSet(pages'), NEW t \in ToSet(pages'), s # t PROVE Subtree(s)' \cap Subtree(t)' = {}
    <3>1. s \in ToSet(pages) /\ t \in ToSet(pages)
      BY <1>8
    <3>2. Subtree(s)' \subseteq Subtree(s) /\ Subtree(t)' \subseteq Subtree(t)
      BY <1>13, <1>14, <3>1
    <3>3. Subtree(s) \cap Subtree(t) = {}
      BY <2>6, <3>1 DEF TreesInv, TreeInv
    <3> QED BY <3>2, <3>3
  <2> QED BY <2>3, <2>4, <2>5, <2>6 DEF TreeInv
<1>25. SlotsInv'
  <2>1. \A c \in Containers : IsInjective(children'[c]) /\ (c # parent => Len(children'[c]) = Len(children[c]))
    BY <1>5, <1>9, <1>10, <1>11
  <2>2. ASSUME NEW t \in ToSet(pages) PROVE Len(children'[t]) = 1
    <3>1. t \in Containers /\ t # parent
      BY <1>4, Belongs, WidgetKinds
    <3> QED BY <2>1, <3>1 DEF TreesInv, SlotsInv
  <2>3. ASSUME NEW t \in ToSet(pages), NEW s \in Subtree(t)' \cap Splits PROVE Len(children'[s]) = 2
    <3>1. s # parent /\ s \in Subtree(t)
      <4>1. CASE t = tab
        BY <1>13, <4>1
      <4>2. CASE t # tab
        <5>1. s \in Subtree(t) /\ Subtree(t) \cap Subtree(tab) = {}
          BY <1>14, <4>2 DEF TreesInv, TreeInv
        <5> QED BY <1>2, <5>1
      <4> QED BY <4>1, <4>2
    <3>2. s \in Containers
      BY WidgetKinds
    <3> QED BY <2>1, <3>1, <3>2 DEF TreesInv, SlotsInv
  <2>4. pages' = pages
    BY <1>8
  <2> QED BY <2>1, <2>2, <2>3, <2>4 DEF SlotsInv
<1>26. LeavesInv'
  <2>1. ASSUME NEW t \in ToSet(pages), t # tab
        PROVE  /\ Subtree(t)' = Subtree(t) /\ leaves'[t] = leaves[t] /\ focused'[t] = focused[t]
    <3>1. t \in Tabs
      BY Belongs
    <3> QED BY <1>14, <1>17, <1>22, <2>1, <3>1
  <2>2. /\ ToSet(leaves'[tab]) = Subtree(tab)' \cap Panes /\ focused'[tab] \in ToSet(leaves'[tab])
    <3>1. ToSet(leaves[tab]) = Subtree(tab) \cap Panes
      BY DEF TreesInv, LeavesInv
    <3> QED BY <1>4, <1>13, <1>16, <1>17, <1>21, <1>22, <3>1, WidgetKinds
  <2>3. \A t \in Tabs : IsInjective(leaves'[t]) /\ (t \notin ToSet(pages) => leaves'[t] = <<>>)
    BY <1>16, <1>17 DEF TreesInv, LeavesInv
  <2>4. pages' = pages
    BY <1>8
  <2> QED BY <1>17, <1>19, <1>20, <2>1, <2>2, <2>3, <2>4 DEF TreesInv, LeavesInv
<1>27. PagesInv'
  BY <1>8 DEF TreesInv, PagesInv
<1> QED BY <1>23, <1>24, <1>25, <1>26, <1>27 DEF TreesInv

\* Closing a page destroys its tree and no other.
LEMMA DestroyKeeps ==
    ASSUME TreesInv, NEW tab \in ToSet(pages), DestroyPage(tab)
    PROVE  TreesInv'
<1> DEFINE rest == RemoveFirst(pages, tab)
<1>1. tab \in Tabs /\ pages \in Seq(Tabs) /\ IsInjective(pages)
  BY Belongs DEF TreesInv, TreesTyped, PagesInv
<1>2. /\ children' = [c \in Containers |-> IF c \in Subtree(tab) THEN <<>> ELSE children[c]]
      /\ leaves' = [leaves EXCEPT ![tab] = <<>>] /\ focused' = [focused EXCEPT ![tab] = NoWidget]
      /\ exited' = exited \ Subtree(tab) /\ pages' = rest
  BY DEF DestroyPage, Without
<1>3. /\ rest \in Seq(Tabs) /\ IsInjective(rest) /\ ToSet(rest) = ToSet(pages) \ {tab}
  BY <1>1, RemoveFirstIs
<1>4. /\ children \in [Containers -> Seq(Everything)] /\ leaves \in [Tabs -> Seq(Panes)]
      /\ focused \in [Tabs -> Panes \cup {NoWidget}] /\ exited \subseteq Panes
  BY DEF TreesInv, TreesTyped
<1>5. /\ children' \in [Containers -> Seq(Everything)] /\ leaves' \in [Tabs -> Seq(Panes)]
      /\ focused' \in [Tabs -> Panes \cup {NoWidget}] /\ exited' \subseteq Panes
  <2>1. <<>> \in Seq(Everything) /\ <<>> \in Seq(Panes)
    BY EmptySeq
  <2>2. children' \in [Containers -> Seq(Everything)]
    BY <1>2, <1>4, <2>1
  <2>3. leaves' \in [Tabs -> Seq(Panes)]
    BY <1>2, <1>4, <2>1
  <2>4. focused' \in [Tabs -> Panes \cup {NoWidget}] /\ exited' \subseteq Panes
    BY <1>2, <1>4
  <2> QED BY <2>2, <2>3, <2>4
<1>6. TreesTyped'
  BY <1>2, <1>3, <1>5 DEF TreesTyped
<1>7. ASSUME NEW t \in ToSet(rest)
      PROVE  /\ Subtree(t)' = Subtree(t) /\ t \in ToSet(pages) /\ t # tab /\ t \in Tabs
             /\ (\A c \in Subtree(t) \cap Containers : children'[c] = children[c])
             /\ leaves'[t] = leaves[t] /\ focused'[t] = focused[t]
  <2>1. t \in ToSet(pages) /\ t # tab /\ t \in Tabs
    BY <1>3, Belongs
  <2>2. Subtree(t) \cap Subtree(tab) = {}
    BY <2>1 DEF TreesInv, TreeInv
  <2>3. \A c \in Subtree(t) \cap Containers : children'[c] = children[c]
    BY <1>2, <2>2
  <2>4. Subtree(t)' = Subtree(t)
    BY <1>5, <2>1, <2>3, SubtreeStays
  <2>5. leaves'[t] = leaves[t] /\ focused'[t] = focused[t]
    BY <1>2, <1>4, <2>1
  <2> QED BY <2>1, <2>3, <2>4, <2>5
<1> HIDE DEF rest
<1>8. \A c \in Containers : children'[c] \in {<<>>, children[c]} /\ (c \in Subtree(tab) => children'[c] = <<>>)
  BY <1>2
<1>9. TreeInv'
  <2>1. \A c \in Containers : ToSet(children'[c]) \subseteq ToSet(children[c])
    BY <1>8, NoneIs
  <2>2. \A c \in Containers : ToSet(children'[c]) \cap Tabs = {}
    BY <2>1 DEF TreesInv, TreeInv
  <2>3. \A c, d \in Containers : ToSet(children'[c]) \cap ToSet(children'[d]) # {} => c = d
    <3>1. \A c, d \in Containers : ToSet(children'[c]) \cap ToSet(children'[d])
                                   \subseteq ToSet(children[c]) \cap ToSet(children[d])
      BY <2>1
    <3> QED BY <3>1 DEF TreesInv, TreeInv
  <2>4. ASSUME NEW c \in Containers, children'[c] # <<>> PROVE \E t \in ToSet(rest) : c \in Subtree(t)'
    <3>1. children[c] # <<>> /\ c \notin Subtree(tab)
      BY <1>8, <2>4
    <3>2. PICK t \in ToSet(pages) : c \in Subtree(t)
      BY <3>1 DEF TreesInv, TreeInv
    <3>3. t \in ToSet(rest)
      BY <1>3, <3>1, <3>2
    <3> QED BY <1>7, <3>2, <3>3
  <2>5. ASSUME NEW s \in ToSet(rest), NEW t \in ToSet(rest), s # t PROVE Subtree(s)' \cap Subtree(t)' = {}
    BY <1>7, <2>5 DEF TreesInv, TreeInv
  <2> QED BY <1>2, <2>2, <2>3, <2>4, <2>5 DEF TreeInv
<1>10. SlotsInv'
  <2>1. \A c \in Containers : IsInjective(children'[c])
    BY <1>8, NoneIs DEF TreesInv, SlotsInv
  <2>2. ASSUME NEW t \in ToSet(rest)
        PROVE  Len(children'[t]) = 1 /\ \A s \in Subtree(t)' \cap Splits : Len(children'[s]) = 2
    <3>1. t \in Subtree(t) /\ t \in Containers
      BY <1>7, Belongs, WidgetKinds
    <3>2. \A s \in Splits : s \in Containers
      BY WidgetKinds
    <3> QED BY <1>7, <3>1, <3>2 DEF TreesInv, SlotsInv
  <2> QED BY <1>2, <2>1, <2>2 DEF SlotsInv
<1>11. LeavesInv'
  <2>1. ASSUME NEW t \in ToSet(rest)
        PROVE  /\ ToSet(leaves'[t]) = Subtree(t)' \cap Panes
               /\ focused'[t] \in ToSet(leaves'[t])
               /\ IsFiniteSet(Subtree(t)' \cap Splits)
               /\ Len(leaves'[t]) = Cardinality(Subtree(t)' \cap Splits) + 1
    BY <1>7 DEF TreesInv, LeavesInv
  <2>2. ASSUME NEW t \in Tabs PROVE IsInjective(leaves'[t]) /\ (t \notin ToSet(rest) => leaves'[t] = <<>>)
    <3>1. CASE t = tab
      BY <1>2, <1>4, <3>1, NoneIs
    <3>2. CASE t # tab
      BY <1>2, <1>3, <1>4, <3>2 DEF TreesInv, LeavesInv
    <3> QED BY <3>1, <3>2
  <2> QED BY <1>2, <2>1, <2>2 DEF LeavesInv
<1>12. PagesInv'
  <2>1. currentPage' \in ToSet(rest) \/ (rest = <<>> /\ currentPage' = NoWidget)
    <3>1. CASE rest = <<>>
      BY <3>1 DEF DestroyPage, Without, rest
    <3>2. CASE rest # <<>> /\ currentPage # tab
      <4>1. currentPage' = currentPage
        BY <3>2 DEF DestroyPage, Without, rest
      <4>2. pages # <<>>
        BY NoneIs
      <4>3. currentPage \in ToSet(pages)
        BY <4>2 DEF TreesInv, PagesInv
      <4> QED BY <1>3, <3>2, <4>1, <4>3
    <3>3. CASE rest # <<>> /\ currentPage = tab
      <4> DEFINE index == CHOOSE i \in DOMAIN pages : pages[i] = tab
      <4>1. currentPage' = rest[IF index <= Len(rest) THEN index ELSE Len(rest)]
        BY <3>3 DEF DestroyPage, Without, rest
      <4>2. index \in 1..Len(pages) /\ Len(pages) \in Nat
        <5>1. DOMAIN pages = 1..Len(pages) /\ Len(pages) \in Nat /\ ToSet(pages) = {pages[i] : i \in 1..Len(pages)}
          BY <1>1, LenProperties, ToSetIs
        <5>2. \E i \in DOMAIN pages : pages[i] = tab
          BY <5>1
        <5> QED BY <5>1, <5>2
      <4> HIDE DEF index
      <4>3. Len(rest) \in Nat /\ Len(rest) # 0 /\ ToSet(rest) = {rest[i] : i \in 1..Len(rest)}
        BY <1>3, <3>3, LenProperties, EmptySeq, ToSetIs
      <4>4. (IF index <= Len(rest) THEN index ELSE Len(rest)) \in 1..Len(rest)
        BY <4>2, <4>3
      <4> QED BY <4>1, <4>3, <4>4
    <3> QED BY <3>1, <3>2, <3>3
  <2> QED BY <1>2, <1>3, <2>1 DEF PagesInv
<1> QED BY <1>6, <1>9, <1>10, <1>11, <1>12 DEF TreesInv

\* A new tab begins a tree of its own.
LEMMA NewTabKeeps ==
    ASSUME TreesInv, NewTab
    PROVE  TreesInv'
<1>0. PICK tab, pane : tab = FreshTab /\ pane = FreshPane
  OBVIOUS
<1>1. /\ children' = [children EXCEPT ![tab] = <<pane>>]
      /\ leaves' = [leaves EXCEPT ![tab] = <<pane>>] /\ focused' = [focused EXCEPT ![tab] = pane]
      /\ pages' = Append(pages, tab) /\ currentPage' = tab /\ exited' = exited
  BY <1>0 DEF NewTab, NewTabOn
<1>2. tab \in Tabs /\ tab \notin ToSet(pages) /\ tab \in Containers /\ pages \in Seq(Tabs) /\ IsInjective(pages)
  <2>1. tab \in Tabs /\ tab \notin ToSet(pages)
    BY <1>0 DEF NewTab, AnyLeft, FreshTab
  <2> QED BY <2>1, WidgetKinds DEF TreesInv, TreesTyped, PagesInv
<1>3. pane \in Panes /\ pane \notin Opened /\ pane \in Everything
  <2>1. pane \in Panes /\ pane \notin Opened
    BY <1>0 DEF NewTab, AnyLeft, FreshPane
  <2> QED BY <2>1, WidgetKinds
<1>4. /\ \A c \in Containers : pane \notin ToSet(children[c])
      /\ \A t \in ToSet(pages) : pane \notin Subtree(t)
      /\ \A t \in Tabs : pane \notin ToSet(leaves[t])
  BY <1>3, FreshPaneIs
<1>5. \A t \in ToSet(pages) : tab \notin Subtree(t)
  <2> SUFFICES ASSUME NEW t \in ToSet(pages), tab \in Subtree(t) PROVE FALSE
    OBVIOUS
  <2>1. tab \in ToSet(children[Parent(tab)]) /\ Parent(tab) \in Containers
    BY <1>2, ParentIs
  <2> QED BY <1>2, <2>1 DEF TreesInv, TreeInv
<1>6. children[tab] = <<>>
  BY <1>2, <1>5 DEF TreesInv, TreeInv
<1>7. /\ children \in [Containers -> Seq(Everything)] /\ leaves \in [Tabs -> Seq(Panes)]
      /\ focused \in [Tabs -> Panes \cup {NoWidget}]
  BY DEF TreesInv, TreesTyped
<1>8. /\ <<pane>> \in Seq(Everything) /\ <<pane>> \in Seq(Panes) /\ Len(<<pane>>) = 1
      /\ IsInjective(<<pane>>) /\ ToSet(<<pane>>) = {pane}
  BY <1>3, AloneIs
<1>9. /\ children' \in [Containers -> Seq(Everything)] /\ children'[tab] = <<pane>>
      /\ \A c \in Containers \ {tab} : children'[c] = children[c]
  BY <1>1, <1>2, <1>7, <1>8
<1>10. /\ leaves' \in [Tabs -> Seq(Panes)] /\ leaves'[tab] = <<pane>>
       /\ \A t \in Tabs \ {tab} : leaves'[t] = leaves[t]
  BY <1>1, <1>2, <1>7, <1>8
<1>11. /\ focused' \in [Tabs -> Panes \cup {NoWidget}] /\ focused'[tab] = pane
       /\ \A t \in Tabs \ {tab} : focused'[t] = focused[t]
  BY <1>1, <1>2, <1>3, <1>7
<1>12. pages' \in Seq(Tabs) /\ IsInjective(pages') /\ ToSet(pages') = ToSet(pages) \cup {tab}
  BY <1>1, <1>2, PutLastIs
<1>13. ASSUME NEW t \in ToSet(pages)
       PROVE  /\ Subtree(t)' = Subtree(t) /\ t \in Tabs /\ t # tab /\ leaves'[t] = leaves[t]
              /\ focused'[t] = focused[t] /\ \A c \in Subtree(t) \cap Containers : children'[c] = children[c]
  <2>1. t \in Tabs /\ t # tab
    BY <1>2, Belongs
  <2>2. \A c \in Subtree(t) \cap Containers : children'[c] = children[c]
    BY <1>5, <1>9
  <2>3. Subtree(t)' = Subtree(t)
    BY <1>9, <2>1, <2>2, SubtreeStays
  <2> QED BY <1>10, <1>11, <2>1, <2>2, <2>3
<1>14. Subtree(tab)' = {tab, pane}
  <2> DEFINE L == PackedIn(children')
  <2>1. L \in [Containers -> SUBSET Everything] /\ L[tab] = {pane}
    <3>1. L[tab] = ToSet(children'[tab])
      BY <1>2 DEF PackedIn
    <3> QED BY <1>8, <1>9, <3>1, PackedIs
  <2>2. Subtree(tab)' = Reach(L, tab)
    BY <1>2, <1>9, SubtreeIs, SubtreeReaches
  <2> HIDE DEF L
  <2>3. ClosedUnder(L, {tab, pane}) /\ {tab, pane} \in SUBSET Everything
    <3>1. {tab, pane} \cap Containers = {tab}
      BY <1>2, <1>3, WidgetKinds
    <3> QED BY <1>2, <1>3, <2>1, <3>1, WidgetKinds DEF ClosedUnder
  <2>4. Reach(L, tab) \subseteq {tab, pane}
    BY <1>2, <2>1, <2>3, ReachIs
  <2>5. tab \in Reach(L, tab) /\ ClosedUnder(L, Reach(L, tab))
    BY <1>2, <2>1, ReachIs
  <2>6. pane \in Reach(L, tab)
    BY <1>2, <2>1, <2>5 DEF ClosedUnder
  <2> QED BY <2>2, <2>4, <2>5, <2>6
<1>15. TreesTyped'
  BY <1>1, <1>9, <1>10, <1>11, <1>12 DEF TreesInv, TreesTyped
<1>16. TreeInv'
  <2>1. ASSUME NEW c \in Containers, NEW x \in ToSet(children'[c])
        PROVE  IF c = tab THEN x = pane ELSE x # pane /\ x \in ToSet(children[c])
    <3>1. CASE c = tab
      BY <1>8, <1>9, <2>1, <3>1
    <3>2. CASE c # tab
      <4>1. children'[c] = children[c]
        BY <1>9, <3>2
      <4> QED BY <1>4, <2>1, <3>2, <4>1
    <3> QED BY <3>1, <3>2
  <2>2. ASSUME NEW c \in Containers PROVE ToSet(children'[c]) \cap Tabs = {}
    BY <1>3, <2>1, WidgetKinds DEF TreesInv, TreeInv
  <2>3. ASSUME NEW c \in Containers, NEW d \in Containers, NEW x \in ToSet(children'[c]) \cap ToSet(children'[d])
        PROVE  c = d
    <3>1. CASE x = pane
      BY <2>1, <3>1
    <3>2. CASE x # pane
      BY <2>1, <3>2 DEF TreesInv, TreeInv
    <3> QED BY <3>1, <3>2
  <2>4. ASSUME NEW c \in Containers, children'[c] # <<>> PROVE \E t \in ToSet(pages') : c \in Subtree(t)'
    <3>1. CASE c = tab
      BY <1>12, <1>14, <3>1
    <3>2. CASE c # tab
      <4>1. PICK t \in ToSet(pages) : c \in Subtree(t)
        BY <1>9, <2>4, <3>2 DEF TreesInv, TreeInv
      <4> QED BY <1>12, <1>13, <4>1
    <3> QED BY <3>1, <3>2
  <2>5. ASSUME NEW s \in ToSet(pages'), NEW t \in ToSet(pages'), s # t PROVE Subtree(s)' \cap Subtree(t)' = {}
    <3>1. ASSUME NEW u \in ToSet(pages) PROVE Subtree(u)' \cap Subtree(tab)' = {}
      BY <1>4, <1>5, <1>13, <1>14
    <3>2. CASE s = tab \/ t = tab
      BY <1>12, <2>5, <3>1, <3>2
    <3>3. CASE s # tab /\ t # tab
      <4>1. s \in ToSet(pages) /\ t \in ToSet(pages)
        BY <1>12, <3>3
      <4>2. Subtree(s) \cap Subtree(t) = {}
        BY <2>5, <4>1 DEF TreesInv, TreeInv
      <4> QED BY <1>13, <4>1, <4>2
    <3> QED BY <3>2, <3>3
  <2> QED BY <2>2, <2>3, <2>4, <2>5 DEF TreeInv
<1>17. SlotsInv'
  <2>1. \A c \in Containers : IsInjective(children'[c])
    BY <1>8, <1>9 DEF TreesInv, SlotsInv
  <2>2. ASSUME NEW t \in ToSet(pages')
        PROVE  Len(children'[t]) = 1 /\ \A s \in Subtree(t)' \cap Splits : Len(children'[s]) = 2
    <3>1. CASE t = tab
      <4>1. Subtree(t)' \cap Splits = {}
        BY <1>2, <1>3, <1>14, <3>1, WidgetKinds
      <4> QED BY <1>8, <1>9, <3>1, <4>1
    <3>2. CASE t # tab
      <4>1. t \in ToSet(pages) /\ t \in Subtree(t) /\ t \in Containers
        BY <1>12, <3>2, Belongs, WidgetKinds
      <4>2. \A s \in Splits : s \in Containers
        BY WidgetKinds
      <4> QED BY <1>13, <4>1, <4>2 DEF TreesInv, SlotsInv
    <3> QED BY <3>1, <3>2
  <2> QED BY <2>1, <2>2 DEF SlotsInv
<1>18. LeavesInv'
  <2>1. ASSUME NEW t \in ToSet(pages)
        PROVE  /\ ToSet(leaves'[t]) = Subtree(t)' \cap Panes
               /\ focused'[t] \in ToSet(leaves'[t])
               /\ IsFiniteSet(Subtree(t)' \cap Splits)
               /\ Len(leaves'[t]) = Cardinality(Subtree(t)' \cap Splits) + 1
    BY <1>13 DEF TreesInv, LeavesInv
  <2>2. /\ ToSet(leaves'[tab]) = Subtree(tab)' \cap Panes
        /\ focused'[tab] \in ToSet(leaves'[tab])
        /\ IsFiniteSet(Subtree(tab)' \cap Splits)
        /\ Len(leaves'[tab]) = Cardinality(Subtree(tab)' \cap Splits) + 1
    <3>1. Subtree(tab)' \cap Panes = {pane} /\ Subtree(tab)' \cap Splits = {}
      BY <1>2, <1>3, <1>14, WidgetKinds
    <3>2. ToSet(leaves'[tab]) = {pane} /\ Len(leaves'[tab]) = 1 /\ focused'[tab] = pane
      BY <1>8, <1>10, <1>11
    <3>3. Cardinality({}) + 1 = 1 /\ IsFiniteSet({})
      BY FS_EmptySet
    <3> QED BY <3>1, <3>2, <3>3
  <2>3. \A t \in Tabs : IsInjective(leaves'[t]) /\ (t \notin ToSet(pages') => leaves'[t] = <<>>)
    BY <1>8, <1>10, <1>12 DEF TreesInv, LeavesInv
  <2> QED BY <1>12, <2>1, <2>2, <2>3 DEF LeavesInv
<1>19. PagesInv'
  BY <1>1, <1>12 DEF PagesInv
<1> QED BY <1>15, <1>16, <1>17, <1>18, <1>19 DEF TreesInv

\* The window starts with a tree of one pane.
LEMMA VoidBegins ==
    ASSUME VoidInit
    PROVE  TreesInv /\ TypedInv /\ PromptInv
<1>0. PICK tab, pane : tab = (CHOOSE t \in Tabs : TRUE) /\ pane = CHOOSE p \in Panes : TRUE
  OBVIOUS
<1>1. /\ children = [c \in Containers |-> IF c = tab THEN <<pane>> ELSE <<>>]
      /\ leaves = [t \in Tabs |-> IF t = tab THEN <<pane>> ELSE <<>>]
      /\ focused = [t \in Tabs |-> IF t = tab THEN pane ELSE NoWidget]
      /\ pages = <<tab>> /\ currentPage = tab /\ exited = {}
  BY <1>0 DEF VoidInit
<1>2. tab \in Tabs /\ pane \in Panes /\ tab \in Containers /\ pane \in Everything
  <2>1. tab \in Tabs /\ pane \in Panes
    BY <1>0, VoidConstants
  <2> QED BY <2>1, WidgetKinds
<1>3. /\ <<pane>> \in Seq(Everything) /\ <<pane>> \in Seq(Panes) /\ Len(<<pane>>) = 1
      /\ IsInjective(<<pane>>) /\ ToSet(<<pane>>) = {pane}
      /\ <<tab>> \in Seq(Tabs) /\ IsInjective(<<tab>>) /\ ToSet(<<tab>>) = {tab}
  BY <1>2, AloneIs
<1>4. /\ <<>> \in Seq(Everything) /\ <<>> \in Seq(Panes) /\ ToSet(<<>>) = {} /\ IsInjective(<<>>)
  BY NoneIs
<1>5. /\ children \in [Containers -> Seq(Everything)] /\ children[tab] = <<pane>>
      /\ \A c \in Containers \ {tab} : children[c] = <<>>
  BY <1>1, <1>2, <1>3, <1>4
<1>6. /\ leaves \in [Tabs -> Seq(Panes)] /\ leaves[tab] = <<pane>>
      /\ \A t \in Tabs \ {tab} : leaves[t] = <<>>
  BY <1>1, <1>2, <1>3, <1>4
<1>7. focused \in [Tabs -> Panes \cup {NoWidget}] /\ focused[tab] = pane
  BY <1>1, <1>2
<1>8. ToSet(pages) = {tab}
  BY <1>1, <1>3
<1>9. Subtree(tab) = {tab, pane}
  <2> DEFINE K == PackedIn(children)
  <2>1. K \in [Containers -> SUBSET Everything] /\ K[tab] = {pane}
    <3>1. K[tab] = ToSet(children[tab])
      BY <1>2 DEF PackedIn
    <3> QED BY <1>3, <1>5, <3>1, PackedIs
  <2>2. Subtree(tab) = Reach(K, tab)
    BY <1>2, <1>5, SubtreeIs, SubtreeReaches
  <2> HIDE DEF K
  <2>3. ClosedUnder(K, {tab, pane}) /\ {tab, pane} \in SUBSET Everything
    <3>1. {tab, pane} \cap Containers = {tab}
      BY <1>2, WidgetKinds
    <3> QED BY <1>2, <2>1, <3>1, WidgetKinds DEF ClosedUnder
  <2>4. Reach(K, tab) \subseteq {tab, pane}
    BY <1>2, <2>1, <2>3, ReachIs
  <2>5. tab \in Reach(K, tab) /\ ClosedUnder(K, Reach(K, tab))
    BY <1>2, <2>1, ReachIs
  <2>6. pane \in Reach(K, tab)
    BY <1>2, <2>1, <2>5 DEF ClosedUnder
  <2> QED BY <2>2, <2>4, <2>5, <2>6
<1>10. TreesTyped
  BY <1>1, <1>3, <1>5, <1>6, <1>7 DEF TreesTyped
<1>11. TreeInv
  <2>1. \A c \in Containers : c # tab => ToSet(children[c]) = {}
    BY <1>4, <1>5
  <2>2. ToSet(children[tab]) = {pane}
    BY <1>3, <1>5
  <2>3. \A c \in Containers : ToSet(children[c]) \cap Tabs = {}
    BY <1>2, <2>1, <2>2, WidgetKinds
  <2>4. \A c, d \in Containers : ToSet(children[c]) \cap ToSet(children[d]) # {} => c = d
    BY <2>1
  <2>5. \A c \in Containers : children[c] # <<>> => c \in Subtree(tab)
    BY <1>5, <1>9
  <2> QED BY <1>8, <2>3, <2>4, <2>5 DEF TreeInv
<1>12. SlotsInv
  <2>1. \A c \in Containers : IsInjective(children[c])
    BY <1>3, <1>4, <1>5
  <2>2. Subtree(tab) \cap Splits = {}
    BY <1>2, <1>9, WidgetKinds
  <2> QED BY <1>3, <1>5, <1>8, <2>1, <2>2 DEF SlotsInv
<1>13. LeavesInv
  <2>1. Subtree(tab) \cap Panes = {pane} /\ Subtree(tab) \cap Splits = {}
    BY <1>2, <1>9, WidgetKinds
  <2>2. Cardinality({}) + 1 = 1 /\ IsFiniteSet({})
    BY FS_EmptySet
  <2>3. \A t \in Tabs : IsInjective(leaves[t]) /\ (t \notin ToSet(pages) => leaves[t] = <<>>)
    BY <1>3, <1>4, <1>6, <1>8
  <2>4. ToSet(leaves[tab]) = {pane} /\ Len(leaves[tab]) = 1
    BY <1>3, <1>6
  <2> QED BY <1>7, <1>8, <2>1, <2>2, <2>3, <2>4 DEF LeavesInv
<1>14. PagesInv
  BY <1>1, <1>3 DEF PagesInv
<1>15. TypedInv
  BY DEF VoidInit, TypedInv, VoidTargets
<1>16. PromptInv
  BY DEF VoidInit, PromptInv
<1> QED BY <1>10, <1>11, <1>12, <1>13, <1>14, <1>15, <1>16 DEF TreesInv

\* A pane closes with its page, or its sibling takes the place of both.
LEMMA CloseKeeps ==
    ASSUME TreesInv, NEW tab \in Tabs, NEW leaf \in ToSet(leaves[tab]), ClosePane(tab, leaf)
    PROVE  TreesInv'
<1>1. tab \in ToSet(pages)
  BY NoneIs DEF TreesInv, LeavesInv
<1>2. CASE Parent(leaf) = tab
  <2>1. DestroyPage(tab)
    BY <1>2 DEF ClosePane
  <2> QED BY <1>1, <2>1, DestroyKeeps
<1>3. CASE Parent(leaf) # tab
  BY <1>1, <1>3, MergeKeeps
<1> QED BY <1>2, <1>3

\* The keyboard is in a pane of the page that is shown.
LEMMA AtKeyboardIs ==
    ASSUME TreesInv, AtKeyboard
    PROVE  currentPage \in Tabs /\ FocusedPane \in ToSet(leaves[currentPage]) /\ FocusedPane \in Panes
<1>1. FocusedPane # NoWidget
  BY DEF AtKeyboard, NoDialog
<1>2. currentPage \in ToSet(pages) /\ FocusedPane = focused[currentPage]
  BY <1>1 DEF FocusedPane, TreesInv, PagesInv
<1>3. currentPage \in Tabs
  BY <1>2, Belongs
<1>4. FocusedPane \in ToSet(leaves[currentPage])
  BY <1>2 DEF TreesInv, LeavesInv
<1>5. FocusedPane \in Panes
  BY <1>2, <1>4 DEF TreesInv, LeavesInv
<1> QED BY <1>3, <1>4, <1>5

\* A step that leaves the trees alone.
LEMMA TreesStay ==
    ASSUME TreesInv, UNCHANGED <<children, leaves, pages>>, exited' \subseteq Panes,
           focused' \in [Tabs -> Panes \cup {NoWidget}],
           \A t \in ToSet(pages) : focused'[t] \in ToSet(leaves[t]),
           currentPage' \in ToSet(pages) \/ currentPage' = currentPage
    PROVE  TreesInv'
<1>1. \A t \in ToSet(pages) : Subtree(t)' = Subtree(t)
  BY DEF Subtree, ContainersOf, Closed
<1>2. TreesTyped'
  BY DEF TreesInv, TreesTyped
<1>3. TreeInv' /\ SlotsInv'
  BY <1>1 DEF TreesInv, TreeInv, SlotsInv
<1>4. LeavesInv'
  BY <1>1 DEF TreesInv, LeavesInv
<1>5. PagesInv'
  BY DEF TreesInv, PagesInv
<1> QED BY <1>2, <1>3, <1>4, <1>5 DEF TreesInv

\* Where a line is typed, when it is.
LEMMA FedWhere ==
    ASSUME NEW pane, NEW wanted, Feeds(pane, wanted), pane = wanted \/ shaken,
           typed \in {"nowhere", "where asked", "moved"}
    PROVE  typed' \in {"nowhere", "where asked", "moved"}
BY DEF Feeds

\* Every step keeps the trees.
LEMMA VoidStep ==
    ASSUME TreesInv, TypedInv, PromptInv, [VoidNext]_voidVars
    PROVE  TreesInv' /\ TypedInv' /\ PromptInv'
<1>0. /\ focused \in [Tabs -> Panes \cup {NoWidget}] /\ exited \subseteq Panes
      /\ (\A t \in ToSet(pages) : t \in Tabs /\ focused[t] \in ToSet(leaves[t]))
      /\ \A t \in Tabs : ToSet(leaves[t]) \subseteq Panes
  <2>1. \A t \in Tabs : leaves[t] \in Seq(Panes)
    BY DEF TreesInv, TreesTyped
  <2> QED BY <2>1, Belongs, ToSetInside DEF TreesInv, TreesTyped, LeavesInv
<1>1. CASE NewTab
  <2>1. TypedInv' /\ PromptInv'
    BY <1>1 DEF NewTab, TypedInv, PromptInv
  <2> QED BY <1>1, <2>1, NewTabKeeps
<1>2. CASE Split
  <2>1. prompt = <<>> /\ UNCHANGED dialogVars
    BY <1>2 DEF Split, AtKeyboard, NoDialog
  <2>2. TypedInv' /\ PromptInv'
    BY <2>1 DEF dialogVars, TypedInv, PromptInv
  <2> QED BY <1>2, <2>2, SplitKeeps
<1>3. CASE CloseFocusedPane
  <2>1. TreesInv'
    BY <1>3, AtKeyboardIs, CloseKeeps DEF CloseFocusedPane
  <2>2. prompt = <<>> /\ UNCHANGED dialogVars
    BY <1>3 DEF CloseFocusedPane, AtKeyboard, NoDialog
  <2>3. TypedInv' /\ PromptInv'
    BY <2>2 DEF dialogVars, TypedInv, PromptInv
  <2> QED BY <2>1, <2>3
<1>4. CASE OpensLauncher
  <2>1. FocusedPane \in Panes /\ prompt = <<>>
    BY <1>4, AtKeyboardIs DEF OpensLauncher, AtKeyboard, NoDialog
  <2>2. TypedInv' /\ PromptInv'
    BY <1>4, <2>1 DEF OpensLauncher, TypedInv, PromptInv
  <2>3. TreesInv'
    BY <1>0, <1>4, TreesStay DEF OpensLauncher
  <2> QED BY <2>2, <2>3
<1>5. CASE LauncherResponds
  <2>1. UNCHANGED typed \/ Feeds(launcher[1], launcher[1])
    BY <1>5 DEF LauncherResponds, TargetPane
  <2>2. typed' \in {"nowhere", "where asked", "moved"}
    BY <2>1, FedWhere DEF TypedInv
  <2>3. TypedInv'
    BY <1>5, <2>2 DEF LauncherResponds, TypedInv
  <2>4. PromptInv'
    BY <1>5 DEF LauncherResponds, PromptInv, FocusedPane
  <2>5. TreesInv'
    BY <1>0, <1>5, TreesStay DEF LauncherResponds
  <2> QED BY <2>3, <2>4, <2>5
<1>6. CASE SetTarget
  <2>1. UNCHANGED typed \/ Feeds(FocusedPane, prompt[1])
    BY <1>6 DEF SetTarget
  <2>2. FocusedPane = prompt[1] \/ shaken
    BY <1>6 DEF SetTarget, PromptInv
  <2>3. typed' \in {"nowhere", "where asked", "moved"}
    BY <2>1, <2>2, FedWhere DEF TypedInv
  <2>4. /\ prompt' \in {<<>>, <<NoWidget>>} /\ shaken' \in {FALSE, shaken} /\ launcher' = launcher
        /\ engaged' \in {"none", "new"}
    BY <1>6 DEF SetTarget
  <2>5. TypedInv' /\ PromptInv'
    BY <2>3, <2>4 DEF TypedInv, VoidTargets, PromptInv
  <2>6. TreesInv'
    BY <1>0, <1>6, TreesStay DEF SetTarget
  <2> QED BY <2>5, <2>6
<1>7. ASSUME NEW tab \in Tabs, ClosePage(tab) PROVE TreesInv' /\ TypedInv' /\ PromptInv'
  <2>1. tab \in ToSet(pages) /\ DestroyPage(tab) /\ prompt = <<>> /\ UNCHANGED dialogVars
    BY <1>7 DEF ClosePage, NoDialog
  <2>2. TypedInv' /\ PromptInv'
    BY <2>1 DEF dialogVars, TypedInv, PromptInv
  <2> QED BY <2>1, <2>2, DestroyKeeps
<1>8. ASSUME NEW tab \in Tabs, TurnPage(tab) PROVE TreesInv' /\ TypedInv' /\ PromptInv'
  <2>1. TreesInv'
    BY <1>0, <1>8, TreesStay DEF TurnPage
  <2>2. prompt = <<>> /\ UNCHANGED dialogVars
    BY <1>8 DEF TurnPage, NoDialog
  <2> QED BY <2>1, <2>2 DEF dialogVars, TypedInv, PromptInv
<1>9. ASSUME NEW pane \in Panes, ShellExits(pane) PROVE TreesInv' /\ TypedInv' /\ PromptInv'
  <2>1. TreesInv'
    BY <1>0, <1>9, TreesStay DEF ShellExits
  <2> QED BY <1>9, <2>1 DEF ShellExits, dialogVars, TypedInv, PromptInv, FocusedPane
<1>10. ASSUME NEW pane \in Panes, ChildExited(pane) PROVE TreesInv' /\ TypedInv' /\ PromptInv'
  <2>1. PICK tab \in Tabs : pane \in ToSet(leaves[tab]) /\ ClosePane(tab, pane)
    BY <1>10 DEF ChildExited
  <2>2. TreesInv'
    BY <2>1, CloseKeeps
  <2>3. TypedInv'
    BY <1>10 DEF ChildExited, TypedInv
  <2>4. PromptInv'
    BY <1>10 DEF ChildExited, PromptInv
  <2> QED BY <2>2, <2>3, <2>4
<1>11. ASSUME NEW pane \in Panes, FocusPane(pane) PROVE TreesInv' /\ TypedInv' /\ PromptInv'
  <2>1. currentPage \in ToSet(pages) /\ pane \in ToSet(leaves[currentPage])
    BY <1>11 DEF FocusPane, TreesInv, PagesInv
  <2>2. focused' \in [Tabs -> Panes \cup {NoWidget}]
        /\ \A t \in ToSet(pages) : focused'[t] \in ToSet(leaves[t])
    BY <1>0, <1>11, <2>1 DEF FocusPane
  <2>3. TreesInv'
    BY <1>0, <1>11, <2>2, TreesStay DEF FocusPane
  <2>4. prompt = <<>> /\ UNCHANGED dialogVars
    BY <1>11 DEF FocusPane, NoDialog
  <2> QED BY <2>3, <2>4 DEF dialogVars, TypedInv, PromptInv
<1>12. CASE UNCHANGED voidVars
  <2>1. TreesInv'
    BY <1>0, <1>12, TreesStay DEF voidVars
  <2> QED BY <1>12, <2>1 DEF voidVars, dialogVars, TypedInv, PromptInv, FocusedPane
<1>13. CASE OpensPrompt
  <2>1. FocusedPane \in Panes /\ launcher' = launcher
    BY <1>13, AtKeyboardIs DEF OpensPrompt
  <2>2. TypedInv' /\ PromptInv'
    BY <1>13, <2>1 DEF OpensPrompt, TypedInv, PromptInv, FocusedPane
  <2>3. TreesInv'
    BY <1>0, <1>13, TreesStay DEF OpensPrompt
  <2> QED BY <2>2, <2>3
<1>14. CASE PromptCloses
  <2>1. TypedInv' /\ PromptInv'
    BY <1>14 DEF PromptCloses, TypedInv, PromptInv
  <2>2. TreesInv'
    BY <1>0, <1>14, TreesStay DEF PromptCloses
  <2> QED BY <2>1, <2>2
<1> QED BY <1>1, <1>2, <1>3, <1>4, <1>5, <1>6, <1>7, <1>8, <1>9, <1>10, <1>11, <1>12, <1>13, <1>14
        DEF VoidNext

\* The trees have the types and are reachable.
LEMMA TreesAreReachable ==
    ASSUME TreesInv, TypedInv
    PROVE  VoidTypeOK /\ PanesStayReachable /\ TypedWhereAsked
<1>1. VoidTypeOK
  <2>1. currentPage \in Tabs \cup {NoWidget}
    BY Belongs DEF TreesInv, PagesInv
  <2> QED BY <2>1 DEF TreesInv, TreesTyped, TypedInv, VoidTypeOK
<1>2. ASSUME NEW t \in ToSet(pages), NEW s \in Subtree(t) \cap Splits
      PROVE  Cardinality(ToSet(children[s])) = 2
  <2>1. s \in Containers
    BY WidgetKinds
  <2>2. children[s] \in Seq(Everything) /\ Len(children[s]) = 2 /\ IsInjective(children[s])
    BY <2>1 DEF TreesInv, TreesTyped, SlotsInv
  <2>3. children[s][1] \in ToSet(children[s])
    <3>1. 1 \in 1..2
      OBVIOUS
    <3> QED BY <2>2, <3>1, ToSetIs
  <2>4. PICK a, b : a # b /\ ToSet(children[s]) = {a, b}
    <3>1. \E b \in ToSet(children[s]) : b # children[s][1] /\ ToSet(children[s]) = {children[s][1], b}
      BY <2>2, <2>3, PairHas
    <3> QED BY <3>1
  <2>5. IsFiniteSet({a}) /\ Cardinality({a}) = 1
    BY FS_Singleton
  <2>6. Cardinality({a} \cup {b}) = Cardinality({a}) + 1
    BY <2>4, <2>5, FS_AddElement
  <2>7. {a} \cup {b} = {a, b}
    OBVIOUS
  <2> QED BY <2>4, <2>5, <2>6, <2>7
<1>3. pages # <<>> => currentPage \in ToSet(pages)
  BY DEF TreesInv, PagesInv
<1>4. PanesStayReachable
  BY <1>2, <1>3 DEF PanesStayReachable, TreesInv, TreeInv, SlotsInv, LeavesInv
<1> QED BY <1>1, <1>4 DEF TypedInv, TypedWhereAsked

(* The Void: it keeps its types; the panes of every tab are those of its   *)
(* tree however splits, closes and exits of shells interleave              *)
(* (TabRoot.split and close_pane, close_page, _on_child_exited), also      *)
(* while a dialog is open; the launcher types where it was asked to or not *)
(* at all, and the prompt for a target (_prompt_set_target, set_target)    *)
(* where it was opened unless a shell has exited under it.                 *)
THEOREM PanesAreReached == VoidSpec => [](VoidTypeOK /\ PanesStayReachable /\ TypedWhereAsked)
<1>1. VoidInit => TreesInv /\ TypedInv /\ PromptInv
  BY VoidBegins
<1>2. TreesInv /\ TypedInv /\ PromptInv /\ [VoidNext]_voidVars => TreesInv' /\ TypedInv' /\ PromptInv'
  BY VoidStep
<1>3. TreesInv /\ TypedInv => VoidTypeOK /\ PanesStayReachable /\ TypedWhereAsked
  BY TreesAreReachable
<1> QED BY <1>1, <1>2, <1>3, PTL DEF VoidSpec

-----------------------------------------------------------------------------

(* The vault of Security Center, for any passwords, entries and number of  *)
(* faults and cuts.  The invariant follows an entry through the handler:   *)
(* from the list in memory to the staged file, from there to vault.dat,    *)
(* and only with the directory synced into what survives for certain.      *)

(* Removing one element from a sequence, in terms of its elements.         *)
LEMMA RemoveAtType ==
    ASSUME NEW S, NEW s \in Seq(S), NEW i \in 1..Len(s)
    PROVE  RemoveAt(s, i) \in Seq(S)
<1>1. SubSeq(s, 1, i-1) \in Seq(S)
  OBVIOUS
<1>2. SubSeq(s, i+1, Len(s)) \in Seq(S)
  OBVIOUS
<1> QED BY <1>1, <1>2 DEF RemoveAt

\* Removing a place loses at most the entry of that place.
LEMMA RemoveAtKeeps ==
    ASSUME NEW S, NEW s \in Seq(S), NEW i \in 1..Len(s)
    PROVE  Range(s) \ {s[i]} \subseteq Range(RemoveAt(s, i))
<1> DEFINE a == SubSeq(s, 1, i-1)
           b == SubSeq(s, i+1, Len(s))
<1>1. a \in Seq(S) /\ Len(a) = i-1 /\ \A j \in 1..(i-1) : a[j] = s[j]
  OBVIOUS
<1>2. b \in Seq(S) /\ Len(b) = Len(s)-i /\ \A j \in 1..(Len(s)-i) : b[j] = s[i+j]
  OBVIOUS
<1>3. SUFFICES ASSUME NEW j \in 1..Len(s), j # i
               PROVE  \E k \in DOMAIN RemoveAt(s, i) : RemoveAt(s, i)[k] = s[j]
  BY DEF Range
<1> HIDE DEF a, b
<1>4. RemoveAt(s, i) = a \o b
  BY DEF RemoveAt, a, b
<1>5. CASE j < i
  <2>1. j \in DOMAIN (a \o b) /\ (a \o b)[j] = s[j]
    BY <1>1, <1>2, <1>5
  <2> QED BY <2>1, <1>4
<1>6. CASE j > i
  <2>1. j-1 \in DOMAIN (a \o b) /\ (a \o b)[j-1] = b[j-i]
    BY <1>1, <1>2, <1>6
  <2>2. b[j-i] = s[j]
    BY <1>2, <1>6
  <2> QED BY <2>1, <2>2, <1>4
<1> QED BY <1>3, <1>5, <1>6

\* Appending an entry loses none.
LEMMA AppendKeeps ==
    ASSUME NEW S, NEW s \in Seq(S), NEW e \in S
    PROVE  Append(s, e) \in Seq(S) /\ Range(s) \subseteq Range(Append(s, e))
<1>1. \A j \in DOMAIN s : j \in DOMAIN Append(s, e) /\ Append(s, e)[j] = s[j]
  OBVIOUS
<1> QED BY <1>1 DEF Range

\* The entries of a list are of its type.
LEMMA RangeType ==
    ASSUME NEW S, NEW s \in Seq(S)
    PROVE  Range(s) \subseteq S
BY DEF Range

-----------------------------------------------------------------------------
(* The invariant.                                                          *)

\* Which operations belong to which screen.
HandlerInv ==
    /\ screen \in {"closed", "unlock"} => at = "idle"
    /\ screen = "create" => at \in {"idle", "write", "sync", "link", "unlink"}
    /\ screen = "unlocked" => at \in {"idle", "write", "sync", "replace", "syncdir"}
    /\ screen = "unlocked" \/ at # "idle" => key \in Passwords

\* What has been staged and published is what the window holds.
StageInv ==
    /\ at \in {"sync", "link", "unlink", "replace", "syncdir"}
          => staged.data = [pw |-> key, entries |-> entries]
    /\ at \in {"link", "unlink", "replace", "syncdir"} => staged.on = "platter"
    /\ at \in {"unlink", "syncdir"} => file = staged.data

\* An entry reported saved is in every survivor and in the list, and in the
\* list that a failure would put back.
KeptInv ==
    /\ SavedSurvives
    /\ screen = "unlocked" => kept \subseteq Range(entries)
    /\ screen = "unlocked" /\ at # "idle" => kept \subseteq Range(undo)
    /\ at = "unlink" => kept = {}

\* The whole invariant of the vault.
VaultInv == VaultTypeOK /\ HandlerInv /\ StageInv /\ KeptInv /\ ShownIsStored

\* Each handler stays on its screen.
LEMMA HandlerStep ==
    ASSUME WindowType, HandlerInv, StageInv, VaultNext
    PROVE  HandlerInv'
<1>1. CASE OpenWindow
  BY <1>1 DEF HandlerInv, WindowType, None, NoVault, OpenWindow,
       LockScreen, diskVars, windowVars, boundVars
<1>2. CASE LockVault
  BY <1>2 DEF HandlerInv, WindowType, None, NoVault, LockVault,
       Forget, LockScreen, diskVars, windowVars, boundVars
<1>3. CASE CloseWindow
  BY <1>3 DEF HandlerInv, WindowType, None, NoVault, CloseWindow,
       Forget, diskVars, windowVars, boundVars
<1>4. CASE WriteStaged
  BY <1>4 DEF HandlerInv, WindowType, None, NoVault, WriteStaged,
       diskVars, windowVars, boundVars
<1>5. CASE SyncStaged
  BY <1>5 DEF HandlerInv, WindowType, None, NoVault, SyncStaged,
       Synced, Publication, diskVars, windowVars, boundVars
<1>6. CASE LinkStaged
  BY <1>6 DEF HandlerInv, WindowType, None, NoVault, LinkStaged,
       LinkSucceeds, Durable, diskVars, windowVars, boundVars
<1>7. CASE Created
  BY <1>7 DEF HandlerInv, WindowType, None, NoVault, Created, Return,
       Refresh, NoStage, diskVars, windowVars, boundVars
<1>8. CASE ReplaceFile
  BY <1>8 DEF HandlerInv, WindowType, None, NoVault, ReplaceFile,
       Durable, diskVars, windowVars, boundVars
<1>9. CASE Saved
  BY <1>9 DEF HandlerInv, WindowType, None, NoVault, Saved, Return,
       Refresh, NoStage, SyncedDirectory, diskVars, windowVars, boundVars
<1>10. CASE SaveFails
  BY <1>10 DEF HandlerInv, WindowType, None, NoVault, SaveFails,
       Return, Refresh, Failing, NoStage, diskVars, windowVars, boundVars
<1>11. CASE CreateFails
  BY <1>11 DEF HandlerInv, WindowType, None, NoVault, CreateFails,
       Return, Failing, NoStage, diskVars, windowVars, boundVars
<1>12. CASE Killed
  BY <1>12 DEF HandlerInv, WindowType, None, NoVault, Killed, Gone,
       Forget, Return, NoStage, diskVars, windowVars, boundVars
<1>13. CASE PowerCut
  BY <1>13 DEF HandlerInv, WindowType, None, NoVault, PowerCut, Gone,
       Forget, Return, NoStage, diskVars, windowVars, boundVars
<1>14. CASE \E pw \in Passwords : Unlock(pw)
  BY <1>14 DEF HandlerInv, WindowType, None, NoVault, Unlock,
       diskVars, windowVars, boundVars
<1>15. CASE \E pw \in Passwords : Create(pw)
  BY <1>15 DEF HandlerInv, WindowType, None, NoVault, Create,
       diskVars, windowVars, boundVars
<1>16. CASE \E pw \in Passwords : VaultPutBack(pw)
  BY <1>16 DEF HandlerInv, WindowType, None, NoVault, VaultPutBack,
       diskVars, windowVars, boundVars
<1>17. CASE \E e \in Entries : AddEntry(e)
  BY <1>17 DEF HandlerInv, WindowType, None, NoVault, AddEntry,
       diskVars, windowVars, boundVars
<1>18. CASE \E idx \in DOMAIN rows : DeleteEntry(idx)
  BY <1>18 DEF HandlerInv, WindowType, None, NoVault, DeleteEntry,
       diskVars, windowVars, boundVars
<1> QED
  BY <1>1, <1>2, <1>3, <1>4, <1>5, <1>6, <1>7, <1>8, <1>9, <1>10,
     <1>11, <1>12, <1>13, <1>14, <1>15, <1>16, <1>17, <1>18 DEF VaultNext,
     Handler

\* The staged file stays what the window holds.
LEMMA StageStep ==
    ASSUME DiskType, WindowType, HandlerInv, StageInv, VaultNext
    PROVE  StageInv'
<1>1. CASE OpenWindow
  BY <1>1 DEF HandlerInv, StageInv, DiskType, WindowType, NoVault,
       None, OpenWindow, LockScreen, diskVars, windowVars, boundVars
<1>2. CASE LockVault
  BY <1>2 DEF HandlerInv, StageInv, DiskType, WindowType, NoVault,
       None, LockVault, Forget, LockScreen, diskVars, windowVars,
       boundVars
<1>3. CASE CloseWindow
  BY <1>3 DEF HandlerInv, StageInv, DiskType, WindowType, NoVault,
       None, CloseWindow, Forget, diskVars, windowVars, boundVars
<1>4. CASE WriteStaged
  BY <1>4 DEF HandlerInv, StageInv, DiskType, WindowType, NoVault,
       None, WriteStaged, diskVars, windowVars, boundVars
<1>5. CASE SyncStaged
  BY <1>5 DEF HandlerInv, StageInv, DiskType, WindowType, NoVault,
       None, SyncStaged, Synced, Publication, diskVars, windowVars,
       boundVars
<1>6. CASE LinkStaged
  BY <1>6 DEF HandlerInv, StageInv, DiskType, WindowType, NoVault,
       None, LinkStaged, LinkSucceeds, Durable, diskVars, windowVars,
       boundVars
<1>7. CASE Created
  BY <1>7 DEF HandlerInv, StageInv, DiskType, WindowType, NoVault,
       None, Created, Return, Refresh, NoStage, diskVars, windowVars,
       boundVars
<1>8. CASE ReplaceFile
  BY <1>8 DEF HandlerInv, StageInv, DiskType, WindowType, NoVault,
       None, ReplaceFile, Durable, diskVars, windowVars, boundVars
<1>9. CASE Saved
  BY <1>9 DEF HandlerInv, StageInv, DiskType, WindowType, NoVault,
       None, Saved, Return, Refresh, NoStage, SyncedDirectory, diskVars,
       windowVars, boundVars
<1>10. CASE SaveFails
  BY <1>10 DEF HandlerInv, StageInv, DiskType, WindowType, NoVault,
       None, SaveFails, Return, Refresh, Failing, NoStage, diskVars,
       windowVars, boundVars
<1>11. CASE CreateFails
  BY <1>11 DEF HandlerInv, StageInv, DiskType, WindowType, NoVault,
       None, CreateFails, Return, Failing, NoStage, diskVars, windowVars,
       boundVars
<1>12. CASE Killed
  BY <1>12 DEF HandlerInv, StageInv, DiskType, WindowType, NoVault,
       None, Killed, Gone, Forget, Return, NoStage, diskVars, windowVars,
       boundVars
<1>13. CASE PowerCut
  BY <1>13 DEF HandlerInv, StageInv, DiskType, WindowType, NoVault,
       None, PowerCut, Gone, Forget, Return, NoStage, diskVars,
       windowVars, boundVars
<1>14. CASE \E pw \in Passwords : Unlock(pw)
  BY <1>14 DEF HandlerInv, StageInv, DiskType, WindowType, NoVault,
       None, Unlock, diskVars, windowVars, boundVars
<1>15. CASE \E pw \in Passwords : Create(pw)
  BY <1>15 DEF HandlerInv, StageInv, DiskType, WindowType, NoVault,
       None, Create, diskVars, windowVars, boundVars
<1>16. CASE \E pw \in Passwords : VaultPutBack(pw)
  <2>1. at \notin {"unlink", "syncdir"}
    BY <1>16, VaultConstants DEF HandlerInv, StageInv, NoVault, VaultPutBack
  <2> QED BY <1>16, <2>1 DEF StageInv, VaultPutBack, windowVars
<1>17. CASE \E e \in Entries : AddEntry(e)
  BY <1>17 DEF HandlerInv, StageInv, DiskType, WindowType, NoVault,
       None, AddEntry, diskVars, windowVars, boundVars
<1>18. CASE \E idx \in DOMAIN rows : DeleteEntry(idx)
  BY <1>18 DEF HandlerInv, StageInv, DiskType, WindowType, NoVault,
       None, DeleteEntry, diskVars, windowVars, boundVars
<1> QED
  BY <1>1, <1>2, <1>3, <1>4, <1>5, <1>6, <1>7, <1>8, <1>9, <1>10,
     <1>11, <1>12, <1>13, <1>14, <1>15, <1>16, <1>17, <1>18 DEF VaultNext,
     Handler

\* Nothing torn is ever published.
LEMMA DiskTypeStep ==
    ASSUME DiskType, WindowType, HandlerInv, StageInv, VaultNext
    PROVE  DiskType'
<1>1. CASE OpenWindow
  BY <1>1 DEF HandlerInv, StageInv, DiskType, WindowType, Content,
       NoVault, None, OpenWindow, LockScreen, diskVars, windowVars,
       boundVars
<1>2. CASE LockVault
  BY <1>2 DEF HandlerInv, StageInv, DiskType, WindowType, Content,
       NoVault, None, LockVault, Forget, LockScreen, diskVars, windowVars,
       boundVars
<1>3. CASE CloseWindow
  BY <1>3 DEF HandlerInv, StageInv, DiskType, WindowType, Content,
       NoVault, None, CloseWindow, Forget, diskVars, windowVars, boundVars
<1>4. CASE WriteStaged
  BY <1>4 DEF HandlerInv, StageInv, DiskType, WindowType, Content,
       NoVault, None, WriteStaged, diskVars, windowVars, boundVars
<1>5. CASE SyncStaged
  BY <1>5 DEF HandlerInv, StageInv, DiskType, WindowType, Content,
       NoVault, None, SyncStaged, Synced, Publication, diskVars,
       windowVars, boundVars
<1>6. CASE LinkStaged
  BY <1>6 DEF HandlerInv, StageInv, DiskType, WindowType, Content,
       NoVault, None, LinkStaged, LinkSucceeds, Durable, diskVars,
       windowVars, boundVars
<1>7. CASE Created
  BY <1>7 DEF HandlerInv, StageInv, DiskType, WindowType, Content,
       NoVault, None, Created, Return, Refresh, NoStage, diskVars,
       windowVars, boundVars
<1>8. CASE ReplaceFile
  BY <1>8 DEF HandlerInv, StageInv, DiskType, WindowType, Content,
       NoVault, None, ReplaceFile, Durable, diskVars, windowVars,
       boundVars
<1>9. CASE Saved
  BY <1>9 DEF HandlerInv, StageInv, DiskType, WindowType, Content,
       NoVault, None, Saved, Return, Refresh, NoStage, SyncedDirectory,
       diskVars, windowVars, boundVars
<1>10. CASE SaveFails
  BY <1>10 DEF HandlerInv, StageInv, DiskType, WindowType, Content,
       NoVault, None, SaveFails, Return, Refresh, Failing, NoStage,
       diskVars, windowVars, boundVars
<1>11. CASE CreateFails
  BY <1>11 DEF HandlerInv, StageInv, DiskType, WindowType, Content,
       NoVault, None, CreateFails, Return, Failing, NoStage, diskVars,
       windowVars, boundVars
<1>12. CASE Killed
  BY <1>12 DEF HandlerInv, StageInv, DiskType, WindowType, Content,
       NoVault, None, Killed, Gone, Forget, Return, NoStage, diskVars,
       windowVars, boundVars
<1>13. CASE PowerCut
  BY <1>13 DEF HandlerInv, StageInv, DiskType, WindowType, Content,
       NoVault, None, PowerCut, Gone, Forget, Return, NoStage, diskVars,
       windowVars, boundVars
<1>14. CASE \E pw \in Passwords : Unlock(pw)
  BY <1>14 DEF HandlerInv, StageInv, DiskType, WindowType, Content,
       NoVault, None, Unlock, diskVars, windowVars, boundVars
<1>15. CASE \E pw \in Passwords : Create(pw)
  BY <1>15 DEF HandlerInv, StageInv, DiskType, WindowType, Content,
       NoVault, None, Create, diskVars, windowVars, boundVars
<1>16. CASE \E pw \in Passwords : VaultPutBack(pw)
  BY <1>16 DEF HandlerInv, StageInv, DiskType, WindowType, Content,
       NoVault, None, VaultPutBack, diskVars, windowVars, boundVars
<1>17. CASE \E e \in Entries : AddEntry(e)
  BY <1>17 DEF HandlerInv, StageInv, DiskType, WindowType, Content,
       NoVault, None, AddEntry, diskVars, windowVars, boundVars
<1>18. CASE \E idx \in DOMAIN rows : DeleteEntry(idx)
  BY <1>18 DEF HandlerInv, StageInv, DiskType, WindowType, Content,
       NoVault, None, DeleteEntry, diskVars, windowVars, boundVars
<1> QED
  BY <1>1, <1>2, <1>3, <1>4, <1>5, <1>6, <1>7, <1>8, <1>9, <1>10,
     <1>11, <1>12, <1>13, <1>14, <1>15, <1>16, <1>17, <1>18 DEF VaultNext,
     Handler

\* The window's variables keep their types.
LEMMA WindowTypeStep ==
    ASSUME DiskType, WindowType, HandlerInv, VaultNext
    PROVE  WindowType'
<1>1. CASE OpenWindow
  BY <1>1 DEF HandlerInv, DiskType, WindowType, Content, NoVault,
       None, OpenWindow, LockScreen, diskVars, windowVars, boundVars
<1>2. CASE LockVault
  BY <1>2 DEF HandlerInv, DiskType, WindowType, Content, NoVault,
       None, LockVault, Forget, LockScreen, diskVars, windowVars,
       boundVars
<1>3. CASE CloseWindow
  BY <1>3 DEF HandlerInv, DiskType, WindowType, Content, NoVault,
       None, CloseWindow, Forget, diskVars, windowVars, boundVars
<1>4. CASE WriteStaged
  BY <1>4 DEF HandlerInv, DiskType, WindowType, Content, NoVault,
       None, WriteStaged, diskVars, windowVars, boundVars
<1>5. CASE SyncStaged
  BY <1>5 DEF HandlerInv, DiskType, WindowType, Content, NoVault,
       None, SyncStaged, Synced, Publication, diskVars, windowVars,
       boundVars
<1>6. CASE LinkStaged
  BY <1>6 DEF HandlerInv, DiskType, WindowType, Content, NoVault,
       None, LinkStaged, LinkSucceeds, Durable, diskVars, windowVars,
       boundVars
<1>7. CASE Created
  BY <1>7 DEF HandlerInv, DiskType, WindowType, Content, NoVault,
       None, Created, Return, Refresh, NoStage, diskVars, windowVars,
       boundVars
<1>8. CASE ReplaceFile
  BY <1>8 DEF HandlerInv, DiskType, WindowType, Content, NoVault,
       None, ReplaceFile, Durable, diskVars, windowVars, boundVars
<1>9. CASE Saved
  BY <1>9 DEF HandlerInv, DiskType, WindowType, Content, NoVault,
       None, Saved, Return, Refresh, NoStage, SyncedDirectory, diskVars,
       windowVars, boundVars
<1>10. CASE SaveFails
  BY <1>10 DEF HandlerInv, DiskType, WindowType, Content, NoVault,
       None, SaveFails, Return, Refresh, Failing, NoStage, diskVars,
       windowVars, boundVars
<1>11. CASE CreateFails
  BY <1>11 DEF HandlerInv, DiskType, WindowType, Content, NoVault,
       None, CreateFails, Return, Failing, NoStage, diskVars, windowVars,
       boundVars
<1>12. CASE Killed
  BY <1>12 DEF HandlerInv, DiskType, WindowType, Content, NoVault,
       None, Killed, Gone, Forget, Return, NoStage, diskVars, windowVars,
       boundVars
<1>13. CASE PowerCut
  BY <1>13 DEF HandlerInv, DiskType, WindowType, Content, NoVault,
       None, PowerCut, Gone, Forget, Return, NoStage, diskVars,
       windowVars, boundVars
<1>14. CASE \E pw \in Passwords : Unlock(pw)
  <2>1. file.entries \in Seq(Entries)
    <3>1. CASE file \in Content
      BY <3>1 DEF Content
    <3>2. CASE file = NoVault
      <4>1. file.entries = <<>>
        BY <3>2 DEF NoVault
      <4> QED BY <4>1
    <3> QED BY <3>1, <3>2 DEF DiskType
  <2> QED BY <1>14, <2>1 DEF Unlock, WindowType, diskVars
<1>15. CASE \E pw \in Passwords : Create(pw)
  BY <1>15 DEF HandlerInv, DiskType, WindowType, Content, NoVault,
       None, Create, diskVars, windowVars, boundVars
<1>16. CASE \E pw \in Passwords : VaultPutBack(pw)
  BY <1>16 DEF HandlerInv, DiskType, WindowType, Content, NoVault,
       None, VaultPutBack, diskVars, windowVars, boundVars
<1>17. CASE \E e \in Entries : AddEntry(e)
  BY <1>17, AppendKeeps DEF WindowType, AddEntry, diskVars, windowVars, boundVars
<1>18. CASE \E idx \in DOMAIN rows : DeleteEntry(idx)
  <2>1. PICK idx \in DOMAIN rows : DeleteEntry(idx)
    BY <1>18
  <2>2. idx \in 1..Len(entries)
    BY <2>1 DEF DeleteEntry, WindowType
  <2>3. RemoveAt(entries, idx) \in Seq(Entries)
    BY <2>2, RemoveAtType DEF WindowType
  <2> QED BY <2>1, <2>3 DEF DeleteEntry, WindowType, diskVars, windowVars, boundVars
<1> QED
  BY <1>1, <1>2, <1>3, <1>4, <1>5, <1>6, <1>7, <1>8, <1>9, <1>10,
     <1>11, <1>12, <1>13, <1>14, <1>15, <1>16, <1>17, <1>18 DEF VaultNext,
     Handler

\* Bounds and histories keep their types.
LEMMA BoundTypeStep ==
    ASSUME WindowType, BoundType, VaultNext
    PROVE  BoundType'
<1>1. CASE OpenWindow
  BY <1>1 DEF BoundType, OpenWindow, LockScreen, diskVars,
       windowVars, boundVars
<1>2. CASE LockVault
  BY <1>2 DEF BoundType, LockVault, Forget, LockScreen, diskVars,
       windowVars, boundVars
<1>3. CASE CloseWindow
  BY <1>3 DEF BoundType, CloseWindow, Forget, diskVars, windowVars,
       boundVars
<1>4. CASE WriteStaged
  BY <1>4 DEF BoundType, WriteStaged, diskVars, windowVars, boundVars
<1>5. CASE SyncStaged
  BY <1>5 DEF BoundType, SyncStaged, Synced, Publication, diskVars,
       windowVars, boundVars
<1>6. CASE LinkStaged
  BY <1>6 DEF BoundType, LinkStaged, LinkSucceeds, Durable, diskVars,
       windowVars, boundVars
<1>7. CASE Created
  BY <1>7 DEF BoundType, Created, Return, Refresh, NoStage, diskVars,
       windowVars, boundVars
<1>8. CASE ReplaceFile
  BY <1>8 DEF BoundType, ReplaceFile, Durable, diskVars, windowVars,
       boundVars
<1>9. CASE Saved
  BY <1>9, RangeType DEF WindowType, BoundType, Saved, boundVars
<1>10. CASE SaveFails
  BY <1>10, VaultConstants DEF BoundType, SaveFails, Failing
<1>11. CASE CreateFails
  BY <1>11, VaultConstants DEF BoundType, CreateFails, Failing
<1>12. CASE Killed
  BY <1>12, VaultConstants DEF BoundType, Killed, Gone
<1>13. CASE PowerCut
  BY <1>13, VaultConstants DEF BoundType, PowerCut, Gone
<1>14. CASE \E pw \in Passwords : Unlock(pw)
  BY <1>14 DEF BoundType, Unlock, diskVars, windowVars, boundVars
<1>15. CASE \E pw \in Passwords : Create(pw)
  BY <1>15 DEF BoundType, Create, diskVars, windowVars, boundVars
<1>16. CASE \E pw \in Passwords : VaultPutBack(pw)
  BY <1>16 DEF BoundType, VaultPutBack, diskVars, windowVars,
       boundVars
<1>17. CASE \E e \in Entries : AddEntry(e)
  BY <1>17 DEF BoundType, AddEntry, diskVars, windowVars, boundVars
<1>18. CASE \E idx \in DOMAIN rows : DeleteEntry(idx)
  BY <1>18 DEF BoundType, DeleteEntry, boundVars
<1> QED
  BY <1>1, <1>2, <1>3, <1>4, <1>5, <1>6, <1>7, <1>8, <1>9, <1>10,
     <1>11, <1>12, <1>13, <1>14, <1>15, <1>16, <1>17, <1>18 DEF VaultNext,
     Handler

\* The list is built anew whenever the handler returns.
LEMMA ShownStep ==
    ASSUME DiskType, WindowType, HandlerInv, StageInv, ShownIsStored, VaultNext
    PROVE  ShownIsStored'
<1>1. CASE OpenWindow
  BY <1>1 DEF HandlerInv, StageInv, ShownIsStored, WindowType, None,
       NoVault, OpenWindow, LockScreen, diskVars, windowVars, boundVars
<1>2. CASE LockVault
  BY <1>2 DEF HandlerInv, StageInv, ShownIsStored, WindowType, None,
       NoVault, LockVault, Forget, LockScreen, diskVars, windowVars,
       boundVars
<1>3. CASE CloseWindow
  BY <1>3 DEF HandlerInv, StageInv, ShownIsStored, WindowType, None,
       NoVault, CloseWindow, Forget, diskVars, windowVars, boundVars
<1>4. CASE WriteStaged
  BY <1>4 DEF HandlerInv, StageInv, ShownIsStored, WindowType, None,
       NoVault, WriteStaged, diskVars, windowVars, boundVars
<1>5. CASE SyncStaged
  BY <1>5 DEF HandlerInv, StageInv, ShownIsStored, WindowType, None,
       NoVault, SyncStaged, Synced, Publication, diskVars, windowVars,
       boundVars
<1>6. CASE LinkStaged
  BY <1>6 DEF HandlerInv, StageInv, ShownIsStored, WindowType, None,
       NoVault, LinkStaged, LinkSucceeds, Durable, diskVars, windowVars,
       boundVars
<1>7. CASE Created
  BY <1>7 DEF HandlerInv, StageInv, ShownIsStored, WindowType, None,
       NoVault, Created, Return, Refresh, NoStage, diskVars, windowVars,
       boundVars
<1>8. CASE ReplaceFile
  BY <1>8 DEF HandlerInv, StageInv, ShownIsStored, WindowType, None,
       NoVault, ReplaceFile, Durable, diskVars, windowVars, boundVars
<1>9. CASE Saved
  BY <1>9 DEF HandlerInv, StageInv, ShownIsStored, WindowType, None,
       NoVault, Saved, Return, Refresh, NoStage, SyncedDirectory,
       diskVars, windowVars, boundVars
<1>10. CASE SaveFails
  BY <1>10 DEF HandlerInv, StageInv, ShownIsStored, WindowType, None,
       NoVault, SaveFails, Return, Refresh, Failing, NoStage, diskVars,
       windowVars, boundVars
<1>11. CASE CreateFails
  BY <1>11 DEF HandlerInv, StageInv, ShownIsStored, WindowType, None,
       NoVault, CreateFails, Return, Failing, NoStage, diskVars,
       windowVars, boundVars
<1>12. CASE Killed
  BY <1>12 DEF HandlerInv, StageInv, ShownIsStored, WindowType, None,
       NoVault, Killed, Gone, Forget, Return, NoStage, diskVars,
       windowVars, boundVars
<1>13. CASE PowerCut
  BY <1>13 DEF HandlerInv, StageInv, ShownIsStored, WindowType, None,
       NoVault, PowerCut, Gone, Forget, Return, NoStage, diskVars,
       windowVars, boundVars
<1>14. CASE \E pw \in Passwords : Unlock(pw)
  <2>1. PICK pw \in Passwords : Unlock(pw)
    BY <1>14
  <2>2. file = [pw |-> pw, entries |-> file.entries]
    BY <2>1, VaultConstants DEF Unlock, DiskType, Content, NoVault
  <2> QED BY <2>1, <2>2 DEF Unlock, ShownIsStored, diskVars
<1>15. CASE \E pw \in Passwords : Create(pw)
  BY <1>15 DEF HandlerInv, StageInv, ShownIsStored, WindowType, None,
       NoVault, Create, diskVars, windowVars, boundVars
<1>16. CASE \E pw \in Passwords : VaultPutBack(pw)
  <2>1. ~(screen = "unlocked" /\ at = "idle" /\ lastSave = "ok")
    BY <1>16, VaultConstants DEF HandlerInv, ShownIsStored, NoVault, VaultPutBack
  <2> QED BY <1>16, <2>1 DEF ShownIsStored, VaultPutBack, windowVars
<1>17. CASE \E e \in Entries : AddEntry(e)
  BY <1>17 DEF HandlerInv, StageInv, ShownIsStored, WindowType, None,
       NoVault, AddEntry, diskVars, windowVars, boundVars
<1>18. CASE \E idx \in DOMAIN rows : DeleteEntry(idx)
  BY <1>18 DEF HandlerInv, StageInv, ShownIsStored, WindowType, None,
       NoVault, DeleteEntry, diskVars, windowVars, boundVars
<1> QED
  BY <1>1, <1>2, <1>3, <1>4, <1>5, <1>6, <1>7, <1>8, <1>9, <1>10,
     <1>11, <1>12, <1>13, <1>14, <1>15, <1>16, <1>17, <1>18 DEF VaultNext,
     Handler

\* An entry reported saved stays everywhere.
LEMMA KeptStep ==
    ASSUME DiskType, WindowType, BoundType, HandlerInv, StageInv, KeptInv, ShownIsStored, VaultNext
    PROVE  KeptInv'
<1>1. CASE OpenWindow
  BY <1>1 DEF KeptInv, SavedSurvives, HandlerInv, StageInv,
       WindowType, OpenWindow, LockScreen, diskVars, windowVars, boundVars
<1>2. CASE LockVault
  BY <1>2 DEF KeptInv, SavedSurvives, HandlerInv, StageInv,
       WindowType, LockVault, Forget, LockScreen, diskVars, windowVars,
       boundVars
<1>3. CASE CloseWindow
  BY <1>3 DEF KeptInv, SavedSurvives, HandlerInv, StageInv,
       WindowType, CloseWindow, Forget, diskVars, windowVars, boundVars
<1>4. CASE WriteStaged
  BY <1>4 DEF KeptInv, SavedSurvives, HandlerInv, StageInv,
       WindowType, WriteStaged, diskVars, windowVars, boundVars
<1>5. CASE SyncStaged
  BY <1>5 DEF KeptInv, SavedSurvives, HandlerInv, StageInv,
       WindowType, SyncStaged, Synced, Publication, diskVars, windowVars,
       boundVars
<1>6. CASE LinkStaged
  <2>1. kept = {}
    BY <1>6 DEF LinkStaged, LinkSucceeds, KeptInv, SavedSurvives, DiskType, NoVault, Range
  <2>2. screen # "unlocked"
    BY <1>6 DEF LinkStaged, HandlerInv
  <2> QED BY <1>6, <2>1, <2>2 DEF LinkStaged, KeptInv, SavedSurvives, windowVars
<1>7. CASE Created
  BY <1>7 DEF KeptInv, SavedSurvives, Created, Return, diskVars
<1>8. CASE ReplaceFile
  <2>1. screen = "unlocked" /\ Durable = staged.data
    BY <1>8 DEF ReplaceFile, HandlerInv, StageInv, WindowType, Durable
  <2>2. Durable.entries = entries /\ kept \subseteq Range(entries)
    BY <1>8, <2>1 DEF ReplaceFile, StageInv, KeptInv
  <2> QED BY <1>8, <2>1, <2>2 DEF ReplaceFile, KeptInv, SavedSurvives, windowVars
<1>9. CASE Saved
  <2>1. file.entries = entries
    BY <1>9 DEF Saved, StageInv
  <2> QED BY <1>9, <2>1 DEF Saved, Return, SyncedDirectory, KeptInv, SavedSurvives
<1>10. CASE SaveFails
  BY <1>10 DEF KeptInv, SavedSurvives, HandlerInv, StageInv,
       WindowType, SaveFails, Return, Refresh, Failing, NoStage, diskVars,
       windowVars, boundVars
<1>11. CASE CreateFails
  BY <1>11 DEF KeptInv, SavedSurvives, HandlerInv, StageInv,
       WindowType, CreateFails, Return, Failing, NoStage, diskVars,
       windowVars, boundVars
<1>12. CASE Killed
  BY <1>12 DEF KeptInv, SavedSurvives, HandlerInv, StageInv,
       WindowType, Killed, Gone, Forget, Return, NoStage, diskVars,
       windowVars, boundVars
<1>13. CASE PowerCut
  <2>1. \A c \in survivors' : c \in survivors
    BY <1>13 DEF PowerCut
  <2> QED BY <1>13, <2>1 DEF PowerCut, Gone, Return, KeptInv, SavedSurvives
<1>14. CASE \E pw \in Passwords : Unlock(pw)
  <2>1. PICK pw \in Passwords : Unlock(pw)
    BY <1>14
  <2>2. kept \subseteq Range(file.entries)
    BY DEF KeptInv, SavedSurvives, DiskType
  <2> QED BY <2>1, <2>2 DEF Unlock, KeptInv, SavedSurvives, diskVars
<1>15. CASE \E pw \in Passwords : Create(pw)
  BY <1>15 DEF KeptInv, SavedSurvives, HandlerInv, StageInv,
       WindowType, Create, diskVars, windowVars, boundVars
<1>16. CASE \E pw \in Passwords : VaultPutBack(pw)
  <2>1. kept = {}
    BY <1>16 DEF VaultPutBack, KeptInv, SavedSurvives, DiskType, NoVault, Range
  <2> QED BY <1>16, <2>1 DEF VaultPutBack, KeptInv, SavedSurvives, windowVars
<1>17. CASE \E e \in Entries : AddEntry(e)
  <2>1. PICK e \in Entries : AddEntry(e)
    BY <1>17
  <2>2. kept \subseteq Range(entries')
    BY <2>1, AppendKeeps DEF AddEntry, KeptInv, WindowType
  <2> QED BY <2>1, <2>2 DEF AddEntry, KeptInv, SavedSurvives, diskVars
<1>18. CASE \E idx \in DOMAIN rows : DeleteEntry(idx)
  <2>1. PICK idx \in DOMAIN rows : DeleteEntry(idx)
    BY <1>18
  <2>2. idx \in 1..Len(entries) /\ rows = entries
    BY <2>1 DEF DeleteEntry, WindowType, ShownIsStored
  <2>3. kept' \subseteq Range(entries')
    BY <2>1, <2>2, RemoveAtKeeps DEF DeleteEntry, KeptInv, WindowType
  <2> QED BY <2>1, <2>3 DEF DeleteEntry, KeptInv, SavedSurvives, diskVars
<1> QED
  BY <1>1, <1>2, <1>3, <1>4, <1>5, <1>6, <1>7, <1>8, <1>9, <1>10,
     <1>11, <1>12, <1>13, <1>14, <1>15, <1>16, <1>17, <1>18 DEF VaultNext,
     Handler

-----------------------------------------------------------------------------
(* The theorems.                                                           *)

\* The vault's invariant holds before the tab is opened.
LEMMA InitEstablishes == VaultInit => VaultInv
<1> SUFFICES ASSUME VaultInit PROVE VaultInv
  OBVIOUS
<1>1. VaultTypeOK
  BY VaultConstants DEF VaultInit, VaultTypeOK, DiskType, WindowType, BoundType, NoVault, NoStage, None
<1>2. HandlerInv /\ StageInv /\ ShownIsStored
  BY DEF VaultInit, HandlerInv, StageInv, ShownIsStored
<1>3. KeptInv
  BY DEF VaultInit, KeptInv, SavedSurvives
<1> QED BY <1>1, <1>2, <1>3 DEF VaultInv

\* Every step keeps the vault's invariant.
LEMMA StepPreserves == VaultInv /\ [VaultNext]_vaultVars => VaultInv'
<1> SUFFICES ASSUME VaultInv, [VaultNext]_vaultVars PROVE VaultInv'
  OBVIOUS
<1>1. DiskType /\ WindowType /\ BoundType /\ HandlerInv /\ StageInv /\ KeptInv
      /\ ShownIsStored
  BY DEF VaultInv, VaultTypeOK
<1>2. CASE VaultNext
  BY <1>1, <1>2, DiskTypeStep, WindowTypeStep, BoundTypeStep, HandlerStep, StageStep,
     KeptStep, ShownStep DEF VaultInv, VaultTypeOK
<1>3. CASE UNCHANGED vaultVars
  <2>1. DiskType' /\ WindowType' /\ BoundType'
    BY <1>1, <1>3 DEF DiskType, WindowType, BoundType, vaultVars, diskVars, windowVars, boundVars
  <2>2. HandlerInv' /\ StageInv' /\ ShownIsStored'
    BY <1>1, <1>3 DEF HandlerInv, StageInv, ShownIsStored, vaultVars, diskVars, windowVars
  <2>3. KeptInv'
    BY <1>1, <1>3 DEF KeptInv, SavedSurvives, vaultVars, diskVars, windowVars
  <2> QED BY <2>1, <2>2, <2>3 DEF VaultInv, VaultTypeOK
<1> QED BY <1>2, <1>3

\* VaultInv holds in every state.
THEOREM VaultInvariant == VaultSpec => []VaultInv
BY InitEstablishes, StepPreserves, PTL DEF VaultSpec

\* Type correctness, the shape of vault.dat after any power cut included.
THEOREM VaultTypeCorrect == VaultSpec => []VaultTypeOK
<1>1. VaultInv => VaultTypeOK
  BY DEF VaultInv
<1> QED BY <1>1, VaultInvariant, PTL

\* Whatever a power cut leaves of vault.dat holds every entry that was
\* reported saved and not deleted since.
THEOREM SavedEntriesSurvive == VaultSpec => []SavedSurvives
<1>1. VaultInv => SavedSurvives
  BY DEF VaultInv, KeptInv
<1> QED BY <1>1, VaultInvariant, PTL

\* The list on screen is the list in memory and, after a save that succeeded,
\* the list in vault.dat.
THEOREM ListIsStored == VaultSpec => []ShownIsStored
<1>1. VaultInv => ShownIsStored
  BY DEF VaultInv
<1> QED BY <1>1, VaultInvariant, PTL

\* Creating a vault writes nothing where there is one already.
LEMMA CreateStep ==
    ASSUME HandlerInv, [VaultNext]_vaultVars, screen = "create", screen' # "closed", file # NoVault
    PROVE  file' = file
<1>1. CASE UNCHANGED vaultVars
  BY <1>1 DEF vaultVars, diskVars
<1>2. CASE VaultNext
  <2>1. at \notin {"replace", "syncdir"}
    BY DEF HandlerInv
  <2>2. ~LinkStaged /\ ~ReplaceFile /\ ~PowerCut /\ ~\E pw \in Passwords : VaultPutBack(pw)
    BY <2>1 DEF LinkStaged, LinkSucceeds, ReplaceFile, PowerCut, Gone, VaultPutBack
  <2> QED BY <1>2, <2>2 DEF VaultNext, Handler, OpenWindow, LockVault, CloseWindow, Unlock,
        Create, AddEntry, DeleteEntry, WriteStaged, SyncStaged, Created, Saved, SaveFails,
        CreateFails, Killed, diskVars
<1> QED BY <1>1, <1>2

\* No step of creating a vault replaces one that is there.
THEOREM CreateIsExclusive == VaultSpec => CreateReplacesNothing
<1>1. VaultInv /\ [VaultNext]_vaultVars =>
        [screen = "create" /\ screen' # "closed" /\ file # NoVault => file' = file]_vaultVars
  BY CreateStep DEF VaultInv
<1> QED BY <1>1, VaultInvariant, PTL DEF VaultSpec, CreateReplacesNothing
=============================================================================
