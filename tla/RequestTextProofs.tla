------------------------- MODULE RequestTextProofs -------------------------
(***************************************************************************)
(* What the text functions of protocol.cpp answer for every text, and what *)
(* follows for a connection: the scan for the end of a request stays in    *)
(* its buffer, no resource has a dot segment, the remote end finds the end *)
(* of every response and what it says of the connection, and redirections  *)
(* end.                                                                    *)
(***************************************************************************)
EXTENDS RequestText, SequenceTheorems, FiniteSetTheorems, WellFoundedInduction, TLAPS

(***************************************************************************)
(* A nonempty set of natural numbers has a least element.                  *)
(***************************************************************************)
LEMMA LeastNat ==
  ASSUME NEW T \in SUBSET Nat, T # {}
  PROVE  \E i \in T : \A j \in T : i <= j
<1> DEFINE R == OpToRel(<, Nat)
<1>1. IsWellFoundedOn(R, Nat)
  BY NatLessThanWellFounded
<1>2. \E i \in T : \A j \in T : ~ (<<j, i>> \in R)
  <2> HIDE DEF R
  <2> QED BY <1>1, WFMin
<1>3. \A i, j \in Nat : <<j, i>> \in R <=> j < i
  BY DEF OpToRel
<1> HIDE DEF R
<1>4. PICK i \in T : \A j \in T : ~ (<<j, i>> \in R)
  BY <1>2
<1>5. ASSUME NEW j \in T PROVE i <= j
  <2>1. i \in Nat /\ j \in Nat
    OBVIOUS
  <2>2. ~ (j < i)
    BY <1>3, <1>4, <2>1
  <2> QED BY <2>1, <2>2
<1> QED BY <1>5

-----------------------------------------------------------------------------
(* Parts of a text, and searches in it.                                    *)

(***************************************************************************)
(* A part of a text is a text that is no longer.                           *)
(***************************************************************************)
LEMMA SubstrType ==
  ASSUME NEW s \in Seq(Byte), NEW i \in Nat, NEW n \in Nat
  PROVE  /\ Substr(s, i, n) \in Seq(Byte)
         /\ Len(Substr(s, i, n)) \in Nat /\ Len(Substr(s, i, n)) <= Len(s)
<1> DEFINE e == IF n = NPos \/ i + n > Len(s) THEN Len(s) ELSE i + n
<1>1. Len(s) \in Nat /\ e \in Nat /\ e <= Len(s)
  BY LenProperties
<1>2. \A k \in i + 1..e : s[k] \in Byte
  BY <1>1, ElementOfSeq
<1> HIDE DEF e
<1>3. /\ SubSeq(s, i + 1, e) \in Seq(Byte)
      /\ Len(SubSeq(s, i + 1, e)) = IF i + 1 <= e THEN e - (i + 1) + 1 ELSE 0
  BY <1>1, <1>2, SubSeqProperties
<1>4. Substr(s, i, n) = SubSeq(s, i + 1, e)
  BY DEF Substr, e
<1> QED BY <1>1, <1>3, <1>4

(***************************************************************************)
(* n bytes of a text from offset i, where it has so many.                  *)
(***************************************************************************)
LEMMA SubstrIs ==
  ASSUME NEW s \in Seq(Byte), NEW i \in Nat, NEW n \in Nat,
         i + n <= Len(s), n # NPos
  PROVE  /\ Substr(s, i, n) \in Seq(Byte)
         /\ Len(Substr(s, i, n)) = n
         /\ \A k \in 1..n : Substr(s, i, n)[k] = s[i + k]
<1>1. Len(s) \in Nat
  BY LenProperties
<1>2. \A k \in i + 1..i + n : s[k] \in Byte
  BY <1>1, ElementOfSeq
<1>3. /\ SubSeq(s, i + 1, i + n) \in Seq(Byte)
      /\ Len(SubSeq(s, i + 1, i + n)) =
           IF i + 1 <= i + n THEN (i + n) - (i + 1) + 1 ELSE 0
      /\ \A k \in 1..(i + n) - (i + 1) + 1 :
           SubSeq(s, i + 1, i + n)[k] = s[(i + 1) + k - 1]
  BY <1>2, SubSeqProperties
<1>4. Substr(s, i, n) = SubSeq(s, i + 1, i + n)
  BY <1>1 DEF Substr
<1>5. ASSUME NEW k \in 1..n PROVE Substr(s, i, n)[k] = s[i + k]
  <2>1. k \in 1..(i + n) - (i + 1) + 1 /\ (i + 1) + k - 1 = i + k
    OBVIOUS
  <2> QED BY <1>3, <1>4, <2>1
<1> QED BY <1>3, <1>4, <1>5

(***************************************************************************)
(* What is left of a text from offset i.                                   *)
(***************************************************************************)
LEMMA FromIs ==
  ASSUME NEW s \in Seq(Byte), NEW i \in Nat
  PROVE  /\ From(s, i) \in Seq(Byte)
         /\ Len(From(s, i)) = IF i <= Len(s) THEN Len(s) - i ELSE 0
         /\ \A k \in 1..Len(From(s, i)) : From(s, i)[k] = s[i + k]
<1>1. Len(s) \in Nat
  BY LenProperties
<1>2. \A k \in i + 1..Len(s) : s[k] \in Byte
  BY <1>1, ElementOfSeq
<1>3. /\ SubSeq(s, i + 1, Len(s)) \in Seq(Byte)
      /\ Len(SubSeq(s, i + 1, Len(s))) =
           IF i + 1 <= Len(s) THEN Len(s) - (i + 1) + 1 ELSE 0
      /\ \A k \in 1..Len(s) - (i + 1) + 1 :
           SubSeq(s, i + 1, Len(s))[k] = s[(i + 1) + k - 1]
  BY <1>1, <1>2, SubSeqProperties
<1>4. From(s, i) = SubSeq(s, i + 1, Len(s))
  BY DEF From, Substr
<1>5. Len(From(s, i)) = IF i <= Len(s) THEN Len(s) - i ELSE 0
  BY <1>1, <1>3, <1>4
<1>6. ASSUME NEW k \in 1..Len(From(s, i)) PROVE From(s, i)[k] = s[i + k]
  <2>1. k \in 1..Len(s) - (i + 1) + 1 /\ (i + 1) + k - 1 = i + k
    BY <1>1, <1>5
  <2> QED BY <1>3, <1>4, <2>1
<1> QED BY <1>3, <1>4, <1>5, <1>6

\* Word w is in text s at offset j.
At(s, w, j) == \A k \in 1..Len(w) : s[j + k] = w[k]

(***************************************************************************)
(* A word is a prefix of a text when it is there at its beginning.         *)
(***************************************************************************)
LEMMA StartsIs ==
  ASSUME NEW s \in Seq(Byte), NEW w \in Seq(Byte)
  PROVE  Starts(s, w) <=> Len(w) <= Len(s) /\ At(s, w, 0)
<1>1. Len(s) \in Nat /\ Len(w) \in Nat
  BY LenProperties
<1>2. CASE ~(Len(w) <= Len(s))
  BY <1>2 DEF Starts, IsPrefix
<1>3. CASE Len(w) <= Len(s)
  <2>1. SubSeq(w, 1, Len(w)) = w
    BY SubSeqFull
  <2>2. \A k \in 1..Len(w) : s[k] \in Byte
    BY <1>1, <1>3, ElementOfSeq
  <2>3. /\ SubSeq(s, 1, Len(w)) \in Seq(Byte)
        /\ Len(SubSeq(s, 1, Len(w))) = IF 1 <= Len(w) THEN Len(w) - 1 + 1 ELSE 0
        /\ \A k \in 1..Len(w) - 1 + 1 : SubSeq(s, 1, Len(w))[k] = s[1 + k - 1]
    BY <1>1, <2>2, SubSeqProperties
  <2> DEFINE p == SubSeq(s, 1, Len(w))
  <2>4. Len(p) = Len(w) /\ p \in Seq(Byte)
    BY <1>1, <2>3
  <2>5. \A k \in 1..Len(w) : p[k] = s[0 + k]
    <3>1. \A k \in 1..Len(w) : k \in 1..Len(w) - 1 + 1 /\ 1 + k - 1 = k /\ 0 + k = k
      BY <1>1
    <3> QED BY <2>3, <3>1
  <2> HIDE DEF p
  <2>6. ASSUME \A k \in 1..Len(w) : s[0 + k] = w[k]
        PROVE  w = p
    BY <2>4, <2>5, <2>6, SeqEqual
  <2>7. (w = p) <=> \A k \in 1..Len(w) : s[0 + k] = w[k]
    BY <2>5, <2>6
  <2> QED BY <1>3, <2>1, <2>7 DEF Starts, IsPrefix, At, p
<1> QED BY <1>2, <1>3

(***************************************************************************)
(* find() gives the first place of a word, or npos where there is none.    *)
(***************************************************************************)
LEMMA FindIs ==
  ASSUME NEW s \in Seq(Byte), NEW w \in Seq(Byte), Len(w) # NPos,
         NEW i \in Nat
  PROVE  LET j == Find(s, w, i)
         IN \/ /\ j = NPos
               /\ \A k \in i..Len(s) - Len(w) : ~At(s, w, k)
            \/ /\ j \in i..Len(s) - Len(w) /\ j \in Nat /\ At(s, w, j)
               /\ \A k \in i..j - 1 : ~At(s, w, k)
<1> DEFINE S == {k \in i..Len(s) - Len(w) : Substr(s, k, Len(w)) = w}
<1>1. Len(s) \in Nat /\ Len(w) \in Nat
  BY LenProperties
<1>2. ASSUME NEW k \in i..Len(s) - Len(w)
      PROVE  k \in S <=> At(s, w, k)
  <2> DEFINE p == Substr(s, k, Len(w))
  <2>1. /\ p \in Seq(Byte) /\ Len(p) = Len(w)
        /\ \A m \in 1..Len(w) : p[m] = s[k + m]
    BY <1>1, SubstrIs
  <2> HIDE DEF p
  <2>2. ASSUME At(s, w, k) PROVE p = w
    <3>1. \A m \in 1..Len(p) : p[m] = w[m]
      BY <2>1, <2>2 DEF At
    <3> QED BY <2>1, <3>1, SeqEqual
  <2>3. ASSUME p = w PROVE At(s, w, k)
    BY <2>1, <2>3 DEF At
  <2> QED BY <2>2, <2>3 DEF p
<1>3. Find(s, w, i) = First(S)
  BY DEF Find
<1>4. S \subseteq Nat /\ S \subseteq i..Len(s) - Len(w)
  BY <1>1
<1> HIDE DEF S
<1>5. CASE S = {}
  <2>1. Find(s, w, i) = NPos
    BY <1>3, <1>5 DEF First
  <2> QED BY <1>2, <1>5, <2>1
<1>6. CASE S # {}
  <2> DEFINE j == Min(S)
  <2>1. j \in S /\ \A k \in S : j <= k
    <3>1. \E m \in S : \A k \in S : m <= k
      BY <1>4, <1>6, LeastNat
    <3> QED BY <3>1 DEF Min
  <2>2. Find(s, w, i) = j
    BY <1>3, <1>6 DEF First
  <2> HIDE DEF j
  <2>3. j \in i..Len(s) - Len(w) /\ j \in Nat /\ At(s, w, j)
    BY <1>2, <1>4, <2>1
  <2>4. ASSUME NEW k \in i..j - 1, At(s, w, k) PROVE FALSE
    <3>1. k \in i..Len(s) - Len(w) /\ ~(j <= k)
      BY <1>1, <2>3
    <3> QED BY <1>2, <2>1, <2>4, <3>1
  <2> QED BY <2>2, <2>3, <2>4
<1> QED BY <1>5, <1>6

-----------------------------------------------------------------------------
(* The scan for the end of a request.                                      *)

BreakWord == CRLF \o CRLF

(***************************************************************************)
(* The words that are looked for.                                          *)
(***************************************************************************)
LEMMA BreakWordIs ==
  /\ CRLF \in Seq(Byte) /\ Len(CRLF) = 2 /\ Len(CRLF) # NPos
  /\ BreakWord \in Seq(Byte) /\ Len(BreakWord) = 4 /\ Len(BreakWord) # NPos
<1>1. "CR" \in Byte /\ "LF" \in Byte
  BY ByteAssumption
<1>2. \A a, b \in Byte : <<a, b>> \in Seq(Byte) /\ Len(<<a, b>>) = 2
  OBVIOUS
<1>3. CRLF \in Seq(Byte) /\ Len(CRLF) = 2
  BY <1>1, <1>2 DEF CRLF
<1>4. /\ CRLF \o CRLF \in Seq(Byte)
      /\ Len(CRLF \o CRLF) = Len(CRLF) + Len(CRLF)
  BY <1>3, ConcatProperties
<1>5. BreakWord \in Seq(Byte) /\ Len(BreakWord) = 4
  <2>1. BreakWord \in Seq(Byte) /\ Len(BreakWord) = Len(CRLF) + Len(CRLF)
    BY <1>4 DEF BreakWord
  <2> QED BY <1>3, <2>1
<1> QED BY <1>3, <1>5, SizeAssumption DEF NPos

(***************************************************************************)
(* "uint n = pbuffer->size()-3" wraps where the size is less than three.   *)
(***************************************************************************)
LEMMA ScanBoundIs ==
  ASSUME NEW size \in Nat, size < SizeModulus
  PROVE  ScanBound(size) = IF size < 3 THEN size - 3 + SizeModulus ELSE size - 3
<1>1. CASE size >= 3
  BY <1>1, SizeAssumption DEF ScanBound
<1>2. CASE size < 3
  BY <1>2, SizeAssumption DEF ScanBound
<1> QED BY <1>1, <1>2

(***************************************************************************)
(* FindBreak() finds the first double CRLF, and answers the offset behind  *)
(* it; it reads past the end of the buffer where that has fewer than three *)
(* bytes, and only there (protocol.cpp:1014-1024).                         *)
(***************************************************************************)
LEMMA FindBreakIs ==
  ASSUME NEW buffer \in Seq(Byte), Len(buffer) < NPos
  PROVE  LET b == FindBreak(buffer)
         IN /\ b.found \in BOOLEAN /\ b.past \in BOOLEAN /\ b.pp \in Nat
            /\ b.past <=> Len(buffer) < 3
            /\ ~b.found => \A j \in 0..Len(buffer) - 4 : ~At(buffer, BreakWord, j)
            /\ b.found => /\ b.pp \in 4..Len(buffer)
                          /\ At(buffer, BreakWord, b.pp - 4)
                          /\ \A j \in 0..b.pp - 5 : ~At(buffer, BreakWord, j)
<1> DEFINE n == ScanBound(Len(buffer))
           break == Find(buffer, BreakWord, 0)
           past(i) == Starts(BreakWord, From(buffer, i))
           b == FindBreak(buffer)
           l == Len(buffer)
<1>1. b = IF break < n THEN [found |-> TRUE, pp |-> break + 4, past |-> FALSE]
          ELSE [found |-> FALSE, pp |-> 0, past |-> \E i \in 0..l : i < n /\ past(i)]
  BY DEF FindBreak, BreakWord
<1>2. /\ l \in Nat /\ n = IF l < 3 THEN l - 3 + SizeModulus ELSE l - 3
      /\ SizeModulus \in Nat /\ SizeModulus > 8 /\ NPos = SizeModulus - 1 /\ l < NPos
  <2>1. l \in Nat /\ l < SizeModulus
    BY LenProperties, SizeAssumption DEF NPos
  <2> QED BY <2>1, ScanBoundIs, SizeAssumption DEF NPos
<1>3. \/ /\ break = NPos
         /\ \A k \in 0..l - 4 : ~At(buffer, BreakWord, k)
      \/ /\ break \in 0..l - 4 /\ break \in Nat /\ At(buffer, BreakWord, break)
         /\ \A k \in 0..break - 1 : ~At(buffer, BreakWord, k)
  BY FindIs, BreakWordIs
<1>4. ASSUME NEW i \in 0..l
      PROVE  past(i) => l - i < 4 \/ (l - i = 4 /\ At(buffer, BreakWord, i))
  <2> DEFINE f == From(buffer, i)
  <2>1. /\ f \in Seq(Byte) /\ Len(f) = l - i
        /\ \A k \in 1..Len(f) : f[k] = buffer[i + k]
    BY <1>2, FromIs
  <2>2. past(i) <=> Len(f) <= 4 /\ At(BreakWord, f, 0)
    BY <2>1, StartsIs, BreakWordIs
  <2>3. ASSUME past(i), l - i = 4 PROVE At(buffer, BreakWord, i)
    <3>1. \A k \in 1..4 : BreakWord[0 + k] = f[k]
      BY <2>1, <2>2, <2>3 DEF At
    <3>2. \A k \in 1..4 : 0 + k = k
      OBVIOUS
    <3> QED BY <2>1, <2>3, <3>1, <3>2, BreakWordIs DEF At
  <2> HIDE DEF f
  <2> QED BY <1>2, <2>1, <2>2, <2>3
<1>5. past(l)
  <2>1. From(buffer, l) \in Seq(Byte) /\ Len(From(buffer, l)) = 0
    BY <1>2, FromIs
  <2>2. 0 <= Len(BreakWord) /\ At(BreakWord, From(buffer, l), 0)
    BY <2>1, BreakWordIs DEF At
  <2> QED BY <2>1, <2>2, StartsIs, BreakWordIs
<1> HIDE DEF n, break, past, b, l
<1>6. CASE l < 3
  <2>1. break = NPos /\ n = l - 3 + SizeModulus
    BY <1>2, <1>3, <1>6
  <2>2. ~(break < n) /\ l < n /\ l \in 0..l
    BY <1>2, <1>6, <2>1
  <2>3. /\ b.found = FALSE /\ b.pp = 0
        /\ b.past <=> \E i \in 0..l : i < n /\ past(i)
    BY <1>1, <2>2
  <2>4. b.past
    BY <1>5, <2>2, <2>3
  <2>5. b.past \in BOOLEAN
    BY <1>1, <2>2
  <2>6. \A k \in 0..l - 4 : ~At(buffer, BreakWord, k)
    BY <1>2, <1>6
  <2>7. b.past <=> l < 3
    BY <1>6, <2>4
  <2>8. b.found \in BOOLEAN /\ b.pp \in Nat /\ ~b.found
    <3>1. b.found \in BOOLEAN /\ ~b.found
      BY <2>3
    <3>2. b.pp \in Nat
      BY <2>3
    <3> QED BY <3>1, <3>2
  <2> QED BY <2>5, <2>6, <2>7, <2>8 DEF b, l
<1>7. CASE ~(l < 3) /\ break = NPos
  <2>1. n = l - 3 /\ ~(break < n)
    BY <1>2, <1>7
  <2>2. /\ b.found = FALSE /\ b.pp = 0
        /\ b.past <=> \E i \in 0..l : i < n /\ past(i)
        /\ b.past \in BOOLEAN
    BY <1>1, <2>1
  <2>3. \A k \in 0..l - 4 : ~At(buffer, BreakWord, k)
    BY <1>2, <1>3, <1>7
  <2>4. ASSUME NEW i \in 0..l, i < n, past(i) PROVE FALSE
    <3>1. i \in 0..l - 4 /\ ~(l - i < 4)
      BY <1>2, <2>1, <2>4
    <3> QED BY <1>4, <2>3, <2>4, <3>1
  <2>5. b.past <=> l < 3
    BY <1>7, <2>2, <2>4
  <2>6. b.found \in BOOLEAN /\ b.pp \in Nat /\ ~b.found
    <3>1. b.found \in BOOLEAN /\ ~b.found
      BY <2>2
    <3>2. b.pp \in Nat
      BY <2>2
    <3> QED BY <3>1, <3>2
  <2> QED BY <2>2, <2>3, <2>5, <2>6 DEF b, l
<1>8. CASE ~(l < 3) /\ break # NPos
  <2>1. /\ break \in 0..l - 4 /\ break \in Nat /\ At(buffer, BreakWord, break)
        /\ \A k \in 0..break - 1 : ~At(buffer, BreakWord, k)
    BY <1>3, <1>8
  <2>2. break < n
    BY <1>2, <1>8, <2>1
  <2>3. b.found = TRUE /\ b.pp = break + 4 /\ b.past = FALSE
    BY <1>1, <2>2
  <2>4. b.pp - 4 = break /\ b.pp - 5 = break - 1 /\ b.pp \in 4..l /\ b.pp \in Nat
    BY <1>2, <2>1, <2>3
  <2> QED BY <1>8, <2>1, <2>3, <2>4 DEF b, l
<1> QED BY <1>6, <1>7, <1>8

-----------------------------------------------------------------------------
(* Loops.  A function f of the form                                        *)
(*   f[p \in S] == IF p \in Ends THEN result[p] ELSE f[next[p]]             *)
(* answers the result at the end that is reached from p.                   *)

\* One pass over f of such a loop.
Pass(S, Ends, result, next, f) ==
  [p \in S |-> IF p \in Ends THEN result[p] ELSE f[next[p]]]

(***************************************************************************)
(* Such a function exists, whether or not the loop ends.                   *)
(***************************************************************************)
LEMMA LoopExists ==
  ASSUME NEW S, NEW Ends, NEW result, NEW next \in [S -> S]
  PROVE  \E f : f = Pass(S, Ends, result, next, f)
<1> DEFINE Closed(T) == \A x \in T \ Ends : next[x] \in T
           Reached(p) == {q \in S \cap Ends : \A T \in SUBSET S : p \in T /\ Closed(T) => q \in T}
           End(p) == CHOOSE q : q \in Reached(p)
           f == [p \in S |-> result[End(p)]]
<1>1. ASSUME NEW p \in S, p \in Ends PROVE End(p) = p
  <2>1. Closed({p})
    BY <1>1
  <2>2. \A q \in Reached(p) : q = p
    BY <1>1, <2>1
  <2>3. p \in Reached(p)
    BY <1>1
  <2> HIDE DEF Reached
  <2> QED BY <2>2, <2>3
<1>2. ASSUME NEW p \in S, p \notin Ends PROVE End(p) = End(next[p])
  <2>1. next[p] \in S
    OBVIOUS
  <2>2. ASSUME NEW q \in Reached(next[p]) PROVE q \in Reached(p)
    <3>1. ASSUME NEW T \in SUBSET S, p \in T, Closed(T) PROVE next[p] \in T
      BY <1>2, <3>1
    <3> QED BY <3>1
  <2>3. ASSUME NEW q \in Reached(p) PROVE q \in Reached(next[p])
    <3>1. ASSUME NEW T \in SUBSET S, next[p] \in T, Closed(T) PROVE q \in T
      <4>1. T \cup {p} \in SUBSET S /\ p \in T \cup {p} /\ Closed(T \cup {p})
        BY <3>1
      <4>2. q \in T \cup {p}
        BY <4>1
      <4>3. q # p
        BY <1>2
      <4> QED BY <4>2, <4>3
    <3> QED BY <3>1
  <2>4. Reached(p) = Reached(next[p])
    BY <2>2, <2>3
  <2> HIDE DEF Reached
  <2> QED BY <2>4
<1> HIDE DEF End
<1>3. \A p \in S : f[p] = IF p \in Ends THEN result[p] ELSE f[next[p]]
  BY <1>1, <1>2
<1>4. f = Pass(S, Ends, result, next, f)
  <2> DEFINE g == Pass(S, Ends, result, next, f)
  <2>1. g = [p \in S |-> IF p \in Ends THEN result[p] ELSE f[next[p]]]
    BY DEF Pass
  <2>2. f = [p \in S |-> f[p]]
    OBVIOUS
  <2> HIDE DEF f
  <2> QED BY <1>3, <2>1, <2>2
<1> QED BY <1>4

(***************************************************************************)
(* What a loop answers, by an invariant I of its turns and a measure m     *)
(* that falls: an element of G where every result within I is one.         *)
(***************************************************************************)
LEMMA LoopAnswers ==
  ASSUME NEW S, NEW Ends, NEW result, NEW next, NEW f,
         f = Pass(S, Ends, result, next, f),
         NEW I \in SUBSET S, NEW m \in [I -> Nat], NEW G,
         \A p \in I : IF p \in Ends THEN result[p] \in G
                     ELSE next[p] \in I /\ m[next[p]] < m[p]
  PROVE  \A p \in I : f[p] \in G
<1> DEFINE Bad == {p \in I : f[p] \notin G}
           T   == {m[p] : p \in Bad}
<1>1. ASSUME NEW p \in I PROVE f[p] = IF p \in Ends THEN result[p] ELSE f[next[p]]
  BY DEF Pass
<1>2. ASSUME T # {} PROVE FALSE
  <2>1. T \in SUBSET Nat
    OBVIOUS
  <2>2. PICK i \in T : \A j \in T : i <= j
    BY <1>2, <2>1, LeastNat
  <2>3. PICK p \in Bad : i = m[p]
    BY <2>2
  <2>4. p \notin Ends
    BY <1>1, <2>3
  <2>5. next[p] \in I /\ m[next[p]] < m[p] /\ f[p] = f[next[p]]
    BY <1>1, <2>3, <2>4
  <2>6. m[next[p]] \in T
    BY <2>3, <2>5
  <2>7. m[next[p]] \in Nat /\ m[p] \in Nat
    BY <2>3, <2>5
  <2> HIDE DEF T
  <2>8. m[p] <= m[next[p]]
    BY <2>2, <2>3, <2>6
  <2> QED BY <2>5, <2>7, <2>8
<1> QED BY <1>2

-----------------------------------------------------------------------------
(* Decoding of the uri.                                                    *)

\* Texts that begin with a slash.
Paths == {s \in Seq(Byte) : Len(s) >= 1 /\ s[1] = "/"}

(***************************************************************************)
(* Words of one byte.                                                      *)
(***************************************************************************)
LEMMA WordOf ==
  ASSUME NEW b \in Byte
  PROVE  <<b>> \in Seq(Byte) /\ Len(<<b>>) = 1 /\ <<b>>[1] = b /\ Len(<<b>>) # NPos
<1>1. <<b>> \in Seq(Byte) /\ Len(<<b>>) = 1 /\ <<b>>[1] = b
  OBVIOUS
<1> QED BY <1>1, SizeAssumption DEF NPos

(***************************************************************************)
(* find() of a byte, from an offset within the text.                       *)
(***************************************************************************)
LEMMA FindByteIs ==
  ASSUME NEW s \in Seq(Byte), NEW b \in Byte, NEW i \in Nat
  PROVE  LET j == Find(s, <<b>>, i)
         IN \/ /\ j = NPos
               /\ \A k \in i..Len(s) - 1 : s[k + 1] # b
            \/ /\ j \in i..Len(s) - 1 /\ j \in Nat /\ s[j + 1] = b
               /\ \A k \in i..j - 1 : s[k + 1] # b
<1> DEFINE w == <<b>>
           j == Find(s, w, i)
<1>1. w \in Seq(Byte) /\ Len(w) = 1 /\ w[1] = b /\ Len(w) # NPos
  BY WordOf
<1>2. \A k \in Nat : At(s, w, k) <=> s[k + 1] = b
  BY <1>1 DEF At
<1>3. \/ /\ j = NPos
         /\ \A k \in i..Len(s) - Len(w) : ~At(s, w, k)
      \/ /\ j \in i..Len(s) - Len(w) /\ j \in Nat /\ At(s, w, j)
         /\ \A k \in i..j - 1 : ~At(s, w, k)
  <2> HIDE DEF w
  <2> QED BY <1>1, FindIs
<1> HIDE DEF w, j
<1>4. \A k : k \in i..Len(s) - 1 \/ k \in i..j - 1 => k \in Nat
  OBVIOUS
<1>5. CASE j = NPos /\ \A k \in i..Len(s) - Len(w) : ~At(s, w, k)
  <2>1. \A k \in i..Len(s) - 1 : s[k + 1] # b
    BY <1>1, <1>2, <1>4, <1>5
  <2> QED BY <1>5, <2>1 DEF j, w
<1>6. CASE /\ j \in i..Len(s) - Len(w) /\ j \in Nat /\ At(s, w, j)
           /\ \A k \in i..j - 1 : ~At(s, w, k)
  <2>1. j \in i..Len(s) - 1 /\ s[j + 1] = b
    BY <1>1, <1>2, <1>6
  <2>2. \A k \in i..j - 1 : s[k + 1] # b
    BY <1>2, <1>4, <1>6
  <2> QED BY <1>6, <2>1, <2>2 DEF j, w
<1> QED BY <1>3, <1>5, <1>6

(***************************************************************************)
(* The query string does not begin before the path does.                   *)
(***************************************************************************)
LEMMA QueryAtIs ==
  ASSUME NEW uri \in Paths
  PROVE  QueryAt(uri) \in 1..Len(uri)
<1> DEFINE j == Find(uri, <<"?">>, 0)
<1>1. uri \in Seq(Byte) /\ Len(uri) \in Nat /\ Len(uri) >= 1 /\ uri[1] = "/"
  BY LenProperties DEF Paths
<1>2. "?" \in Byte
  BY ByteAssumption
<1>3. j = NPos \/ (j \in 0..Len(uri) - 1 /\ j \in Nat /\ uri[j + 1] = "?")
  BY <1>1, <1>2, FindByteIs
<1>4. QueryAt(uri) = IF j = NPos THEN Len(uri) ELSE j
  BY DEF QueryAt
<1> HIDE DEF j
<1>5. CASE j = NPos
  BY <1>1, <1>4, <1>5
<1>6. CASE j # NPos
  <2>1. uri[j + 1] = "?" /\ "?" # "/"
    BY <1>3, <1>6
  <2>2. j # 0
    BY <1>1, <2>1
  <2> QED BY <1>1, <1>3, <1>4, <1>6, <2>2
<1> QED BY <1>5, <1>6

(***************************************************************************)
(* A turn of the loop takes one byte of the uri or an escape, and adds at  *)
(* most one byte to what is decoded.                                       *)
(***************************************************************************)
LEMMA DecodeTurnIs ==
  ASSUME NEW uri \in Seq(Byte), NEW i \in Nat, i < Len(uri), NEW dec \in Seq(Byte)
  PROVE  \E d \in Seq(Byte) :
           /\ DecodeTurn(uri, i, dec) = <<IF uri[i + 1] = "%" THEN i + 3 ELSE i + 1, d>>
           /\ Len(d) \in Len(dec)..Len(dec) + 1
           /\ \A k \in 1..Len(dec) : d[k] = dec[k]
<1> DEFINE c == HexValue(Substr(uri, i + 1, 2))
<1>1. Len(uri) \in Nat /\ Len(dec) \in Nat /\ uri[i + 1] \in Byte
  BY LenProperties, ElementOfSeq
<1>2. ByteOf(c) \in Byte
  BY ByteAssumption DEF ByteOf
<1>3. \A b \in Byte : /\ Append(dec, b) \in Seq(Byte)
                      /\ Len(Append(dec, b)) = Len(dec) + 1
                      /\ \A k \in 1..Len(dec) : Append(dec, b)[k] = dec[k]
  BY <1>1, AppendProperties
<1> HIDE DEF c
<1>4. CASE uri[i + 1] # "%"
  <2>1. DecodeTurn(uri, i, dec) = <<i + 1, Append(dec, uri[i + 1])>>
    BY <1>4 DEF DecodeTurn
  <2>2. Len(Append(dec, uri[i + 1])) \in Len(dec)..Len(dec) + 1
    BY <1>1, <1>3
  <2> QED BY <1>1, <1>3, <1>4, <2>1, <2>2
<1>5. CASE uri[i + 1] = "%"
  <2> DEFINE d == IF c = 0 THEN dec ELSE Append(dec, ByteOf(c))
  <2>1. DecodeTurn(uri, i, dec) = <<i + 3, d>>
    BY <1>5 DEF DecodeTurn, AfterEscape, c
  <2>2. d \in Seq(Byte) /\ \A k \in 1..Len(dec) : d[k] = dec[k]
    BY <1>2, <1>3
  <2>3. Len(d) = Len(dec) \/ Len(d) = Len(dec) + 1
    BY <1>2, <1>3
  <2> HIDE DEF d
  <2>4. Len(d) \in Len(dec)..Len(dec) + 1
    BY <1>1, <2>3
  <2> QED BY <1>5, <2>1, <2>2, <2>4
<1> QED BY <1>4, <1>5

(***************************************************************************)
(* The decoding is such a loop.                                            *)
(***************************************************************************)
LEMMA DecodeLoop ==
  ASSUME NEW uri \in Paths
  PROVE  LET qv == QueryAt(uri)
             S  == Nat \X Seq(Byte)
             over(i) == i >= qv \/ (uri[i + 1] = "%" /\ i >= qv - 2)
             Ends == {p \in S : over(p[1])}
             result == [p \in S |-> p[2]]
             next == [p \in S |-> IF p \in Ends THEN p ELSE DecodeTurn(uri, p[1], p[2])]
             f == DecodeFrom(uri, qv)
         IN f = Pass(S, Ends, result, next, f)
<1> DEFINE qv == QueryAt(uri)
           S  == Nat \X Seq(Byte)
           over(i) == i >= qv \/ (uri[i + 1] = "%" /\ i >= qv - 2)
           Ends == {p \in S : over(p[1])}
           result == [p \in S |-> p[2]]
           next == [p \in S |-> IF p \in Ends THEN p ELSE DecodeTurn(uri, p[1], p[2])]
           f == DecodeFrom(uri, qv)
<1>1. /\ uri \in Seq(Byte) /\ Len(uri) \in Nat
      /\ qv \in 1..Len(uri) /\ qv \in Nat
  BY QueryAtIs, LenProperties DEF Paths
<1> HIDE DEF qv
<1>2. next \in [S -> S]
  <2>1. ASSUME NEW p \in S, p \notin Ends PROVE DecodeTurn(uri, p[1], p[2]) \in S
    <3>1. p[1] \in Nat /\ p[1] < Len(uri) /\ p[2] \in Seq(Byte)
      BY <1>1, <2>1
    <3> QED BY <1>1, <3>1, DecodeTurnIs
  <2> QED BY <2>1
<1>3. \A g : [p \in S |-> IF over(p[1]) THEN p[2] ELSE g[DecodeTurn(uri, p[1], p[2])]]
            = Pass(S, Ends, result, next, g)
  <2> TAKE g
  <2>1. \A p \in S : (IF over(p[1]) THEN p[2] ELSE g[DecodeTurn(uri, p[1], p[2])])
                    = IF p \in Ends THEN result[p] ELSE g[next[p]]
    OBVIOUS
  <2> QED BY <2>1 DEF Pass
<1>4. f = Pass(S, Ends, result, next, f)
  <2>1. f = CHOOSE g : g = [p \in S |-> IF over(p[1]) THEN p[2]
                                        ELSE g[DecodeTurn(uri, p[1], p[2])]]
    BY DEF DecodeFrom
  <2> HIDE DEF f, S, Ends, result, next, over
  <2>2. \E g : g = Pass(S, Ends, result, next, g)
    BY <1>2, LoopExists
  <2>3. \E g : g = [p \in S |-> IF over(p[1]) THEN p[2]
                                ELSE g[DecodeTurn(uri, p[1], p[2])]]
    BY <1>3, <2>2
  <2>4. f = [p \in S |-> IF over(p[1]) THEN p[2] ELSE f[DecodeTurn(uri, p[1], p[2])]]
    BY <2>1, <2>3
  <2> QED BY <1>3, <2>4
<1> QED BY <1>4 DEF qv

(***************************************************************************)
(* The decoded uri begins with a slash and is no longer than the uri       *)
(* (protocol.cpp:690-703).                                                 *)
(***************************************************************************)
LEMMA DecodeIs ==
  ASSUME NEW uri \in Paths
  PROVE  Decode(uri) \in Paths /\ Len(Decode(uri)) <= Len(uri)
<1>0. "/" \in Byte
  BY ByteAssumption
<1> DEFINE qv == QueryAt(uri)
           S  == Nat \X Seq(Byte)
           over(i) == i >= qv \/ (uri[i + 1] = "%" /\ i >= qv - 2)
           Ends == {p \in S : over(p[1])}
           result == [p \in S |-> p[2]]
           next == [p \in S |-> IF p \in Ends THEN p ELSE DecodeTurn(uri, p[1], p[2])]
           f == DecodeFrom(uri, qv)
<1>1. /\ uri \in Seq(Byte) /\ Len(uri) \in Nat
      /\ qv \in 1..Len(uri) /\ qv \in Nat
  BY QueryAtIs, LenProperties DEF Paths
<1>2. f = Pass(S, Ends, result, next, f)
  BY DecodeLoop
<1> HIDE DEF qv
<1> DEFINE I == {p \in S : p[1] \in 1..qv /\ p[2] \in Paths /\ Len(p[2]) <= p[1]}
           m == [p \in I |-> qv - p[1]]
           G == {d \in Paths : Len(d) <= Len(uri)}
<1>3. I \in SUBSET S /\ m \in [I -> Nat]
  <2>1. \A p \in I : qv - p[1] \in Nat
    BY <1>1
  <2> QED BY <2>1
<1>4. ASSUME NEW p \in I
      PROVE  IF p \in Ends THEN result[p] \in G
             ELSE next[p] \in I /\ m[next[p]] < m[p]
  <2>1. /\ p[1] \in 1..qv /\ p[1] \in Nat
        /\ p[2] \in Seq(Byte) /\ Len(p[2]) \in Nat /\ Len(p[2]) >= 1 /\ p[2][1] = "/"
        /\ Len(p[2]) <= p[1] /\ p \in S
    BY LenProperties DEF Paths
  <2>2. CASE p \in Ends
    <3>1. result[p] = p[2]
      BY <2>1
    <3>2. Len(p[2]) <= Len(uri)
      BY <1>1, <2>1
    <3> QED BY <2>1, <2>2, <3>1, <3>2 DEF Paths
  <2>3. CASE p \notin Ends
    <3>1. /\ p[1] < qv
          /\ uri[p[1] + 1] = "%" => p[1] < qv - 2
      BY <1>1, <2>1, <2>3
    <3>2. PICK d \in Seq(Byte) :
            /\ DecodeTurn(uri, p[1], p[2]) =
                 <<IF uri[p[1] + 1] = "%" THEN p[1] + 3 ELSE p[1] + 1, d>>
            /\ Len(d) \in Len(p[2])..Len(p[2]) + 1
            /\ \A k \in 1..Len(p[2]) : d[k] = p[2][k]
      <4>1. p[1] < Len(uri)
        BY <1>1, <2>1, <3>1
      <4> QED BY <1>1, <2>1, <4>1, DecodeTurnIs
    <3> DEFINE j == IF uri[p[1] + 1] = "%" THEN p[1] + 3 ELSE p[1] + 1
    <3>3. next[p] = <<j, d>>
      BY <2>1, <2>3, <3>2
    <3>4. j \in 1..qv /\ j \in Nat /\ j > p[1]
      BY <1>1, <2>1, <3>1
    <3>5. Len(d) \in Nat /\ Len(d) >= 1 /\ d[1] = "/"
      <4>1. 1 \in 1..Len(p[2])
        BY <2>1
      <4> QED BY <2>1, <3>2, <4>1
    <3>6. Len(d) <= j
      BY <2>1, <3>2, <3>4, <3>5
    <3> HIDE DEF j
    <3>7. <<j, d>> \in I
      BY <3>4, <3>5, <3>6 DEF Paths
    <3>8. m[<<j, d>>] = qv - j /\ m[p] = qv - p[1]
      <4>1. <<j, d>>[1] = j
        OBVIOUS
      <4> QED BY <3>7, <4>1
    <3>9. qv - j < qv - p[1]
      BY <1>1, <2>1, <3>4
    <3> QED BY <2>3, <3>3, <3>7, <3>8, <3>9
  <2> QED BY <2>2, <2>3
<1>5. <<1, <<"/">>>> \in I
  <2>1. <<"/">> \in Seq(Byte) /\ Len(<<"/">>) = 1 /\ <<"/">>[1] = "/"
    BY <1>0, WordOf
  <2> DEFINE w == <<"/">>
  <2>2. w \in Paths /\ w \in Seq(Byte) /\ Len(w) <= 1
    BY <2>1 DEF Paths
  <2> HIDE DEF w
  <2>3. 1 \in 1..qv /\ 1 \in Nat
    BY <1>1
  <2>4. <<1, w>> \in I
    BY <2>2, <2>3
  <2> QED BY <2>4 DEF w
<1> HIDE DEF f, S, Ends, result, next, I, m, G
<1>6. f[<<1, <<"/">>>>] \in G
  BY <1>2, <1>3, <1>4, <1>5, LoopAnswers
<1> QED BY <1>6 DEF Decode, f, qv, G

-----------------------------------------------------------------------------
(* Dot segments.                                                           *)

\* No "/./" and no "/../" in q.
Tidy(q) ==
  \A j \in Nat :
    /\ j + 3 <= Len(q) => ~(q[j + 1] = "/" /\ q[j + 2] = "." /\ q[j + 3] = "/")
    /\ j + 4 <= Len(q) => ~(/\ q[j + 1] = "/" /\ q[j + 2] = "."
                           /\ q[j + 3] = "." /\ q[j + 4] = "/")

\* With the slash behind it no segment of s is cut off.
Slashed(s) == s \o <<"/">>

(***************************************************************************)
(* The bytes of a text with a slash behind it.                             *)
(***************************************************************************)
LEMMA SlashedIs ==
  ASSUME NEW s \in Seq(Byte)
  PROVE  /\ Slashed(s) \in Seq(Byte)
         /\ Len(Slashed(s)) = Len(s) + 1
         /\ \A k \in 1..Len(s) : Slashed(s)[k] = s[k]
         /\ Slashed(s)[Len(s) + 1] = "/"
<1> DEFINE w == <<"/">>
<1>1. "/" \in Byte
  BY ByteAssumption
<1>2. w \in Seq(Byte) /\ Len(w) = 1 /\ w[1] = "/"
  BY <1>1, WordOf
<1>3. Len(s) \in Nat
  BY LenProperties
<1> HIDE DEF w
<1>4. /\ s \o w \in Seq(Byte)
      /\ Len(s \o w) = Len(s) + Len(w)
      /\ \A i \in 1..Len(s) + Len(w) :
           (s \o w)[i] = IF i <= Len(s) THEN s[i] ELSE w[i - Len(s)]
  BY <1>2, ConcatProperties
<1>5. \A k \in 1..Len(s) : (s \o w)[k] = s[k]
  BY <1>2, <1>3, <1>4
<1>6. (s \o w)[Len(s) + 1] = "/"
  <2>1. Len(s) + 1 \in 1..Len(s) + Len(w) /\ ~(Len(s) + 1 <= Len(s))
        /\ (Len(s) + 1) - Len(s) = 1
    BY <1>2, <1>3
  <2> QED BY <1>2, <1>4, <2>1
<1> QED BY <1>2, <1>4, <1>5, <1>6 DEF Slashed, w

(***************************************************************************)
(* A beginning of a tidy text is tidy.                                     *)
(***************************************************************************)
LEMMA PrefixTidy ==
  ASSUME NEW a \in Seq(Byte), NEW b \in Seq(Byte), Tidy(b), Len(a) <= Len(b),
         \A k \in 1..Len(a) : a[k] = b[k]
  PROVE  Tidy(a)
<1>1. Len(a) \in Nat /\ Len(b) \in Nat
  BY LenProperties
<1>2. SUFFICES ASSUME NEW j \in Nat
      PROVE /\ j + 3 <= Len(a) => ~(a[j + 1] = "/" /\ a[j + 2] = "." /\ a[j + 3] = "/")
            /\ j + 4 <= Len(a) => ~(/\ a[j + 1] = "/" /\ a[j + 2] = "."
                                   /\ a[j + 3] = "." /\ a[j + 4] = "/")
  BY DEF Tidy
<1>3. ASSUME j + 3 <= Len(a)
      PROVE  ~(a[j + 1] = "/" /\ a[j + 2] = "." /\ a[j + 3] = "/")
  <2>1. a[j + 1] = b[j + 1] /\ a[j + 2] = b[j + 2] /\ a[j + 3] = b[j + 3]
    BY <1>1, <1>3
  <2>2. j + 3 <= Len(b)
    BY <1>1, <1>3
  <2> QED BY <2>1, <2>2 DEF Tidy
<1>4. ASSUME j + 4 <= Len(a)
      PROVE  ~(/\ a[j + 1] = "/" /\ a[j + 2] = "."
               /\ a[j + 3] = "." /\ a[j + 4] = "/")
  <2>1. /\ a[j + 1] = b[j + 1] /\ a[j + 2] = b[j + 2]
        /\ a[j + 3] = b[j + 3] /\ a[j + 4] = b[j + 4]
    BY <1>1, <1>4
  <2>2. j + 4 <= Len(b)
    BY <1>1, <1>4
  <2> QED BY <2>1, <2>2 DEF Tidy
<1> QED BY <1>3, <1>4

(***************************************************************************)
(* "out.erase(out.rfind('/'))" leaves a tidy text tidy.                    *)
(***************************************************************************)
LEMMA ParentIs ==
  ASSUME NEW out \in Seq(Byte)
  PROVE  /\ Parent(out) \in Seq(Byte) /\ Len(Parent(out)) <= Len(out)
         /\ Tidy(Slashed(out)) => Tidy(Slashed(Parent(out)))
         /\ out = << >> \/ out \in Paths => Parent(out) = << >> \/ Parent(out) \in Paths
<1> DEFINE slashes == {i \in 1..Len(out) : out[i] = "/"}
<1>1. Len(out) \in Nat
  BY LenProperties
<1>2. Parent(out) = IF slashes = {} THEN << >> ELSE SubSeq(out, 1, Max(slashes) - 1)
  BY DEF Parent
<1>3. CASE slashes = {}
  <2>1. Parent(out) = << >>
    BY <1>2, <1>3
  <2>2. << >> \in Seq(Byte) /\ Len(<< >>) = 0
    OBVIOUS
  <2>3. Len(Slashed(<< >>)) = 1
    <3> DEFINE e == << >>
    <3>1. e \in Seq(Byte) /\ Len(e) = 0
      BY <2>2
    <3> HIDE DEF e
    <3>2. Len(Slashed(e)) = Len(e) + 1
      BY <3>1, SlashedIs
    <3> QED BY <3>1, <3>2 DEF e
  <2>4. Tidy(Slashed(<< >>))
    BY <2>3 DEF Tidy
  <2> QED BY <1>1, <2>1, <2>2, <2>4
<1>4. CASE slashes # {}
  <2> DEFINE m == Max(slashes)
  <2>1. m \in slashes
    <3> DEFINE T == {Len(out) - i : i \in slashes}
    <3>1. T \in SUBSET Nat /\ T # {}
      BY <1>1, <1>4
    <3>2. PICK t \in T : \A j \in T : t <= j
      BY <3>1, LeastNat
    <3>3. PICK x \in slashes : t = Len(out) - x
      BY <3>2
    <3>4. ASSUME NEW y \in slashes PROVE x >= y
      <4>1. t <= Len(out) - y
        BY <3>2
      <4> QED BY <1>1, <3>3, <4>1
    <3>5. \E z \in slashes : \A y \in slashes : z >= y
      BY <3>4
    <3> HIDE DEF slashes
    <3> QED BY <3>5 DEF Max
  <2>2. Parent(out) = SubSeq(out, 1, m - 1)
    BY <1>2, <1>4
  <2> HIDE DEF m
  <2>3. m \in 1..Len(out) /\ m \in Nat /\ out[m] = "/"
    BY <1>1, <2>1
  <2> DEFINE p == SubSeq(out, 1, m - 1)
  <2>4. /\ p \in Seq(Byte) /\ Len(p) = m - 1
        /\ \A k \in 1..m - 1 : p[k] = out[k]
    <3>1. \A k \in 1..m - 1 : out[k] \in Byte
      BY <1>1, <2>3, ElementOfSeq
    <3>2. /\ p \in Seq(Byte)
          /\ Len(p) = IF 1 <= m - 1 THEN (m - 1) - 1 + 1 ELSE 0
          /\ \A k \in 1..(m - 1) - 1 + 1 : p[k] = out[1 + k - 1]
      BY <2>3, <3>1, SubSeqProperties
    <3> HIDE DEF p
    <3>3. Len(p) = m - 1
      BY <2>3, <3>2
    <3>4. \A k \in 1..m - 1 : k \in 1..(m - 1) - 1 + 1 /\ 1 + k - 1 = k
      BY <2>3
    <3> QED BY <3>2, <3>3, <3>4
  <2> HIDE DEF p
  <2>5. ASSUME Tidy(Slashed(out)) PROVE Tidy(Slashed(p))
    <3> DEFINE a == Slashed(p)
               b == Slashed(out)
    <3>1. /\ a \in Seq(Byte) /\ Len(a) = Len(p) + 1
          /\ \A k \in 1..Len(p) : a[k] = p[k]
          /\ a[Len(p) + 1] = "/"
      BY <2>4, SlashedIs
    <3>2. /\ b \in Seq(Byte) /\ Len(b) = Len(out) + 1
          /\ \A k \in 1..Len(out) : b[k] = out[k]
      BY SlashedIs
    <3> HIDE DEF a, b
    <3>3. Len(a) = m /\ Len(a) <= Len(b)
      BY <1>1, <2>3, <2>4, <3>1, <3>2
    <3>4. ASSUME NEW k \in 1..m PROVE a[k] = b[k]
      <4>1. b[k] = out[k]
        BY <1>1, <2>3, <3>2
      <4>2. CASE k = m
        <5>1. a[k] = "/"
          BY <2>3, <2>4, <3>1, <4>2
        <5> QED BY <2>3, <4>1, <4>2, <5>1
      <4>3. CASE k # m
        <5>1. k \in 1..m - 1
          BY <2>3, <4>3
        <5> QED BY <2>4, <3>1, <4>1, <5>1
      <4> QED BY <4>2, <4>3
    <3>5. Tidy(b)
      BY <2>5 DEF b
    <3>6. Tidy(a)
      BY <3>1, <3>2, <3>3, <3>4, <3>5, PrefixTidy
    <3> QED BY <3>6 DEF a
  <2>6. ASSUME out = << >> \/ out \in Paths PROVE p = << >> \/ p \in Paths
    <3>1. out[1] = "/"
      <4>1. out # << >>
        BY <2>3
      <4> QED BY <2>6, <4>1 DEF Paths
    <3>2. CASE m = 1
      <4>1. Len(p) = 0
        BY <2>4, <3>2
      <4> QED BY <2>4, <4>1
    <3>3. CASE m # 1
      <4>1. 1 \in 1..m - 1 /\ Len(p) >= 1
        BY <2>3, <2>4, <3>3
      <4>2. p[1] = "/"
        BY <2>4, <3>1, <4>1
      <4> QED BY <2>4, <4>1, <4>2 DEF Paths
    <3> QED BY <3>2, <3>3
  <2>7. Len(p) <= Len(out)
    BY <1>1, <2>3, <2>4
  <2> QED BY <2>2, <2>4, <2>5, <2>6, <2>7 DEF p
<1> QED BY <1>3, <1>4

(***************************************************************************)
(* A segment that is not a dot segment leaves a tidy text tidy.            *)
(***************************************************************************)
LEMMA SegmentTidy ==
  ASSUME NEW out \in Seq(Byte), Tidy(Slashed(out)), NEW seg \in Paths,
         \A k \in 2..Len(seg) : seg[k] # "/",
         ~(Len(seg) = 2 /\ seg[2] = "."),
         ~(Len(seg) = 3 /\ seg[2] = "." /\ seg[3] = ".")
  PROVE  /\ out \o seg \in Seq(Byte) /\ Tidy(Slashed(out \o seg))
         /\ out = << >> \/ out \in Paths => out \o seg \in Paths
<1> DEFINE l == Len(out)
           n == Len(seg)
           e == out \o seg
           p == Slashed(out)
           q == Slashed(e)
<1>1. /\ l \in Nat /\ n \in Nat /\ n >= 1
      /\ seg \in Seq(Byte) /\ seg[1] = "/"
  BY LenProperties DEF Paths
<1>2. /\ e \in Seq(Byte) /\ Len(e) = l + n
      /\ \A k \in 1..l + n : e[k] = IF k <= l THEN out[k] ELSE seg[k - l]
  BY <1>1, ConcatProperties
<1>3. /\ p \in Seq(Byte) /\ Len(p) = l + 1
      /\ \A k \in 1..l : p[k] = out[k]
      /\ p[l + 1] = "/"
  BY SlashedIs
<1> HIDE DEF e
<1>4. /\ q \in Seq(Byte) /\ Len(q) = (l + n) + 1
      /\ \A k \in 1..l + n : q[k] = e[k]
      /\ q[(l + n) + 1] = "/"
  BY <1>2, SlashedIs
<1> HIDE DEF l, n, p, q
<1>5. \A k \in 1..n : q[l + k] = seg[k]
  <2> TAKE k \in 1..n
  <2>1. l + k \in 1..l + n /\ ~(l + k <= l) /\ (l + k) - l = k
    BY <1>1
  <2> QED BY <1>2, <1>4, <2>1
<1>6. \A k \in 1..l + 1 : q[k] = p[k]
  <2> TAKE k \in 1..l + 1
  <2>1. CASE k = l + 1
    <3>1. q[l + 1] = seg[1]
      BY <1>1, <1>5
    <3> QED BY <1>1, <1>3, <2>1, <3>1
  <2>2. CASE k # l + 1
    <3>1. k \in 1..l /\ k \in 1..l + n /\ k <= l
      BY <1>1, <2>2
    <3> QED BY <1>2, <1>3, <1>4, <3>1
  <2> QED BY <2>1, <2>2
<1>7. \A k \in Nat : k > l + 1 /\ k <= l + n => q[k] # "/"
  <2> SUFFICES ASSUME NEW k \in Nat, k > l + 1, k <= l + n PROVE q[k] # "/"
    OBVIOUS
  <2>1. k - l \in 2..n /\ k - l \in 1..n /\ l + (k - l) = k
    BY <1>1
  <2>2. q[k] = seg[k - l]
    BY <1>5, <2>1
  <2>3. seg[k - l] # "/"
    BY <2>1 DEF n
  <2> QED BY <2>2, <2>3
<1>8. q[l + 1] = "/"
  BY <1>1, <1>3, <1>6
<1>9. Tidy(q)
  <2>1. Tidy(p)
    BY DEF p
  <2>2. SUFFICES ASSUME NEW j \in Nat
        PROVE /\ j + 3 <= Len(q) =>
                   ~(q[j + 1] = "/" /\ q[j + 2] = "." /\ q[j + 3] = "/")
              /\ j + 4 <= Len(q) =>
                   ~(/\ q[j + 1] = "/" /\ q[j + 2] = "."
                     /\ q[j + 3] = "." /\ q[j + 4] = "/")
    BY DEF Tidy
  <2>3. ASSUME j + 3 <= Len(q), q[j + 1] = "/", q[j + 2] = ".", q[j + 3] = "/"
        PROVE  FALSE
    <3>1. CASE j + 3 <= l + 1
      <4>1. q[j + 1] = p[j + 1] /\ q[j + 2] = p[j + 2] /\ q[j + 3] = p[j + 3]
        BY <1>1, <1>6, <3>1
      <4>2. j + 3 <= Len(p)
        BY <1>3, <3>1
      <4> QED BY <2>1, <2>3, <4>1, <4>2 DEF Tidy
    <3>2. CASE j + 3 > l + 1
      <4>1. j + 3 = (l + n) + 1
        BY <1>1, <1>4, <1>7, <2>3, <3>2
      <4>2. ~(j + 1 > l + 1)
        <5>1. j + 1 \in Nat /\ j + 1 <= l + n
          BY <1>1, <4>1
        <5> QED BY <1>7, <2>3, <5>1
      <4>3. j + 2 # l + 1
        BY <1>8, <2>3
      <4>4. j = l /\ n = 2
        BY <1>1, <3>2, <4>1, <4>2, <4>3
      <4>5. q[l + 2] = seg[2]
        BY <1>5, <4>4
      <4> QED BY <2>3, <4>4, <4>5 DEF n
    <3> QED BY <1>1, <3>1, <3>2
  <2>4. ASSUME j + 4 <= Len(q), q[j + 1] = "/", q[j + 2] = ".", q[j + 3] = ".",
               q[j + 4] = "/"
        PROVE  FALSE
    <3>1. CASE j + 4 <= l + 1
      <4>1. /\ q[j + 1] = p[j + 1] /\ q[j + 2] = p[j + 2]
            /\ q[j + 3] = p[j + 3] /\ q[j + 4] = p[j + 4]
        BY <1>1, <1>6, <3>1
      <4>2. j + 4 <= Len(p)
        BY <1>3, <3>1
      <4> QED BY <2>1, <2>4, <4>1, <4>2 DEF Tidy
    <3>2. CASE j + 4 > l + 1
      <4>1. j + 4 = (l + n) + 1
        BY <1>1, <1>4, <1>7, <2>4, <3>2
      <4>2. ~(j + 1 > l + 1)
        <5>1. j + 1 \in Nat /\ j + 1 <= l + n
          BY <1>1, <4>1
        <5> QED BY <1>7, <2>4, <5>1
      <4>3. j + 2 # l + 1 /\ j + 3 # l + 1
        BY <1>8, <2>4
      <4>4. j = l /\ n = 3
        BY <1>1, <3>2, <4>1, <4>2, <4>3
      <4>5. q[l + 2] = seg[2] /\ q[l + 3] = seg[3]
        BY <1>5, <4>4
      <4> QED BY <2>4, <4>4, <4>5 DEF n
    <3> QED BY <1>1, <3>1, <3>2
  <2> QED BY <2>3, <2>4
<1>10. ASSUME out = << >> \/ out \in Paths PROVE e \in Paths
  <2>1. Len(e) >= 1 /\ 1 \in 1..l + n
    BY <1>1, <1>2
  <2>2. e[1] = "/"
    <3>1. CASE l >= 1
      <4>1. out # << >>
        BY <3>1 DEF l
      <4>2. out[1] = "/"
        BY <1>10, <4>1 DEF Paths
      <4> QED BY <1>2, <2>1, <3>1, <4>2
    <3>2. CASE ~(l >= 1)
      <4>1. 1 - l = 1 /\ ~(1 <= l)
        BY <1>1, <3>2
      <4> QED BY <1>1, <1>2, <2>1, <4>1
    <3> QED BY <3>1, <3>2
  <2> QED BY <1>2, <2>1, <2>2 DEF Paths
<1> QED BY <1>2, <1>9, <1>10 DEF q, e

(***************************************************************************)
(* Prefixes of two to four bytes.                                          *)
(***************************************************************************)
LEMMA StartsWith ==
  ASSUME NEW s \in Seq(Byte)
  PROVE  /\ \A a, b \in Byte :
              Starts(s, <<a, b>>) <=> Len(s) >= 2 /\ s[1] = a /\ s[2] = b
         /\ \A a, b, c \in Byte :
              Starts(s, <<a, b, c>>) <=>
                Len(s) >= 3 /\ s[1] = a /\ s[2] = b /\ s[3] = c
         /\ \A a, b, c, d \in Byte :
              Starts(s, <<a, b, c, d>>) <=>
                Len(s) >= 4 /\ s[1] = a /\ s[2] = b /\ s[3] = c /\ s[4] = d
<1>1. Len(s) \in Nat
  BY LenProperties
<1>2. ASSUME NEW a \in Byte, NEW b \in Byte
      PROVE  Starts(s, <<a, b>>) <=> Len(s) >= 2 /\ s[1] = a /\ s[2] = b
  <2> DEFINE w == <<a, b>>
  <2>1. w \in Seq(Byte) /\ Len(w) = 2 /\ w[1] = a /\ w[2] = b
    OBVIOUS
  <2> HIDE DEF w
  <2>2. At(s, w, 0) <=> s[1] = a /\ s[2] = b
    <3>1. At(s, w, 0) <=> \A k \in 1..2 : s[0 + k] = w[k]
      BY <2>1 DEF At
    <3>2. (\A k \in 1..2 : s[0 + k] = w[k]) <=> s[1] = w[1] /\ s[2] = w[2]
      OBVIOUS
    <3> QED BY <2>1, <3>1, <3>2
  <2>3. Starts(s, w) <=> Len(w) <= Len(s) /\ At(s, w, 0)
    BY <2>1, StartsIs
  <2>4. Len(w) <= Len(s) <=> Len(s) >= 2
    BY <1>1, <2>1
  <2> QED BY <2>2, <2>3, <2>4 DEF w
<1>3. ASSUME NEW a \in Byte, NEW b \in Byte, NEW c \in Byte
      PROVE  Starts(s, <<a, b, c>>) <=>
               Len(s) >= 3 /\ s[1] = a /\ s[2] = b /\ s[3] = c
  <2> DEFINE w == <<a, b, c>>
  <2>1. w \in Seq(Byte) /\ Len(w) = 3 /\ w[1] = a /\ w[2] = b /\ w[3] = c
    OBVIOUS
  <2> HIDE DEF w
  <2>2. At(s, w, 0) <=> s[1] = a /\ s[2] = b /\ s[3] = c
    <3>1. At(s, w, 0) <=> \A k \in 1..3 : s[0 + k] = w[k]
      BY <2>1 DEF At
    <3>2. (\A k \in 1..3 : s[0 + k] = w[k]) <=>
             s[1] = w[1] /\ s[2] = w[2] /\ s[3] = w[3]
      OBVIOUS
    <3> QED BY <2>1, <3>1, <3>2
  <2>3. Starts(s, w) <=> Len(w) <= Len(s) /\ At(s, w, 0)
    BY <2>1, StartsIs
  <2>4. Len(w) <= Len(s) <=> Len(s) >= 3
    BY <1>1, <2>1
  <2> QED BY <2>2, <2>3, <2>4 DEF w
<1>4. ASSUME NEW a \in Byte, NEW b \in Byte, NEW c \in Byte, NEW d \in Byte
      PROVE  Starts(s, <<a, b, c, d>>) <=>
               Len(s) >= 4 /\ s[1] = a /\ s[2] = b /\ s[3] = c /\ s[4] = d
  <2> DEFINE w == <<a, b, c, d>>
  <2>1. /\ w \in Seq(Byte) /\ Len(w) = 4
        /\ w[1] = a /\ w[2] = b /\ w[3] = c /\ w[4] = d
    OBVIOUS
  <2> HIDE DEF w
  <2>2. At(s, w, 0) <=> s[1] = a /\ s[2] = b /\ s[3] = c /\ s[4] = d
    <3>1. At(s, w, 0) <=> \A k \in 1..4 : s[0 + k] = w[k]
      BY <2>1 DEF At
    <3>2. (\A k \in 1..4 : s[0 + k] = w[k]) <=>
             s[1] = w[1] /\ s[2] = w[2] /\ s[3] = w[3] /\ s[4] = w[4]
      OBVIOUS
    <3> QED BY <2>1, <3>1, <3>2
  <2>3. Starts(s, w) <=> Len(w) <= Len(s) /\ At(s, w, 0)
    BY <2>1, StartsIs
  <2>4. Len(w) <= Len(s) <=> Len(s) >= 4
    BY <1>1, <2>1
  <2> QED BY <2>2, <2>3, <2>4 DEF w
<1> QED BY <1>2, <1>3, <1>4

(***************************************************************************)
(* What is put in place of a prefix of the uri: it begins with a slash and *)
(* is shorter where the prefix had two bytes or more.                      *)
(***************************************************************************)
LEMMA ReplaceIs ==
  ASSUME NEW uri \in Seq(Byte), NEW n \in Nat
  PROVE  /\ Replace(uri, n) \in Paths
         /\ n <= Len(uri) => Len(Replace(uri, n)) = (Len(uri) - n) + 1
         /\ ~(n <= Len(uri)) => Len(Replace(uri, n)) = 1
<1> DEFINE w == <<"/">>
           r == From(uri, n)
<1>1. "/" \in Byte
  BY ByteAssumption
<1>2. w \in Seq(Byte) /\ Len(w) = 1 /\ w[1] = "/"
  BY <1>1, WordOf
<1>3. r \in Seq(Byte) /\ Len(r) = (IF n <= Len(uri) THEN Len(uri) - n ELSE 0)
  BY FromIs
<1>4. Len(uri) \in Nat /\ Len(r) \in Nat
  BY <1>3, LenProperties
<1> HIDE DEF w, r
<1>5. /\ w \o r \in Seq(Byte) /\ Len(w \o r) = Len(w) + Len(r)
      /\ \A i \in 1..Len(w) + Len(r) :
           (w \o r)[i] = IF i <= Len(w) THEN w[i] ELSE r[i - Len(w)]
  BY <1>2, <1>3, ConcatProperties
<1>6. (w \o r)[1] = "/"
  <2>1. 1 \in 1..Len(w) + Len(r) /\ 1 <= Len(w)
    BY <1>2, <1>4
  <2> QED BY <1>2, <1>5, <2>1
<1>7. Len(w \o r) >= 1
  BY <1>2, <1>4, <1>5
<1>8. w \o r \in Paths
  BY <1>5, <1>6, <1>7 DEF Paths
<1>9. Len(w \o r) = (IF n <= Len(uri) THEN (Len(uri) - n) + 1 ELSE 1)
  BY <1>2, <1>3, <1>4, <1>5
<1> QED BY <1>8, <1>9 DEF Replace, w, r

(***************************************************************************)
(* Every turn of ParseSegments() leaves texts.                             *)
(***************************************************************************)
LEMMA TurnType ==
  ASSUME NEW uri \in Seq(Byte), NEW out \in Seq(Byte)
  PROVE  Turn(uri, out) \in Seq(Byte) \X Seq(Byte)
<1> DEFINE t == Find(uri, <<"/">>, 1)
<1>1. t \in Nat /\ NPos \in Nat
  <2>1. "/" \in Byte
    BY ByteAssumption
  <2>2. NPos \in Nat
    BY SizeAssumption DEF NPos
  <2>3. t = NPos \/ t \in Nat
    BY <2>1, FindByteIs
  <2> QED BY <2>2, <2>3
<1>2. \A n \in Nat : From(uri, n) \in Seq(Byte) /\ Replace(uri, n) \in Seq(Byte)
  BY FromIs, ReplaceIs DEF Paths
<1>3. Parent(out) \in Seq(Byte)
  BY ParentIs
<1>4. << >> \in Seq(Byte)
  OBVIOUS
<1>5. out \o Substr(uri, 0, t) \in Seq(Byte)
  <2>1. Substr(uri, 0, t) \in Seq(Byte)
    BY <1>1, SubstrType
  <2> HIDE DEF t
  <2> QED BY <2>1, ConcatProperties
<1> DEFINE last == <<IF t = NPos THEN << >> ELSE From(uri, t), out \o Substr(uri, 0, t)>>
<1>6. last \in Seq(Byte) \X Seq(Byte)
  BY <1>1, <1>2, <1>4, <1>5
<1>7. Turn(uri, out) \in {<<From(uri, 1), out>>, <<From(uri, 2), out>>, <<From(uri, 3), out>>,
                         <<Replace(uri, 3), out>>, <<Replace(uri, 2), out>>,
                         <<Replace(uri, 4), Parent(out)>>,
                         <<Replace(uri, 3), Parent(out)>>, last}
  BY DEF Turn
<1> HIDE DEF last
<1>8. \A n \in Nat : /\ <<From(uri, n), out>> \in Seq(Byte) \X Seq(Byte)
                    /\ <<Replace(uri, n), out>> \in Seq(Byte) \X Seq(Byte)
                    /\ <<Replace(uri, n), Parent(out)>> \in Seq(Byte) \X Seq(Byte)
  BY <1>2, <1>3
<1>9. 1 \in Nat /\ 2 \in Nat /\ 3 \in Nat /\ 4 \in Nat
  OBVIOUS
<1> QED BY <1>6, <1>7, <1>8, <1>9, Zenon

(***************************************************************************)
(* No turn makes bytes: what is left and what was put out grow no longer.  *)
(***************************************************************************)
LEMMA TurnBound ==
  ASSUME NEW uri \in Seq(Byte), NEW out \in Seq(Byte), uri # << >>
  PROVE  LET p == Turn(uri, out)
         IN Len(p[1]) + Len(p[2]) <= Len(uri) + Len(out)
<1> DEFINE t == Find(uri, <<"/">>, 1)
           lu == Len(uri)
           lo == Len(out)
           held(p) == Len(p[1]) + Len(p[2]) <= lu + lo
<1>1. lu \in Nat /\ lo \in Nat /\ lu >= 1
  BY LenProperties, EmptySeq
<1>2. \A n \in {1, 2, 3, 4} : Len(From(uri, n)) \in Nat /\ Len(From(uri, n)) <= lu
  BY <1>1, FromIs
<1>3. \A n \in {1, 2, 3, 4} : Len(Replace(uri, n)) \in Nat /\ Len(Replace(uri, n)) <= lu
  <2> SUFFICES ASSUME NEW n \in {1, 2, 3, 4}
      PROVE Len(Replace(uri, n)) \in Nat /\ Len(Replace(uri, n)) <= lu
    OBVIOUS
  <2>1. /\ n <= lu => Len(Replace(uri, n)) = (lu - n) + 1
        /\ ~(n <= lu) => Len(Replace(uri, n)) = 1
    BY ReplaceIs
  <2> QED BY <1>1, <2>1
<1>4. Len(Parent(out)) \in Nat /\ Len(Parent(out)) <= lo
  BY ParentIs, LenProperties
<1> DEFINE last == <<IF t = NPos THEN << >> ELSE From(uri, t), out \o Substr(uri, 0, t)>>
<1>5. held(last)
  <2> DEFINE seg == Substr(uri, 0, t)
             u == IF t = NPos THEN << >> ELSE From(uri, t)
  <2>1. "/" \in Byte
    BY ByteAssumption
  <2>2. t = NPos \/ (t \in Nat /\ t <= lu)
    BY <1>1, <2>1, FindByteIs
  <2>3. NPos \in Nat
    BY SizeAssumption DEF NPos
  <2>4. seg \in Seq(Byte) /\ Len(seg) \in Nat /\ Len(seg) <= lu
    BY <2>2, <2>3, SubstrType
  <2>5. Len(u) \in Nat /\ Len(u) + Len(seg) <= lu
    <3>1. CASE t = NPos
      <4>1. Len(u) = 0
        BY <3>1
      <4> QED BY <1>1, <2>4, <4>1
    <3>2. CASE t # NPos
      <4>1. Len(u) = lu - t
        BY <2>2, <3>2, FromIs
      <4>2. 0 + t <= lu
        BY <2>2, <3>2
      <4>3. Len(seg) = t
        BY <2>2, <3>2, <4>2, SubstrIs
      <4> QED BY <1>1, <2>2, <3>2, <4>1, <4>3
    <3> QED BY <3>1, <3>2
  <2> HIDE DEF seg, u
  <2>6. Len(out \o seg) = lo + Len(seg)
    BY <2>4, ConcatProperties
  <2>7. last[1] = u /\ last[2] = out \o seg
    BY DEF u, seg
  <2> HIDE DEF last, lu, lo
  <2> QED BY <1>1, <2>4, <2>5, <2>6, <2>7
<1>6. Turn(uri, out) \in {<<From(uri, 1), out>>, <<From(uri, 2), out>>, <<From(uri, 3), out>>,
                         <<Replace(uri, 3), out>>, <<Replace(uri, 2), out>>,
                         <<Replace(uri, 4), Parent(out)>>,
                         <<Replace(uri, 3), Parent(out)>>, last}
  BY DEF Turn
<1>7. \A n \in {1, 2, 3, 4} : /\ held(<<From(uri, n), out>>)
                             /\ held(<<Replace(uri, n), out>>)
                             /\ held(<<Replace(uri, n), Parent(out)>>)
  BY <1>1, <1>2, <1>3, <1>4
<1> HIDE DEF last, held
<1>8. held(Turn(uri, out))
  BY <1>5, <1>6, <1>7
<1> QED BY <1>8 DEF held

\* What holds between the turns of ParseSegments().
Between(uri, out) ==
  /\ uri \in Seq(Byte) /\ Len(uri) < NPos
  /\ uri = << >> \/ uri \in Paths
  /\ out \in Seq(Byte) /\ Tidy(Slashed(out))
  /\ out = << >> \/ out \in Paths
  /\ uri = << >> => out \in Paths

(***************************************************************************)
(* Each turn keeps that, and shortens the uri.                             *)
(***************************************************************************)
LEMMA TurnIs ==
  ASSUME NEW uri, NEW out, Between(uri, out), uri # << >>
  PROVE  \E u, o : Turn(uri, out) = <<u, o>> /\ Between(u, o) /\ Len(u) < Len(uri)
<1> DEFINE t == Find(uri, <<"/">>, 1)
<1>1. /\ uri \in Seq(Byte) /\ Len(uri) \in Nat /\ Len(uri) >= 1
      /\ uri[1] = "/" /\ Len(uri) < NPos /\ NPos \in Nat
      /\ out \in Seq(Byte) /\ Tidy(Slashed(out))
      /\ out = << >> \/ out \in Paths
  BY LenProperties, SizeAssumption DEF Between, Paths, NPos
<1>2. "/" \in Byte /\ "." \in Byte /\ "/" # "."
  BY ByteAssumption
<1>3. /\ ~Starts(uri, <<".", "/">>) /\ ~Starts(uri, <<".", ".", "/">>)
      /\ uri # <<".">> /\ uri # <<".", ".">>
  <2>1. ~Starts(uri, <<".", "/">>) /\ ~Starts(uri, <<".", ".", "/">>)
    BY <1>1, <1>2, StartsWith
  <2>2. <<".">>[1] = "." /\ <<".", ".">>[1] = "."
    OBVIOUS
  <2> QED BY <1>1, <1>2, <2>1, <2>2
<1>4. /\ Starts(uri, <<"/", ".", "/">>) <=>
           Len(uri) >= 3 /\ uri[1] = "/" /\ uri[2] = "." /\ uri[3] = "/"
      /\ Starts(uri, <<"/", ".", ".", "/">>) <=>
           Len(uri) >= 4 /\ uri[1] = "/" /\ uri[2] = "." /\ uri[3] = "." /\ uri[4] = "/"
  BY <1>1, <1>2, StartsWith
<1>5. (uri = <<"/", ".">>) <=> Len(uri) = 2 /\ uri[2] = "."
  <2> DEFINE w == <<"/", ".">>
  <2>1. w \in Seq(Byte) /\ Len(w) = 2 /\ w[1] = "/" /\ w[2] = "."
    BY <1>2
  <2> HIDE DEF w
  <2>2. ASSUME Len(uri) = 2, uri[2] = "." PROVE uri = w
    <3>1. \A i \in 1..Len(uri) : uri[i] = w[i]
      BY <1>1, <2>1, <2>2
    <3> QED BY <1>1, <2>1, <2>2, <3>1, SeqEqual
  <2> QED BY <2>1, <2>2 DEF w
<1>6. (uri = <<"/", ".", ".">>) <=> Len(uri) = 3 /\ uri[2] = "." /\ uri[3] = "."
  <2> DEFINE w == <<"/", ".", ".">>
  <2>1. w \in Seq(Byte) /\ Len(w) = 3 /\ w[1] = "/" /\ w[2] = "." /\ w[3] = "."
    BY <1>2
  <2> HIDE DEF w
  <2>2. ASSUME Len(uri) = 3, uri[2] = ".", uri[3] = "." PROVE uri = w
    <3>1. \A i \in 1..Len(uri) : uri[i] = w[i]
      BY <1>1, <2>1, <2>2
    <3> QED BY <1>1, <2>1, <2>2, <3>1, SeqEqual
  <2> QED BY <2>1, <2>2 DEF w
<1>7. \A n \in {2, 3, 4} : n <= Len(uri) =>
        /\ Replace(uri, n) \in Paths /\ Replace(uri, n) \in Seq(Byte)
        /\ Len(Replace(uri, n)) < Len(uri) /\ Len(Replace(uri, n)) < NPos
        /\ Replace(uri, n) # << >>
  <2> SUFFICES ASSUME NEW n \in {2, 3, 4}, n <= Len(uri)
      PROVE /\ Replace(uri, n) \in Paths /\ Replace(uri, n) \in Seq(Byte)
            /\ Len(Replace(uri, n)) < Len(uri) /\ Len(Replace(uri, n)) < NPos
            /\ Replace(uri, n) # << >>
    OBVIOUS
  <2> DEFINE r == Replace(uri, n)
  <2>1. r \in Paths /\ Len(r) = (Len(uri) - n) + 1
    BY <1>1, ReplaceIs
  <2> HIDE DEF r
  <2>2. Len(r) < Len(uri) /\ Len(r) < NPos
    BY <1>1, <2>1
  <2>3. r \in Seq(Byte) /\ r # << >>
    BY <2>1 DEF Paths
  <2> QED BY <2>1, <2>2, <2>3 DEF r
<1>8. /\ Parent(out) \in Seq(Byte) /\ Tidy(Slashed(Parent(out)))
      /\ Parent(out) = << >> \/ Parent(out) \in Paths
  BY <1>1, ParentIs
<1>9. CASE Starts(uri, <<"/", ".", "/">>)
  <2>1. Len(uri) >= 3 /\ uri[2] = "." /\ uri[3] = "/"
    BY <1>4, <1>9
  <2>2. uri # <<"/", ".">> /\ uri # <<"/", ".", ".">> /\ ~Starts(uri, <<"/", ".", ".", "/">>)
    BY <1>1, <1>2, <1>4, <1>5, <1>6, <2>1
  <2>3. Turn(uri, out) = <<Replace(uri, 3), out>>
    BY <1>3, <1>9, <2>2 DEF Turn
  <2>4. Between(Replace(uri, 3), out) /\ Len(Replace(uri, 3)) < Len(uri)
    BY <1>1, <1>7, <2>1 DEF Between
  <2> QED BY <2>3, <2>4
<1>10. CASE uri = <<"/", ".">>
  <2>1. Len(uri) = 2 /\ uri[2] = "."
    BY <1>5, <1>10
  <2>2. /\ ~Starts(uri, <<"/", ".", "/">>) /\ uri # <<"/", ".", ".">>
        /\ ~Starts(uri, <<"/", ".", ".", "/">>)
    <3>1. ~(Len(uri) >= 3) /\ Len(uri) # 3 /\ ~(Len(uri) >= 4)
      BY <2>1
    <3> QED BY <1>4, <1>6, <3>1
  <2>3. Turn(uri, out) = <<Replace(uri, 2), out>>
    BY <1>3, <1>10, <2>2 DEF Turn
  <2>4. Between(Replace(uri, 2), out) /\ Len(Replace(uri, 2)) < Len(uri)
    BY <1>1, <1>7, <2>1 DEF Between
  <2> QED BY <2>3, <2>4
<1>11. CASE Starts(uri, <<"/", ".", ".", "/">>)
  <2>1. Len(uri) >= 4 /\ uri[2] = "." /\ uri[3] = "." /\ uri[4] = "/"
    BY <1>4, <1>11
  <2>2. uri # <<"/", ".">> /\ uri # <<"/", ".", ".">> /\ ~Starts(uri, <<"/", ".", "/">>)
    <3>1. Len(uri) # 2 /\ Len(uri) # 3
      BY <1>1, <2>1
    <3> QED BY <1>2, <1>4, <1>5, <1>6, <2>1, <3>1, Zenon
  <2>3. Turn(uri, out) = <<Replace(uri, 4), Parent(out)>>
    BY <1>3, <1>11, <2>2 DEF Turn
  <2>4. Between(Replace(uri, 4), Parent(out)) /\ Len(Replace(uri, 4)) < Len(uri)
    BY <1>1, <1>7, <1>8, <2>1 DEF Between
  <2> QED BY <2>3, <2>4
<1>12. CASE uri = <<"/", ".", ".">>
  <2>1. Len(uri) = 3 /\ uri[2] = "." /\ uri[3] = "."
    BY <1>6, <1>12
  <2>2. /\ uri # <<"/", ".">> /\ ~Starts(uri, <<"/", ".", "/">>)
        /\ ~Starts(uri, <<"/", ".", ".", "/">>)
    <3>1. Len(uri) # 2 /\ ~(Len(uri) >= 4)
      BY <2>1
    <3> QED BY <1>2, <1>4, <1>5, <2>1, <3>1, Zenon
  <2>3. Turn(uri, out) = <<Replace(uri, 3), Parent(out)>>
    BY <1>3, <1>12, <2>2 DEF Turn
  <2>4. Between(Replace(uri, 3), Parent(out)) /\ Len(Replace(uri, 3)) < Len(uri)
    BY <1>1, <1>7, <1>8, <2>1 DEF Between
  <2> QED BY <2>3, <2>4
<1>13. CASE /\ ~Starts(uri, <<"/", ".", "/">>) /\ uri # <<"/", ".">>
            /\ ~Starts(uri, <<"/", ".", ".", "/">>) /\ uri # <<"/", ".", ".">>
  <2> DEFINE n == IF t = NPos THEN Len(uri) ELSE t
             seg == Substr(uri, 0, t)
             u == IF t = NPos THEN << >> ELSE From(uri, t)
             o == out \o seg
  <2>1. Turn(uri, out) = <<u, o>>
    BY <1>3, <1>13 DEF Turn
  <2>2. \/ /\ t = NPos
           /\ \A k \in 1..Len(uri) - 1 : uri[k + 1] # "/"
        \/ /\ t \in 1..Len(uri) - 1 /\ t \in Nat /\ uri[t + 1] = "/"
           /\ \A k \in 1..t - 1 : uri[k + 1] # "/"
    BY <1>1, <1>2, FindByteIs
  <2> HIDE DEF t
  <2>3. /\ n \in 1..Len(uri) /\ n \in Nat /\ n # NPos
        /\ \A k \in 1..n - 1 : uri[k + 1] # "/"
        /\ n # Len(uri) => t = n /\ n \in 1..Len(uri) - 1 /\ uri[n + 1] = "/"
    <3>1. CASE t = NPos
      <4>1. n = Len(uri)
        BY <3>1
      <4>2. \A k \in 1..Len(uri) - 1 : uri[k + 1] # "/"
        BY <1>1, <2>2, <3>1
      <4> QED BY <1>1, <4>1, <4>2
    <3>2. CASE t # NPos
      <4>1. n = t
        BY <3>2
      <4> HIDE DEF n
      <4> QED BY <1>1, <2>2, <3>2, <4>1
    <3> QED BY <3>1, <3>2
  <2>4. seg = Substr(uri, 0, n)
    BY <1>1, <2>2 DEF Substr
  <2> HIDE DEF n, seg
  <2>5. /\ seg \in Seq(Byte) /\ Len(seg) = n
        /\ \A k \in 1..n : seg[k] = uri[k]
    <3>1. 0 + n <= Len(uri)
      BY <1>1, <2>3
    <3>2. /\ Substr(uri, 0, n) \in Seq(Byte) /\ Len(Substr(uri, 0, n)) = n
          /\ \A k \in 1..n : Substr(uri, 0, n)[k] = uri[0 + k]
      BY <1>1, <2>3, <3>1, SubstrIs
    <3>3. \A k \in 1..n : 0 + k = k
      OBVIOUS
    <3> QED BY <2>4, <3>2, <3>3
  <2>6. seg \in Paths
    <3>1. 1 \in 1..n /\ n >= 1
      BY <1>1, <2>3
    <3> QED BY <1>1, <2>5, <3>1 DEF Paths
  <2>7. \A k \in 2..n : seg[k] # "/"
    <3> TAKE k \in 2..n
    <3>1. k \in 1..n /\ k - 1 \in 1..n - 1 /\ (k - 1) + 1 = k
      BY <2>3
    <3> QED BY <2>3, <2>5, <3>1
  <2>8. ~(n = 2 /\ seg[2] = ".")
    <3> SUFFICES ASSUME n = 2, seg[2] = "." PROVE FALSE
      OBVIOUS
    <3>1. uri[2] = "."
      BY <2>5
    <3>2. Len(uri) # 2
      BY <1>5, <1>13, <3>1
    <3>3. uri[3] = "/" /\ Len(uri) >= 3
      <4>1. n # Len(uri)
        BY <3>2
      <4> QED BY <1>1, <2>3, <4>1
    <3> QED BY <1>1, <1>4, <1>13, <3>1, <3>3
  <2>9. ~(n = 3 /\ seg[2] = "." /\ seg[3] = ".")
    <3> SUFFICES ASSUME n = 3, seg[2] = ".", seg[3] = "." PROVE FALSE
      OBVIOUS
    <3>1. uri[2] = "." /\ uri[3] = "."
      BY <2>5
    <3>2. Len(uri) # 3
      BY <1>6, <1>13, <3>1
    <3>3. uri[4] = "/" /\ Len(uri) >= 4
      <4>1. n # Len(uri)
        BY <3>2
      <4> QED BY <1>1, <2>3, <4>1
    <3> QED BY <1>1, <1>4, <1>13, <3>1, <3>3
  <2>10. /\ o \in Seq(Byte) /\ Tidy(Slashed(o)) /\ o \in Paths
    <3>1. o \in Seq(Byte) /\ Tidy(Slashed(o))
          /\ (out = << >> \/ out \in Paths => o \in Paths)
      BY <1>1, <2>5, <2>6, <2>7, <2>8, <2>9, SegmentTidy
    <3> HIDE DEF o
    <3> QED BY <1>1, <3>1
  <2>11. u \in Seq(Byte) /\ Len(u) < Len(uri) /\ (u = << >> \/ u \in Paths)
    <3>1. CASE t = NPos
      <4> DEFINE e == << >>
      <4>1. e \in Seq(Byte) /\ Len(e) = 0
        OBVIOUS
      <4>2. u = e
        BY <3>1
      <4> HIDE DEF e, u
      <4>3. u \in Seq(Byte) /\ Len(u) < Len(uri)
        BY <1>1, <4>1, <4>2
      <4> QED BY <4>2, <4>3 DEF e
    <3>2. CASE t # NPos
      <4> DEFINE r == From(uri, t)
      <4>1. t \in 1..Len(uri) - 1 /\ t \in Nat /\ uri[t + 1] = "/"
        BY <1>1, <2>2, <3>2
      <4>2. /\ r \in Seq(Byte) /\ Len(r) = (IF t <= Len(uri) THEN Len(uri) - t ELSE 0)
            /\ \A k \in 1..Len(r) : r[k] = uri[t + k]
        BY <1>1, <4>1, FromIs
      <4>3. u = r
        BY <3>2
      <4> HIDE DEF r
      <4>4. Len(r) >= 1 /\ Len(r) < Len(uri) /\ 1 \in 1..Len(r)
        BY <1>1, <4>1, <4>2
      <4>5. r \in Paths
        BY <4>1, <4>2, <4>4 DEF Paths
      <4> QED BY <4>2, <4>3, <4>4, <4>5
    <3> QED BY <3>1, <3>2
  <2> HIDE DEF u, o
  <2>12. Len(u) < NPos
    <3>1. Len(u) \in Nat
      BY <2>11, LenProperties
    <3> QED BY <1>1, <2>11, <3>1
  <2>13. Between(u, o)
    BY <2>10, <2>11, <2>12 DEF Between
  <2> QED BY <2>1, <2>11, <2>13
<1> QED BY <1>9, <1>10, <1>11, <1>12, <1>13

(***************************************************************************)
(* ParseSegments() is a loop of turns.                                     *)
(***************************************************************************)
LEMMA SegmentsLoop ==
  LET S == Seq(Byte) \X Seq(Byte)
      Ends == {p \in S : p[1] = << >>}
      result == [p \in S |-> p[2]]
      next == [p \in S |-> IF p \in Ends THEN p ELSE Turn(p[1], p[2])]
  IN Segments = Pass(S, Ends, result, next, Segments)
<1> DEFINE S == Seq(Byte) \X Seq(Byte)
           Ends == {p \in S : p[1] = << >>}
           result == [p \in S |-> p[2]]
           next == [p \in S |-> IF p \in Ends THEN p ELSE Turn(p[1], p[2])]
           f == Segments
<1>1. next \in [S -> S]
  <2>1. ASSUME NEW p \in S PROVE Turn(p[1], p[2]) \in S
    BY TurnType
  <2> QED BY <2>1
<1>2. \A g : [p \in S |-> IF p[1] = << >> THEN p[2] ELSE g[Turn(p[1], p[2])]]
            = Pass(S, Ends, result, next, g)
  <2> TAKE g
  <2>1. \A p \in S : (IF p[1] = << >> THEN p[2] ELSE g[Turn(p[1], p[2])])
                    = IF p \in Ends THEN result[p] ELSE g[next[p]]
    OBVIOUS
  <2> QED BY <2>1 DEF Pass
<1>3. f = Pass(S, Ends, result, next, f)
  <2>1. f = CHOOSE g : g = [p \in S |-> IF p[1] = << >> THEN p[2]
                                        ELSE g[Turn(p[1], p[2])]]
    BY DEF Segments
  <2> HIDE DEF f, S, Ends, result, next
  <2>2. \E g : g = Pass(S, Ends, result, next, g)
    BY <1>1, LoopExists
  <2>3. \E g : g = [p \in S |-> IF p[1] = << >> THEN p[2] ELSE g[Turn(p[1], p[2])]]
    BY <1>2, <2>2
  <2>4. f = [p \in S |-> IF p[1] = << >> THEN p[2] ELSE f[Turn(p[1], p[2])]]
    BY <2>1, <2>3
  <2> QED BY <1>2, <2>4
<1> QED BY <1>3

(***************************************************************************)
(* ParseSegments() of a path is a path without dot segments, whatever the  *)
(* path has (protocol.cpp:939-988).                                        *)
(***************************************************************************)
LEMMA ParseSegmentsIs ==
  ASSUME NEW uri \in Paths, Len(uri) < NPos
  PROVE  /\ ParseSegments(uri) \in Paths /\ Tidy(Slashed(ParseSegments(uri)))
         /\ Len(ParseSegments(uri)) <= Len(uri)
<1> DEFINE S == Seq(Byte) \X Seq(Byte)
           Ends == {p \in S : p[1] = << >>}
           result == [p \in S |-> p[2]]
           next == [p \in S |-> IF p \in Ends THEN p ELSE Turn(p[1], p[2])]
           f == Segments
<1>1. f = Pass(S, Ends, result, next, f)
  BY SegmentsLoop
<1> DEFINE I == {p \in S : /\ Between(p[1], p[2])
                          /\ Len(p[1]) + Len(p[2]) <= Len(uri)}
           m == [p \in I |-> Len(p[1])]
           G == {s \in Paths : Tidy(Slashed(s)) /\ Len(s) <= Len(uri)}
<1>2. I \in SUBSET S /\ m \in [I -> Nat]
  <2>1. \A p \in I : Len(p[1]) \in Nat
    BY LenProperties
  <2> QED BY <2>1
<1>3. ASSUME NEW p \in I
      PROVE  IF p \in Ends THEN result[p] \in G
             ELSE next[p] \in I /\ m[next[p]] < m[p]
  <2>1. /\ p \in S /\ Between(p[1], p[2])
        /\ Len(p[1]) \in Nat /\ Len(p[2]) \in Nat /\ Len(uri) \in Nat
        /\ Len(p[1]) + Len(p[2]) <= Len(uri)
    BY LenProperties DEF Paths
  <2>2. CASE p \in Ends
    <3>1. result[p] = p[2] /\ p[1] = << >>
      BY <2>1, <2>2
    <3>2. p[2] \in Paths /\ Tidy(Slashed(p[2]))
      BY <2>1, <3>1 DEF Between
    <3>3. Len(p[2]) <= Len(uri)
      BY <2>1
    <3> QED BY <2>2, <3>1, <3>2, <3>3
  <2>3. CASE p \notin Ends
    <3>1. p[1] # << >> /\ next[p] = Turn(p[1], p[2])
      BY <2>1, <2>3
    <3>2. PICK u, o : /\ Turn(p[1], p[2]) = <<u, o>> /\ Between(u, o)
                      /\ Len(u) < Len(p[1])
      BY <2>1, <3>1, TurnIs
    <3>3. <<u, o>> \in I
      <4>1. u \in Seq(Byte) /\ o \in Seq(Byte)
        BY <3>2 DEF Between
      <4>2. Len(u) + Len(o) <= Len(p[1]) + Len(p[2])
        <5>1. p[1] \in Seq(Byte) /\ p[2] \in Seq(Byte)
          BY <2>1
        <5>2. /\ Turn(p[1], p[2])[1] = u /\ Turn(p[1], p[2])[2] = o
          BY <3>2
        <5> QED BY <3>1, <5>1, <5>2, TurnBound
      <4>3. Len(u) \in Nat /\ Len(o) \in Nat
        BY <4>1, LenProperties
      <4> QED BY <2>1, <3>2, <4>1, <4>2, <4>3
    <3>4. m[<<u, o>>] = Len(u) /\ m[p] = Len(p[1])
      <4>1. <<u, o>>[1] = u
        OBVIOUS
      <4> QED BY <3>3, <4>1
    <3> QED BY <2>3, <3>1, <3>2, <3>3, <3>4
  <2> QED BY <2>2, <2>3
<1>4. <<uri, << >>>> \in I
  <2> DEFINE e == << >>
  <2>1. e \in Seq(Byte) /\ Len(e) = 0
    OBVIOUS
  <2>2. uri \in Seq(Byte) /\ uri # << >>
    BY DEF Paths
  <2>3. Tidy(Slashed(e))
    <3> HIDE DEF e
    <3>1. Len(Slashed(e)) = Len(e) + 1
      BY <2>1, SlashedIs
    <3> QED BY <2>1, <3>1 DEF Tidy
  <2>4. Between(uri, e)
    BY <2>1, <2>2, <2>3 DEF Between
  <2> HIDE DEF e
  <2>5. Len(uri) + Len(e) <= Len(uri)
    BY <2>1, <2>2, LenProperties
  <2>6. <<uri, e>> \in I
    BY <2>1, <2>2, <2>4, <2>5
  <2> QED BY <2>6 DEF e
<1> DEFINE x == <<uri, << >>>>
<1>5. x \in I
  BY <1>4
<1> HIDE DEF f, S, Ends, result, next, I, m, G, x
<1>6. f[x] \in G
  BY <1>1, <1>2, <1>3, <1>5, LoopAnswers
<1> QED BY <1>6 DEF ParseSegments, f, G, x

-----------------------------------------------------------------------------
(* The scan of a connection's buffer.                                      *)

(***************************************************************************)
(* What FindBreak() relies on: the buffer is a text below the limit, and   *)
(* only bytes just received can be too few for it.                         *)
(***************************************************************************)
ScanInv ==
  /\ wire \in Seq(Byte)
  /\ spreq.buffer \in Seq(Byte) /\ Len(spreq.buffer) <= RequestLimit
  /\ spreq.postl \in Nat
  /\ ScanInBounds

(***************************************************************************)
(* What is left of a buffer is a text within the same limit.               *)
(***************************************************************************)
LEMMA ErasedIs ==
  ASSUME ScanInv
  PROVE  Erased(spreq) \in Seq(Byte) /\ Len(Erased(spreq)) <= RequestLimit
<1>1. /\ spreq.buffer \in Seq(Byte) /\ Len(spreq.buffer) <= RequestLimit
      /\ spreq.postl \in Nat /\ Len(spreq.buffer) \in Nat /\ RequestLimit \in Nat
  BY LenProperties, LimitAssumption DEF ScanInv
<1>2. /\ Erased(spreq) \in Seq(Byte)
      /\ Len(Erased(spreq)) = IF spreq.postl <= Len(spreq.buffer)
                              THEN Len(spreq.buffer) - spreq.postl ELSE 0
  BY <1>1, FromIs DEF Erased
<1> DEFINE x == Len(Erased(spreq))
           y == Len(spreq.buffer)
<1> HIDE DEF x, y
<1>3. x = IF spreq.postl <= y THEN y - spreq.postl ELSE 0
  BY <1>2 DEF x, y
<1>4. x <= RequestLimit
  BY <1>1, <1>3 DEF y
<1> QED BY <1>2, <1>4 DEF x

(***************************************************************************)
(* Received bytes leave the buffer below the limit, or it stays as it was. *)
(***************************************************************************)
LEMMA ReceiveScans ==
  ASSUME ScanInv, NEW n \in Nat, Receive(n)
  PROVE  ScanInv'
<1> DEFINE buffer == spreq.buffer \o SubSeq(wire, 1, n)
           break  == FindBreak(buffer)
           long   == Len(buffer) > RequestLimit
<1>1. /\ stage = "receive" /\ n <= Len(wire)
      /\ wire' = SubSeq(wire, n + 1, Len(wire))
      /\ undef' = (~long /\ break.past)
      /\ spreq' = IF long THEN [spreq EXCEPT !.state = "CORRUPTED"]
                  ELSE IF break.found
                  THEN [state |-> "SUCCESS", buffer |-> buffer, postl |-> break.pp]
                  ELSE [spreq EXCEPT !.buffer = buffer]
      /\ stage' = IF long \/ break.found THEN "run" ELSE stage
  BY DEF Receive
<1>2. /\ wire \in Seq(Byte) /\ Len(wire) \in Nat
      /\ spreq.buffer \in Seq(Byte) /\ Len(spreq.buffer) <= RequestLimit
      /\ spreq.postl \in Nat
  BY LenProperties DEF ScanInv
<1>3. wire' \in Seq(Byte)
  <2>1. \A k \in n + 1..Len(wire) : wire[k] \in Byte
    BY <1>2, ElementOfSeq
  <2> QED BY <1>1, <1>2, <2>1, SubSeqProperties
<1>4. buffer \in Seq(Byte)
  <2>1. \A k \in 1..n : wire[k] \in Byte
    BY <1>1, <1>2, ElementOfSeq
  <2>2. SubSeq(wire, 1, n) \in Seq(Byte)
    BY <1>2, <2>1, SubSeqProperties
  <2> QED BY <1>2, <2>2, ConcatProperties
<1>5. Len(buffer) \in Nat
  BY <1>4, LenProperties
<1> HIDE DEF buffer, break
<1>6. CASE long
  <2>1. spreq'.buffer = spreq.buffer /\ spreq'.postl = spreq.postl
    BY <1>1, <1>6
  <2>2. ~undef'
    BY <1>1, <1>6
  <2> QED BY <1>2, <1>3, <2>1, <2>2 DEF ScanInv, ScanInBounds
<1>7. CASE ~long
  <2>1. Len(buffer) <= RequestLimit /\ Len(buffer) < NPos
    BY <1>5, <1>7, LimitAssumption, SizeAssumption DEF NPos
  <2>2. /\ break.pp \in Nat
        /\ break.past <=> Len(buffer) < 3
        /\ break.found => break.pp \in 4..Len(buffer)
    BY <1>4, <2>1, FindBreakIs DEF break
  <2>3. spreq'.buffer = buffer /\ spreq'.postl \in Nat
    <3>1. CASE break.found
      BY <1>1, <1>7, <2>2, <3>1
    <3>2. CASE ~break.found
      BY <1>1, <1>2, <1>7, <3>2
    <3> QED BY <3>1, <3>2
  <2>4. ASSUME undef' PROVE stage' = "receive" /\ Len(spreq'.buffer) < 3
    <3>1. break.past /\ Len(buffer) < 3
      BY <1>1, <2>2, <2>4
    <3>2. ~break.found
      BY <1>5, <2>2, <3>1
    <3> QED BY <1>1, <1>7, <2>3, <3>1, <3>2
  <2> QED BY <1>3, <1>4, <2>1, <2>3, <2>4 DEF ScanInv, ScanInBounds
<1> QED BY <1>6, <1>7

(***************************************************************************)
(* CheckPipeline() looks for a break only in four bytes or more.           *)
(***************************************************************************)
LEMMA FinishScans ==
  ASSUME ScanInv, Finish
  PROVE  ScanInv'
<1> DEFINE buffer == Erased(spreq)
           break  == FindBreak(buffer)
           next   == Len(buffer) >= 4 /\ break.found
<1>1. /\ spreq' = [state |-> IF next THEN "SUCCESS" ELSE "PENDING", buffer |-> buffer,
                   postl |-> IF next THEN break.pp ELSE spreq.postl]
      /\ undef' = (Len(buffer) >= 4 /\ break.past)
      /\ wire' = wire
  BY DEF Finish
<1>2. /\ buffer \in Seq(Byte) /\ Len(buffer) <= RequestLimit
      /\ Len(buffer) \in Nat
  BY ErasedIs, LenProperties
<1> HIDE DEF buffer, break
<1>3. Len(buffer) < NPos
  BY <1>2, LimitAssumption, SizeAssumption DEF NPos
<1>4. break.pp \in Nat /\ (break.past <=> Len(buffer) < 3)
  BY <1>2, <1>3, FindBreakIs DEF break
<1>5. ~undef'
  <2>1. ASSUME Len(buffer) >= 4, break.past PROVE FALSE
    BY <1>2, <1>4, <2>1
  <2> QED BY <1>1, <2>1
<1>6. spreq'.buffer = buffer /\ spreq'.postl \in Nat
  <2>1. spreq.postl \in Nat
    BY DEF ScanInv
  <2> HIDE DEF next
  <2> QED BY <1>1, <1>4, <2>1
<1>7. wire' \in Seq(Byte)
  BY <1>1 DEF ScanInv
<1> QED BY <1>2, <1>5, <1>6, <1>7 DEF ScanInv, ScanInBounds

(***************************************************************************)
(* That holds when a connection begins, and every step keeps it.           *)
(***************************************************************************)
LEMMA ScanInit ==
  ASSUME Init
  PROVE  ScanInv
<1>1. wire \in Seq(Byte)
  BY RequestsAssumption DEF Init
<1>2. spreq.buffer = << >> /\ spreq.postl = 0 /\ undef = FALSE
  BY DEF Init
<1>3. << >> \in Seq(Byte) /\ Len(<< >>) = 0
  OBVIOUS
<1> QED BY <1>1, <1>2, <1>3, LimitAssumption DEF ScanInv, ScanInBounds

LEMMA ScanKept ==
  ASSUME ScanInv, [Next]_vars
  PROVE  ScanInv'
<1>1. ASSUME NEW n \in Reads, Receive(n) PROVE ScanInv'
  <2>1. n \in Nat
    BY ReadsAssumption
  <2> QED BY <1>1, <2>1, ReceiveScans
<1>2. CASE RunTask
  <2>1. UNCHANGED <<wire, spreq, undef>> /\ stage = "run"
    BY <1>2 DEF RunTask
  <2> QED BY <2>1 DEF ScanInv, ScanInBounds
<1>3. CASE Finish
  BY <1>3, FinishScans
<1>4. CASE UNCHANGED vars
  BY <1>4 DEF vars, ScanInv, ScanInBounds
<1> QED BY <1>1, <1>2, <1>3, <1>4 DEF Next

(***************************************************************************)
(* The scan for the end of a request leaves its buffer only after the      *)
(* first one or two bytes of a request, never in CheckPipeline(), and      *)
(* never where a break was there to be found (protocol.cpp:1014-1024).     *)
(***************************************************************************)
THEOREM ScanCorrect == Spec => []ScanInBounds
<1>1. Init => ScanInv
  BY ScanInit
<1>2. ScanInv /\ [Next]_vars => ScanInv'
  BY ScanKept
<1>3. ScanInv => ScanInBounds
  BY DEF ScanInv
<1> QED BY <1>1, <1>2, <1>3, PTL DEF Spec

-----------------------------------------------------------------------------
(* The resource of a request.                                              *)

(***************************************************************************)
(* find() gives an offset where the word has room, or npos.                *)
(***************************************************************************)
LEMMA FindWithin ==
  ASSUME NEW s \in Seq(Byte), NEW w \in Seq(Byte), Len(w) # NPos, NEW i \in Nat
  PROVE  \/ Find(s, w, i) = NPos
         \/ Find(s, w, i) \in Nat /\ Find(s, w, i) \in i..Len(s) - Len(w)
BY FindIs

(***************************************************************************)
(* find_first_not_of() gives an offset within the text, or npos.           *)
(***************************************************************************)
LEMMA FindNotIs ==
  ASSUME NEW s \in Seq(Byte), NEW b, NEW i \in Nat
  PROVE  LET j == FindNot(s, b, i)
         IN j = NPos \/ (j \in Nat /\ i <= j /\ j < Len(s))
<1> DEFINE S == {j \in i..(Len(s) - 1) : s[j + 1] # b}
<1>1. Len(s) \in Nat
  BY LenProperties
<1>2. FindNot(s, b, i) = First(S)
  BY DEF FindNot
<1>3. \A j \in S : j \in Nat /\ i <= j /\ j < Len(s)
  BY <1>1
<1>4. S \in SUBSET Nat
  BY <1>3
<1> HIDE DEF S
<1>5. CASE S = {}
  BY <1>2, <1>5 DEF First
<1>6. CASE S # {}
  <2>1. \E x \in S : \A y \in S : x <= y
    BY <1>4, <1>6, LeastNat
  <2>2. Min(S) \in S
    BY <2>1 DEF Min
  <2>3. FindNot(s, b, i) = Min(S)
    BY <1>2, <1>6 DEF First
  <2> HIDE DEF S
  <2> QED BY <1>3, <2>2, <2>3
<1> QED BY <1>5, <1>6

\* A line break at position i of s.
Pair(s, i) == s[i] = "CR" /\ s[i + 1] = "LF"

\* A text of one line.
Unbroken(s) == \A i \in 1..Len(s) - 1 : ~Pair(s, i)

(***************************************************************************)
(* Where find() looks for a line break.                                    *)
(***************************************************************************)
LEMMA BreakAt ==
  ASSUME NEW s, NEW j \in Nat
  PROVE  At(s, CRLF, j) <=> Pair(s, j + 1)
<1>1. CRLF[1] = "CR" /\ CRLF[2] = "LF"
  BY DEF CRLF
<1>2. Len(CRLF) = 2 /\ (j + 1) + 1 = j + 2
  BY BreakWordIs
<1>3. At(s, CRLF, j) <=> s[j + 1] = CRLF[1] /\ s[j + 2] = CRLF[2]
  <2>1. \A k \in 1..2 : k = 1 \/ k = 2
    OBVIOUS
  <2> QED BY <1>2, <2>1 DEF At
<1> QED BY <1>1, <1>2, <1>3 DEF Pair

(***************************************************************************)
(* What a text has before its first line break is one line.                *)
(***************************************************************************)
LEMMA LineUnbroken ==
  ASSUME NEW text \in Seq(Byte), Len(text) < NPos
  PROVE  LET request == Substr(text, 0, Find(text, CRLF, 0))
         IN /\ request \in Seq(Byte) /\ Len(request) \in Nat
            /\ Len(request) <= Len(text) /\ Unbroken(request)
<1> DEFINE e == Find(text, CRLF, 0)
           n == IF e = NPos THEN Len(text) ELSE e
           request == Substr(text, 0, e)
<1>1. Len(text) \in Nat /\ NPos \in Nat /\ 0 \in Nat
  BY LenProperties, SizeAssumption DEF NPos
<1>2. \/ /\ e = NPos
         /\ \A k \in 0..Len(text) - 2 : ~At(text, CRLF, k)
      \/ /\ e \in 0..Len(text) - 2 /\ e \in Nat
         /\ \A k \in 0..e - 1 : ~At(text, CRLF, k)
  BY <1>1, FindIs, BreakWordIs
<1> HIDE DEF e
<1>3. /\ n \in Nat /\ n <= Len(text) /\ n # NPos
      /\ \A k \in 0..n - 2 : ~At(text, CRLF, k)
  BY <1>1, <1>2
<1>4. request = Substr(text, 0, n)
  BY <1>1, <1>2 DEF Substr
<1> HIDE DEF n, request
<1>5. /\ request \in Seq(Byte) /\ Len(request) = n
      /\ \A k \in 1..n : request[k] = text[k]
  <2>1. 0 + n <= Len(text)
    BY <1>3
  <2>2. /\ Substr(text, 0, n) \in Seq(Byte) /\ Len(Substr(text, 0, n)) = n
        /\ \A k \in 1..n : Substr(text, 0, n)[k] = text[0 + k]
    BY <1>1, <1>3, <2>1, SubstrIs
  <2>3. \A k \in 1..n : 0 + k = k
    OBVIOUS
  <2> QED BY <1>4, <2>2, <2>3
<1>6. Unbroken(request)
  <2> SUFFICES ASSUME NEW i \in 1..n - 1, Pair(request, i) PROVE FALSE
    BY <1>5 DEF Unbroken
  <2>1. i \in 1..n /\ i + 1 \in 1..n /\ i - 1 \in 0..n - 2 /\ i - 1 \in Nat
        /\ (i - 1) + 1 = i
    BY <1>3
  <2>2. Pair(text, i)
    BY <1>5, <2>1 DEF Pair
  <2>3. At(text, CRLF, i - 1)
    BY <2>1, <2>2, BreakAt
  <2> QED BY <1>3, <2>1, <2>3
<1> QED BY <1>3, <1>5, <1>6 DEF request, e

(***************************************************************************)
(* The uri of an accepted request line begins with a slash                 *)
(* (protocol.cpp:672-682).                                                 *)
(***************************************************************************)
LEMMA LineIs ==
  ASSUME NEW text \in Seq(Byte), Len(text) < NPos, RequestLine(text).status = 200
  PROVE  /\ RequestLine(text).uri \in Paths /\ Len(RequestLine(text).uri) < NPos
         /\ Len(RequestLine(text).uri) <= Len(text) /\ Unbroken(RequestLine(text).uri)
<1> DEFINE e  == Find(text, CRLF, 0)
           request == Substr(text, 0, e)
           ml == MethodLength(text)
           ru == FindNot(request, " ", ml)
           rl == Find(request, <<" ">>, ru + 1)
           hv == FindNot(request, " ", rl + 1)
           n  == rl - ru
           uri == Substr(request, ru, n)
<1>1. Len(text) \in Nat /\ NPos \in Nat /\ NPos > 7
  BY LenProperties, SizeAssumption DEF NPos
<1>2. /\ request \in Seq(Byte) /\ Len(request) \in Nat
      /\ Len(request) <= Len(text) /\ Unbroken(request)
  BY LineUnbroken
<1>3. ml \in Nat
  BY DEF MethodLength
<1>4. /\ ml # 0 /\ ru # NPos /\ request[ru + 1] = "/" /\ rl # NPos
      /\ RequestLine(text).uri = uri
  <2> DEFINE fail(status) == [status |-> status, uri |-> << >>]
  <2>1. RequestLine(text) =
          IF ml = 0 THEN fail(501)
          ELSE IF ru = NPos \/ request[ru + 1] # "/" \/ rl = NPos THEN fail(400)
          ELSE IF hv = NPos \/ request[hv + 1] # "HTTP/1.1" THEN fail(505)
          ELSE [status |-> 200, uri |-> uri]
    BY DEF RequestLine
  <2>2. fail(501).status # 200 /\ fail(400).status # 200 /\ fail(505).status # 200
    OBVIOUS
  <2>3. [status |-> 200, uri |-> uri].uri = uri
    OBVIOUS
  <2> HIDE DEF fail, uri, hv, rl, ru, ml, request
  <2> QED BY <2>1, <2>2, <2>3
<1> HIDE DEF e, request, ml
<1>5. ru \in Nat /\ ru < Len(request)
  <2>1. ru = NPos \/ (ru \in Nat /\ ml <= ru /\ ru < Len(request))
    BY <1>2, <1>3, FindNotIs
  <2> QED BY <1>4, <2>1
<1> HIDE DEF ru
<1>6. rl \in Nat /\ rl > ru /\ rl < Len(request)
  <2> DEFINE i == ru + 1
             w == <<" ">>
  <2>1. " " \in Byte
    BY ByteAssumption
  <2>2. i \in Nat /\ rl = Find(request, w, i)
    BY <1>5
  <2>3. w \in Seq(Byte) /\ Len(w) = 1 /\ Len(w) # NPos
    BY <2>1, WordOf
  <2> HIDE DEF i, w, rl
  <2>4. rl \in Nat /\ rl \in i..Len(request) - Len(w)
    <3>1. request \in Seq(Byte)
      BY <1>2
    <3>2. i \in Nat
      BY <2>2
    <3>3. w \in Seq(Byte) /\ Len(w) # NPos
      BY <2>3
    <3>4. \/ Find(request, w, i) = NPos
          \/ /\ Find(request, w, i) \in Nat
             /\ Find(request, w, i) \in i..Len(request) - Len(w)
      BY ONLY <3>1, <3>2, <3>3, FindWithin
    <3>5. rl # NPos
      BY <1>4
    <3> QED BY <2>2, <3>4, <3>5, Zenon
  <2> QED BY <1>2, <1>5, <2>3, <2>4 DEF i
<1> HIDE DEF rl, hv
<1>7. n \in Nat /\ n >= 1 /\ ru + n <= Len(request) /\ n < NPos
  BY <1>1, <1>2, <1>5, <1>6
<1> HIDE DEF n
<1>8. /\ uri \in Seq(Byte) /\ Len(uri) = n
      /\ \A k \in 1..n : uri[k] = request[ru + k]
  <2>1. n # NPos
    BY <1>1, <1>7
  <2> QED BY <1>2, <1>5, <1>7, <2>1, SubstrIs
<1>9. uri \in Paths
  <2>1. 1 \in 1..n
    BY <1>7
  <2>2. uri[1] = "/"
    BY <1>4, <1>8, <2>1
  <2> HIDE DEF uri
  <2> QED BY <1>7, <1>8, <2>2 DEF Paths
<1>10. Unbroken(uri)
  <2> SUFFICES ASSUME NEW i \in 1..n - 1, Pair(uri, i) PROVE FALSE
    BY <1>8 DEF Unbroken
  <2>1. i \in 1..n /\ i + 1 \in 1..n /\ ru + i \in 1..Len(request) - 1
        /\ (ru + i) + 1 = ru + (i + 1)
    BY <1>2, <1>5, <1>7
  <2>2. Pair(request, ru + i)
    BY <1>8, <2>1 DEF Pair
  <2> QED BY <1>2, <2>1, <2>2 DEF Unbroken
<1>11. Len(uri) <= Len(text)
  BY <1>1, <1>2, <1>5, <1>7, <1>8
<1> QED BY <1>4, <1>7, <1>8, <1>9, <1>10, <1>11

(***************************************************************************)
(* A tidy text has none of the words that Contained looks for.             *)
(***************************************************************************)
LEMMA TidyFinds ==
  ASSUME NEW q \in Seq(Byte), Tidy(q)
  PROVE  /\ Find(q, <<"/", ".", "/">>, 0) = NPos
         /\ Find(q, <<"/", ".", ".", "/">>, 0) = NPos
<1>1. "/" \in Byte /\ "." \in Byte
  BY ByteAssumption
<1>2. Len(q) \in Nat /\ NPos > 7 /\ NPos \in Nat
  BY LenProperties, SizeAssumption DEF NPos
<1>3. Find(q, <<"/", ".", "/">>, 0) = NPos
  <2> DEFINE w == <<"/", ".", "/">>
             j == Find(q, w, 0)
  <2>1. w \in Seq(Byte) /\ Len(w) = 3 /\ w[1] = "/" /\ w[2] = "." /\ w[3] = "/"
    BY <1>1
  <2> HIDE DEF w
  <2>2. Len(w) # NPos
    BY <1>2, <2>1
  <2>3. j = NPos \/ (j \in 0..Len(q) - Len(w) /\ j \in Nat /\ At(q, w, j))
    BY <2>1, <2>2, FindIs
  <2> HIDE DEF j
  <2>4. ASSUME j \in 0..Len(q) - Len(w), j \in Nat, At(q, w, j) PROVE FALSE
    <3>1. \A k \in 1..3 : q[j + k] = w[k]
      BY <2>1, <2>4 DEF At
    <3>2. q[j + 1] = "/" /\ q[j + 2] = "." /\ q[j + 3] = "/"
      BY <2>1, <3>1
    <3>3. j + 3 <= Len(q)
      BY <1>2, <2>1, <2>4
    <3> QED BY <2>4, <3>2, <3>3 DEF Tidy
  <2> QED BY <2>3, <2>4 DEF j, w
<1>4. Find(q, <<"/", ".", ".", "/">>, 0) = NPos
  <2> DEFINE w == <<"/", ".", ".", "/">>
             j == Find(q, w, 0)
  <2>1. /\ w \in Seq(Byte) /\ Len(w) = 4
        /\ w[1] = "/" /\ w[2] = "." /\ w[3] = "." /\ w[4] = "/"
    BY <1>1
  <2> HIDE DEF w
  <2>2. Len(w) # NPos
    BY <1>2, <2>1
  <2>3. j = NPos \/ (j \in 0..Len(q) - Len(w) /\ j \in Nat /\ At(q, w, j))
    BY <2>1, <2>2, FindIs
  <2> HIDE DEF j
  <2>4. ASSUME j \in 0..Len(q) - Len(w), j \in Nat, At(q, w, j) PROVE FALSE
    <3>1. \A k \in 1..4 : q[j + k] = w[k]
      BY <2>1, <2>4 DEF At
    <3>2. q[j + 1] = "/" /\ q[j + 2] = "." /\ q[j + 3] = "." /\ q[j + 4] = "/"
      BY <2>1, <3>1
    <3>3. j + 4 <= Len(q)
      BY <1>2, <2>1, <2>4
    <3> QED BY <2>4, <3>2, <3>3 DEF Tidy
  <2> QED BY <2>3, <2>4 DEF j, w
<1> QED BY <1>3, <1>4

\* A resource that stays below the root of the site.
Below(path) == path \in Paths /\ Tidy(Slashed(path))

(***************************************************************************)
(* The settings that Accept() leaves: still settings, and for an accepted  *)
(* request its resource is below the root.                                 *)
(***************************************************************************)
LEMMA AcceptIs ==
  ASSUME NEW s, NEW p, s.buffer \in Seq(Byte), Len(s.buffer) < NPos, s.postl \in Nat,
         "resource" \in DOMAIN p
  PROVE  LET a == Accept(s, p)
         IN /\ "resource" \in DOMAIN a.pci
            /\ a.status = 200 => Below(a.pci.resource)
<1> DEFINE text  == Text(s)
           line  == RequestLine(text)
           lf    == Find(text, CRLF, 0)
           host  == ParseHeader(lf, text, "Host")
           where == [p EXCEPT !.resource = Resource(line.uri)]
           full  == [where EXCEPT !.host = host,
                                  !.referer = Setting(text, "Referer", p.referer),
                                  !.uri = line.uri]
           keep  == ~Starts(ParseHeader(lf, text, "Connection"), <<"close">>)
           a     == Accept(s, p)
<1>1. a = IF s.state = "CORRUPTED" THEN [status |-> 413, pci |-> p, keep |-> FALSE]
          ELSE IF line.status # 200
          THEN [status |-> line.status, pci |-> p, keep |-> FALSE]
          ELSE IF host = << >> THEN [status |-> 400, pci |-> where, keep |-> FALSE]
          ELSE [status |-> 200, pci |-> full, keep |-> keep]
  BY DEF Accept
<1>2. /\ DOMAIN where = DOMAIN p /\ where.resource = Resource(line.uri)
      /\ DOMAIN full = DOMAIN p /\ full.resource = where.resource
  <2>1. DOMAIN where = DOMAIN p /\ where.resource = Resource(line.uri)
    OBVIOUS
  <2> HIDE DEF where
  <2>2. DOMAIN full = DOMAIN where /\ full.resource = where.resource
    BY <2>1
  <2> QED BY <2>1, <2>2
<1> HIDE DEF text, line, lf, host, where, full, keep, a
<1>3. ASSUME a.status = 200
      PROVE  line.status = 200 /\ a.pci = full
  <2>1. s.state # "CORRUPTED"
    BY <1>1, <1>3
  <2>2. line.status = 200
    BY <1>1, <1>3, <2>1
  <2>3. host # << >>
    BY <1>1, <1>3, <2>1, <2>2
  <2> QED BY <1>1, <2>1, <2>2, <2>3
<1>4. "resource" \in DOMAIN a.pci
  <2>1. a.pci = p \/ a.pci = where \/ a.pci = full
    BY <1>1
  <2> QED BY <1>2, <2>1
<1>5. ASSUME a.status = 200 PROVE Below(a.pci.resource)
  <2>1. text \in Seq(Byte) /\ Len(text) < NPos
    <3>1. /\ text \in Seq(Byte) /\ Len(text) \in Nat /\ Len(text) <= Len(s.buffer)
          /\ Len(s.buffer) \in Nat /\ NPos \in Int
      BY SubstrType, LenProperties, SizeAssumption DEF text, Text, NPos
    <3> QED BY <3>1
  <2>2. line.status = 200 /\ a.pci.resource = Resource(line.uri)
    BY <1>2, <1>3, <1>5
  <2>3. line.uri \in Paths /\ Len(line.uri) < NPos
    BY <2>1, <2>2, LineIs DEF line
  <2>4. Decode(line.uri) \in Paths /\ Len(Decode(line.uri)) <= Len(line.uri)
    BY <2>3, DecodeIs
  <2>5. Len(Decode(line.uri)) < NPos
    <3>1. Len(Decode(line.uri)) \in Nat /\ Len(line.uri) \in Nat /\ NPos \in Int
      BY <2>3, <2>4, LenProperties, SizeAssumption DEF Paths, NPos
    <3> QED BY <2>3, <2>4, <3>1
  <2> QED BY <2>2, <2>4, <2>5, ParseSegmentsIs DEF Below, Resource
<1> QED BY <1>4, <1>5 DEF a

(***************************************************************************)
(* What the server has taken, with the buffer it takes it from.            *)
(***************************************************************************)
PathsInv ==
  /\ ScanInv
  /\ "resource" \in DOMAIN pci
  /\ \E T : taken \in Seq(T)
  /\ \A k \in 1..Len(taken) : taken[k].accepted = 200 => Below(taken[k].pci.resource)

(***************************************************************************)
(* Accept() and Process() add a request whose resource is below the root.  *)
(***************************************************************************)
LEMMA RunTaskPaths ==
  ASSUME PathsInv, RunTask, ScanInv'
  PROVE  PathsInv'
<1> DEFINE a == Accept(spreq, pci)
<1>1. PICK r : r.accepted = a.status /\ r.pci = a.pci /\ taken' = Append(taken, r)
  <2>1. \A x, y, z, u : [accepted |-> a.status, method |-> u, pci |-> a.pci, answer |-> x,
                         length |-> y, reply |-> z].accepted = a.status
    OBVIOUS
  <2> QED BY DEF RunTask
<1>2. pci' = a.pci
  BY DEF RunTask
<1>3. "resource" \in DOMAIN a.pci /\ (a.status = 200 => Below(a.pci.resource))
  <2>1. /\ spreq.buffer \in Seq(Byte) /\ Len(spreq.buffer) <= RequestLimit
        /\ spreq.postl \in Nat /\ "resource" \in DOMAIN pci
    BY DEF PathsInv, ScanInv
  <2>2. Len(spreq.buffer) < NPos
    <3>1. Len(spreq.buffer) \in Nat
      BY <2>1, LenProperties
    <3> QED BY <2>1, <3>1, LimitAssumption, SizeAssumption DEF NPos
  <2> QED BY <2>1, <2>2, AcceptIs
<1> HIDE DEF a
<1>4. PICK T : taken \in Seq(T)
  BY DEF PathsInv
<1> DEFINE U == T \cup {r}
<1>5. taken \in Seq(U) /\ r \in U
  BY <1>4, SeqMonotonic
<1> HIDE DEF U
<1>6. /\ Append(taken, r) \in Seq(U) /\ Len(taken) \in Nat
      /\ Len(Append(taken, r)) = Len(taken) + 1
      /\ \A i \in 1..Len(taken) : Append(taken, r)[i] = taken[i]
      /\ Append(taken, r)[Len(taken) + 1] = r
  BY <1>5, AppendProperties, LenProperties
<1>7. ASSUME NEW k \in 1..Len(taken'), taken'[k].accepted = 200
      PROVE  Below(taken'[k].pci.resource)
  <2>1. k \in 1..Len(taken) \/ k = Len(taken) + 1
    BY <1>1, <1>6
  <2>2. CASE k \in 1..Len(taken)
    <3>1. taken'[k] = taken[k]
      BY <1>1, <1>6, <2>2
    <3> QED BY <1>7, <2>2, <3>1 DEF PathsInv
  <2>3. CASE k = Len(taken) + 1
    <3>1. taken'[k] = r
      BY <1>1, <1>6, <2>3
    <3> QED BY <1>1, <1>3, <1>7, <3>1
  <2> QED BY <2>1, <2>2, <2>3
<1>8. \E V : taken' \in Seq(V)
  BY <1>1, <1>6
<1> QED BY <1>2, <1>3, <1>7, <1>8 DEF PathsInv

(***************************************************************************)
(* PathsInv is inductive.                                                  *)
(***************************************************************************)
LEMMA PathsInit ==
  ASSUME Init
  PROVE  PathsInv
<1>1. ScanInv
  BY ScanInit
<1>2. "resource" \in DOMAIN pci
  BY DEF Init
<1>3. taken = << >> /\ << >> \in Seq({}) /\ Len(<< >>) = 0
  BY DEF Init
<1>4. \E T : taken \in Seq(T)
  BY <1>3
<1>5. 1..Len(taken) = {}
  BY <1>3
<1> QED BY <1>1, <1>2, <1>4, <1>5 DEF PathsInv

LEMMA PathsKept ==
  ASSUME PathsInv, [Next]_vars
  PROVE  PathsInv'
<1>1. ScanInv'
  BY ScanKept DEF PathsInv
<1>2. CASE RunTask
  BY <1>1, <1>2, RunTaskPaths
<1>3. CASE UNCHANGED <<pci, taken>>
  BY <1>1, <1>3 DEF PathsInv
<1>4. [Next]_vars => RunTask \/ UNCHANGED <<pci, taken>>
  BY DEF Next, Receive, Finish, vars
<1> QED BY <1>2, <1>3, <1>4

(***************************************************************************)
(* Whatever a remote end sends, cut and escaped in whatever way, the       *)
(* resource that Process() appends to the root of a site begins with a     *)
(* slash and has no "." or ".." segment (protocol.cpp:690-706, 939-988).   *)
(***************************************************************************)
THEOREM ContainedCorrect == Spec => []Contained
<1>1. Init => PathsInv
  BY PathsInit
<1>2. PathsInv /\ [Next]_vars => PathsInv'
  BY PathsKept
<1>3. PathsInv => Contained
  <2> SUFFICES ASSUME PathsInv, NEW k \in 1..Len(taken), taken[k].accepted = 200
      PROVE LET path == taken[k].pci.resource
                none(s) == Find(path \o <<"/">>, s, 0) = NPos
            IN path[1] = "/" /\ none(<<"/", ".", "/">>) /\ none(<<"/", ".", ".", "/">>)
    BY DEF Contained
  <2> DEFINE path == taken[k].pci.resource
  <2>1. Below(path)
    BY DEF PathsInv
  <2> HIDE DEF path
  <2>2. path[1] = "/" /\ Slashed(path) \in Seq(Byte) /\ Tidy(Slashed(path))
    BY <2>1, SlashedIs DEF Below, Paths
  <2>3. /\ Find(Slashed(path), <<"/", ".", "/">>, 0) = NPos
        /\ Find(Slashed(path), <<"/", ".", ".", "/">>, 0) = NPos
    BY <2>2, TidyFinds
  <2> QED BY <2>2, <2>3 DEF Slashed, path
<1> QED BY <1>1, <1>2, <1>3, PTL DEF Spec

-----------------------------------------------------------------------------
(* The head of a response: lines, and the fields among them.               *)

\* Names of fields, which no line end is.
Name == Byte \ {"CR", "LF"}

\* A field of that name begins in head s at offset i, and is v.
FieldHere(s, name, i) ==
  i + 5 <= Len(s) /\ Pair(s, i + 1) /\ s[i + 3] = name /\ s[i + 4] = ":" /\ s[i + 5] = " "

Holds(s, i, v) ==
  /\ v \in Seq(Byte) /\ Len(v) < NPos
  /\ (i + 7) + Len(v) <= Len(s)
  /\ \A k \in 1..Len(v) : s[(i + 5) + k] = v[k]
  /\ Pair(s, (i + 6) + Len(v))
  /\ \A j \in i + 6..(i + 5) + Len(v) : ~Pair(s, j)

\* No field of that name, none but v, and v once.
Silent(s, name) == \A i \in Nat : ~FieldHere(s, name, i)

Carries(s, name, v) == \A i \in Nat : FieldHere(s, name, i) => Holds(s, i, v)

Single(s, name, v) ==
  \E i \in Nat : /\ FieldHere(s, name, i) /\ Holds(s, i, v)
                 /\ \A j \in Nat : FieldHere(s, name, j) => j = i

\* Lines with no empty one among them, and lines with an empty one at the end.
Block(s) ==
  /\ s \in Seq(Byte) /\ Len(s) >= 2 /\ Pair(s, Len(s) - 1)
  /\ \A i \in 1..Len(s) - 3 : ~(Pair(s, i) /\ Pair(s, i + 2))

Ended(s) ==
  /\ s \in Seq(Byte) /\ Len(s) >= 4 /\ Pair(s, Len(s) - 3) /\ Pair(s, Len(s) - 1)
  /\ \A i \in 1..Len(s) - 4 : ~(Pair(s, i) /\ Pair(s, i + 2))

(***************************************************************************)
(* No byte is both ends of a line, so no two line breaks overlap.          *)
(***************************************************************************)
LEMMA PairApart ==
  ASSUME NEW s, NEW i \in Nat, Pair(s, i)
  PROVE  ~Pair(s, i + 1)
BY DEF Pair

(***************************************************************************)
(* Texts joined at a line break, byte by byte: what comes behind the       *)
(* lines u is seen as it is with a line break before it.                   *)
(***************************************************************************)
LEMMA JoinIs ==
  ASSUME NEW u \in Seq(Byte), Len(u) >= 2, Pair(u, Len(u) - 1), NEW t \in Seq(Byte)
  PROVE  LET o == CRLF \o t
             h == u \o t
             d == Len(u) - 2
         IN /\ d \in Nat /\ o \in Seq(Byte) /\ h \in Seq(Byte)
            /\ Len(o) \in Nat /\ Len(o) = Len(t) + 2 /\ Len(h) \in Nat /\ Len(h) = d + Len(o)
            /\ \A k \in 1..Len(u) : h[k] = u[k]
            /\ \A k \in 1..Len(o) : h[d + k] = o[k]
            /\ Pair(o, 1)
<1> DEFINE o == CRLF \o t
           h == u \o t
           d == Len(u) - 2
<1>1. Len(u) \in Nat /\ Len(t) \in Nat
  BY LenProperties
<1>2. CRLF \in Seq(Byte) /\ Len(CRLF) = 2 /\ CRLF[1] = "CR" /\ CRLF[2] = "LF"
  BY BreakWordIs DEF CRLF
<1>3. /\ o \in Seq(Byte) /\ Len(o) = 2 + Len(t)
      /\ \A k \in 1..2 + Len(t) : o[k] = IF k <= 2 THEN CRLF[k] ELSE t[k - 2]
  <2>1. /\ o \in Seq(Byte) /\ Len(o) = Len(CRLF) + Len(t)
        /\ \A k \in 1..Len(CRLF) + Len(t) :
             o[k] = IF k <= Len(CRLF) THEN CRLF[k] ELSE t[k - Len(CRLF)]
    BY <1>2, ConcatProperties
  <2> QED BY <1>2, <2>1, Zenon
<1>4. /\ h \in Seq(Byte) /\ Len(h) = Len(u) + Len(t)
      /\ \A k \in 1..Len(u) + Len(t) : h[k] = IF k <= Len(u) THEN u[k] ELSE t[k - Len(u)]
  BY ConcatProperties
<1> HIDE DEF o, h
<1>5. d \in Nat /\ Len(o) = Len(t) + 2 /\ Len(h) = d + Len(o)
  BY <1>1, <1>3, <1>4
<1>6. ASSUME NEW k \in 1..Len(u) PROVE h[k] = u[k]
  <2>1. k \in 1..Len(u) + Len(t) /\ k <= Len(u)
    BY <1>1
  <2> QED BY <1>4, <2>1
<1>7. o[1] = "CR" /\ o[2] = "LF"
  <2>1. 1 \in 1..2 + Len(t) /\ 2 \in 1..2 + Len(t) /\ 1 <= 2 /\ 2 <= 2
    BY <1>1
  <2> QED BY <1>2, <1>3, <2>1
<1>8. ASSUME NEW k \in 1..Len(o) PROVE h[d + k] = o[k]
  <2>1. CASE k = 1 \/ k = 2
    <3>1. d + 1 \in 1..Len(u) /\ d + 2 \in 1..Len(u) /\ d + 1 = Len(u) - 1
          /\ d + 2 = (Len(u) - 1) + 1
      BY <1>1
    <3>2. u[d + 1] = "CR" /\ u[d + 2] = "LF"
      BY <3>1 DEF Pair
    <3>3. h[d + 1] = "CR" /\ h[d + 2] = "LF"
      BY <1>6, <3>1, <3>2
    <3> QED BY <1>7, <2>1, <3>3
  <2>2. CASE ~(k = 1 \/ k = 2)
    <3>1. /\ d + k \in 1..Len(u) + Len(t) /\ ~(d + k <= Len(u))
          /\ (d + k) - Len(u) = k - 2 /\ k \in 1..2 + Len(t) /\ ~(k <= 2)
      BY <1>1, <1>3, <2>2
    <3>2. h[d + k] = t[(d + k) - Len(u)]
      BY <1>4, <3>1
    <3>3. o[k] = t[k - 2]
      BY <1>3, <3>1
    <3> QED BY <3>1, <3>2, <3>3
  <2> QED BY <2>1, <2>2
<1>9. Pair(o, 1)
  BY <1>7 DEF Pair
<1>10. Len(o) \in Nat /\ Len(h) \in Nat
  BY <1>1, <1>3, <1>4
<1> QED BY <1>3, <1>4, <1>5, <1>6, <1>8, <1>9, <1>10 DEF o, h

\* What lies in text h from offset d on is text s.
Part(s, h, d) ==
  /\ s \in Seq(Byte) /\ h \in Seq(Byte) /\ d \in Nat
  /\ Len(s) \in Nat /\ Len(h) \in Nat /\ d + Len(s) <= Len(h)
  /\ \A k \in 1..Len(s) : h[d + k] = s[k]

(***************************************************************************)
(* A part of a text has its line breaks and fields where the text has them.*)
(***************************************************************************)
LEMMA PartIs ==
  ASSUME NEW s, NEW h, NEW d, Part(s, h, d)
  PROVE  /\ \A j \in 1..Len(s) - 1 : Pair(h, d + j) <=> Pair(s, j)
         /\ \A name : \A i \in Nat : i + 5 <= Len(s) =>
              (FieldHere(h, name, d + i) <=> FieldHere(s, name, i))
         /\ \A v : \A i \in Nat : Holds(s, i, v) => Holds(h, d + i, v)
<1>1. /\ d \in Nat /\ Len(s) \in Nat /\ Len(h) \in Nat /\ d + Len(s) <= Len(h)
      /\ \A k \in 1..Len(s) : h[d + k] = s[k]
  BY DEF Part
<1>2. ASSUME NEW j \in 1..Len(s) - 1 PROVE Pair(h, d + j) <=> Pair(s, j)
  <2>1. j \in 1..Len(s) /\ j + 1 \in 1..Len(s) /\ (d + j) + 1 = d + (j + 1)
    BY <1>1
  <2>2. h[d + j] = s[j] /\ h[(d + j) + 1] = s[j + 1]
    BY <1>1, <2>1
  <2> QED BY <2>2 DEF Pair
<1>3. ASSUME NEW i \in Nat, NEW name, i + 5 <= Len(s)
      PROVE  FieldHere(h, name, d + i) <=> FieldHere(s, name, i)
  <2>1. /\ (d + i) + 5 <= Len(h) /\ (d + i) + 1 = d + (i + 1)
        /\ (d + i) + 3 = d + (i + 3) /\ (d + i) + 4 = d + (i + 4)
        /\ (d + i) + 5 = d + (i + 5)
    <3> DEFINE n == Len(s)
               l == Len(h)
    <3>1. n \in Nat /\ l \in Nat /\ d + n <= l /\ i + 5 <= n
      BY <1>1, <1>3
    <3> HIDE DEF n, l
    <3>2. (d + i) + 5 <= l
      BY <1>1, <3>1
    <3> QED BY <1>1, <3>2 DEF l
  <2>2. Pair(h, (d + i) + 1) <=> Pair(s, i + 1)
    <3>1. i + 1 \in 1..Len(s) - 1
      BY <1>1, <1>3
    <3>2. Pair(h, d + (i + 1)) <=> Pair(s, i + 1)
      BY <1>2, <3>1
    <3> QED BY <2>1, <3>2
  <2>3. /\ h[(d + i) + 3] = s[i + 3] /\ h[(d + i) + 4] = s[i + 4]
        /\ h[(d + i) + 5] = s[i + 5]
    <3>1. i + 3 \in 1..Len(s) /\ i + 4 \in 1..Len(s) /\ i + 5 \in 1..Len(s)
      BY <1>1, <1>3
    <3>2. h[d + (i + 3)] = s[i + 3] /\ h[d + (i + 4)] = s[i + 4] /\ h[d + (i + 5)] = s[i + 5]
      BY <1>1, <3>1
    <3> QED BY <2>1, <3>2
  <2> QED BY <1>3, <2>1, <2>2, <2>3 DEF FieldHere
<1>4. ASSUME NEW i \in Nat, NEW v, Holds(s, i, v) PROVE Holds(h, d + i, v)
  <2> DEFINE n == Len(v)
  <2>1. /\ v \in Seq(Byte) /\ n \in Nat /\ n < NPos /\ (i + 7) + n <= Len(s)
        /\ \A k \in 1..n : s[(i + 5) + k] = v[k]
        /\ Pair(s, (i + 6) + n)
        /\ \A j \in i + 6..(i + 5) + n : ~Pair(s, j)
    BY <1>4, LenProperties DEF Holds
  <2> HIDE DEF n
  <2>2. ((d + i) + 7) + n <= Len(h)
    BY <1>1, <2>1
  <2>3. ASSUME NEW k \in 1..n PROVE h[((d + i) + 5) + k] = v[k]
    <3>1. (i + 5) + k \in 1..Len(s) /\ ((d + i) + 5) + k = d + ((i + 5) + k)
      BY <1>1, <2>1
    <3> QED BY <1>1, <2>1, <3>1
  <2>4. Pair(h, ((d + i) + 6) + n)
    <3>1. (i + 6) + n \in 1..Len(s) - 1 /\ ((d + i) + 6) + n = d + ((i + 6) + n)
      BY <1>1, <2>1
    <3> QED BY <1>2, <2>1, <3>1
  <2>5. ASSUME NEW j \in (d + i) + 6..((d + i) + 5) + n PROVE ~Pair(h, j)
    <3>1. j - d \in i + 6..(i + 5) + n /\ j - d \in 1..Len(s) - 1 /\ d + (j - d) = j
      BY <1>1, <2>1
    <3> QED BY <1>2, <2>1, <3>1
  <2> QED BY <2>1, <2>2, <2>3, <2>4, <2>5 DEF Holds, n
<1> QED BY <1>2, <1>3, <1>4

\* A field of that name is there.
Has(s, name) == \E i \in Nat : FieldHere(s, name, i)

(***************************************************************************)
(* The fields of joined texts are those of each of the two.                *)
(***************************************************************************)
LEMMA JoinFields ==
  ASSUME NEW u \in Seq(Byte), Len(u) >= 2, Pair(u, Len(u) - 1), NEW t \in Seq(Byte),
         NEW name \in Name
  PROVE  LET o == CRLF \o t
             h == u \o t
             d == Len(u) - 2
         IN /\ d \in Nat
            /\ \A i \in Nat : FieldHere(u, name, i) => FieldHere(h, name, i)
            /\ \A i \in Nat : FieldHere(o, name, i) => FieldHere(h, name, d + i)
            /\ \A i \in Nat : FieldHere(h, name, i) =>
                 \/ FieldHere(u, name, i)
                 \/ i - d \in Nat /\ FieldHere(o, name, i - d) /\ d + (i - d) = i
            /\ \A v : \A i \in Nat : Holds(u, i, v) => Holds(h, i, v)
            /\ \A v : \A i \in Nat : Holds(o, i, v) => Holds(h, d + i, v)
<1> DEFINE o == CRLF \o t
           h == u \o t
           d == Len(u) - 2
<1>1. /\ d \in Nat /\ o \in Seq(Byte) /\ h \in Seq(Byte) /\ Len(u) \in Nat
      /\ Len(o) \in Nat /\ Len(o) = Len(t) + 2 /\ Len(h) \in Nat /\ Len(h) = d + Len(o)
      /\ \A k \in 1..Len(u) : h[k] = u[k]
      /\ \A k \in 1..Len(o) : h[d + k] = o[k]
  BY JoinIs, LenProperties
<1>2. Len(t) \in Nat /\ d = Len(u) - 2
  BY LenProperties
<1> HIDE DEF o, h, d
<1>3. Part(u, h, 0)
  <2>1. 0 + Len(u) <= Len(h) /\ \A k \in 1..Len(u) : 0 + k = k
    BY <1>1, <1>2
  <2> QED BY <1>1, <2>1 DEF Part
<1>4. Part(o, h, d)
  <2>1. d + Len(o) <= Len(h)
    BY <1>1
  <2> QED BY <1>1, <2>1 DEF Part
<1>5. \A i \in Nat : 0 + i = i
  OBVIOUS
<1>6. ASSUME NEW i \in Nat, FieldHere(u, name, i) PROVE FieldHere(h, name, i)
  <2>1. i + 5 <= Len(u)
    BY <1>6 DEF FieldHere
  <2> QED BY <1>3, <1>5, <1>6, <2>1, PartIs
<1>7. ASSUME NEW i \in Nat, FieldHere(o, name, i) PROVE FieldHere(h, name, d + i)
  <2>1. i + 5 <= Len(o)
    BY <1>7 DEF FieldHere
  <2> QED BY <1>4, <1>7, <2>1, PartIs
<1>8. ASSUME NEW i \in Nat, FieldHere(h, name, i)
      PROVE  \/ FieldHere(u, name, i)
             \/ i - d \in Nat /\ FieldHere(o, name, i - d) /\ d + (i - d) = i
  <2>1. CASE i + 5 <= Len(u)
    BY <1>3, <1>5, <1>8, <2>1, PartIs
  <2>2. CASE i >= d
    <3>1. i + 5 <= Len(h)
      BY <1>8 DEF FieldHere
    <3>2. i - d \in Nat /\ d + (i - d) = i /\ (i - d) + 5 <= Len(o)
      BY <1>1, <2>2, <3>1
    <3>3. FieldHere(h, name, d + (i - d)) <=> FieldHere(o, name, i - d)
      BY <1>4, <3>2, PartIs
    <3> QED BY <1>8, <3>2, <3>3
  <2>3. CASE ~(i + 5 <= Len(u)) /\ ~(i >= d)
    <3>1. i + 3 \in 1..Len(u) /\ (i + 3 = Len(u) - 1 \/ i + 3 = (Len(u) - 1) + 1)
      BY <1>1, <1>2, <2>3
    <3>2. u[i + 3] = "CR" \/ u[i + 3] = "LF"
      BY <3>1 DEF Pair
    <3>3. h[i + 3] = name
      BY <1>8 DEF FieldHere
    <3>4. h[i + 3] = u[i + 3]
      BY <1>1, <3>1
    <3> QED BY <3>2, <3>3, <3>4 DEF Name
  <2> QED BY <2>1, <2>2, <2>3
<1>9. ASSUME NEW v, NEW i \in Nat, Holds(u, i, v) PROVE Holds(h, i, v)
  BY <1>3, <1>5, <1>9, PartIs
<1>10. ASSUME NEW v, NEW i \in Nat, Holds(o, i, v) PROVE Holds(h, d + i, v)
  BY <1>4, <1>10, PartIs
<1> QED BY <1>1, <1>6, <1>7, <1>8, <1>9, <1>10 DEF o, h, d

(***************************************************************************)
(* What that says of the fields of one name.                               *)
(***************************************************************************)
LEMMA JoinSays ==
  ASSUME NEW u \in Seq(Byte), Len(u) >= 2, Pair(u, Len(u) - 1), NEW t \in Seq(Byte),
         NEW name \in Name
  PROVE  LET o == CRLF \o t
             h == u \o t
         IN /\ Silent(u, name) /\ Silent(o, name) => Silent(h, name)
            /\ Has(u, name) \/ Has(o, name) => Has(h, name)
            /\ \A v : /\ Carries(u, name, v) /\ Carries(o, name, v) => Carries(h, name, v)
                      /\ Single(u, name, v) /\ Silent(o, name) => Single(h, name, v)
                      /\ Silent(u, name) /\ Single(o, name, v) => Single(h, name, v)
<1> DEFINE o == CRLF \o t
           h == u \o t
           d == Len(u) - 2
<1>1. /\ d \in Nat
      /\ \A i \in Nat : FieldHere(u, name, i) => FieldHere(h, name, i)
      /\ \A i \in Nat : FieldHere(o, name, i) => FieldHere(h, name, d + i)
      /\ \A i \in Nat : FieldHere(h, name, i) =>
           \/ FieldHere(u, name, i)
           \/ i - d \in Nat /\ FieldHere(o, name, i - d) /\ d + (i - d) = i
      /\ \A v : \A i \in Nat : Holds(u, i, v) => Holds(h, i, v)
      /\ \A v : \A i \in Nat : Holds(o, i, v) => Holds(h, d + i, v)
  BY JoinFields
<1> HIDE DEF o, h, d
<1>2. \A i \in Nat : d + i \in Nat
  BY <1>1
<1>3. Silent(u, name) /\ Silent(o, name) => Silent(h, name)
  BY <1>1 DEF Silent
<1>4. Has(u, name) \/ Has(o, name) => Has(h, name)
  BY <1>1, <1>2 DEF Has
<1>5. ASSUME NEW v, Carries(u, name, v), Carries(o, name, v) PROVE Carries(h, name, v)
  <2> SUFFICES ASSUME NEW i \in Nat, FieldHere(h, name, i) PROVE Holds(h, i, v)
    BY DEF Carries
  <2>1. CASE FieldHere(u, name, i)
    BY <1>1, <1>5, <2>1 DEF Carries
  <2>2. CASE i - d \in Nat /\ FieldHere(o, name, i - d) /\ d + (i - d) = i
    <3>1. Holds(o, i - d, v)
      BY <1>5, <2>2 DEF Carries
    <3>2. Holds(h, d + (i - d), v)
      BY <1>1, <2>2, <3>1
    <3> QED BY <2>2, <3>2
  <2> QED BY <1>1, <2>1, <2>2
<1>6. ASSUME NEW v, Single(u, name, v), Silent(o, name) PROVE Single(h, name, v)
  <2>1. PICK i \in Nat : /\ FieldHere(u, name, i) /\ Holds(u, i, v)
                         /\ \A j \in Nat : FieldHere(u, name, j) => j = i
    BY <1>6 DEF Single
  <2>2. FieldHere(h, name, i) /\ Holds(h, i, v)
    BY <1>1, <2>1
  <2>3. ASSUME NEW j \in Nat, FieldHere(h, name, j) PROVE j = i
    <3>1. FieldHere(u, name, j)
      BY <1>1, <1>6, <2>3 DEF Silent
    <3> QED BY <2>1, <3>1
  <2> QED BY <2>2, <2>3 DEF Single
<1>7. ASSUME NEW v, Silent(u, name), Single(o, name, v) PROVE Single(h, name, v)
  <2>1. PICK i \in Nat : /\ FieldHere(o, name, i) /\ Holds(o, i, v)
                         /\ \A j \in Nat : FieldHere(o, name, j) => j = i
    BY <1>7 DEF Single
  <2>2. FieldHere(h, name, d + i) /\ Holds(h, d + i, v) /\ d + i \in Nat
    BY <1>1, <1>2, <2>1
  <2>3. ASSUME NEW j \in Nat, FieldHere(h, name, j) PROVE j = d + i
    <3>1. j - d \in Nat /\ FieldHere(o, name, j - d) /\ d + (j - d) = j
      BY <1>1, <1>7, <2>3 DEF Silent
    <3>2. j - d = i
      BY <2>1, <3>1
    <3> QED BY <3>1, <3>2
  <2> QED BY <2>2, <2>3 DEF Single
<1> QED BY <1>3, <1>4, <1>5, <1>6, <1>7 DEF o, h

(***************************************************************************)
(* Joined lines are lines, and joined with an end they have that end.      *)
(***************************************************************************)
LEMMA JoinBlock ==
  ASSUME NEW u, Block(u), NEW t \in Seq(Byte)
  PROVE  /\ Block(CRLF \o t) => Block(u \o t)
         /\ Ended(CRLF \o t) => Ended(u \o t)
         /\ u \o t \in Seq(Byte)
         /\ \A k \in 1..Len(u) : (u \o t)[k] = u[k]
<1> DEFINE o == CRLF \o t
           h == u \o t
           d == Len(u) - 2
<1>1. /\ u \in Seq(Byte) /\ Len(u) \in Nat /\ Len(u) >= 2 /\ Pair(u, Len(u) - 1)
      /\ \A i \in 1..Len(u) - 3 : ~(Pair(u, i) /\ Pair(u, i + 2))
  BY LenProperties DEF Block
<1>2. /\ d \in Nat /\ o \in Seq(Byte) /\ h \in Seq(Byte) /\ Len(t) \in Nat
      /\ Len(o) \in Nat /\ Len(o) = Len(t) + 2 /\ Len(h) \in Nat /\ Len(h) = d + Len(o)
      /\ \A k \in 1..Len(u) : h[k] = u[k]
      /\ \A k \in 1..Len(o) : h[d + k] = o[k]
      /\ Pair(o, 1)
  BY <1>1, JoinIs, LenProperties
<1>3. d = Len(u) - 2
  OBVIOUS
<1> HIDE DEF o, h, d
<1>4. ASSUME NEW j \in 1..Len(u) - 1 PROVE Pair(h, j) <=> Pair(u, j)
  <2>1. j \in 1..Len(u) /\ j + 1 \in 1..Len(u)
    BY <1>1
  <2> QED BY <1>2, <2>1 DEF Pair
<1>5. ASSUME NEW j \in 1..Len(o) - 1 PROVE Pair(h, d + j) <=> Pair(o, j)
  <2>1. j \in 1..Len(o) /\ j + 1 \in 1..Len(o) /\ (d + j) + 1 = d + (j + 1)
    BY <1>2
  <2> QED BY <1>2, <2>1 DEF Pair
<1>6. ASSUME NEW n \in Nat, n + 2 <= Len(o) - 1, \A i \in 1..n : ~(Pair(o, i) /\ Pair(o, i + 2))
      PROVE  \A i \in 1..d + n : ~(Pair(h, i) /\ Pair(h, i + 2))
  <2> SUFFICES ASSUME NEW i \in 1..d + n, Pair(h, i), Pair(h, i + 2) PROVE FALSE
    OBVIOUS
  <2>1. CASE i <= Len(u) - 3
    <3>1. i \in 1..Len(u) - 3 /\ i \in 1..Len(u) - 1 /\ i + 2 \in 1..Len(u) - 1
      BY <1>1, <2>1
    <3>2. Pair(u, i) /\ Pair(u, i + 2)
      BY <1>4, <3>1
    <3> QED BY <1>1, <3>1, <3>2
  <2>2. CASE i = Len(u) - 2
    <3>1. i \in 1..Len(u) - 1 /\ i + 1 = Len(u) - 1 /\ i \in Nat
      BY <1>1, <2>2
    <3>2. Pair(u, i)
      BY <1>4, <3>1
    <3> QED BY <1>1, <3>1, <3>2, PairApart
  <2>3. CASE i >= Len(u) - 1
    <3>1. /\ i - d \in 1..n /\ i - d \in 1..Len(o) - 1 /\ (i - d) + 2 \in 1..Len(o) - 1
          /\ d + (i - d) = i /\ d + ((i - d) + 2) = i + 2
      BY <1>1, <1>2, <1>3, <1>6, <2>3
    <3>2. Pair(o, i - d) /\ Pair(o, (i - d) + 2)
      BY <1>5, <3>1
    <3> QED BY <1>6, <3>1, <3>2
  <2>4. i <= Len(u) - 3 \/ i = Len(u) - 2 \/ i >= Len(u) - 1
    BY <1>1, <1>2
  <2> QED BY <2>1, <2>2, <2>3, <2>4
<1>7. ASSUME Block(o) PROVE Block(h)
  <2>1. /\ Pair(o, Len(o) - 1) /\ Len(o) >= 2
        /\ \A i \in 1..Len(o) - 3 : ~(Pair(o, i) /\ Pair(o, i + 2))
    BY <1>7 DEF Block
  <2>2. Pair(h, Len(h) - 1)
    <3>1. Len(o) - 1 \in 1..Len(o) - 1 /\ d + (Len(o) - 1) = Len(h) - 1
      BY <1>2, <2>1
    <3> QED BY <1>5, <2>1, <3>1
  <2>3. \A i \in 1..Len(h) - 3 : ~(Pair(h, i) /\ Pair(h, i + 2))
    <3>1. CASE Len(o) >= 3
      <4>1. /\ Len(o) - 3 \in Nat /\ (Len(o) - 3) + 2 <= Len(o) - 1
            /\ d + (Len(o) - 3) = Len(h) - 3
        BY <1>2, <3>1
      <4> QED BY <1>6, <2>1, <4>1
    <3>2. CASE Len(o) = 2
      <4>1. Len(h) = Len(u)
        <5>1. Len(h) = d + 2
          BY <1>2, <3>2
        <5>2. d + 2 = Len(u)
          <6> DEFINE n == Len(u)
          <6>1. n \in Nat /\ d = n - 2
            BY <1>1, <1>3
          <6> HIDE DEF n
          <6>2. d + 2 = n
            BY <6>1
          <6> QED BY <6>2 DEF n
        <5> QED BY <5>1, <5>2
      <4> SUFFICES ASSUME NEW i \in 1..Len(u) - 3 PROVE ~(Pair(h, i) /\ Pair(h, i + 2))
        BY <4>1
      <4>2. i \in 1..Len(u) - 1 /\ i + 2 \in 1..Len(u) - 1
        BY <1>1
      <4> QED BY <1>1, <1>4, <4>2
    <3> QED BY <1>2, <2>1, <3>1, <3>2
  <2>4. Len(h) >= 2
    BY <1>2, <2>1
  <2> QED BY <1>2, <2>2, <2>3, <2>4 DEF Block
<1>8. ASSUME Ended(o) PROVE Ended(h)
  <2>1. /\ Pair(o, Len(o) - 3) /\ Pair(o, Len(o) - 1) /\ Len(o) >= 4
        /\ \A i \in 1..Len(o) - 4 : ~(Pair(o, i) /\ Pair(o, i + 2))
    BY <1>8 DEF Ended
  <2>2. Pair(h, Len(h) - 1)
    <3>1. Len(o) - 1 \in 1..Len(o) - 1 /\ d + (Len(o) - 1) = Len(h) - 1
      BY <1>2, <2>1
    <3> QED BY <1>5, <2>1, <3>1
  <2>3. Pair(h, Len(h) - 3)
    <3>1. Len(o) - 3 \in 1..Len(o) - 1 /\ d + (Len(o) - 3) = Len(h) - 3
      BY <1>2, <2>1
    <3> QED BY <1>5, <2>1, <3>1
  <2>4. \A i \in 1..Len(h) - 4 : ~(Pair(h, i) /\ Pair(h, i + 2))
    <3>1. /\ Len(o) - 4 \in Nat /\ (Len(o) - 4) + 2 <= Len(o) - 1
          /\ d + (Len(o) - 4) = Len(h) - 4
      BY <1>2, <2>1
    <3> QED BY <1>6, <2>1, <3>1
  <2>5. Len(h) >= 4
    BY <1>2, <2>1
  <2> QED BY <1>2, <2>2, <2>3, <2>4, <2>5 DEF Ended
<1> QED BY <1>2, <1>7, <1>8 DEF o, h

(***************************************************************************)
(* Texts of one line joined, no line end where they meet.                  *)
(***************************************************************************)
LEMMA UnbrokenJoined ==
  ASSUME NEW a \in Seq(Byte), NEW b \in Seq(Byte), Unbroken(a), Unbroken(b),
         \/ Len(a) = 0 \/ Len(b) = 0 \/ a[Len(a)] # "CR" \/ b[1] # "LF"
  PROVE  Unbroken(a \o b)
<1> DEFINE h == a \o b
<1>1. Len(a) \in Nat /\ Len(b) \in Nat
  BY LenProperties
<1>2. /\ Len(h) = Len(a) + Len(b)
      /\ \A k \in 1..Len(a) + Len(b) : h[k] = IF k <= Len(a) THEN a[k] ELSE b[k - Len(a)]
  BY ConcatProperties
<1> HIDE DEF h
<1>3. SUFFICES ASSUME NEW i \in 1..(Len(a) + Len(b)) - 1, Pair(h, i) PROVE FALSE
  BY <1>2 DEF Unbroken, h
<1>4. i \in 1..Len(a) + Len(b) /\ i + 1 \in 1..Len(a) + Len(b)
  BY <1>1
<1>5. CASE i + 1 <= Len(a)
  <2>1. i <= Len(a) /\ i \in 1..Len(a) - 1
    BY <1>1, <1>5
  <2>2. h[i] = a[i] /\ h[i + 1] = a[i + 1]
    BY <1>2, <1>4, <1>5, <2>1
  <2> QED BY <1>3, <2>1, <2>2 DEF Pair, Unbroken
<1>6. CASE i = Len(a)
  <2>1. i <= Len(a) /\ ~(i + 1 <= Len(a)) /\ (i + 1) - Len(a) = 1
        /\ Len(a) # 0 /\ Len(b) # 0
    BY <1>1, <1>6
  <2>2. h[i] = a[Len(a)] /\ h[i + 1] = b[1]
    BY <1>2, <1>4, <1>6, <2>1
  <2> QED BY <1>3, <2>1, <2>2 DEF Pair
<1>7. CASE i > Len(a)
  <2>1. ~(i <= Len(a)) /\ ~(i + 1 <= Len(a)) /\ (i + 1) - Len(a) = (i - Len(a)) + 1
        /\ i - Len(a) \in 1..Len(b) - 1
    BY <1>1, <1>7
  <2>2. h[i] = b[i - Len(a)] /\ h[i + 1] = b[(i - Len(a)) + 1]
    BY <1>2, <1>4, <2>1
  <2> QED BY <1>3, <2>1, <2>2 DEF Pair, Unbroken
<1> QED BY <1>1, <1>5, <1>6, <1>7

(***************************************************************************)
(* A line with its end: alone, and behind another line end.                *)
(***************************************************************************)
LEMMA LineOf ==
  ASSUME NEW l \in Seq(Byte), Unbroken(l)
  PROVE  LET w == l \o CRLF
             o == CRLF \o w
         IN /\ w \in Seq(Byte) /\ Len(w) = Len(l) + 2
            /\ \A k \in 1..Len(l) : w[k] = l[k]
            /\ Block(w) /\ \A name : Silent(w, name)
            /\ o \in Seq(Byte) /\ Len(o) = Len(l) + 4
            /\ \A k \in 1..Len(l) : o[2 + k] = l[k]
            /\ Pair(o, 1) /\ Pair(o, Len(l) + 3)
            /\ \A j \in 1..Len(l) + 3 : Pair(o, j) => j = 1 \/ j = Len(l) + 3
            /\ Len(l) >= 1 => Block(o)
            /\ Len(l) = 0 => Ended(o)
            /\ \A name : \A i \in Nat : FieldHere(o, name, i) => i = 0
<1> DEFINE w == l \o CRLF
           o == CRLF \o w
           n == Len(l)
<1>1. /\ n \in Nat /\ CRLF \in Seq(Byte) /\ Len(CRLF) = 2
      /\ CRLF[1] = "CR" /\ CRLF[2] = "LF"
  BY BreakWordIs, LenProperties DEF CRLF
<1>2. /\ w \in Seq(Byte) /\ Len(w) = n + 2
      /\ \A k \in 1..n + 2 : w[k] = IF k <= n THEN l[k] ELSE CRLF[k - n]
  <2>1. /\ w \in Seq(Byte) /\ Len(w) = Len(l) + Len(CRLF)
        /\ \A k \in 1..Len(l) + Len(CRLF) :
             w[k] = IF k <= Len(l) THEN l[k] ELSE CRLF[k - Len(l)]
    BY <1>1, ConcatProperties
  <2> QED BY <1>1, <2>1, Zenon
<1> HIDE DEF w
<1>3. /\ o \in Seq(Byte) /\ Len(o) = n + 4
      /\ \A k \in 1..n + 4 : o[k] = IF k <= 2 THEN CRLF[k] ELSE w[k - 2]
  <2>1. /\ o \in Seq(Byte) /\ Len(o) = Len(CRLF) + Len(w)
        /\ \A k \in 1..Len(CRLF) + Len(w) :
             o[k] = IF k <= Len(CRLF) THEN CRLF[k] ELSE w[k - Len(CRLF)]
    BY <1>1, <1>2, ConcatProperties
  <2>2. Len(CRLF) + Len(w) = n + 4
    BY <1>1, <1>2
  <2> QED BY <1>1, <2>1, <2>2, Zenon
<1> HIDE DEF o
<1>4. /\ \A k \in 1..n : w[k] = l[k]
      /\ w[n + 1] = "CR" /\ w[n + 2] = "LF"
  <2>1. \A k \in 1..n : k \in 1..n + 2 /\ k <= n
    BY <1>1
  <2>2. /\ n + 1 \in 1..n + 2 /\ n + 2 \in 1..n + 2 /\ ~(n + 1 <= n) /\ ~(n + 2 <= n)
        /\ (n + 1) - n = 1 /\ (n + 2) - n = 2
    BY <1>1
  <2>3. \A k \in 1..n : w[k] = l[k]
    BY <1>2, <2>1
  <2> QED BY <1>1, <1>2, <2>2, <2>3
<1>5. /\ o[1] = "CR" /\ o[2] = "LF"
      /\ \A k \in 1..n + 2 : o[2 + k] = w[k]
  <2>1. 1 \in 1..n + 4 /\ 2 \in 1..n + 4 /\ 1 <= 2 /\ 2 <= 2
    BY <1>1
  <2>2. \A k \in 1..n + 2 : 2 + k \in 1..n + 4 /\ ~(2 + k <= 2) /\ (2 + k) - 2 = k
    BY <1>1
  <2>3. o[1] = "CR" /\ o[2] = "LF"
    BY <1>1, <1>3, <2>1
  <2>4. ASSUME NEW k \in 1..n + 2 PROVE o[2 + k] = w[k]
    <3>1. o[2 + k] = w[(2 + k) - 2]
      BY <1>3, <2>2
    <3> QED BY <2>2, <3>1
  <2> QED BY <2>3, <2>4
<1>6. ASSUME NEW k \in 1..n PROVE o[2 + k] = l[k]
  <2>1. k \in 1..n + 2
    BY <1>1
  <2> QED BY <1>4, <1>5, <2>1
<1>7. o[n + 3] = "CR" /\ o[n + 4] = "LF"
  <2>1. /\ n + 1 \in 1..n + 2 /\ n + 2 \in 1..n + 2
        /\ 2 + (n + 1) = n + 3 /\ 2 + (n + 2) = n + 4
    BY <1>1
  <2>2. o[2 + (n + 1)] = "CR" /\ o[2 + (n + 2)] = "LF"
    BY <1>4, <1>5, <2>1
  <2> QED BY <2>1, <2>2
<1>8. ASSUME NEW j \in 1..n + 1, Pair(w, j) PROVE j = n + 1
  <2>1. CASE j <= n - 1
    <3>1. j \in 1..n - 1 /\ j \in 1..n /\ j + 1 \in 1..n
      BY <1>1, <2>1
    <3>2. w[j] = l[j] /\ w[j + 1] = l[j + 1]
      BY <1>4, <3>1
    <3> QED BY <1>8, <3>1, <3>2 DEF Pair, Unbroken
  <2>2. CASE j = n
    <3>1. w[j + 1] = "CR"
      BY <1>4, <2>2
    <3> QED BY <1>8, <3>1 DEF Pair
  <2> QED BY <1>1, <2>1, <2>2
<1>9. ASSUME NEW j \in 1..n + 3, Pair(o, j) PROVE j = 1 \/ j = n + 3
  <2>1. CASE j = 2
    BY <1>5, <1>9, <2>1 DEF Pair
  <2>2. CASE j >= 3
    <3>1. /\ j - 2 \in 1..n + 1 /\ j - 2 \in 1..n + 2 /\ (j - 2) + 1 \in 1..n + 2
          /\ 2 + (j - 2) = j /\ 2 + ((j - 2) + 1) = j + 1
      BY <1>1, <2>2
    <3>2. o[2 + (j - 2)] = w[j - 2] /\ o[2 + ((j - 2) + 1)] = w[(j - 2) + 1]
      BY <1>5, <3>1
    <3>3. Pair(w, j - 2)
      BY <1>9, <3>1, <3>2 DEF Pair
    <3>4. j - 2 = n + 1
      BY <1>8, <3>1, <3>3
    <3> QED BY <1>1, <3>4
  <2> QED BY <1>1, <2>1, <2>2
<1>10. Pair(o, 1) /\ Pair(o, n + 3) /\ Pair(w, n + 1)
  <2>1. 1 + 1 = 2 /\ (n + 3) + 1 = n + 4 /\ (n + 1) + 1 = n + 2
    BY <1>1
  <2> QED BY <1>4, <1>5, <1>7, <2>1 DEF Pair
<1>11. Block(w)
  <2>1. Len(w) >= 2 /\ Len(w) - 1 = n + 1 /\ Len(w) - 3 = n - 1
    BY <1>1, <1>2
  <2>2. ASSUME NEW i \in 1..n - 1, Pair(w, i) PROVE FALSE
    <3>1. i \in 1..n + 1 /\ i # n + 1
      BY <1>1
    <3> QED BY <1>8, <2>2, <3>1
  <2> QED BY <1>2, <1>10, <2>1, <2>2 DEF Block
<1>12. ASSUME NEW name, NEW i \in Nat, FieldHere(w, name, i) PROVE FALSE
  <2>1. i + 5 <= n + 2 /\ Pair(w, i + 1)
    BY <1>2, <1>12 DEF FieldHere
  <2>2. i + 1 \in 1..n + 1 /\ i + 1 # n + 1
    BY <1>1, <2>1
  <2> QED BY <1>8, <2>1, <2>2
<1>13. ASSUME n >= 1 PROVE Block(o)
  <2>1. Len(o) >= 2 /\ Len(o) - 1 = n + 3 /\ Len(o) - 3 = n + 1
    BY <1>1, <1>3
  <2>2. ASSUME NEW i \in 1..n + 1, Pair(o, i), Pair(o, i + 2) PROVE FALSE
    <3>1. i \in 1..n + 3 /\ i + 2 \in 1..n + 3 /\ i # n + 3 /\ i + 2 # 1
      BY <1>1
    <3>2. i = 1 /\ i + 2 = n + 3
      BY <1>9, <2>2, <3>1
    <3> QED BY <1>1, <1>13, <3>2
  <2> QED BY <1>3, <1>10, <2>1, <2>2 DEF Block
<1>14. ASSUME n = 0 PROVE Ended(o)
  <2>1. Len(o) >= 4 /\ Len(o) - 1 = n + 3 /\ Len(o) - 3 = 1 /\ Len(o) - 4 = 0
    BY <1>1, <1>3, <1>14
  <2>2. 1..0 = {}
    OBVIOUS
  <2> QED BY <1>3, <1>10, <2>1, <2>2 DEF Ended
<1>15. ASSUME NEW name, NEW i \in Nat, FieldHere(o, name, i) PROVE i = 0
  <2>1. i + 5 <= n + 4 /\ Pair(o, i + 1)
    BY <1>3, <1>15 DEF FieldHere
  <2>2. i + 1 \in 1..n + 3 /\ i + 1 # n + 3
    BY <1>1, <2>1
  <2>3. i + 1 = 1
    BY <1>9, <2>1, <2>2
  <2> QED BY <2>3
<1>16. \A name : Silent(w, name)
  BY <1>12 DEF Silent
<1> QED BY <1>2, <1>3, <1>4, <1>6, <1>9, <1>10, <1>11, <1>13, <1>14, <1>15, <1>16
        DEF w, o, n

(***************************************************************************)
(* A word in front of a line.                                              *)
(***************************************************************************)
LEMMA WordsIs ==
  ASSUME NEW w \in Seq(Byte), NEW f \in Seq(Byte), Unbroken(f),
         \A i \in 1..Len(w) : w[i] # "CR"
  PROVE  LET l == w \o f
         IN /\ l \in Seq(Byte) /\ Unbroken(l) /\ Len(l) = Len(w) + Len(f)
            /\ \A k \in 1..Len(w) : l[k] = w[k]
            /\ \A k \in 1..Len(f) : l[Len(w) + k] = f[k]
<1> DEFINE l == w \o f
<1>1. Len(f) \in Nat /\ Len(w) \in Nat
  BY LenProperties
<1>2. Unbroken(w)
  <2>1. \A i \in 1..Len(w) - 1 : i \in 1..Len(w)
    BY <1>1
  <2> QED BY <2>1 DEF Unbroken, Pair
<1>3. Unbroken(l)
  <2>1. Len(w) # 0 => Len(w) \in 1..Len(w)
    BY <1>1
  <2> QED BY <1>2, <2>1, UnbrokenJoined
<1>4. /\ l \in Seq(Byte) /\ Len(l) = Len(w) + Len(f)
      /\ \A k \in 1..Len(w) + Len(f) : l[k] = IF k <= Len(w) THEN w[k] ELSE f[k - Len(w)]
  BY ConcatProperties
<1> HIDE DEF l
<1>5. ASSUME NEW k \in 1..Len(w) PROVE l[k] = w[k]
  <2>1. k \in 1..Len(w) + Len(f) /\ k <= Len(w)
    BY <1>1
  <2> QED BY <1>4, <2>1
<1>6. ASSUME NEW k \in 1..Len(f) PROVE l[Len(w) + k] = f[k]
  <2>1. /\ Len(w) + k \in 1..Len(w) + Len(f) /\ ~(Len(w) + k <= Len(w))
        /\ (Len(w) + k) - Len(w) = k
    BY <1>1
  <2>2. l[Len(w) + k] = f[(Len(w) + k) - Len(w)]
    BY <1>4, <2>1
  <2> QED BY <2>1, <2>2
<1> QED BY <1>3, <1>4, <1>5, <1>6 DEF l

(***************************************************************************)
(* The line of a field.                                                    *)
(***************************************************************************)
LEMMA FieldLineIs ==
  ASSUME NEW name \in Name, NEW f \in Seq(Byte), Unbroken(f), Len(f) < NPos
  PROVE  LET t == <<name, ":", " ">> \o f \o CRLF
             o == CRLF \o t
         IN /\ t \in Seq(Byte) /\ Len(t) = Len(f) + 5 /\ Block(o)
            /\ Has(o, name) /\ Carries(o, name, f) /\ Single(o, name, f)
            /\ \A n : n # name => Silent(o, n)
<1> DEFINE w == <<name, ":", " ">>
           l == w \o f
           t == l \o CRLF
           o == CRLF \o t
           m == Len(l)
<1>1. /\ w \in Seq(Byte) /\ Len(w) = 3 /\ w[1] = name /\ w[2] = ":" /\ w[3] = " "
      /\ \A i \in 1..Len(w) : w[i] # "CR"
  <2>1. name \in Byte /\ ":" \in Byte /\ " " \in Byte /\ name # "CR"
    BY ByteAssumption, WordsAssumption DEF Name
  <2>2. w \in Seq(Byte) /\ Len(w) = 3 /\ w[1] = name /\ w[2] = ":" /\ w[3] = " "
    <3>1. \A a, b, c \in Byte :
            /\ <<a, b, c>> \in Seq(Byte) /\ Len(<<a, b, c>>) = 3
            /\ <<a, b, c>>[1] = a /\ <<a, b, c>>[2] = b /\ <<a, b, c>>[3] = c
      OBVIOUS
    <3> QED BY <2>1, <3>1, Zenon
  <2> HIDE DEF w
  <2>3. \A i \in 1..3 : i = 1 \/ i = 2 \/ i = 3
    OBVIOUS
  <2> QED BY <2>1, <2>2, <2>3
<1>2. Len(f) \in Nat
  BY LenProperties
<1> HIDE DEF w
<1>3. /\ l \in Seq(Byte) /\ Unbroken(l) /\ m = 3 + Len(f)
      /\ l[1] = name /\ l[2] = ":" /\ l[3] = " "
      /\ \A k \in 1..Len(f) : l[3 + k] = f[k]
  <2>1. /\ l \in Seq(Byte) /\ Unbroken(l) /\ m = Len(w) + Len(f)
        /\ \A k \in 1..Len(w) : l[k] = w[k]
        /\ \A k \in 1..Len(f) : l[Len(w) + k] = f[k]
    BY <1>1, WordsIs
  <2>2. 1 \in 1..3 /\ 2 \in 1..3 /\ 3 \in 1..3
    OBVIOUS
  <2> HIDE DEF m, l
  <2> QED BY <1>1, <2>1, <2>2, Zenon
<1>4. m \in Nat /\ m = Len(f) + 3
  <2> HIDE DEF m
  <2>1. m = 3 + Len(f)
    BY <1>3
  <2> QED BY <1>2, <2>1
<1> HIDE DEF l
<1>5. /\ t \in Seq(Byte) /\ Len(t) = Len(l) + 2
      /\ o \in Seq(Byte) /\ Len(o) = Len(l) + 4
      /\ \A k \in 1..Len(l) : o[2 + k] = l[k]
      /\ Pair(o, 1) /\ Pair(o, Len(l) + 3)
      /\ \A j \in 1..Len(l) + 3 : Pair(o, j) => j = 1 \/ j = Len(l) + 3
      /\ Len(l) >= 1 => Block(o)
      /\ \A n : \A i \in Nat : FieldHere(o, n, i) => i = 0
  BY <1>3, LineOf
<1> HIDE DEF t, o, m
<1>6. m >= 1 /\ Len(t) = Len(f) + 5 /\ Len(o) = Len(f) + 7
  <2>1. Len(t) = m + 2 /\ Len(o) = m + 4
    BY <1>5 DEF m
  <2> QED BY <1>4, <1>2, <2>1
<1>7. o[0 + 3] = name /\ o[0 + 4] = ":" /\ o[0 + 5] = " "
  <2>1. 1 \in 1..m /\ 2 \in 1..m /\ 3 \in 1..m
    BY <1>4, <1>2
  <2>2. o[2 + 1] = l[1] /\ o[2 + 2] = l[2] /\ o[2 + 3] = l[3]
    BY <1>5, <2>1 DEF m
  <2>3. 0 + 3 = 2 + 1 /\ 0 + 4 = 2 + 2 /\ 0 + 5 = 2 + 3
    OBVIOUS
  <2> QED BY <1>3, <2>2, <2>3, Zenon
<1>8. FieldHere(o, name, 0)
  <2>1. 0 + 5 <= Len(o) /\ Pair(o, 0 + 1)
    BY <1>2, <1>5, <1>6
  <2> QED BY <1>7, <2>1 DEF FieldHere
<1>9. ASSUME NEW n, NEW i \in Nat, FieldHere(o, n, i) PROVE i = 0 /\ n = name
  <2>1. i = 0
    BY <1>5, <1>9
  <2>2. o[0 + 3] = n
    BY <1>9, <2>1 DEF FieldHere
  <2> QED BY <1>7, <2>1, <2>2
<1>10. Holds(o, 0, f)
  <2>1. (0 + 7) + Len(f) <= Len(o) /\ (0 + 6) + Len(f) = m + 3
    BY <1>4, <1>2, <1>6
  <2>2. ASSUME NEW k \in 1..Len(f) PROVE o[(0 + 5) + k] = f[k]
    <3>1. 3 + k \in 1..m /\ (0 + 5) + k = 2 + (3 + k)
      BY <1>4, <1>2
    <3>2. o[2 + (3 + k)] = l[3 + k]
      BY <1>5, <3>1 DEF m
    <3> QED BY <1>3, <3>1, <3>2
  <2>3. ASSUME NEW j \in 0 + 6..(0 + 5) + Len(f) PROVE ~Pair(o, j)
    <3>1. j \in 1..m + 3 /\ j # 1 /\ j # m + 3
      BY <1>4, <1>2
    <3> QED BY <1>5, <3>1 DEF m
  <2>4. Pair(o, (0 + 6) + Len(f))
    BY <1>5, <2>1 DEF m
  <2> QED BY <2>1, <2>2, <2>3, <2>4 DEF Holds
<1>11. Single(o, name, f)
  BY <1>8, <1>9, <1>10 DEF Single
<1>12. Carries(o, name, f)
  BY <1>9, <1>10 DEF Carries
<1>13. Has(o, name)
  BY <1>8 DEF Has
<1>14. \A n : n # name => Silent(o, n)
  BY <1>9 DEF Silent
<1>15. Block(o)
  BY <1>5, <1>6 DEF m
<1> QED BY <1>5, <1>6, <1>11, <1>12, <1>13, <1>14, <1>15 DEF o, t, l, w

\* The header lines collected so far, seen behind the end of a line.
Open(b) == CRLF \o b

Collected(b) == b \in Seq(Byte) /\ Block(Open(b))

(***************************************************************************)
(* A text that fits goes to the buffer as it is (protocol.cpp:206-210).    *)
(***************************************************************************)
LEMMA AddHeaderIs ==
  ASSUME NEW b, Collected(b), NEW name \in Name, NEW f \in Seq(Byte), Unbroken(f),
         Len(f) + 5 < BufferSize
  PROVE  LET a == Open(AddHeader(b, name, f))
         IN /\ Collected(AddHeader(b, name, f))
            /\ Has(a, name)
            /\ Silent(Open(b), name) => Single(a, name, f)
            /\ Carries(Open(b), name, f) => Carries(a, name, f)
            /\ \A n \in Name : n # name =>
                 /\ Silent(Open(b), n) => Silent(a, n)
                 /\ Has(Open(b), n) => Has(a, n)
                 /\ \A v : /\ Carries(Open(b), n, v) => Carries(a, n, v)
                           /\ Single(Open(b), n, v) => Single(a, n, v)
<1> DEFINE t == <<name, ":", " ">> \o f \o CRLF
           a == Open(AddHeader(b, name, f))
<1>1. Len(f) \in Nat /\ Len(f) < NPos
  BY LenProperties, BufferAssumption, SizeAssumption DEF NPos
<1>2. /\ t \in Seq(Byte) /\ Len(t) = Len(f) + 5 /\ Block(CRLF \o t)
      /\ Has(CRLF \o t, name) /\ Carries(CRLF \o t, name, f) /\ Single(CRLF \o t, name, f)
      /\ \A n : n # name => Silent(CRLF \o t, n)
  BY <1>1, FieldLineIs
<1>3. AddHeader(b, name, f) = b \o t
  <2>1. Len(t) < BufferSize
    BY <1>2
  <2> QED BY <2>1 DEF AddHeader, Printed
<1> HIDE DEF t
<1>4. CRLF \in Seq(Byte) /\ b \in Seq(Byte)
  BY BreakWordIs DEF Collected
<1>5. a = Open(b) \o t /\ AddHeader(b, name, f) \in Seq(Byte)
  <2>0. t \in Seq(Byte)
    BY <1>2
  <2>1. CRLF \o (b \o t) = (CRLF \o b) \o t
    BY <1>4, <2>0, ConcatAssociative
  <2>2. b \o t \in Seq(Byte)
    BY <1>2, <1>4, ConcatProperties
  <2> QED BY <1>3, <2>1, <2>2 DEF Open
<1> HIDE DEF a
<1>6. Block(Open(b)) /\ Open(b) \in Seq(Byte) /\ Len(Open(b)) >= 2
      /\ Pair(Open(b), Len(Open(b)) - 1)
  BY DEF Collected, Block
<1>7. Block(a)
  BY <1>2, <1>5, <1>6, JoinBlock
<1>8. \A n \in Name :
        /\ Silent(Open(b), n) /\ Silent(CRLF \o t, n) => Silent(a, n)
        /\ Has(Open(b), n) \/ Has(CRLF \o t, n) => Has(a, n)
        /\ \A v : /\ Carries(Open(b), n, v) /\ Carries(CRLF \o t, n, v) => Carries(a, n, v)
                  /\ Single(Open(b), n, v) /\ Silent(CRLF \o t, n) => Single(a, n, v)
                  /\ Silent(Open(b), n) /\ Single(CRLF \o t, n, v) => Single(a, n, v)
  <2> TAKE n \in Name
  <2> QED BY <1>2, <1>5, <1>6, JoinSays
<1>9. \A n, v : Silent(CRLF \o t, n) => Carries(CRLF \o t, n, v)
  BY DEF Silent, Carries
<1>10. Collected(AddHeader(b, name, f))
  BY <1>5, <1>7 DEF Collected, a
<1> QED BY <1>2, <1>8, <1>9, <1>10, Zenon DEF a

\* The fields of s, and no others, are those of h.
Keeps(s, h) ==
  \A n \in Name :
    /\ Silent(s, n) => Silent(h, n)
    /\ Has(s, n) => Has(h, n)
    /\ \A v : /\ Carries(s, n, v) => Carries(h, n, v)
              /\ Single(s, n, v) => Single(h, n, v)

(***************************************************************************)
(* A text without fields before a text, and behind it.                     *)
(***************************************************************************)
LEMMA KeepsBehind ==
  ASSUME NEW u, Block(u), NEW t \in Seq(Byte), \A n \in Name : Silent(u, n)
  PROVE  Keeps(CRLF \o t, u \o t)
<1>1. u \in Seq(Byte) /\ Len(u) >= 2 /\ Pair(u, Len(u) - 1)
  BY DEF Block
<1>2. \A n, v : Silent(u, n) => Carries(u, n, v)
  BY DEF Silent, Carries
<1> SUFFICES ASSUME NEW n \in Name
    PROVE /\ Silent(CRLF \o t, n) => Silent(u \o t, n)
          /\ Has(CRLF \o t, n) => Has(u \o t, n)
          /\ \A v : /\ Carries(CRLF \o t, n, v) => Carries(u \o t, n, v)
                    /\ Single(CRLF \o t, n, v) => Single(u \o t, n, v)
  BY DEF Keeps
<1>3. Silent(u, n)
  OBVIOUS
<1>4. /\ Silent(u, n) /\ Silent(CRLF \o t, n) => Silent(u \o t, n)
      /\ Has(u, n) \/ Has(CRLF \o t, n) => Has(u \o t, n)
      /\ \A v : /\ Carries(u, n, v) /\ Carries(CRLF \o t, n, v) => Carries(u \o t, n, v)
                /\ Silent(u, n) /\ Single(CRLF \o t, n, v) => Single(u \o t, n, v)
  BY <1>1, JoinSays
<1> QED BY <1>2, <1>3, <1>4, Zenon

LEMMA KeepsBefore ==
  ASSUME NEW u, Block(u), NEW t \in Seq(Byte), \A n \in Name : Silent(CRLF \o t, n)
  PROVE  Keeps(u, u \o t)
<1>1. u \in Seq(Byte) /\ Len(u) >= 2 /\ Pair(u, Len(u) - 1)
  BY DEF Block
<1>2. \A n, v : Silent(CRLF \o t, n) => Carries(CRLF \o t, n, v)
  BY DEF Silent, Carries
<1> SUFFICES ASSUME NEW n \in Name
    PROVE /\ Silent(u, n) => Silent(u \o t, n)
          /\ Has(u, n) => Has(u \o t, n)
          /\ \A v : /\ Carries(u, n, v) => Carries(u \o t, n, v)
                    /\ Single(u, n, v) => Single(u \o t, n, v)
  BY DEF Keeps
<1>3. Silent(CRLF \o t, n)
  OBVIOUS
<1>4. /\ Silent(u, n) /\ Silent(CRLF \o t, n) => Silent(u \o t, n)
      /\ Has(u, n) \/ Has(CRLF \o t, n) => Has(u \o t, n)
      /\ \A v : /\ Carries(u, n, v) /\ Carries(CRLF \o t, n, v) => Carries(u \o t, n, v)
                /\ Single(u, n, v) /\ Silent(CRLF \o t, n) => Single(u \o t, n, v)
  BY <1>1, JoinSays
<1> QED BY <1>2, <1>3, <1>4, Zenon

(***************************************************************************)
(* A line that is no field.                                                *)
(***************************************************************************)
LEMMA PlainLine ==
  ASSUME NEW u, Block(u), NEW x \in Byte, \A n \in Name : Silent(u, n)
  PROVE  LET h == u \o <<x>> \o CRLF
         IN /\ Block(h) /\ \A n \in Name : Silent(h, n)
            /\ h \in Seq(Byte) /\ Len(h) = Len(u) + 3
            /\ \A k \in 1..Len(u) : h[k] = u[k]
<1> DEFINE l == <<x>>
           w == l \o CRLF
           o == CRLF \o w
           h == u \o l \o CRLF
<1>1. l \in Seq(Byte) /\ Len(l) = 1
  OBVIOUS
<1> HIDE DEF l
<1>2. Unbroken(l)
  <2>1. 1..1 - 1 = {}
    OBVIOUS
  <2> QED BY <1>1, <2>1 DEF Unbroken
<1>3. /\ w \in Seq(Byte) /\ Len(w) = Len(l) + 2
      /\ o \in Seq(Byte) /\ Len(o) = Len(l) + 4
      /\ Pair(o, Len(l) + 3)
      /\ Len(l) >= 1 => Block(o)
      /\ \A n : \A i \in Nat : FieldHere(o, n, i) => i = 0
  BY <1>1, <1>2, LineOf
<1> HIDE DEF w, o
<1>4. Len(w) = 3 /\ Block(o) /\ o[4] = "CR"
  <2>1. Len(l) + 2 = 3 /\ Len(l) + 3 = 4 /\ Len(l) >= 1
    BY <1>1
  <2> QED BY <1>3, <2>1 DEF Pair
<1>5. \A n \in Name : Silent(o, n)
  <2>1. ASSUME NEW n, NEW i \in Nat, FieldHere(o, n, i) PROVE FALSE
    <3>1. i = 0 /\ 0 + 4 = 4
      BY <1>3, <2>1
    <3>2. o[4] = ":"
      BY <2>1, <3>1 DEF FieldHere
    <3> QED BY <1>4, <3>2
  <2> QED BY <2>1 DEF Silent
<1>6. h = u \o w
  <2>1. CRLF \in Seq(Byte) /\ u \in Seq(Byte)
    BY BreakWordIs DEF Block
  <2>2. (u \o l) \o CRLF = u \o (l \o CRLF)
    BY <1>1, <2>1, ConcatAssociative
  <2> QED BY <2>2 DEF w
<1> HIDE DEF h
<1>7. Block(h) /\ h \in Seq(Byte) /\ \A k \in 1..Len(u) : h[k] = u[k]
  <2>1. Block(CRLF \o w)
    BY <1>4 DEF o
  <2> QED BY <1>3, <1>6, <2>1, JoinBlock
<1>8. \A n \in Name : Silent(h, n)
  <2>1. Keeps(u, h)
    <3>1. \A n \in Name : Silent(CRLF \o w, n)
      BY <1>5 DEF o
    <3> QED BY <1>3, <1>6, <3>1, KeepsBefore
  <2> QED BY <2>1 DEF Keeps
<1>9. Len(h) = Len(u) + 3
  <2>1. u \in Seq(Byte)
    BY DEF Block
  <2>2. Len(h) = Len(u) + Len(w)
    BY <1>3, <1>6, <2>1, ConcatProperties
  <2> QED BY <1>4, <2>2
<1> QED BY <1>7, <1>8, <1>9 DEF h, l

\* The start of a response.
Begins(h) == Len(h) >= 2 /\ h[1] = "HTTP/1.1" /\ h[2] = " "

(***************************************************************************)
(* Generate() puts the status line in front, and an empty line behind      *)
(* (protocol.cpp:180-199).                                                 *)
(***************************************************************************)
LEMMA GenerateIs ==
  ASSUME NEW b, Collected(b), NEW status \in Seq(Byte), Unbroken(status),
         Len(status) + 7 < BufferSize
  PROVE  LET g == Generate(b, status, FALSE)
             h == Generate(b, status, TRUE)
         IN /\ Block(g) /\ Begins(g) /\ Keeps(Open(b), g)
            /\ h = g \o CRLF
<1> DEFINE A == <<"HTTP/1.1", " ">>
           S == <<"Server: tighttpd/0.1">>
           D == <<"Date: now">>
           l == A \o status
           w == l \o CRLF
           p == w \o S \o CRLF
           q == p \o D \o CRLF
           e == << >>
           g == Generate(b, status, FALSE)
           h == Generate(b, status, TRUE)
<1>1. {"HTTP/1.1", " ", "Server: tighttpd/0.1", "Date: now"} \subseteq Byte
  BY WordsAssumption, ByteAssumption
<1>2. /\ A \in Seq(Byte) /\ Len(A) = 2 /\ A[1] = "HTTP/1.1" /\ A[2] = " "
      /\ \A i \in 1..Len(A) : A[i] # "CR"
  <2>1. \A x, y \in Byte : /\ <<x, y>> \in Seq(Byte) /\ Len(<<x, y>>) = 2
                           /\ <<x, y>>[1] = x /\ <<x, y>>[2] = y
    OBVIOUS
  <2>2. A \in Seq(Byte) /\ Len(A) = 2 /\ A[1] = "HTTP/1.1" /\ A[2] = " "
    BY <1>1, <2>1, Zenon
  <2> HIDE DEF A
  <2>3. \A i \in 1..2 : i = 1 \/ i = 2
    OBVIOUS
  <2> QED BY <2>2, <2>3
<1>3. Len(status) \in Nat /\ CRLF \in Seq(Byte)
  BY LenProperties, BreakWordIs
<1> HIDE DEF A
<1>4. /\ l \in Seq(Byte) /\ Unbroken(l) /\ Len(l) = 2 + Len(status)
      /\ l[1] = "HTTP/1.1" /\ l[2] = " "
  <2>1. /\ l \in Seq(Byte) /\ Unbroken(l) /\ Len(l) = Len(A) + Len(status)
        /\ \A k \in 1..Len(A) : l[k] = A[k]
    BY <1>2, WordsIs
  <2>2. 1 \in 1..2 /\ 2 \in 1..2
    OBVIOUS
  <2> HIDE DEF l
  <2> QED BY <1>2, <2>1, <2>2, Zenon
<1> HIDE DEF l
<1> DEFINE n == Len(l)
<1>5. n \in Nat /\ n = 2 + Len(status)
  <2>1. n = 2 + Len(status)
    BY <1>4
  <2> HIDE DEF n
  <2> QED BY <1>3, <2>1
<1> HIDE DEF n
<1>6. /\ Block(w) /\ (\A m : Silent(w, m)) /\ Len(w) = n + 2
      /\ w[1] = "HTTP/1.1" /\ w[2] = " "
  <2>1. /\ Len(w) = n + 2 /\ Block(w) /\ \A m : Silent(w, m)
        /\ \A k \in 1..n : w[k] = l[k]
    BY <1>4, LineOf DEF n
  <2>2. 1 \in 1..n /\ 2 \in 1..n
    BY <1>3, <1>5
  <2> HIDE DEF w
  <2> QED BY <1>4, <2>1, <2>2, Zenon
<1> HIDE DEF w
<1>7. /\ Block(p) /\ (\A m \in Name : Silent(p, m)) /\ Len(p) = n + 5
      /\ p[1] = "HTTP/1.1" /\ p[2] = " "
  <2>1. /\ Block(p) /\ (\A m \in Name : Silent(p, m)) /\ Len(p) = Len(w) + 3
        /\ \A k \in 1..Len(w) : p[k] = w[k]
    BY <1>1, <1>6, PlainLine
  <2>2. 1 \in 1..n + 2 /\ 2 \in 1..n + 2 /\ (n + 2) + 3 = n + 5
    BY <1>3, <1>5
  <2> HIDE DEF p
  <2> QED BY <1>6, <2>1, <2>2, Zenon
<1> HIDE DEF p
<1>8. /\ Block(q) /\ (\A m \in Name : Silent(q, m)) /\ Len(q) = n + 8
      /\ q[1] = "HTTP/1.1" /\ q[2] = " "
  <2>1. /\ Block(q) /\ (\A m \in Name : Silent(q, m)) /\ Len(q) = Len(p) + 3
        /\ \A k \in 1..Len(p) : q[k] = p[k]
    BY <1>1, <1>7, PlainLine
  <2>2. 1 \in 1..n + 5 /\ 2 \in 1..n + 5 /\ (n + 5) + 3 = n + 8
    BY <1>3, <1>5
  <2> HIDE DEF q
  <2> QED BY <1>7, <2>1, <2>2, Zenon
<1>9. Printed(p) = p
  <2>1. n + 5 < BufferSize
    BY <1>3, <1>5, BufferAssumption
  <2> QED BY <1>7, <2>1 DEF Printed
<1>10. g = (q \o b) \o e /\ h = (q \o b) \o CRLF
  <2>1. Generate(b, status, FALSE) = (((Printed(p) \o D) \o CRLF) \o b) \o e
    BY DEF Generate, p, w, l, A
  <2>2. Generate(b, status, TRUE) = (((Printed(p) \o D) \o CRLF) \o b) \o CRLF
    BY DEF Generate, p, w, l, A
  <2> QED BY <1>9, <2>1, <2>2
<1> HIDE DEF q, g, h, e
<1>11. b \in Seq(Byte) /\ Block(CRLF \o b) /\ q \in Seq(Byte)
  BY <1>8 DEF Collected, Open, Block
<1>12. g = q \o b
  <2>1. q \o b \in Seq(Byte)
    BY <1>11, ConcatProperties
  <2>2. (q \o b) \o << >> = q \o b
    BY <2>1, ConcatEmptySeq
  <2> QED BY <1>10, <2>2 DEF e
<1>13. h = g \o CRLF
  BY <1>10, <1>12
<1>14. Block(g) /\ \A k \in 1..Len(q) : g[k] = q[k]
  BY <1>8, <1>11, <1>12, JoinBlock
<1>15. Keeps(Open(b), g)
  BY <1>8, <1>11, <1>12, KeepsBehind DEF Open
<1>16. Begins(g)
  <2>1. Len(g) >= 2
    BY <1>14 DEF Block
  <2>2. 1 \in 1..n + 8 /\ 2 \in 1..n + 8
    BY <1>3, <1>5
  <2>3. g[1] = q[1] /\ g[2] = q[2]
    BY <1>8, <1>14, <2>2
  <2> QED BY <1>8, <2>1, <2>3 DEF Begins
<1> QED BY <1>13, <1>14, <1>15, <1>16 DEF g, h

(***************************************************************************)
(* A head with the empty line that ends it.                                *)
(***************************************************************************)
LEMMA EndIs ==
  ASSUME NEW g, Block(g), Begins(g)
  PROVE  /\ Begins(g \o CRLF) /\ Keeps(g, g \o CRLF) /\ Ended(g \o CRLF)
<1> DEFINE l == << >>
           o == CRLF \o (l \o CRLF)
<1>1. l \in Seq(Byte) /\ Len(l) = 0
  OBVIOUS
<1>2. CRLF \in Seq(Byte) /\ l \o CRLF = CRLF /\ g \in Seq(Byte)
  <2>1. CRLF \in Seq(Byte) /\ g \in Seq(Byte)
    BY BreakWordIs DEF Block
  <2> QED BY <2>1, ConcatEmptySeq
<1> HIDE DEF l
<1>3. Unbroken(l)
  <2>1. 1..0 - 1 = {}
    OBVIOUS
  <2> QED BY <1>1, <2>1 DEF Unbroken
<1>4. /\ Len(o) = Len(l) + 4 /\ Pair(o, Len(l) + 3)
      /\ Len(l) = 0 => Ended(o)
      /\ \A n : \A i \in Nat : FieldHere(o, n, i) => i = 0
  BY <1>1, <1>3, LineOf
<1>5. o = CRLF \o CRLF
  BY <1>2
<1> HIDE DEF o
<1>6. Ended(CRLF \o CRLF)
  BY <1>1, <1>4, <1>5
<1>7. \A n \in Name : Silent(CRLF \o CRLF, n)
  <2>1. ASSUME NEW n, NEW i \in Nat, FieldHere(o, n, i) PROVE FALSE
    <3>1. Len(o) = 4
      BY <1>1, <1>4
    <3>2. i + 5 <= 4
      BY <2>1, <3>1 DEF FieldHere
    <3> QED BY <3>2
  <2> QED BY <1>5, <2>1 DEF Silent
<1>8. Ended(g \o CRLF) /\ \A k \in 1..Len(g) : (g \o CRLF)[k] = g[k]
  BY <1>2, <1>6, JoinBlock
<1>9. Keeps(g, g \o CRLF)
  BY <1>2, <1>7, KeepsBefore
<1>10. Begins(g \o CRLF)
  <2>1. 1 \in 1..Len(g) /\ 2 \in 1..Len(g)
    <3>1. Len(g) \in Nat /\ Len(g) >= 2
      BY <1>2, LenProperties DEF Begins
    <3> QED BY <3>1
  <2>2. (g \o CRLF)[1] = g[1] /\ (g \o CRLF)[2] = g[2]
    BY <1>8, <2>1
  <2>3. Len(g \o CRLF) >= 2
    BY <1>8 DEF Ended
  <2> QED BY <2>2, <2>3 DEF Begins
<1> QED BY <1>8, <1>9, <1>10

(***************************************************************************)
(* Where find() looks for a double line break.                             *)
(***************************************************************************)
LEMMA DoubleAt ==
  ASSUME NEW s, NEW j \in Nat
  PROVE  At(s, BreakWord, j) <=> Pair(s, j + 1) /\ Pair(s, j + 3)
<1>1. /\ BreakWord[1] = "CR" /\ BreakWord[2] = "LF"
      /\ BreakWord[3] = "CR" /\ BreakWord[4] = "LF"
  <2>1. CRLF \in Seq(Byte) /\ Len(CRLF) = 2 /\ CRLF[1] = "CR" /\ CRLF[2] = "LF"
    BY BreakWordIs DEF CRLF
  <2>2. \A k \in 1..2 + 2 :
          (CRLF \o CRLF)[k] = IF k <= 2 THEN CRLF[k] ELSE CRLF[k - 2]
    <3>1. \A k \in 1..Len(CRLF) + Len(CRLF) :
            (CRLF \o CRLF)[k] = IF k <= Len(CRLF) THEN CRLF[k] ELSE CRLF[k - Len(CRLF)]
      BY <2>1, ConcatProperties
    <3> QED BY <2>1, <3>1, Zenon
  <2>3. /\ 1 \in 1..2 + 2 /\ 2 \in 1..2 + 2 /\ 3 \in 1..2 + 2 /\ 4 \in 1..2 + 2
        /\ 1 <= 2 /\ 2 <= 2 /\ ~(3 <= 2) /\ ~(4 <= 2) /\ 3 - 2 = 1 /\ 4 - 2 = 2
    OBVIOUS
  <2> QED BY <2>1, <2>2, <2>3 DEF BreakWord
<1>2. Len(BreakWord) = 4 /\ (j + 1) + 1 = j + 2 /\ (j + 3) + 1 = j + 4
  BY BreakWordIs
<1>3. At(s, BreakWord, j) <=> /\ s[j + 1] = BreakWord[1] /\ s[j + 2] = BreakWord[2]
                              /\ s[j + 3] = BreakWord[3] /\ s[j + 4] = BreakWord[4]
  <2>1. \A k \in 1..4 : k = 1 \/ k = 2 \/ k = 3 \/ k = 4
    OBVIOUS
  <2> QED BY <1>2, <2>1 DEF At
<1> QED BY <1>1, <1>2, <1>3 DEF Pair

(***************************************************************************)
(* A text behind the end of a line, byte by byte.                          *)
(***************************************************************************)
LEMMA OpenIs ==
  ASSUME NEW t \in Seq(Byte)
  PROVE  LET o == CRLF \o t
         IN /\ o \in Seq(Byte) /\ Len(o) = Len(t) + 2
            /\ o[1] = "CR" /\ o[2] = "LF"
            /\ \A k \in 1..Len(t) : o[2 + k] = t[k]
<1> DEFINE o == CRLF \o t
           n == Len(t)
<1>1. /\ n \in Nat /\ CRLF \in Seq(Byte) /\ Len(CRLF) = 2
      /\ CRLF[1] = "CR" /\ CRLF[2] = "LF"
  BY BreakWordIs, LenProperties DEF CRLF
<1>2. /\ o \in Seq(Byte) /\ Len(o) = 2 + n
      /\ \A k \in 1..2 + n : o[k] = IF k <= 2 THEN CRLF[k] ELSE t[k - 2]
  <2>1. /\ o \in Seq(Byte) /\ Len(o) = Len(CRLF) + n
        /\ \A k \in 1..Len(CRLF) + n :
             o[k] = IF k <= Len(CRLF) THEN CRLF[k] ELSE t[k - Len(CRLF)]
    BY <1>1, ConcatProperties
  <2> QED BY <1>1, <2>1, Zenon
<1> HIDE DEF o, n
<1>3. 1 \in 1..2 + n /\ 2 \in 1..2 + n /\ 1 <= 2 /\ 2 <= 2 /\ 2 + n = n + 2
  BY <1>1
<1>4. ASSUME NEW k \in 1..n PROVE o[2 + k] = t[k]
  <2>1. 2 + k \in 1..2 + n /\ ~(2 + k <= 2) /\ (2 + k) - 2 = k
    BY <1>1
  <2>2. o[2 + k] = t[(2 + k) - 2]
    BY <1>2, <2>1
  <2> QED BY <2>1, <2>2
<1>5. o[1] = "CR" /\ o[2] = "LF"
  BY <1>1, <1>2, <1>3
<1> QED BY <1>2, <1>3, <1>4, <1>5 DEF o, n

(***************************************************************************)
(* The header of a script, up to the first double line break, seen behind  *)
(* the end of a line: that break is its only one.                          *)
(***************************************************************************)
LEMMA HeaderIs ==
  ASSUME NEW out \in Seq(Byte), Len(out) < NPos, FindBreak(out).found, ~Pair(out, 1)
  PROVE  LET header == Substr(out, 0, FindBreak(out).pp)
         IN /\ header \in Seq(Byte) /\ Len(header) <= Len(out)
            /\ Ended(CRLF \o header)
<1> DEFINE p == FindBreak(out).pp
           header == Substr(out, 0, p)
           o == CRLF \o header
<1>1. Len(out) \in Nat /\ NPos \in Nat
  BY LenProperties, SizeAssumption DEF NPos
<1>2. /\ p \in 4..Len(out) /\ p \in Nat
      /\ At(out, BreakWord, p - 4)
      /\ \A j \in 0..p - 5 : ~At(out, BreakWord, j)
  BY FindBreakIs
<1> HIDE DEF p
<1>3. /\ header \in Seq(Byte) /\ Len(header) = p
      /\ \A k \in 1..p : header[k] = out[k]
  <2>1. 0 + p <= Len(out) /\ p # NPos /\ \A k \in 1..p : 0 + k = k
    BY <1>1, <1>2
  <2>2. /\ header \in Seq(Byte) /\ Len(header) = p
        /\ \A k \in 1..p : header[k] = out[0 + k]
    BY <1>2, <2>1, SubstrIs
  <2> QED BY <2>1, <2>2
<1> HIDE DEF header
<1>4. /\ o \in Seq(Byte) /\ Len(o) = p + 2 /\ o[1] = "CR" /\ o[2] = "LF"
      /\ \A k \in 1..p : o[2 + k] = header[k]
  <2>1. header \in Seq(Byte) /\ Len(header) = p
    BY <1>3
  <2> QED BY <2>1, OpenIs
<1> HIDE DEF o
<1>5. ASSUME NEW j \in 1..p - 1 PROVE Pair(o, 2 + j) <=> Pair(out, j)
  <2>1. j \in 1..p /\ j + 1 \in 1..p /\ (2 + j) + 1 = 2 + (j + 1)
    BY <1>2
  <2>2. o[2 + j] = out[j] /\ o[2 + (j + 1)] = out[j + 1]
    BY <1>3, <1>4, <2>1
  <2> QED BY <2>1, <2>2 DEF Pair
<1>6. Pair(out, p - 3) /\ Pair(out, p - 1)
  <2>1. p - 4 \in Nat /\ (p - 4) + 1 = p - 3 /\ (p - 4) + 3 = p - 1
    BY <1>2
  <2>2. Pair(out, (p - 4) + 1) /\ Pair(out, (p - 4) + 3)
    BY <1>2, <2>1, DoubleAt
  <2> QED BY <2>1, <2>2
<1>7. Pair(o, Len(o) - 3) /\ Pair(o, Len(o) - 1) /\ Len(o) >= 4 /\ Len(o) - 4 = p - 2
  <2>1. /\ p - 3 \in 1..p - 1 /\ p - 1 \in 1..p - 1
        /\ 2 + (p - 3) = (p + 2) - 3 /\ 2 + (p - 1) = (p + 2) - 1
        /\ p + 2 >= 4 /\ (p + 2) - 4 = p - 2
    BY <1>2
  <2>2. Pair(o, 2 + (p - 3)) /\ Pair(o, 2 + (p - 1))
    BY <1>5, <1>6, <2>1
  <2> QED BY <1>4, <2>1, <2>2
<1>8. ASSUME NEW i \in 1..p - 2, Pair(o, i), Pair(o, i + 2) PROVE FALSE
  <2>1. CASE i = 1
    <3>1. 1 \in 1..p - 1 /\ i + 2 = 2 + 1
      BY <1>2, <2>1
    <3>2. Pair(out, 1)
      BY <1>5, <1>8, <3>1
    <3> QED BY <3>2
  <2>2. CASE i = 2
    BY <1>4, <1>8, <2>2 DEF Pair
  <2>3. CASE i >= 3
    <3>1. /\ i - 2 \in 1..p - 1 /\ i \in 1..p - 1 /\ 2 + (i - 2) = i /\ i + 2 = 2 + i
          /\ i - 3 \in 0..p - 5 /\ i - 3 \in Nat
          /\ (i - 3) + 1 = i - 2 /\ (i - 3) + 3 = i
      BY <1>2, <2>3
    <3>2. Pair(out, i - 2) /\ Pair(out, i)
      BY <1>5, <1>8, <3>1
    <3>3. At(out, BreakWord, i - 3)
      BY <3>1, <3>2, DoubleAt
    <3> QED BY <1>2, <3>1, <3>3
  <2> QED BY <1>2, <2>1, <2>2, <2>3
<1>9. Ended(o)
  BY <1>4, <1>7, <1>8 DEF Ended
<1> QED BY <1>2, <1>3, <1>9 DEF o, header, p

(***************************************************************************)
(* What ParseHeader() finds in such a header is one line.                  *)
(***************************************************************************)
LEMMA ToldIs ==
  ASSUME NEW text, Ended(text), Len(text) < NPos + 2, NEW name \in Name
  PROVE  LET told == ParseHeader(0, text, name)
         IN told \in Seq(Byte) /\ Unbroken(told)
<1> DEFINE w  == CRLF \o <<name, ":", " ">>
           hs == Find(text, w, 0)
           hl == hs + 5
           he == Find(text, CRLF, hl)
           hc == FindNot(text, " ", hl)
           n  == Len(text)
           told == Substr(text, hc, he - hc)
<1>1. /\ text \in Seq(Byte) /\ n \in Nat /\ n >= 4 /\ Pair(text, n - 1)
      /\ NPos \in Nat /\ NPos > 7 /\ n < NPos + 2
  BY LenProperties, SizeAssumption DEF Ended, NPos
<1>2. /\ w \in Seq(Byte) /\ Len(w) = 5 /\ w[5] = " "
  <2> DEFINE b == <<name, ":", " ">>
  <2>1. name \in Byte /\ ":" \in Byte /\ " " \in Byte
    BY ByteAssumption, WordsAssumption DEF Name
  <2>2. \A x, y, z \in Byte : /\ <<x, y, z>> \in Seq(Byte) /\ Len(<<x, y, z>>) = 3
                              /\ <<x, y, z>>[3] = z
    OBVIOUS
  <2>3. b \in Seq(Byte) /\ Len(b) = 3 /\ b[3] = " "
    BY <2>1, <2>2, Zenon
  <2>4. CRLF \in Seq(Byte) /\ Len(CRLF) = 2 /\ w = CRLF \o b
    BY BreakWordIs
  <2> HIDE DEF b, w
  <2>5. /\ w \in Seq(Byte) /\ Len(w) = Len(CRLF) + Len(b)
        /\ \A k \in 1..Len(CRLF) + Len(b) :
             w[k] = IF k <= Len(CRLF) THEN CRLF[k] ELSE b[k - Len(CRLF)]
    BY <2>3, <2>4, ConcatProperties
  <2>6. 5 \in 1..2 + 3 /\ ~(5 <= 2) /\ 5 - 2 = 3 /\ 2 + 3 = 5
    OBVIOUS
  <2>7. w[5] = b[5 - 2]
    BY <2>3, <2>4, <2>5, <2>6
  <2> QED BY <2>3, <2>4, <2>5, <2>6, <2>7
<1>3. ParseHeader(0, text, name) = IF hs = NPos \/ he <= hc THEN << >> ELSE told
  BY DEF ParseHeader, HeaderLine
<1> HIDE DEF w
<1>4. CASE hs = NPos \/ he <= hc
  <2>1. << >> \in Seq(Byte) /\ Len(<< >>) = 0
    OBVIOUS
  <2>2. 1..0 - 1 = {}
    OBVIOUS
  <2>3. ParseHeader(0, text, name) = << >>
    BY <1>3, <1>4
  <2> QED BY <2>1, <2>2, <2>3 DEF Unbroken
<1>5. CASE ~(hs = NPos \/ he <= hc)
  <2> HIDE DEF n
  <2>1. hs \in 0..n - 5 /\ hs \in Nat /\ At(text, w, hs)
    <3>1. Len(w) # NPos
      <4>1. Len(w) = 5
        BY <1>2
      <4> QED BY <4>1, SizeAssumption DEF NPos
    <3>2. \/ hs = NPos
          \/ hs \in 0..n - Len(w) /\ hs \in Nat /\ At(text, w, hs)
      BY <1>1, <1>2, <3>1, FindIs DEF n
    <3>3. n - Len(w) = n - 5
      BY <1>2
    <3> QED BY <1>5, <3>2, <3>3
  <2> HIDE DEF hs
  <2>2. text[hs + 5] = " "
    <3>1. 5 \in 1..5
      OBVIOUS
    <3> QED BY <1>2, <2>1, <3>1 DEF At
  <2>3. hl \in Nat /\ hl = hs + 5 /\ hl <= n - 2
    <3>1. hs + 5 # n - 1 /\ hs + 5 # n
      <4>1. text[n - 1] = "CR" /\ text[n] = "LF"
        <5>1. (n - 1) + 1 = n
          BY <1>1
        <5> QED BY <1>1, <5>1 DEF Pair
      <4> QED BY <2>2, <4>1
    <3>2. hs \in Nat /\ hs <= n - 5 /\ n \in Nat
      BY <1>1, <2>1
    <3> QED BY <3>1, <3>2
  <2> HIDE DEF hl
  <2>4. /\ he \in Nat /\ he >= hl /\ he <= n - 2
        /\ \A k \in hl..he - 1 : ~At(text, CRLF, k)
    <3>1. \/ /\ he = NPos
             /\ \A k \in hl..n - Len(CRLF) : ~At(text, CRLF, k)
          \/ /\ he \in hl..n - Len(CRLF) /\ he \in Nat
             /\ \A k \in hl..he - 1 : ~At(text, CRLF, k)
      BY <1>1, <2>3, BreakWordIs, FindIs DEF n
    <3>2. At(text, CRLF, n - 2)
      <4>1. n - 2 \in Nat /\ (n - 2) + 1 = n - 1
        BY <1>1
      <4> QED BY <1>1, <4>1, BreakAt
    <3>3. n - 2 \in hl..n - Len(CRLF) /\ n - Len(CRLF) = n - 2
      BY <1>1, <2>3, BreakWordIs
    <3> QED BY <2>3, <3>1, <3>2, <3>3
  <2>10. ~(he <= hc)
    BY <1>5
  <2> HIDE DEF he
  <2>5. hc \in Nat /\ hl <= hc /\ hc < he
    <3>1. hc = NPos \/ (hc \in Nat /\ hl <= hc /\ hc < n)
      BY <1>1, <2>3, FindNotIs DEF n
    <3> HIDE DEF hc
    <3>2. hc \in Nat /\ hc < he
      BY <1>1, <2>10, <2>4, <3>1
    <3>3. hc # NPos
      BY <1>1, <2>4, <3>2
    <3> QED BY <3>1, <3>2, <3>3
  <2> HIDE DEF hc
  <2> DEFINE m == he - hc
  <2>6. /\ m \in Nat /\ hc + m = he /\ hc + m <= n /\ m # NPos
    BY <1>1, <2>3, <2>4, <2>5
  <2> HIDE DEF m
  <2>7. /\ told \in Seq(Byte) /\ Len(told) = m
        /\ \A k \in 1..m : told[k] = text[hc + k]
    <3>1. hc + m <= Len(text)
      BY <2>6 DEF n
    <3> QED BY <1>1, <2>5, <2>6, <3>1, SubstrIs DEF m
  <2> HIDE DEF told
  <2>8. Unbroken(told)
    <3> SUFFICES ASSUME NEW i \in 1..m - 1, Pair(told, i) PROVE FALSE
      BY <2>7 DEF Unbroken
    <3>1. /\ i \in 1..m /\ i + 1 \in 1..m /\ hc + (i + 1) = (hc + i) + 1
          /\ (hc + i) - 1 \in hl..he - 1 /\ (hc + i) - 1 \in Nat
          /\ ((hc + i) - 1) + 1 = hc + i
      BY <2>3, <2>4, <2>5, <2>6
    <3>2. Pair(text, hc + i)
      BY <2>7, <3>1 DEF Pair
    <3>3. At(text, CRLF, (hc + i) - 1)
      BY <3>1, <3>2, BreakAt
    <3> QED BY <2>4, <3>1, <3>3
  <2>9. ParseHeader(0, text, name) = told
    BY <1>3, <1>5 DEF told
  <2> QED BY <2>7, <2>8, <2>9
<1> QED BY <1>4, <1>5

(***************************************************************************)
(* The fields of a head, and what they say, as a remote end finds them.    *)
(***************************************************************************)
LEMMA FieldWordIs ==
  ASSUME NEW name \in Name
  PROVE  LET w == CRLF \o <<name, ":", " ">>
         IN /\ w \in Seq(Byte) /\ Len(w) = 5
            /\ w[1] = "CR" /\ w[2] = "LF" /\ w[3] = name /\ w[4] = ":" /\ w[5] = " "
<1> DEFINE b == <<name, ":", " ">>
           w == CRLF \o b
<1>1. name \in Byte /\ ":" \in Byte /\ " " \in Byte
  BY ByteAssumption, WordsAssumption DEF Name
<1>2. \A x, y, z \in Byte : /\ <<x, y, z>> \in Seq(Byte) /\ Len(<<x, y, z>>) = 3
                            /\ <<x, y, z>>[1] = x /\ <<x, y, z>>[2] = y
                            /\ <<x, y, z>>[3] = z
  OBVIOUS
<1>3. /\ b \in Seq(Byte) /\ Len(b) = 3
      /\ b[1] = name /\ b[2] = ":" /\ b[3] = " "
  BY <1>1, <1>2, Zenon
<1> HIDE DEF b
<1>4. /\ w \in Seq(Byte) /\ Len(w) = Len(b) + 2
      /\ w[1] = "CR" /\ w[2] = "LF"
      /\ \A k \in 1..Len(b) : w[2 + k] = b[k]
  BY <1>3, OpenIs
<1> HIDE DEF w
<1>5. /\ 1 \in 1..3 /\ 2 \in 1..3 /\ 3 \in 1..3
      /\ 2 + 1 = 3 /\ 2 + 2 = 4 /\ 2 + 3 = 5 /\ 3 + 2 = 5
  OBVIOUS
<1>6. w[2 + 1] = b[1] /\ w[2 + 2] = b[2] /\ w[2 + 3] = b[3]
  BY <1>3, <1>4, <1>5
<1>7. w[3] = name /\ w[4] = ":" /\ w[5] = " "
  BY <1>3, <1>5, <1>6
<1>8. Len(w) = 5
  BY <1>3, <1>4, <1>5
<1> QED BY <1>4, <1>7, <1>8 DEF w, b

LEMMA FieldsAtIs ==
  ASSUME NEW h \in Seq(Byte), NEW name \in Name
  PROVE  FieldsAt(h, name) = {i \in Nat : FieldHere(h, name, i)}
<1> DEFINE w == CRLF \o <<name, ":", " ">>
           S == {i \in 0..Len(h) - 1 : Starts(From(h, i), w)}
<1>1. /\ w \in Seq(Byte) /\ Len(w) = 5
      /\ w[1] = "CR" /\ w[2] = "LF" /\ w[3] = name /\ w[4] = ":" /\ w[5] = " "
  BY FieldWordIs
<1>2. FieldsAt(h, name) = S
  BY DEF FieldsAt
<1>3. Len(h) \in Nat
  BY LenProperties
<1> HIDE DEF w
<1>4. ASSUME NEW i \in Nat, i <= Len(h)
      PROVE  Starts(From(h, i), w) <=> FieldHere(h, name, i)
  <2> DEFINE f == From(h, i)
  <2>1. /\ f \in Seq(Byte) /\ Len(f) = Len(h) - i
        /\ \A k \in 1..Len(f) : f[k] = h[i + k]
    BY <1>4, FromIs
  <2> HIDE DEF f
  <2>2. Starts(f, w) <=> 5 <= Len(f) /\ \A k \in 1..5 : f[0 + k] = w[k]
    BY <1>1, <2>1, StartsIs DEF At
  <2>3. 5 <= Len(f) <=> i + 5 <= Len(h)
    BY <1>3, <2>1
  <2>4. ASSUME 5 <= Len(f)
        PROVE  (\A k \in 1..5 : f[0 + k] = w[k]) <=>
                 /\ h[i + 1] = "CR" /\ h[i + 2] = "LF" /\ h[i + 3] = name
                 /\ h[i + 4] = ":" /\ h[i + 5] = " "
    <3>1. \A k \in 1..5 : k \in 1..Len(f) /\ 0 + k = k
      BY <1>3, <2>1, <2>4
    <3>2. \A k \in 1..5 : f[0 + k] = h[i + k]
      BY <2>1, <3>1
    <3>3. \A k \in 1..5 : k = 1 \/ k = 2 \/ k = 3 \/ k = 4 \/ k = 5
      OBVIOUS
    <3>4. (\A k \in 1..5 : f[0 + k] = w[k]) <=>
            /\ h[i + 1] = w[1] /\ h[i + 2] = w[2] /\ h[i + 3] = w[3]
            /\ h[i + 4] = w[4] /\ h[i + 5] = w[5]
      BY <3>2, <3>3
    <3> QED BY <1>1, <3>4
  <2>5. (i + 1) + 1 = i + 2
    OBVIOUS
  <2> QED BY <2>2, <2>3, <2>4, <2>5 DEF FieldHere, Pair, f
<1>5. ASSUME NEW i \in Nat, FieldHere(h, name, i) PROVE i \in 0..Len(h) - 1
  <2>1. i + 5 <= Len(h)
    BY <1>5 DEF FieldHere
  <2> QED BY <1>3, <2>1
<1>6. \A i \in 0..Len(h) - 1 : i \in Nat /\ i <= Len(h)
  BY <1>3
<1>7. S = {i \in Nat : FieldHere(h, name, i)}
  BY <1>4, <1>5, <1>6
<1> QED BY <1>2, <1>7

LEMMA ValueIs ==
  ASSUME NEW h \in Seq(Byte), NEW name \in Name, NEW i \in Nat, NEW v,
         FieldHere(h, name, i), Holds(h, i, v)
  PROVE  Value(h, i) = v
<1> DEFINE n == Len(v)
           l == Len(h)
           j == Find(h, CRLF, i + 2)
           e == (i + 5) + n
<1>1. /\ v \in Seq(Byte) /\ n \in Nat /\ n < NPos /\ (i + 7) + n <= l
      /\ \A k \in 1..n : h[(i + 5) + k] = v[k]
      /\ Pair(h, (i + 6) + n)
      /\ \A k \in i + 6..(i + 5) + n : ~Pair(h, k)
  BY LenProperties DEF Holds
<1>2. /\ h[i + 3] = name /\ h[i + 4] = ":" /\ h[i + 5] = " "
  BY DEF FieldHere
<1>3. l \in Nat /\ NPos \in Nat /\ CRLF \in Seq(Byte) /\ Len(CRLF) = 2 /\ Len(CRLF) # NPos
  BY BreakWordIs, LenProperties, SizeAssumption DEF NPos
<1>4. \/ /\ j = NPos
         /\ \A k \in i + 2..l - 2 : ~At(h, CRLF, k)
      \/ /\ j \in i + 2..l - 2 /\ j \in Nat /\ At(h, CRLF, j)
         /\ \A k \in i + 2..j - 1 : ~At(h, CRLF, k)
  <2>1. i + 2 \in Nat
    OBVIOUS
  <2>2. \/ /\ j = NPos
           /\ \A k \in i + 2..l - Len(CRLF) : ~At(h, CRLF, k)
        \/ /\ j \in i + 2..l - Len(CRLF) /\ j \in Nat /\ At(h, CRLF, j)
           /\ \A k \in i + 2..j - 1 : ~At(h, CRLF, k)
    BY <1>3, <2>1, FindIs
  <2> HIDE DEF j, l
  <2> QED BY <1>3, <2>2, Zenon
<1> HIDE DEF n, l, j
<1>5. e \in Nat /\ e \in i + 2..l - 2 /\ e + 1 = (i + 6) + n
  BY <1>1, <1>3
<1>6. At(h, CRLF, e)
  BY <1>1, <1>5, BreakAt
<1>7. ASSUME NEW k \in i + 2..e - 1 PROVE ~At(h, CRLF, k)
  <2>1. k \in Nat /\ (k + 1 = i + 3 \/ k + 1 = i + 4 \/ k + 1 = i + 5
                      \/ k + 1 \in i + 6..(i + 5) + n)
    BY <1>1
  <2>2. ~Pair(h, k + 1)
    BY <1>1, <1>2, <2>1 DEF Pair, Name
  <2> QED BY <2>1, <2>2, BreakAt
<1>8. j = e
  <2>1. /\ j \in i + 2..l - 2 /\ j \in Nat /\ At(h, CRLF, j)
        /\ \A k \in i + 2..j - 1 : ~At(h, CRLF, k)
    BY <1>4, <1>5, <1>6
  <2>2. ~(j < e)
    <3>1. j < e => j \in i + 2..e - 1
      BY <1>5, <2>1
    <3> QED BY <1>7, <2>1, <3>1
  <2>3. ~(e < j)
    <3>1. e < j => e \in i + 2..j - 1
      BY <1>5, <2>1
    <3> QED BY <1>6, <2>1, <3>1
  <2> QED BY <1>5, <2>1, <2>2, <2>3
<1>9. Value(h, i) = Substr(h, i + 5, n)
  <2>1. j - (i + 5) = n
    BY <1>1, <1>8
  <2> QED BY <2>1 DEF Value, j
<1>10. /\ Substr(h, i + 5, n) \in Seq(Byte) /\ Len(Substr(h, i + 5, n)) = n
       /\ \A k \in 1..n : Substr(h, i + 5, n)[k] = h[(i + 5) + k]
  <2>1. i + 5 \in Nat /\ (i + 5) + n <= Len(h) /\ n # NPos
    BY <1>1, <1>3 DEF l
  <2> QED BY <1>1, <2>1, SubstrIs
<1>11. \A k \in 1..n : Substr(h, i + 5, n)[k] = v[k]
  BY <1>1, <1>10
<1>12. Substr(h, i + 5, n) = v
  BY <1>1, <1>10, <1>11, SeqEqual DEF n
<1> QED BY <1>9, <1>12

LEMMA SingleSays ==
  ASSUME NEW h \in Seq(Byte), NEW name \in Name, NEW v, Single(h, name, v)
  PROVE  Cardinality(FieldsAt(h, name)) = 1 /\ Only(h, name) = v
<1>1. PICK i \in Nat : /\ FieldHere(h, name, i) /\ Holds(h, i, v)
                       /\ \A j \in Nat : FieldHere(h, name, j) => j = i
  BY DEF Single
<1>2. FieldsAt(h, name) = {i}
  <2>1. FieldsAt(h, name) = {j \in Nat : FieldHere(h, name, j)}
    BY FieldsAtIs
  <2> QED BY <1>1, <2>1
<1>3. Cardinality({i}) = 1
  BY FS_Singleton
<1>4. Min({i}) = i
  BY <1>1 DEF Min
<1>5. Value(h, i) = v
  BY <1>1, ValueIs
<1> QED BY <1>2, <1>3, <1>4, <1>5 DEF Only

LEMMA CarriesSays ==
  ASSUME NEW h \in Seq(Byte), NEW name \in Name, NEW v, Carries(h, name, v), Has(h, name)
  PROVE  /\ FieldsAt(h, name) # {}
         /\ \A i \in FieldsAt(h, name) : Value(h, i) = v
<1>1. FieldsAt(h, name) = {i \in Nat : FieldHere(h, name, i)}
  BY FieldsAtIs
<1>2. FieldsAt(h, name) # {}
  BY <1>1 DEF Has
<1>3. ASSUME NEW i \in FieldsAt(h, name) PROVE Value(h, i) = v
  <2>1. i \in Nat /\ FieldHere(h, name, i)
    BY <1>1
  <2>2. Holds(h, i, v)
    BY <2>1 DEF Carries
  <2> QED BY <2>1, <2>2, ValueIs
<1> QED BY <1>2, <1>3

LEMMA SilentSays ==
  ASSUME NEW h \in Seq(Byte), NEW name \in Name, FieldsAt(h, name) = {}
  PROVE  Silent(h, name)
BY FieldsAtIs DEF Silent

(***************************************************************************)
(* The start and the end of a head, as a remote end finds them.            *)
(***************************************************************************)
LEMMA FrameSays ==
  ASSUME NEW h, Begins(h), Ended(h)
  PROVE  Starts(h, <<"HTTP/1.1", " ">>) /\ Find(h, CRLF \o CRLF, 0) = Len(h) - 4
<1> DEFINE l == Len(h)
           j == Find(h, BreakWord, 0)
<1>1. /\ h \in Seq(Byte) /\ l \in Nat /\ l >= 4 /\ Pair(h, l - 3) /\ Pair(h, l - 1)
      /\ \A i \in 1..l - 4 : ~(Pair(h, i) /\ Pair(h, i + 2))
  BY LenProperties DEF Ended
<1>2. "HTTP/1.1" \in Byte /\ " " \in Byte
  BY WordsAssumption, ByteAssumption
<1>3. Starts(h, <<"HTTP/1.1", " ">>)
  <2>1. \A a, b \in Byte :
          Starts(h, <<a, b>>) <=> Len(h) >= 2 /\ h[1] = a /\ h[2] = b
    BY <1>1, StartsWith
  <2> QED BY <1>2, <2>1, Zenon DEF Begins
<1>4. BreakWord \in Seq(Byte) /\ Len(BreakWord) = 4 /\ Len(BreakWord) # NPos
  BY BreakWordIs
<1>5. \/ /\ j = NPos
         /\ \A k \in 0..l - 4 : ~At(h, BreakWord, k)
      \/ /\ j \in 0..l - 4 /\ j \in Nat /\ At(h, BreakWord, j)
         /\ \A k \in 0..j - 1 : ~At(h, BreakWord, k)
  BY <1>1, <1>4, FindIs
<1> HIDE DEF l, j
<1>6. At(h, BreakWord, l - 4)
  <2>1. l - 4 \in Nat /\ (l - 4) + 1 = l - 3 /\ (l - 4) + 3 = l - 1
    BY <1>1
  <2> QED BY <1>1, <2>1, DoubleAt
<1>7. j \in 0..l - 4 /\ j \in Nat /\ At(h, BreakWord, j)
  <2>1. l - 4 \in 0..l - 4
    BY <1>1
  <2> QED BY <1>5, <1>6, <2>1
<1>8. j = l - 4
  <2>1. Pair(h, j + 1) /\ Pair(h, (j + 1) + 2)
    <3>1. j + 3 = (j + 1) + 2
      BY <1>7
    <3> QED BY <1>7, <3>1, DoubleAt
  <2>2. ~(j + 1 \in 1..l - 4)
    BY <1>1, <2>1
  <2> QED BY <1>1, <1>7, <2>2
<1> QED BY <1>3, <1>8 DEF j, l, BreakWord

-----------------------------------------------------------------------------
(* The responses of Process().                                             *)

(***************************************************************************)
(* The words and numbers that fields consist of.                           *)
(***************************************************************************)
LEMMA OneWord ==
  ASSUME NEW b \in Byte
  PROVE  <<b>> \in Seq(Byte) /\ Len(<<b>>) = 1 /\ Unbroken(<<b>>)
<1> DEFINE w == <<b>>
<1>1. w \in Seq(Byte) /\ Len(w) = 1
  OBVIOUS
<1> HIDE DEF w
<1>2. 1..1 - 1 = {}
  OBVIOUS
<1>3. Unbroken(w)
  BY <1>1, <1>2 DEF Unbroken
<1> QED BY <1>1, <1>3 DEF w

LEMMA NumberIs ==
  ASSUME NEW n \in (0..SizeModulus - 1) \cup Statuses
  PROVE  Number(n) \in Seq(Byte) /\ Len(Number(n)) = 1 /\ Unbroken(Number(n))
<1>1. ToString(n) \in Byte
  BY NumberAssumption
<1> QED BY <1>1, OneWord DEF Number

LEMMA PersistenceIs ==
  ASSUME NEW keep
  PROVE  /\ Persistence(keep) \in Seq(Byte) /\ Len(Persistence(keep)) = 1
         /\ Unbroken(Persistence(keep))
<1>1. "keep-alive" \in Byte /\ "close" \in Byte
  BY WordsAssumption
<1> QED BY <1>1, OneWord DEF Persistence

LEMMA NamesAre ==
  {"Connection", "Content-Type", "Content-Length", "Last-Modified", "Allow",
   "Location", "Status"} \subseteq Name
BY WordsAssumption DEF Name

(***************************************************************************)
(* A field that is shorter than the buffer is not cut.                     *)
(***************************************************************************)
LEMMA FormatHeaderIs ==
  ASSUME NEW f \in Seq(Byte), Len(f) < BufferSize, NEW b, NEW name
  PROVE  FormatHeader(b, name, f) = AddHeader(b, name, f)
<1> DEFINE n == BufferSize - 1
<1>1. Len(f) \in Nat /\ BufferSize \in Nat
  BY LenProperties, BufferAssumption
<1>2. (IF n = NPos \/ 0 + n > Len(f) THEN Len(f) ELSE 0 + n) = Len(f)
  BY <1>1
<1>3. Substr(f, 0, n) = SubSeq(f, 1, Len(f))
  <2>1. 0 + 1 = 1
    OBVIOUS
  <2>2. Substr(f, 0, n) =
          SubSeq(f, 0 + 1, IF n = NPos \/ 0 + n > Len(f) THEN Len(f) ELSE 0 + n)
    BY DEF Substr
  <2> HIDE DEF n
  <2> QED BY <1>2, <2>1, <2>2
<1>4. Substr(f, 0, n) = f
  BY <1>3, SubSeqFull
<1> QED BY <1>4 DEF FormatHeader

(***************************************************************************)
(* No header lines yet.                                                    *)
(***************************************************************************)
LEMMA NoneCollected ==
  Collected(<< >>) /\ \A n : Silent(Open(<< >>), n)
<1>1. CRLF \in Seq(Byte) /\ Len(CRLF) = 2 /\ CRLF[1] = "CR" /\ CRLF[2] = "LF"
  BY BreakWordIs DEF CRLF
<1>2. Open(<< >>) = CRLF
  BY <1>1, ConcatEmptySeq DEF Open
<1>3. 2 - 1 = 1 /\ 1 + 1 = 2 /\ 1..2 - 3 = {}
  OBVIOUS
<1>4. Block(CRLF)
  BY <1>1, <1>3 DEF Block, Pair
<1>5. ASSUME NEW n, NEW i \in Nat, FieldHere(CRLF, n, i) PROVE FALSE
  <2>1. i + 5 <= 2
    BY <1>1, <1>5 DEF FieldHere
  <2> QED BY <2>1
<1>6. << >> \in Seq(Byte)
  OBVIOUS
<1> QED BY <1>2, <1>4, <1>5, <1>6 DEF Collected, Silent

\* Header lines that say nothing wrong of the connection, nor yet of a length.
Ready(b, keep) ==
  /\ Collected(b) /\ Silent(Open(b), "Content-Length")
  /\ Carries(Open(b), "Connection", Persistence(keep))

\* A response whose end the remote end finds, and that agrees on the connection.
Framed(r, method) ==
  /\ r.head \in Seq(Byte) /\ Begins(r.head) /\ Ended(r.head)
  /\ Has(r.head, "Connection")
  /\ Carries(r.head, "Connection", Persistence(r.keep))
  /\ (r.keep /\ r.status # 304) =>
       \E v : /\ Single(r.head, "Content-Length", v)
              /\ method # "HEAD" => v = Number(r.body)

(***************************************************************************)
(* Collected lines and another one.                                        *)
(***************************************************************************)
LEMMA ReadyKept ==
  ASSUME NEW b, NEW keep, Ready(b, keep), NEW f \in Seq(Byte), Unbroken(f),
         Len(f) + 5 < BufferSize
  PROVE  /\ \A n \in Name \ {"Content-Length", "Connection"} :
              /\ Ready(AddHeader(b, n, f), keep)
              /\ Has(Open(b), "Connection") => Has(Open(AddHeader(b, n, f)), "Connection")
         /\ f = Persistence(keep) =>
              /\ Ready(AddHeader(b, "Connection", f), keep)
              /\ Has(Open(AddHeader(b, "Connection", f)), "Connection")
         /\ LET a == AddHeader(b, "Content-Length", f)
            IN /\ Collected(a) /\ Single(Open(a), "Content-Length", f)
               /\ Carries(Open(a), "Connection", Persistence(keep))
               /\ Has(Open(b), "Connection") => Has(Open(a), "Connection")
<1>1. /\ Collected(b) /\ Silent(Open(b), "Content-Length")
      /\ Carries(Open(b), "Connection", Persistence(keep))
  BY DEF Ready
<1>2. "Connection" \in Name /\ "Content-Length" \in Name /\ "Connection" # "Content-Length"
  BY NamesAre
<1>3. \A name \in Name :
        LET a == Open(AddHeader(b, name, f))
        IN /\ Collected(AddHeader(b, name, f))
           /\ Has(a, name)
           /\ Silent(Open(b), name) => Single(a, name, f)
           /\ Carries(Open(b), name, f) => Carries(a, name, f)
           /\ \A n \in Name : n # name =>
                /\ Silent(Open(b), n) => Silent(a, n)
                /\ Has(Open(b), n) => Has(a, n)
                /\ \A v : /\ Carries(Open(b), n, v) => Carries(a, n, v)
                          /\ Single(Open(b), n, v) => Single(a, n, v)
  BY <1>1, AddHeaderIs
<1>4. ASSUME NEW n \in Name \ {"Content-Length", "Connection"}
      PROVE  /\ Ready(AddHeader(b, n, f), keep)
             /\ Has(Open(b), "Connection") => Has(Open(AddHeader(b, n, f)), "Connection")
  <2>1. n \in Name /\ "Content-Length" # n /\ "Connection" # n
    BY <1>4
  <2> QED BY <1>1, <1>2, <1>3, <2>1, Zenon DEF Ready
<1>5. ASSUME f = Persistence(keep)
      PROVE  /\ Ready(AddHeader(b, "Connection", f), keep)
             /\ Has(Open(AddHeader(b, "Connection", f)), "Connection")
  BY <1>1, <1>2, <1>3, <1>5, Zenon DEF Ready
<1>6. LET a == AddHeader(b, "Content-Length", f)
      IN /\ Collected(a) /\ Single(Open(a), "Content-Length", f)
         /\ Carries(Open(a), "Connection", Persistence(keep))
         /\ Has(Open(b), "Connection") => Has(Open(a), "Connection")
  BY <1>1, <1>2, <1>3, Zenon
<1> QED BY <1>4, <1>5, <1>6

(***************************************************************************)
(* The head that Generate() makes of such lines.                           *)
(***************************************************************************)
LEMMA HeadIs ==
  ASSUME NEW b, Collected(b), Has(Open(b), "Connection"), NEW keep,
         Carries(Open(b), "Connection", Persistence(keep)), NEW status \in Statuses
  PROVE  LET h == Generate(b, Number(status), TRUE)
         IN /\ h \in Seq(Byte) /\ Begins(h) /\ Ended(h)
            /\ Has(h, "Connection") /\ Carries(h, "Connection", Persistence(keep))
            /\ \A v : Single(Open(b), "Content-Length", v) => Single(h, "Content-Length", v)
<1> DEFINE g == Generate(b, Number(status), FALSE)
           h == Generate(b, Number(status), TRUE)
<1>1. /\ Number(status) \in Seq(Byte) /\ Unbroken(Number(status))
      /\ Len(Number(status)) + 7 < BufferSize
  <2>1. Number(status) \in Seq(Byte) /\ Unbroken(Number(status)) /\ Len(Number(status)) = 1
    BY NumberIs
  <2> QED BY <2>1, BufferAssumption
<1>2. Block(g) /\ Begins(g) /\ Keeps(Open(b), g) /\ h = g \o CRLF
  BY <1>1, GenerateIs
<1> HIDE DEF g, h
<1>3. Begins(h) /\ Keeps(g, h) /\ Ended(h)
  BY <1>2, EndIs
<1>4. "Connection" \in Name /\ "Content-Length" \in Name
  BY NamesAre
<1>5. Has(h, "Connection") /\ Carries(h, "Connection", Persistence(keep))
  BY <1>2, <1>3, <1>4, Zenon DEF Keeps
<1>6. \A v : Single(Open(b), "Content-Length", v) => Single(h, "Content-Length", v)
  BY <1>2, <1>3, <1>4, Zenon DEF Keeps
<1>7. h \in Seq(Byte)
  BY <1>3 DEF Ended
<1> QED BY <1>3, <1>5, <1>6, <1>7 DEF h

(***************************************************************************)
(* A page of an error is shorter than the buffer (pagegen.cpp:59-65).      *)
(***************************************************************************)
LEMMA ErrorPageIs ==
  ASSUME NEW status \in Statuses
  PROVE  Len(ErrorPage(status)) = 5
<1> DEFINE s == ToString(status)
           T == {"<title>", "<h1>", "name", s}
           p == ((((<<"<title>">> \o <<s>>) \o <<"<h1>">>) \o <<s>>) \o <<"name">>)
<1>1. ASSUME NEW a, NEW b, NEW c, NEW d, NEW e
      PROVE  Len((((<<a>> \o <<b>>) \o <<c>>) \o <<d>>) \o <<e>>) = 5
  <2> DEFINE S == {a, b, c, d, e}
  <2>1. /\ <<a>> \in Seq(S) /\ <<b>> \in Seq(S) /\ <<c>> \in Seq(S)
        /\ <<d>> \in Seq(S) /\ <<e>> \in Seq(S)
        /\ Len(<<a>>) = 1 /\ Len(<<b>>) = 1 /\ Len(<<c>>) = 1
        /\ Len(<<d>>) = 1 /\ Len(<<e>>) = 1
    OBVIOUS
  <2> HIDE DEF S
  <2>2. <<a>> \o <<b>> \in Seq(S) /\ Len(<<a>> \o <<b>>) = 2
    BY <2>1, ConcatProperties
  <2> DEFINE x == <<a>> \o <<b>>
  <2> HIDE DEF x
  <2>3. x \o <<c>> \in Seq(S) /\ Len(x \o <<c>>) = 3
    BY <2>1, <2>2, ConcatProperties DEF x
  <2> DEFINE y == x \o <<c>>
  <2> HIDE DEF y
  <2>4. y \o <<d>> \in Seq(S) /\ Len(y \o <<d>>) = 4
    BY <2>1, <2>3, ConcatProperties DEF y
  <2> DEFINE z == y \o <<d>>
  <2> HIDE DEF z
  <2>5. Len(z \o <<e>>) = 5
    BY <2>1, <2>4, ConcatProperties DEF z
  <2> QED BY <2>5 DEF x, y, z
<1>2. Len(p) = 5
  BY <1>1
<1>3. ErrorPage(status) = Printed(p)
  BY DEF ErrorPage, Number
<1> HIDE DEF p
<1>4. Printed(p) = p
  BY <1>2, BufferAssumption DEF Printed
<1> QED BY <1>2, <1>3, <1>4

(***************************************************************************)
(* The catch block: the response of a request that is refused.             *)
(***************************************************************************)
LEMMA RefuseIs ==
  ASSUME NEW b, NEW keep, Ready(b, keep), NEW status \in Statuses, NEW q
  PROVE  LET r == Refuse(b, status, q, keep)
         IN Framed(r, q.method) /\ r.keep = keep
<1> DEFINE page == IF status >= 400 THEN ErrorPage(status) ELSE << >>
           b1 == AddHeader(b, "Content-Type", <<"text/html">>)
           big == FormatHeader(b1, "Content-Length", Number(Len(page)))
           small == AddHeader(b, "Content-Length", <<"0">>)
           typed == IF status >= 400 THEN big ELSE small
           b2 == AddHeader(typed, "Connection", Persistence(keep))
           head == Generate(b2, Number(status), TRUE)
           body == IF q.method = "HEAD" THEN 0 ELSE Len(page)
           r == Refuse(b, status, q, keep)
           n == Len(page)
<1>1. r = Reply(status, head, body, keep)
  BY DEF Refuse
<1>2. r.status = status /\ r.head = head /\ r.body = body /\ r.keep = keep
  BY <1>1 DEF Reply
<1>3. n \in 0..SizeModulus - 1 /\ (~(status >= 400) => n = 0)
  <2>1. CASE status >= 400
    <3>1. n = 5
      BY <2>1, ErrorPageIs
    <3> HIDE DEF n
    <3> QED BY <2>1, <3>1, SizeAssumption
  <2>2. CASE ~(status >= 400)
    <3>1. n = 0
      BY <2>2
    <3> HIDE DEF n
    <3> QED BY <2>2, <3>1, SizeAssumption
  <2> QED BY <2>1, <2>2
<1> HIDE DEF page, n
<1>4. /\ Collected(typed) /\ Carries(Open(typed), "Connection", Persistence(keep))
      /\ Single(Open(typed), "Content-Length", Number(n))
  <2>1. CASE status >= 400
    <3>1. /\ <<"text/html">> \in Seq(Byte) /\ Len(<<"text/html">>) = 1
          /\ Unbroken(<<"text/html">>)
      BY OneWord, WordsAssumption
    <3>2. "Content-Type" \in Name \ {"Content-Length", "Connection"}
      BY NamesAre
    <3>3. Len(<<"text/html">>) + 5 < BufferSize
      BY <3>1, BufferAssumption
    <3>4. Ready(b1, keep)
      BY <3>1, <3>2, <3>3, ReadyKept
    <3> HIDE DEF b1
    <3>5. Number(n) \in Seq(Byte) /\ Len(Number(n)) = 1 /\ Unbroken(Number(n))
      BY <1>3, NumberIs
    <3>6. Len(Number(n)) < BufferSize /\ Len(Number(n)) + 5 < BufferSize
      BY <3>5, BufferAssumption
    <3>7. big = AddHeader(b1, "Content-Length", Number(n))
      BY <3>5, <3>6, FormatHeaderIs DEF n
    <3>8. typed = big
      BY <2>1
    <3> HIDE DEF typed, big
    <3> QED BY <3>4, <3>5, <3>6, <3>7, <3>8, ReadyKept
  <2>2. CASE ~(status >= 400)
    <3>1. n = 0 /\ Number(0) = <<"0">>
      BY <1>3, <2>2, NumberAssumption DEF Number
    <3>2. Number(n) \in Seq(Byte) /\ Len(Number(n)) = 1 /\ Unbroken(Number(n))
      BY <1>3, NumberIs
    <3>3. Len(Number(n)) + 5 < BufferSize
      BY <3>2, BufferAssumption
    <3>4. typed = AddHeader(b, "Content-Length", Number(n))
      BY <2>2, <3>1
    <3> HIDE DEF typed
    <3> QED BY <3>2, <3>3, <3>4, ReadyKept
  <2> QED BY <2>1, <2>2
<1> HIDE DEF typed
<1>5. /\ Collected(b2) /\ Has(Open(b2), "Connection")
      /\ Carries(Open(b2), "Connection", Persistence(keep))
      /\ Single(Open(b2), "Content-Length", Number(n))
  <2>1. /\ Persistence(keep) \in Seq(Byte) /\ Len(Persistence(keep)) = 1
        /\ Unbroken(Persistence(keep))
    BY PersistenceIs
  <2>2. Len(Persistence(keep)) + 5 < BufferSize
    BY <2>1, BufferAssumption
  <2>3. "Connection" \in Name /\ "Content-Length" \in Name /\ "Connection" # "Content-Length"
    BY NamesAre
  <2>4. LET a == Open(b2)
        IN /\ Collected(b2) /\ Has(a, "Connection")
           /\ Carries(Open(typed), "Connection", Persistence(keep)) =>
                Carries(a, "Connection", Persistence(keep))
           /\ \A m \in Name : m # "Connection" =>
                \A v : Single(Open(typed), m, v) => Single(a, m, v)
    BY <1>4, <2>1, <2>2, <2>3, AddHeaderIs
  <2> HIDE DEF b2
  <2> QED BY <1>4, <2>3, <2>4, Zenon
<1> HIDE DEF b2
<1>6. /\ head \in Seq(Byte) /\ Begins(head) /\ Ended(head) /\ Has(head, "Connection")
      /\ Carries(head, "Connection", Persistence(keep))
      /\ Single(head, "Content-Length", Number(n))
  BY <1>5, HeadIs
<1>7. q.method # "HEAD" => Number(n) = Number(body)
  BY DEF n
<1> HIDE DEF head, body, r
<1>8. q.method # "HEAD" => Number(n) = Number(r.body)
  BY <1>2, <1>7
<1>9. Framed(r, q.method)
  BY <1>2, <1>6, <1>8 DEF Framed
<1> QED BY <1>2, <1>9 DEF r

(***************************************************************************)
(* The lines of a head with its type and the length of what follows.       *)
(***************************************************************************)
LEMMA TypedIs ==
  ASSUME NEW b, NEW keep, Ready(b, keep), Has(Open(b), "Connection"),
         NEW type \in Byte, NEW n \in 0..SizeModulus - 1
  PROVE  LET t == FormatHeader(AddHeader(b, "Content-Type", <<type>>),
                               "Content-Length", Number(n))
         IN /\ Collected(t) /\ Has(Open(t), "Connection")
            /\ Carries(Open(t), "Connection", Persistence(keep))
            /\ Single(Open(t), "Content-Length", Number(n))
<1> DEFINE b1 == AddHeader(b, "Content-Type", <<type>>)
           t  == FormatHeader(b1, "Content-Length", Number(n))
<1>1. <<type>> \in Seq(Byte) /\ Len(<<type>>) = 1 /\ Unbroken(<<type>>)
  BY OneWord
<1>2. Len(<<type>>) + 5 < BufferSize
  BY <1>1, BufferAssumption
<1>3. "Content-Type" \in Name \ {"Content-Length", "Connection"}
  BY NamesAre
<1>4. Ready(b1, keep) /\ Has(Open(b1), "Connection")
  BY <1>1, <1>2, <1>3, ReadyKept
<1> HIDE DEF b1
<1>5. Number(n) \in Seq(Byte) /\ Len(Number(n)) = 1 /\ Unbroken(Number(n))
  BY NumberIs
<1>6. Len(Number(n)) < BufferSize /\ Len(Number(n)) + 5 < BufferSize
  BY <1>5, BufferAssumption
<1>7. t = AddHeader(b1, "Content-Length", Number(n))
  BY <1>5, <1>6, FormatHeaderIs
<1> HIDE DEF t
<1>8. /\ Collected(t) /\ Has(Open(t), "Connection")
      /\ Carries(Open(t), "Connection", Persistence(keep))
      /\ Single(Open(t), "Content-Length", Number(n))
  BY <1>4, <1>5, <1>6, <1>7, ReadyKept
<1> QED BY <1>8 DEF t, b1

(***************************************************************************)
(* A listing.                                                              *)
(***************************************************************************)
LEMMA SendPageIs ==
  ASSUME NEW b, NEW keep, Ready(b, keep), Has(Open(b), "Connection"),
         NEW page, Len(page) \in 0..SizeModulus - 1, NEW method
  PROVE  LET r == SendPage(b, page, keep)
         IN Framed(r, method) /\ r.keep = keep
<1> DEFINE n == Len(page)
           t == FormatHeader(AddHeader(b, "Content-Type", <<"text/html">>),
                             "Content-Length", Number(n))
           s == 200
           head == Generate(t, Number(s), TRUE)
           r == SendPage(b, page, keep)
<1>1. r.status = s /\ r.head = head /\ r.body = n /\ r.keep = keep
  BY DEF SendPage, Reply
<1>2. "text/html" \in Byte
  BY WordsAssumption
<1>6. s \in Statuses
  BY DEF Statuses
<1> HIDE DEF s
<1>3. /\ Collected(t) /\ Has(Open(t), "Connection")
      /\ Carries(Open(t), "Connection", Persistence(keep))
      /\ Single(Open(t), "Content-Length", Number(n))
  BY <1>2, TypedIs
<1> HIDE DEF t, n, r
<1>4. /\ head \in Seq(Byte) /\ Begins(head) /\ Ended(head) /\ Has(head, "Connection")
      /\ Carries(head, "Connection", Persistence(keep))
      /\ Single(head, "Content-Length", Number(n))
  BY <1>3, <1>6, HeadIs
<1> HIDE DEF head
<1>5. Framed(r, method)
  BY <1>1, <1>4 DEF Framed
<1> QED BY <1>1, <1>5 DEF r

(***************************************************************************)
(* A file.                                                                 *)
(***************************************************************************)
LEMMA SendFileIs ==
  ASSUME NEW b, NEW keep, Ready(b, keep), Has(Open(b), "Connection"), NEW q, NEW c,
         c.st_size \in 0..SizeModulus - 1
  PROVE  LET r == SendFile(b, q, c, keep)
         IN Framed(r, q.method) /\ r.keep = keep
<1> DEFINE n == c.st_size
           t == FormatHeader(AddHeader(b, "Content-Type", <<"type">>),
                             "Content-Length", Number(n))
           a == AddHeader(t, "Last-Modified", <<"then">>)
           s == 200
           head == Generate(a, Number(s), TRUE)
           body == IF q.method = "HEAD" THEN 0 ELSE n
           r == SendFile(b, q, c, keep)
<1>1. r.status = s /\ r.head = head /\ r.body = body /\ r.keep = keep
  BY DEF SendFile, Reply
<1>2. "type" \in Byte /\ "then" \in Byte
  BY WordsAssumption
<1>9. s \in Statuses
  BY DEF Statuses
<1> HIDE DEF s
<1>3. /\ Collected(t) /\ Has(Open(t), "Connection")
      /\ Carries(Open(t), "Connection", Persistence(keep))
      /\ Single(Open(t), "Content-Length", Number(n))
  BY <1>2, TypedIs
<1> HIDE DEF t, n, r
<1>4. /\ Collected(a) /\ Has(Open(a), "Connection")
      /\ Carries(Open(a), "Connection", Persistence(keep))
      /\ Single(Open(a), "Content-Length", Number(n))
  <2>1. <<"then">> \in Seq(Byte) /\ Len(<<"then">>) = 1 /\ Unbroken(<<"then">>)
    BY <1>2, OneWord
  <2>2. Len(<<"then">>) + 5 < BufferSize
    BY <2>1, BufferAssumption
  <2>3. /\ "Last-Modified" \in Name /\ "Connection" \in Name /\ "Content-Length" \in Name
        /\ "Connection" # "Last-Modified" /\ "Content-Length" # "Last-Modified"
    BY NamesAre
  <2>4. LET o == Open(a)
        IN /\ Collected(a)
           /\ \A m \in Name : m # "Last-Modified" =>
                /\ Has(Open(t), m) => Has(o, m)
                /\ \A v : /\ Carries(Open(t), m, v) => Carries(o, m, v)
                          /\ Single(Open(t), m, v) => Single(o, m, v)
    BY <1>3, <2>1, <2>2, <2>3, AddHeaderIs
  <2> HIDE DEF a
  <2> QED BY <1>3, <2>3, <2>4, Zenon
<1> HIDE DEF a
<1>5. /\ head \in Seq(Byte) /\ Begins(head) /\ Ended(head) /\ Has(head, "Connection")
      /\ Carries(head, "Connection", Persistence(keep))
      /\ Single(head, "Content-Length", Number(n))
  BY <1>4, <1>9, HeadIs
<1>6. q.method # "HEAD" => Number(n) = Number(body)
  OBVIOUS
<1> HIDE DEF head, body
<1>7. q.method # "HEAD" => Number(n) = Number(r.body)
  BY <1>1, <1>6
<1>8. Framed(r, q.method)
  BY <1>1, <1>5, <1>7 DEF Framed
<1> QED BY <1>1, <1>8 DEF r

(***************************************************************************)
(* A file that the client has (protocol.cpp:891-894).                      *)
(***************************************************************************)
LEMMA NotModifiedIs ==
  ASSUME NEW b, NEW keep, Ready(b, keep), Has(Open(b), "Connection"), NEW method
  PROVE  Framed(Reply(304, Generate(b, Number(304), TRUE), 0, keep), method)
<1> DEFINE s == 304
           head == Generate(b, Number(s), TRUE)
           r == Reply(s, head, 0, keep)
<1>1. r.status = s /\ r.head = head /\ r.keep = keep
  BY DEF Reply
<1>2. s \in Statuses
  BY DEF Statuses
<1>3. s = 304
  OBVIOUS
<1>4. Collected(b) /\ Carries(Open(b), "Connection", Persistence(keep))
  BY DEF Ready
<1> HIDE DEF s, r
<1>5. /\ head \in Seq(Byte) /\ Begins(head) /\ Ended(head) /\ Has(head, "Connection")
      /\ Carries(head, "Connection", Persistence(keep))
  BY <1>2, <1>4, HeadIs
<1> HIDE DEF head
<1>6. Framed(r, method)
  BY <1>1, <1>3, <1>5 DEF Framed
<1> QED BY <1>6 DEF r, head, s

(***************************************************************************)
(* The output of a script, behind the server's lines (protocol.cpp:374-388)*)
(***************************************************************************)
LEMMA SendOutputIs ==
  ASSUME NEW b, Ready(b, FALSE), Has(Open(b), "Connection"), NEW c, ScriptSound(c),
         NEW method
  PROVE  Framed(SendOutput(b, c.out), method)
<1> DEFINE header == Substr(c.out, 0, FindBreak(c.out).pp)
           told   == ParseHeader(0, CRLF \o header, "Status")
           status == IF told = << >> THEN Number(200) ELSE told
           g == Generate(b, status, FALSE)
           h == g \o header
           r == SendOutput(b, c.out)
<1>1. r.head = h /\ r.keep = FALSE
  BY DEF SendOutput, Reply
<1>2. /\ c.out \in Seq(Byte) /\ Len(c.out) < NPos /\ FindBreak(c.out).found
      /\ ~Starts(c.out, CRLF) /\ Len(told) + 7 < BufferSize
      /\ FieldsAt(CRLF \o header, "Connection") = {}
  BY DEF ScriptSound, ScriptHeader
<1>3. ~Pair(c.out, 1)
  <2>1. "CR" \in Byte /\ "LF" \in Byte
    BY ByteAssumption
  <2>2. \A x, y \in Byte :
          Starts(c.out, <<x, y>>) <=> Len(c.out) >= 2 /\ c.out[1] = x /\ c.out[2] = y
    BY <1>2, StartsWith
  <2>3. Starts(c.out, CRLF) <=> Len(c.out) >= 2 /\ c.out[1] = "CR" /\ c.out[2] = "LF"
    BY <2>1, <2>2, Zenon DEF CRLF
  <2>4. Len(c.out) >= 2
    <3>1. FindBreak(c.out).pp \in 4..Len(c.out)
      BY <1>2, FindBreakIs
    <3> QED BY <1>2, <3>1, LenProperties
  <2>5. 1 + 1 = 2
    OBVIOUS
  <2> QED BY <1>2, <2>3, <2>4, <2>5 DEF Pair
<1>4. header \in Seq(Byte) /\ Ended(CRLF \o header) /\ Len(header) <= Len(c.out)
  BY <1>2, <1>3, HeaderIs
<1> HIDE DEF header
<1>5. CRLF \o header \in Seq(Byte) /\ Len(CRLF \o header) < NPos + 2
  <2>1. CRLF \o header \in Seq(Byte) /\ Len(CRLF \o header) = Len(header) + 2
    BY <1>4, OpenIs
  <2>2. Len(header) \in Nat /\ Len(c.out) \in Nat /\ NPos \in Nat
    BY <1>2, <1>4, LenProperties, SizeAssumption DEF NPos
  <2> QED BY <1>2, <1>4, <2>1, <2>2
<1>6. "Connection" \in Name /\ "Status" \in Name
  BY NamesAre
<1>7. Silent(CRLF \o header, "Connection")
  BY <1>2, <1>5, <1>6, SilentSays
<1>8. told \in Seq(Byte) /\ Unbroken(told)
  BY <1>4, <1>5, <1>6, ToldIs
<1> HIDE DEF told
<1>9. status \in Seq(Byte) /\ Unbroken(status) /\ Len(status) + 7 < BufferSize
  <2> DEFINE n == 200
  <2>1. n \in Statuses
    BY DEF Statuses
  <2> HIDE DEF n
  <2>2. Number(n) \in Seq(Byte) /\ Len(Number(n)) = 1 /\ Unbroken(Number(n))
    BY <2>1, NumberIs
  <2>3. Len(Number(n)) + 7 < BufferSize
    BY <2>2, BufferAssumption
  <2>4. status = Number(n) \/ status = told
    BY DEF n
  <2> HIDE DEF status
  <2> QED BY <1>2, <1>8, <2>2, <2>3, <2>4
<1> HIDE DEF status
<1>10. Collected(b) /\ Carries(Open(b), "Connection", Persistence(FALSE))
  BY DEF Ready
<1>11. Block(g) /\ Begins(g) /\ Keeps(Open(b), g)
  BY <1>9, <1>10, GenerateIs
<1> HIDE DEF g
<1>12. Has(g, "Connection") /\ Carries(g, "Connection", Persistence(FALSE))
  BY <1>6, <1>10, <1>11, Zenon DEF Keeps
<1>13. Ended(h) /\ h \in Seq(Byte) /\ \A k \in 1..Len(g) : h[k] = g[k]
  BY <1>4, <1>11, JoinBlock
<1>14. Has(h, "Connection") /\ Carries(h, "Connection", Persistence(FALSE))
  <2>1. g \in Seq(Byte) /\ Len(g) >= 2 /\ Pair(g, Len(g) - 1)
    BY <1>11 DEF Block
  <2>2. \A v : Carries(CRLF \o header, "Connection", v)
    BY <1>7 DEF Silent, Carries
  <2>3. /\ Has(g, "Connection") \/ Has(CRLF \o header, "Connection") => Has(h, "Connection")
        /\ \A v : /\ Carries(g, "Connection", v) /\ Carries(CRLF \o header, "Connection", v)
                  => Carries(h, "Connection", v)
    BY <1>4, <1>6, <2>1, JoinSays
  <2> HIDE DEF h
  <2> QED BY <1>12, <2>2, <2>3, Zenon
<1> HIDE DEF h, r
<1>15. Begins(h)
  <2>1. 1 \in 1..Len(g) /\ 2 \in 1..Len(g)
    <3>1. Len(g) \in Nat /\ Len(g) >= 2
      BY <1>11, LenProperties DEF Block
    <3> QED BY <3>1
  <2>2. Len(h) >= 2
    BY <1>13 DEF Ended
  <2> QED BY <1>11, <1>13, <2>1, <2>2 DEF Begins
<1>16. Framed(r, method)
  BY <1>1, <1>13, <1>14, <1>15 DEF Framed
<1> QED BY <1>16 DEF r

(***************************************************************************)
(* The bytes of a redirection: a slash is put where the path ends          *)
(* (protocol.cpp:784-786).                                                 *)
(***************************************************************************)
LEMMA LocationBytes ==
  ASSUME NEW uri \in Paths, Len(uri) < NPos
  PROVE  LET q == QueryAt(uri)
             l == Location(uri)
             n == Len(uri)
         IN /\ n \in Nat /\ q \in Nat /\ q \in 1..n
            /\ l \in Paths /\ Len(l) = n + 1
            /\ \A k \in 1..q : l[k] = uri[k]
            /\ l[q + 1] = "/"
            /\ \A k \in q + 1..n : l[k + 1] = uri[k]
<1> DEFINE q == QueryAt(uri)
           a == Substr(uri, 0, q)
           z == <<"/">>
           c == From(uri, q)
           l == Location(uri)
           n == Len(uri)
           d == a \o z
<1>1. uri \in Seq(Byte) /\ n \in Nat /\ q \in 1..n /\ q \in Nat /\ uri[1] = "/"
  BY QueryAtIs, LenProperties DEF Paths
<1> HIDE DEF q
<1>2. n < NPos /\ NPos \in Nat
  BY SizeAssumption DEF NPos
<1> HIDE DEF n
<1>3. /\ a \in Seq(Byte) /\ Len(a) = q
      /\ \A k \in 1..q : a[k] = uri[k]
  <2>1. 0 + q <= Len(uri) /\ q # NPos
    BY <1>1, <1>2 DEF n
  <2>2. /\ a \in Seq(Byte) /\ Len(a) = q
        /\ \A k \in 1..q : a[k] = uri[0 + k]
    BY <1>1, <2>1, SubstrIs
  <2>3. \A k \in 1..q : 0 + k = k
    OBVIOUS
  <2> QED BY <2>2, <2>3
<1>4. /\ c \in Seq(Byte) /\ Len(c) = n - q
      /\ \A k \in 1..Len(c) : c[k] = uri[q + k]
  <2>1. /\ c \in Seq(Byte) /\ Len(c) = IF q <= Len(uri) THEN Len(uri) - q ELSE 0
        /\ \A k \in 1..Len(c) : c[k] = uri[q + k]
    BY <1>1, FromIs
  <2> HIDE DEF c
  <2> QED BY <1>1, <2>1 DEF n
<1>5. d = Slashed(a)
  BY DEF Slashed
<1>6. l = d \o c
  BY DEF Location, q
<1> HIDE DEF a, z, c, l, d
<1>7. /\ d \in Seq(Byte) /\ Len(d) = q + 1 /\ d[q + 1] = "/"
      /\ \A k \in 1..q : d[k] = a[k]
  BY <1>3, <1>5, SlashedIs
<1>8. /\ l \in Seq(Byte) /\ Len(l) = Len(d) + Len(c)
      /\ \A i \in 1..Len(d) + Len(c) :
           l[i] = IF i <= Len(d) THEN d[i] ELSE c[i - Len(d)]
  BY <1>4, <1>6, <1>7, ConcatProperties
<1>9. Len(d) = q + 1 /\ Len(d) + Len(c) = n + 1 /\ Len(l) = n + 1
  BY <1>1, <1>4, <1>7, <1>8
<1>10. ASSUME NEW k \in 1..q PROVE l[k] = uri[k]
  <2>1. k \in 1..n + 1 /\ k <= q + 1
    BY <1>1
  <2> QED BY <1>3, <1>7, <1>8, <1>9, <2>1
<1>11. l[q + 1] = "/"
  <2>1. q + 1 \in 1..n + 1 /\ q + 1 <= q + 1
    BY <1>1
  <2> QED BY <1>7, <1>8, <1>9, <2>1
<1>12. ASSUME NEW k \in q + 1..n PROVE l[k + 1] = uri[k]
  <2>1. k + 1 \in 1..n + 1 /\ ~(k + 1 <= q + 1)
    BY <1>1
  <2>2. (k + 1) - (q + 1) = k - q /\ k - q \in 1..n - q /\ q + (k - q) = k
    BY <1>1
  <2>3. l[k + 1] = c[k - q]
    BY <1>8, <1>9, <2>1, <2>2
  <2> QED BY <1>4, <2>2, <2>3
<1>13. l \in Paths
  <2>1. 1 \in 1..q /\ n + 1 >= 1
    BY <1>1
  <2> QED BY <1>1, <1>8, <1>9, <1>10, <2>1 DEF Paths
<1> QED BY <1>1, <1>9, <1>10, <1>11, <1>12, <1>13 DEF q, l, n

(***************************************************************************)
(* The uri of a redirection is one line and no longer than the buffer.     *)
(***************************************************************************)
LEMMA LocationIs ==
  ASSUME NEW uri \in Paths, Unbroken(uri), Len(uri) + 6 < BufferSize
  PROVE  LET f == Formatted(Location(uri))
         IN f \in Seq(Byte) /\ Unbroken(f) /\ Len(f) + 5 < BufferSize
<1> DEFINE q == QueryAt(uri)
           l == Location(uri)
           n == Len(uri)
<1>1. n \in Nat /\ n + 6 < BufferSize /\ BufferSize \in Nat /\ BufferSize < NPos
  BY LenProperties, BufferAssumption DEF Paths
<1>2. n < NPos
  BY <1>1, SizeAssumption DEF NPos
<1>3. /\ q \in Nat /\ q \in 1..n
      /\ l \in Paths /\ Len(l) = n + 1
      /\ \A k \in 1..q : l[k] = uri[k]
      /\ l[q + 1] = "/"
      /\ \A k \in q + 1..n : l[k + 1] = uri[k]
  BY <1>2, LocationBytes
<1> HIDE DEF q, l
<1>4. Unbroken(l)
  <2> SUFFICES ASSUME NEW i \in 1..n, Pair(l, i) PROVE FALSE
    BY <1>1, <1>3 DEF Unbroken
  <2>1. l[i] = "CR" /\ l[i + 1] = "LF"
    BY DEF Pair
  <2>2. \A j \in 1..n - 1 : ~(uri[j] = "CR" /\ uri[j + 1] = "LF")
    BY DEF Unbroken, Pair
  <2> HIDE DEF n
  <2>3. CASE i < q
    <3>1. i \in 1..q /\ i + 1 \in 1..q /\ i \in 1..n - 1
      BY <1>1, <1>3, <2>3
    <3> QED BY <1>3, <2>1, <2>2, <3>1
  <2>4. CASE i = q
    BY <1>3, <2>1, <2>4
  <2>5. CASE i = q + 1
    BY <1>3, <2>1, <2>5
  <2>6. CASE i > q + 1
    <3>1. i - 1 \in q + 1..n /\ i \in q + 1..n /\ i - 1 \in 1..n - 1 /\ (i - 1) + 1 = i
      BY <1>1, <1>3, <2>6
    <3>2. l[i] = uri[i - 1] /\ l[i + 1] = uri[i]
      BY <1>3, <3>1
    <3> QED BY <2>1, <2>2, <3>1, <3>2
  <2> QED BY <1>3, <2>3, <2>4, <2>5, <2>6
<1>5. CASE Formatted(l) = l
  <2>1. l \in Seq(Byte) /\ Len(l) + 5 < BufferSize
    BY <1>1, <1>3 DEF Paths
  <2> QED BY <1>4, <1>5, <2>1 DEF l
<1>6. CASE Formatted(l) = <<"undefined">>
  <2>1. "undefined" \in Byte
    BY WordsAssumption
  <2>2. /\ <<"undefined">> \in Seq(Byte) /\ Len(<<"undefined">>) = 1
        /\ Unbroken(<<"undefined">>)
    BY <2>1, OneWord
  <2>3. Len(<<"undefined">>) + 5 < BufferSize
    BY <2>2, BufferAssumption
  <2> QED BY <1>6, <2>2, <2>3 DEF l
<1> QED BY <1>5, <1>6 DEF Formatted

(***************************************************************************)
(* The two header lines that Process() begins with.                        *)
(***************************************************************************)
LEMMA BeginningsAre ==
  ASSUME NEW keep
  PROVE  LET b == AddHeader(<< >>, "Connection", Persistence(keep))
         IN /\ Ready(<< >>, keep)
            /\ Ready(AddHeader(<< >>, "Allow", <<"GET,HEAD">>), keep)
            /\ Ready(b, keep) /\ Has(Open(b), "Connection")
<1>1. Ready(<< >>, keep)
  BY NoneCollected DEF Ready, Silent, Carries
<1>2. /\ Persistence(keep) \in Seq(Byte) /\ Unbroken(Persistence(keep))
      /\ Len(Persistence(keep)) + 5 < BufferSize
  <2>1. /\ Persistence(keep) \in Seq(Byte) /\ Unbroken(Persistence(keep))
        /\ Len(Persistence(keep)) = 1
    BY PersistenceIs
  <2> QED BY <2>1, BufferAssumption
<1>3. LET b == AddHeader(<< >>, "Connection", Persistence(keep))
      IN Ready(b, keep) /\ Has(Open(b), "Connection")
  BY <1>1, <1>2, ReadyKept
<1>4. /\ <<"GET,HEAD">> \in Seq(Byte) /\ Unbroken(<<"GET,HEAD">>)
      /\ Len(<<"GET,HEAD">>) + 5 < BufferSize
  <2>1. "GET,HEAD" \in Byte
    BY WordsAssumption
  <2> DEFINE w == <<"GET,HEAD">>
  <2>2. w \in Seq(Byte) /\ Unbroken(w) /\ Len(w) = 1
    BY <2>1, OneWord
  <2> HIDE DEF w
  <2>3. Len(w) + 5 < BufferSize
    BY <2>2, BufferAssumption
  <2> QED BY <2>2, <2>3 DEF w
<1>5. "Allow" \in Name \ {"Content-Length", "Connection"}
  BY NamesAre
<1>6. Ready(AddHeader(<< >>, "Allow", <<"GET,HEAD">>), keep)
  BY <1>1, <1>4, <1>5, ReadyKept
<1> QED BY <1>1, <1>3, <1>6

(***************************************************************************)
(* The header line of a redirection.                                       *)
(***************************************************************************)
LEMMA RedirectionIs ==
  ASSUME NEW keep, NEW uri \in Paths, Unbroken(uri), Len(uri) + 6 < BufferSize
  PROVE  Ready(FormatHeader(<< >>, "Location", Formatted(Location(uri))), keep)
<1> DEFINE f == Formatted(Location(uri))
<1>1. f \in Seq(Byte) /\ Unbroken(f) /\ Len(f) + 5 < BufferSize
  BY LocationIs
<1> HIDE DEF f
<1>2. Len(f) < BufferSize
  <2>1. Len(f) \in Nat /\ BufferSize \in Nat
    BY <1>1, LenProperties, BufferAssumption
  <2> QED BY <1>1, <2>1
<1>3. FormatHeader(<< >>, "Location", f) = AddHeader(<< >>, "Location", f)
  BY <1>1, <1>2, FormatHeaderIs
<1>4. "Location" \in Name \ {"Content-Length", "Connection"} /\ Ready(<< >>, keep)
  BY NamesAre, BeginningsAre
<1>5. Ready(AddHeader(<< >>, "Location", f), keep)
  BY <1>1, <1>4, ReadyKept
<1> QED BY <1>3, <1>5 DEF f

(***************************************************************************)
(* Every response of Process() is framed: the errors, the redirection, the *)
(* listing, the output of a script and the file (protocol.cpp:749-936).    *)
(***************************************************************************)
LEMMA ProcessIs ==
  ASSUME NEW q, NEW c, q.status \in Statuses,
         q.status = 200 =>
           /\ q.uri \in Paths /\ Unbroken(q.uri) /\ Len(q.uri) + 6 < BufferSize
           /\ Tellable(q.resource, c)
  PROVE  Framed(Process(q, c), q.method)
<1> DEFINE keep == Kept(q, c)
           b == AddHeader(<< >>, "Connection", Persistence(keep))
           allow == AddHeader(<< >>, "Allow", <<"GET,HEAD">>)
           moved == FormatHeader(<< >>, "Location", Formatted(Location(q.uri)))
           get == q.method # "HEAD"
           page == IF get THEN ListDir(q.resource, c.entries) ELSE << >>
           r == Process(q, c)
<1>1. /\ Ready(<< >>, keep) /\ Ready(allow, keep) /\ Ready(b, keep)
      /\ Has(Open(b), "Connection")
  BY BeginningsAre
<1>2. ASSUME NEW d, Ready(d, keep), NEW s \in Statuses
      PROVE  Framed(Refuse(d, s, q, keep), q.method)
  BY <1>2, RefuseIs
<1>3. CASE q.status # 200
  <2>1. r = Refuse(<< >>, q.status, q, keep)
    BY <1>3 DEF Process
  <2> HIDE DEF r
  <2> QED BY <1>1, <1>2, <2>1 DEF r
<1>4. CASE q.status = 200
  <2>1. /\ q.uri \in Paths /\ Unbroken(q.uri) /\ Len(q.uri) + 6 < BufferSize
        /\ Tellable(q.resource, c)
    BY <1>4
  <2>2. Ready(moved, keep)
    BY <2>1, RedirectionIs
  <2>3. Framed(SendPage(b, page, keep), q.method)
    <3>1. Len(page) \in 0..SizeModulus - 1
      <4>1. CASE get
        BY <2>1, <4>1 DEF Tellable
      <4>2. CASE ~get
        BY <4>2, SizeAssumption
      <4> QED BY <4>1, <4>2
    <3> HIDE DEF b, page
    <3> QED BY <1>1, <3>1, SendPageIs
  <2>4. Framed(SendFile(b, q, c, keep), q.method)
    <3> HIDE DEF b
    <3> QED BY <1>1, <2>1, SendFileIs DEF Tellable
  <2>5. Framed(Reply(304, Generate(b, Number(304), TRUE), 0, keep), q.method)
    <3> HIDE DEF b
    <3> QED BY <1>1, NotModifiedIs
  <2>6. ASSUME c.cgi PROVE Framed(SendOutput(b, c.out), q.method)
    <3>1. keep = FALSE
      BY <2>6 DEF Kept
    <3>2. ScriptSound(c)
      BY <2>1, <2>6 DEF Tellable
    <3> HIDE DEF b, keep
    <3>3. Ready(b, FALSE)
      BY <1>1, <3>1
    <3> QED BY <1>1, <3>2, <3>3, SendOutputIs
  <2> DEFINE post  == ~c.cgi /\ q.method = "POST"
             bare  == c.dir /\ q.uri[QueryAt(q.uri)] # "/"
             fails == get /\ ~c.opens
             r405  == Refuse(allow, 405, q, keep)
             r404  == Refuse(<< >>, 404, q, keep)
             r403  == Refuse(<< >>, 403, q, keep)
             r303  == Refuse(moved, 303, q, keep)
             none  == Refuse(b, 404, q, keep)
             error == Refuse(b, 500, q, keep)
             r411  == Refuse(b, 411, q, keep)
             list  == SendPage(b, page, keep)
             out   == SendOutput(b, c.out)
             same  == Reply(304, Generate(b, Number(304), TRUE), 0, keep)
             file  == SendFile(b, q, c, keep)
             lost  == q.method = "POST" /\ ~q.length.ok
  <2>7. r = IF post THEN r405
            ELSE IF ~c.exists THEN r404
            ELSE IF c.deny THEN r403
            ELSE IF bare THEN r303
            ELSE IF c.dir /\ ~c.listing THEN none
            ELSE IF c.dir THEN IF fails THEN error ELSE list
            ELSE IF c.cgi THEN IF lost THEN r411 ELSE out
            ELSE IF c.fresh THEN same
            ELSE IF fails THEN error ELSE file
    BY <1>4 DEF Process
  <2>8. /\ 405 \in Statuses /\ 404 \in Statuses /\ 403 \in Statuses /\ 303 \in Statuses
        /\ 500 \in Statuses /\ 411 \in Statuses
    BY DEF Statuses
  <2> DEFINE F(x) == Framed(x, q.method)
  <2>9. F(r405) /\ F(r404) /\ F(r403) /\ F(r303) /\ F(none) /\ F(error) /\ F(r411)
    <3> HIDE DEF r, b, allow, moved, keep
    <3>1. F(r405) /\ F(r404) /\ F(r403) /\ F(r303)
      BY <1>1, <1>2, <2>2, <2>8, Zenon
    <3>2. F(none) /\ F(error) /\ F(r411)
      BY <1>1, <1>2, <2>8, Zenon
    <3> QED BY <3>1, <3>2
  <2>10. F(list) /\ F(same) /\ F(file) /\ (c.cgi => F(out))
    BY <2>3, <2>4, <2>5, <2>6
  <2> HIDE DEF r, F, post, bare, fails, lost, r405, r404, r403, r303, none, error, r411,
               list, out, same, file
  <2>11. CASE post
    BY <2>7, <2>9, <2>11 DEF F, r
  <2>12. CASE ~post /\ (~c.exists \/ c.deny \/ bare)
    <3>1. r = r404 \/ r = r403 \/ r = r303
      BY <2>7, <2>12
    <3>2. F(r)
      BY <2>9, <3>1
    <3> QED BY <3>2 DEF F, r
  <2>13. CASE ~post /\ c.exists /\ ~c.deny /\ ~bare /\ c.dir
    <3>1. r = none \/ r = error \/ r = list
      BY <2>7, <2>13
    <3>2. F(r)
      BY <2>9, <2>10, <3>1
    <3> QED BY <3>2 DEF F, r
  <2>14. CASE ~post /\ c.exists /\ ~c.deny /\ ~bare /\ ~c.dir /\ c.cgi
    <3>1. r = r411 \/ r = out
      BY <2>7, <2>14
    <3>2. F(r)
      BY <2>9, <2>10, <2>14, <3>1
    <3> QED BY <3>2 DEF F, r
  <2>15. CASE ~post /\ c.exists /\ ~c.deny /\ ~bare /\ ~c.dir /\ ~c.cgi
    <3>1. r = same \/ r = error \/ r = file
      BY <2>7, <2>15
    <3>2. F(r)
      BY <2>9, <2>10, <3>1
    <3> QED BY <3>2 DEF F, r
  <2> QED BY <2>11, <2>12, <2>13, <2>14, <2>15
<1> QED BY <1>3, <1>4

(***************************************************************************)
(* What a remote end finds in such a response.                             *)
(***************************************************************************)
LEMMA FramedSays ==
  ASSUME NEW r, NEW method, Framed(r, method)
  PROVE  LET h == r.head
         IN /\ Starts(h, <<"HTTP/1.1", " ">>)
            /\ Find(h, CRLF \o CRLF, 0) = Len(h) - 4
            /\ (r.keep /\ r.status # 304) =>
                 /\ Cardinality(FieldsAt(h, "Content-Length")) = 1
                 /\ method # "HEAD" => Only(h, "Content-Length") = Number(r.body)
            /\ FieldsAt(h, "Connection") # {}
            /\ \A i \in FieldsAt(h, "Connection") : Value(h, i) = Persistence(r.keep)
<1> DEFINE h == r.head
           p == Persistence(r.keep)
<1>1. /\ h \in Seq(Byte) /\ Begins(h) /\ Ended(h)
      /\ Has(h, "Connection") /\ Carries(h, "Connection", p)
      /\ (r.keep /\ r.status # 304) =>
           \E v : /\ Single(h, "Content-Length", v)
                  /\ method # "HEAD" => v = Number(r.body)
  BY DEF Framed
<1> HIDE DEF h, p
<1>2. "Connection" \in Name /\ "Content-Length" \in Name
  BY NamesAre
<1>3. Starts(h, <<"HTTP/1.1", " ">>) /\ Find(h, CRLF \o CRLF, 0) = Len(h) - 4
  BY <1>1, FrameSays
<1>4. ASSUME r.keep, r.status # 304
      PROVE  /\ Cardinality(FieldsAt(h, "Content-Length")) = 1
             /\ method # "HEAD" => Only(h, "Content-Length") = Number(r.body)
  <2>1. PICK v : /\ Single(h, "Content-Length", v)
                 /\ method # "HEAD" => v = Number(r.body)
    BY <1>1, <1>4
  <2>2. Cardinality(FieldsAt(h, "Content-Length")) = 1 /\ Only(h, "Content-Length") = v
    BY <1>1, <1>2, <2>1, SingleSays
  <2> QED BY <2>1, <2>2
<1>5. /\ FieldsAt(h, "Connection") # {}
      /\ \A i \in FieldsAt(h, "Connection") : Value(h, i) = p
  BY <1>1, <1>2, CarriesSays
<1> QED BY <1>3, <1>4, <1>5 DEF h, p

(***************************************************************************)
(* The status and the uri that Accept() answers.                           *)
(***************************************************************************)
LEMMA AcceptSays ==
  ASSUME NEW s, NEW p, s.buffer \in Seq(Byte), Len(s.buffer) < NPos, s.postl \in Nat,
         "resource" \in DOMAIN p, "uri" \in DOMAIN p
  PROVE  LET a == Accept(s, p)
         IN /\ a.status \in Statuses \ {303}
            /\ "uri" \in DOMAIN a.pci
            /\ a.status = 200 =>
                 /\ a.pci.uri \in Paths /\ Unbroken(a.pci.uri)
                 /\ a.pci.resource = Resource(a.pci.uri)
                 /\ a.pci.resource \in Seq(Byte)
                 /\ Len(a.pci.resource) <= Len(s.buffer)
<1> DEFINE text  == Text(s)
           line  == RequestLine(text)
           lf    == Find(text, CRLF, 0)
           host  == ParseHeader(lf, text, "Host")
           where == [p EXCEPT !.resource = Resource(line.uri)]
           full  == [where EXCEPT !.host = host,
                                  !.referer = Setting(text, "Referer", p.referer),
                                  !.uri = line.uri]
           keep  == ~Starts(ParseHeader(lf, text, "Connection"), <<"close">>)
           a     == Accept(s, p)
<1>1. a = IF s.state = "CORRUPTED" THEN [status |-> 413, pci |-> p, keep |-> FALSE]
          ELSE IF line.status # 200
          THEN [status |-> line.status, pci |-> p, keep |-> FALSE]
          ELSE IF host = << >> THEN [status |-> 400, pci |-> where, keep |-> FALSE]
          ELSE [status |-> 200, pci |-> full, keep |-> keep]
  BY DEF Accept
<1>2. line.status \in {200, 400, 501, 505}
  <2> DEFINE request == Substr(text, 0, Find(text, CRLF, 0))
             ml == MethodLength(text)
             ru == FindNot(request, " ", ml)
             rl == Find(request, <<" ">>, ru + 1)
             hv == FindNot(request, " ", rl + 1)
             u == Substr(request, ru, rl - ru)
  <2>1. line = IF ml = 0 THEN [status |-> 501, uri |-> << >>]
               ELSE IF ru = NPos \/ request[ru + 1] # "/" \/ rl = NPos
               THEN [status |-> 400, uri |-> << >>]
               ELSE IF hv = NPos \/ request[hv + 1] # "HTTP/1.1"
               THEN [status |-> 505, uri |-> << >>]
               ELSE [status |-> 200, uri |-> u]
    BY DEF RequestLine
  <2> HIDE DEF line, request, ml, ru, rl, hv, u
  <2> QED BY <2>1
<1>3. /\ DOMAIN where = DOMAIN p /\ where.resource = Resource(line.uri)
      /\ DOMAIN full = DOMAIN p /\ full.resource = where.resource
      /\ full.uri = line.uri
  <2>1. DOMAIN where = DOMAIN p /\ where.resource = Resource(line.uri)
    OBVIOUS
  <2> HIDE DEF where
  <2>2. DOMAIN full = DOMAIN where /\ full.resource = where.resource
    BY <2>1
  <2>3. full.uri = line.uri
    BY <2>1
  <2> QED BY <2>1, <2>2, <2>3
<1> HIDE DEF text, line, lf, host, where, full, keep, a
<1>4. a.status \in Statuses \ {303} /\ (a.status = 200 => line.status = 200 /\ a.pci = full)
  <2>1. CASE s.state = "CORRUPTED"
    BY <1>1, <2>1 DEF Statuses
  <2>2. CASE s.state # "CORRUPTED" /\ line.status # 200
    <3>1. a.status = line.status
      BY <1>1, <2>2
    <3> QED BY <1>2, <2>2, <3>1 DEF Statuses
  <2>3. CASE s.state # "CORRUPTED" /\ line.status = 200 /\ host = << >>
    <3>1. a.status = 400
      BY <1>1, <2>3
    <3> QED BY <3>1 DEF Statuses
  <2>4. CASE s.state # "CORRUPTED" /\ line.status = 200 /\ host # << >>
    <3>1. a.status = 200 /\ a.pci = full
      BY <1>1, <2>4
    <3> QED BY <2>4, <3>1 DEF Statuses
  <2> QED BY <2>1, <2>2, <2>3, <2>4
<1>5. "uri" \in DOMAIN a.pci
  <2>1. a.pci = p \/ a.pci = where \/ a.pci = full
    BY <1>1
  <2> QED BY <1>3, <2>1
<1>6. ASSUME a.status = 200
      PROVE  /\ a.pci.uri \in Paths /\ Unbroken(a.pci.uri)
             /\ a.pci.resource = Resource(a.pci.uri)
             /\ a.pci.resource \in Seq(Byte) /\ Len(a.pci.resource) <= Len(s.buffer)
  <2>1. /\ text \in Seq(Byte) /\ Len(text) \in Nat /\ Len(text) <= Len(s.buffer)
        /\ Len(s.buffer) \in Nat /\ NPos \in Int
    BY SubstrType, LenProperties, SizeAssumption DEF text, Text, NPos
  <2>2. Len(text) < NPos
    BY <2>1
  <2>3. line.status = 200 /\ a.pci.resource = Resource(line.uri) /\ a.pci.uri = line.uri
    BY <1>3, <1>4, <1>6
  <2>4. /\ line.uri \in Paths /\ Len(line.uri) < NPos /\ Len(line.uri) <= Len(text)
        /\ Unbroken(line.uri)
    BY <2>1, <2>2, <2>3, LineIs DEF line
  <2> DEFINE d == Decode(line.uri)
             o == ParseSegments(d)
  <2>5. d \in Paths /\ Len(d) <= Len(line.uri)
    BY <2>4, DecodeIs
  <2> HIDE DEF d
  <2>6. Len(d) \in Nat /\ Len(line.uri) \in Nat /\ Len(d) < NPos
    <3>1. Len(d) \in Nat /\ Len(line.uri) \in Nat
      BY <2>4, <2>5, LenProperties DEF Paths
    <3> QED BY <2>1, <2>4, <2>5, <3>1
  <2>7. o \in Paths /\ Len(o) <= Len(d)
    BY <2>5, <2>6, ParseSegmentsIs
  <2> HIDE DEF o
  <2>8. o \in Seq(Byte) /\ Len(o) \in Nat
    BY <2>7, LenProperties DEF Paths
  <2>9. Len(o) <= Len(s.buffer)
    BY <2>1, <2>4, <2>5, <2>6, <2>7, <2>8
  <2>10. a.pci.resource = o
    BY <2>3 DEF Resource, o, d
  <2> QED BY <2>3, <2>4, <2>8, <2>9, <2>10
<1> QED BY <1>4, <1>5, <1>6 DEF a

(***************************************************************************)
(* What the server has taken and how it replied to it.                     *)
(***************************************************************************)
FramedInv ==
  /\ PathsInv
  /\ "uri" \in DOMAIN pci
  /\ \A k \in 1..Len(taken) : Fits(taken[k]) => Framed(taken[k].reply, taken[k].method)

(***************************************************************************)
(* Accept() and Process() add a request and its response.                  *)
(***************************************************************************)
\* What is added, from the request q and the answer c.
Answered(r, q, c) ==
  /\ r.pci.uri = q.uri /\ r.pci.resource = q.resource /\ r.method = q.method
  /\ r.answer = c /\ r.reply = Process(q, c)
  /\ q.status \in Statuses \ {303}
  /\ q.status = 200 =>
       /\ q.uri \in Paths /\ Unbroken(q.uri) /\ q.resource = Resource(q.uri)
       /\ q.resource \in Seq(Byte) /\ Len(q.resource) <= RequestLimit

LEMMA RunTaskAdds ==
  ASSUME PathsInv, "uri" \in DOMAIN pci, RunTask
  PROVE  /\ "uri" \in DOMAIN pci'
         /\ \E r, q : \E c \in Answers :
              /\ Answered(r, q, c)
              /\ \A k \in 1..Len(taken') :
                   taken'[k] = r \/ (k \in 1..Len(taken) /\ taken'[k] = taken[k])
<1> DEFINE a == Accept(spreq, pci)
           m == IF a.status \in {413, 501} THEN "GET" ELSE Text(spreq)[1]
           length == BodyLength(Text(spreq))
           q == [status |-> a.status, keep |-> a.keep, uri |-> a.pci.uri,
                 method |-> m, resource |-> a.pci.resource, length |-> length]
           entry(c) == [accepted |-> a.status, method |-> q.method, pci |-> a.pci,
                        answer |-> c, length |-> q.length.ul, reply |-> Process(q, c)]
<1>1. pci' = a.pci /\ \E c \in Answers : taken' = Append(taken, entry(c))
  BY DEF RunTask
<1>2. /\ a.status \in Statuses \ {303} /\ "uri" \in DOMAIN a.pci
      /\ a.status = 200 =>
           /\ a.pci.uri \in Paths /\ Unbroken(a.pci.uri)
           /\ a.pci.resource = Resource(a.pci.uri)
           /\ a.pci.resource \in Seq(Byte) /\ Len(a.pci.resource) <= RequestLimit
  <2>1. /\ spreq.buffer \in Seq(Byte) /\ Len(spreq.buffer) <= RequestLimit
        /\ spreq.postl \in Nat /\ "resource" \in DOMAIN pci
    BY DEF PathsInv, ScanInv
  <2>2. Len(spreq.buffer) \in Nat /\ RequestLimit \in Nat /\ RequestLimit < NPos
    BY <2>1, LenProperties, LimitAssumption, SizeAssumption DEF NPos
  <2>3. Len(spreq.buffer) < NPos
    BY <2>1, <2>2, SizeAssumption DEF NPos
  <2>4. /\ a.status \in Statuses \ {303} /\ "uri" \in DOMAIN a.pci
        /\ a.status = 200 =>
             /\ a.pci.uri \in Paths /\ Unbroken(a.pci.uri)
             /\ a.pci.resource = Resource(a.pci.uri)
             /\ a.pci.resource \in Seq(Byte)
             /\ Len(a.pci.resource) <= Len(spreq.buffer)
    BY <2>1, <2>3, AcceptSays
  <2> HIDE DEF a
  <2>5. ASSUME a.status = 200 PROVE Len(a.pci.resource) <= RequestLimit
    <3>1. Len(a.pci.resource) \in Nat
      BY <2>4, <2>5, LenProperties
    <3> QED BY <2>1, <2>2, <2>4, <2>5, <3>1
  <2> QED BY <2>4, <2>5
<1>3. PICK c \in Answers : taken' = Append(taken, entry(c))
  BY <1>1
<1> DEFINE r == entry(c)
<1> HIDE DEF a, m, length
<1>4. /\ q.status = a.status /\ q.uri = a.pci.uri /\ q.resource = a.pci.resource
      /\ r.pci = a.pci /\ r.method = q.method /\ r.answer = c /\ r.reply = Process(q, c)
  OBVIOUS
<1> HIDE DEF q, r
<1>5. Answered(r, q, c)
  BY <1>2, <1>4 DEF Answered
<1>6. PICK T : taken \in Seq(T)
  BY DEF PathsInv
<1> DEFINE U == T \cup {r}
<1>7. taken \in Seq(U) /\ r \in U
  BY <1>6, SeqMonotonic
<1> HIDE DEF U
<1>8. /\ Len(taken) \in Nat /\ Len(Append(taken, r)) = Len(taken) + 1
      /\ \A i \in 1..Len(taken) : Append(taken, r)[i] = taken[i]
      /\ Append(taken, r)[Len(taken) + 1] = r
  BY <1>7, AppendProperties, LenProperties
<1>9. taken' = Append(taken, r)
  BY <1>3 DEF r
<1>10. ASSUME NEW k \in 1..Len(taken')
       PROVE  taken'[k] = r \/ (k \in 1..Len(taken) /\ taken'[k] = taken[k])
  <2>1. k \in 1..Len(taken) \/ k = Len(taken) + 1
    BY <1>8, <1>9
  <2>2. CASE k \in 1..Len(taken)
    BY <1>8, <1>9, <2>2
  <2>3. CASE k = Len(taken) + 1
    BY <1>8, <1>9, <2>3
  <2> QED BY <2>1, <2>2, <2>3
<1>11. "uri" \in DOMAIN pci'
  BY <1>1, <1>2
<1> QED BY <1>5, <1>10, <1>11

(***************************************************************************)
(* The response that is added is framed.                                   *)
(***************************************************************************)
LEMMA RunTaskFramed ==
  ASSUME SoundAnswers, FramedInv, RunTask, PathsInv'
  PROVE  FramedInv'
<1>1. PathsInv /\ "uri" \in DOMAIN pci
  BY DEF FramedInv
<1>2. "uri" \in DOMAIN pci'
  BY <1>1, RunTaskAdds
<1>3. PICK r, q : \E c \in Answers :
        /\ Answered(r, q, c)
        /\ \A k \in 1..Len(taken') :
             taken'[k] = r \/ (k \in 1..Len(taken) /\ taken'[k] = taken[k])
  BY <1>1, RunTaskAdds
<1>4. PICK c \in Answers :
        /\ Answered(r, q, c)
        /\ \A k \in 1..Len(taken') :
             taken'[k] = r \/ (k \in 1..Len(taken) /\ taken'[k] = taken[k])
  BY <1>3
<1>5. Fits(r) => Framed(r.reply, r.method)
  <2> SUFFICES ASSUME Fits(r) PROVE Framed(Process(q, c), q.method)
    BY <1>4 DEF Answered
  <2>1. ASSUME q.status = 200
        PROVE  /\ q.uri \in Paths /\ Unbroken(q.uri) /\ Len(q.uri) + 6 < BufferSize
               /\ Tellable(q.resource, c)
    <3>1. q.uri \in Paths /\ Unbroken(q.uri)
      BY <1>4, <2>1 DEF Answered
    <3>2. Len(q.uri) + 6 < BufferSize
      BY <1>4 DEF Fits, Answered
    <3>3. q.resource \in Seq(Byte) /\ Len(q.resource) <= RequestLimit
      BY <1>4, <2>1 DEF Answered
    <3>4. Tellable(q.resource, c)
      BY <3>3 DEF SoundAnswers
    <3> QED BY <3>1, <3>2, <3>4
  <2>2. q.status \in Statuses
    BY <1>4 DEF Answered
  <2> QED BY <2>1, <2>2, ProcessIs
<1>6. ASSUME NEW k \in 1..Len(taken'), Fits(taken'[k])
      PROVE  Framed(taken'[k].reply, taken'[k].method)
  <2>1. CASE taken'[k] = r
    BY <1>5, <1>6, <2>1
  <2>2. CASE k \in 1..Len(taken) /\ taken'[k] = taken[k]
    BY <1>6, <2>2 DEF FramedInv
  <2> QED BY <1>4, <2>1, <2>2
<1> QED BY <1>2, <1>6 DEF FramedInv, Fits

(***************************************************************************)
(* FramedInv is inductive.                                                 *)
(***************************************************************************)
LEMMA FramedInit ==
  ASSUME Init
  PROVE  FramedInv
<1>1. PathsInv
  BY PathsInit
<1>2. "uri" \in DOMAIN pci
  BY DEF Init
<1>3. 1..Len(taken) = {}
  BY DEF Init
<1> QED BY <1>1, <1>2, <1>3 DEF FramedInv

LEMMA FramedKept ==
  ASSUME SoundAnswers, FramedInv, [Next]_vars
  PROVE  FramedInv'
<1>1. PathsInv'
  BY PathsKept DEF FramedInv
<1>2. CASE RunTask
  BY <1>1, <1>2, RunTaskFramed
<1>3. CASE UNCHANGED <<pci, taken>>
  BY <1>1, <1>3 DEF FramedInv, Fits
<1>4. [Next]_vars => RunTask \/ UNCHANGED <<pci, taken>>
  BY DEF Next, Receive, Finish, vars
<1> QED BY <1>2, <1>3, <1>4

(***************************************************************************)
(* The remote end finds the end of every response, of whatever status,     *)
(* whatever the request and the site are (protocol.cpp:180-210, 749-936):  *)
(* the head begins with the status line, has no empty line but its last,   *)
(* and on a connection that is kept says once, and rightly, how long the   *)
(* body is.                                                                *)
(***************************************************************************)
THEOREM FramedCorrect ==
  ASSUME SoundAnswers
  PROVE  Spec => []ResponseFramed
<1>1. Init => FramedInv
  BY FramedInit
<1>2. FramedInv /\ [Next]_vars => FramedInv'
  BY FramedKept
<1>3. FramedInv => ResponseFramed
  BY FramedSays DEF FramedInv, ResponseFramed
<1> QED BY <1>1, <1>2, <1>3, PTL DEF Spec

(***************************************************************************)
(* Whatever a response says of the connection, once or twice, is what the  *)
(* server then does with it (protocol.cpp:205-210, 749-936).               *)
(***************************************************************************)
THEOREM AgreesCorrect ==
  ASSUME SoundAnswers
  PROVE  Spec => []ConnectionAgrees
<1>1. Init => FramedInv
  BY FramedInit
<1>2. FramedInv /\ [Next]_vars => FramedInv'
  BY FramedKept
<1>3. FramedInv => ConnectionAgrees
  BY FramedSays DEF FramedInv, ConnectionAgrees
<1> QED BY <1>1, <1>2, <1>3, PTL DEF Spec

-----------------------------------------------------------------------------
(* The redirection of a directory.                                         *)

(***************************************************************************)
(* ParseSegments() is a loop of turns.                                     *)
(***************************************************************************)
LEMMA SegmentsAre ==
  ASSUME NEW u \in Seq(Byte), NEW o \in Seq(Byte)
  PROVE  Segments[<<u, o>>] = IF u = << >> THEN o ELSE Segments[Turn(u, o)]
<1> DEFINE S == Seq(Byte) \X Seq(Byte)
           Ends == {p \in S : p[1] = << >>}
           result == [p \in S |-> p[2]]
           next == [p \in S |-> IF p \in Ends THEN p ELSE Turn(p[1], p[2])]
           x == <<u, o>>
<1>1. Segments = Pass(S, Ends, result, next, Segments)
  BY SegmentsLoop
<1>2. x \in S /\ x[1] = u /\ x[2] = o
  OBVIOUS
<1>3. Segments[x] = IF x \in Ends THEN result[x] ELSE Segments[next[x]]
  <2> HIDE DEF S, Ends, result, next, x
  <2>1. \A p \in S : Pass(S, Ends, result, next, Segments)[p]
                     = IF p \in Ends THEN result[p] ELSE Segments[next[p]]
    BY DEF Pass
  <2>2. Pass(S, Ends, result, next, Segments)[x]
          = IF x \in Ends THEN result[x] ELSE Segments[next[x]]
    BY <1>2, <2>1
  <2> QED BY <1>1, <2>2
<1>4. x \in Ends <=> u = << >>
  BY <1>2
<1>5. result[x] = o /\ (x \notin Ends => next[x] = Turn(u, o))
  BY <1>2
<1> HIDE DEF S, Ends, result, next
<1> QED BY <1>3, <1>4, <1>5

(***************************************************************************)
(* A turn on a path, by the first bytes of the path.                       *)
(***************************************************************************)
LEMMA TurnOf ==
  ASSUME NEW u \in Paths, NEW o
  PROVE  LET t == Find(u, <<"/">>, 1)
             one == u[2] = "."
             two == u[2] = "." /\ u[3] = "."
         IN /\ (Len(u) >= 3 /\ one /\ u[3] = "/") => Turn(u, o) = <<Replace(u, 3), o>>
            /\ (Len(u) = 2 /\ one) => Turn(u, o) = <<Replace(u, 2), o>>
            /\ (Len(u) >= 4 /\ two /\ u[4] = "/") =>
                 Turn(u, o) = <<Replace(u, 4), Parent(o)>>
            /\ (Len(u) = 3 /\ two) => Turn(u, o) = <<Replace(u, 3), Parent(o)>>
            /\ /\ ~(Len(u) >= 3 /\ one /\ u[3] = "/") /\ ~(Len(u) = 2 /\ one)
               /\ ~(Len(u) >= 4 /\ two /\ u[4] = "/") /\ ~(Len(u) = 3 /\ two)
               => Turn(u, o) = <<IF t = NPos THEN << >> ELSE From(u, t),
                                o \o Substr(u, 0, t)>>
<1> DEFINE t == Find(u, <<"/">>, 1)
           last == <<IF t = NPos THEN << >> ELSE From(u, t), o \o Substr(u, 0, t)>>
           a1 == Starts(u, <<".", "/">>)
           a2 == Starts(u, <<".", ".", "/">>)
           a3 == Starts(u, <<"/", ".", "/">>)
           a4 == u = <<"/", ".">>
           a5 == Starts(u, <<"/", ".", ".", "/">>)
           a6 == u = <<"/", ".", ".">>
           a7 == u = <<".">>
           a8 == u = <<".", ".">>
<1>1. u \in Seq(Byte) /\ Len(u) \in Nat /\ Len(u) >= 1 /\ u[1] = "/"
  BY LenProperties DEF Paths
<1>2. "/" \in Byte /\ "." \in Byte /\ "/" # "."
  BY ByteAssumption
<1>3. ~a1 /\ ~a2 /\ ~a7 /\ ~a8
  <2>1. ~Starts(u, <<".", "/">>) /\ ~Starts(u, <<".", ".", "/">>)
    BY <1>1, <1>2, StartsWith
  <2>2. <<".">>[1] = "." /\ <<".", ".">>[1] = "."
    OBVIOUS
  <2> QED BY <1>1, <1>2, <2>1, <2>2
<1>4. /\ a3 <=> Len(u) >= 3 /\ u[2] = "." /\ u[3] = "/"
      /\ a5 <=> Len(u) >= 4 /\ u[2] = "." /\ u[3] = "." /\ u[4] = "/"
  BY <1>1, <1>2, StartsWith
<1>5. a4 <=> Len(u) = 2 /\ u[2] = "."
  <2> DEFINE w == <<"/", ".">>
  <2>1. w \in Seq(Byte) /\ Len(w) = 2 /\ w[1] = "/" /\ w[2] = "."
    BY <1>2
  <2> HIDE DEF w
  <2>2. ASSUME Len(u) = 2, u[2] = "." PROVE u = w
    <3>1. \A i \in 1..Len(u) : u[i] = w[i]
      BY <1>1, <2>1, <2>2
    <3> QED BY <1>1, <2>1, <2>2, <3>1, SeqEqual
  <2> QED BY <2>1, <2>2 DEF w
<1>6. a6 <=> Len(u) = 3 /\ u[2] = "." /\ u[3] = "."
  <2> DEFINE w == <<"/", ".", ".">>
  <2>1. w \in Seq(Byte) /\ Len(w) = 3 /\ w[1] = "/" /\ w[2] = "." /\ w[3] = "."
    BY <1>2
  <2> HIDE DEF w
  <2>2. ASSUME Len(u) = 3, u[2] = ".", u[3] = "." PROVE u = w
    <3>1. \A i \in 1..Len(u) : u[i] = w[i]
      BY <1>1, <2>1, <2>2
    <3> QED BY <1>1, <2>1, <2>2, <3>1, SeqEqual
  <2> QED BY <2>1, <2>2 DEF w
<1>7. Turn(u, o) = CASE a1 -> <<From(u, 2), o>>
                     [] a2 -> <<From(u, 3), o>>
                     [] a3 -> <<Replace(u, 3), o>>
                     [] a4 -> <<Replace(u, 2), o>>
                     [] a5 -> <<Replace(u, 4), Parent(o)>>
                     [] a6 -> <<Replace(u, 3), Parent(o)>>
                     [] a7 -> <<From(u, 1), o>>
                     [] a8 -> <<From(u, 2), o>>
                     [] OTHER -> last
  BY DEF Turn
<1> HIDE DEF a1, a2, a3, a4, a5, a6, a7, a8, last
<1>8. CASE a3
  <2>1. ~a4 /\ ~a5 /\ ~a6
    BY <1>2, <1>4, <1>5, <1>6, <1>8
  <2>2. Turn(u, o) = <<Replace(u, 3), o>>
    BY <1>3, <1>7, <1>8, <2>1
  <2> QED BY <1>4, <1>5, <1>6, <1>8, <2>1, <2>2
<1>9. CASE ~a3 /\ a4
  <2>1. ~a5 /\ ~a6
    <3>1. Len(u) = 2
      BY <1>5, <1>9, Zenon
    <3>2. ~(Len(u) >= 4) /\ ~(Len(u) = 3)
      BY <3>1
    <3> QED BY <1>4, <1>6, <3>2, Zenon
  <2>2. Turn(u, o) = <<Replace(u, 2), o>>
    BY <1>3, <1>7, <1>9, <2>1
  <2> QED BY <1>4, <1>5, <1>6, <1>9, <2>1, <2>2
<1>10. CASE ~a3 /\ ~a4 /\ a5
  <2>1. ~a6
    BY <1>4, <1>6, <1>10
  <2>2. Turn(u, o) = <<Replace(u, 4), Parent(o)>>
    BY <1>3, <1>7, <1>10, <2>1
  <2> QED BY <1>4, <1>5, <1>6, <1>10, <2>1, <2>2
<1>11. CASE ~a3 /\ ~a4 /\ ~a5 /\ a6
  <2>1. Turn(u, o) = <<Replace(u, 3), Parent(o)>>
    BY <1>3, <1>7, <1>11
  <2> QED BY <1>4, <1>5, <1>6, <1>11, <2>1
<1>12. CASE ~a3 /\ ~a4 /\ ~a5 /\ ~a6
  <2>1. Turn(u, o) = last
    BY <1>3, <1>7, <1>12
  <2> QED BY <1>4, <1>5, <1>6, <1>12, <2>1 DEF last
<1> QED BY <1>8, <1>9, <1>10, <1>11, <1>12

(***************************************************************************)
(* The whole of a text.                                                    *)
(***************************************************************************)
LEMMA WholeIs ==
  ASSUME NEW s \in Seq(Byte), Len(s) # NPos
  PROVE  Substr(s, 0, Len(s)) = s /\ Substr(s, 0, NPos) = s
<1> DEFINE a == Substr(s, 0, Len(s))
<1>1. Len(s) \in Nat /\ 0 + Len(s) <= Len(s)
  BY LenProperties
<1>2. a \in Seq(Byte) /\ Len(a) = Len(s) /\ \A k \in 1..Len(s) : a[k] = s[0 + k]
  BY <1>1, SubstrIs
<1>3. Substr(s, 0, NPos) = SubSeq(s, 0 + 1, Len(s))
  BY DEF Substr
<1>4. 0 + 1 = 1
  OBVIOUS
<1>5. SubSeq(s, 1, Len(s)) = s
  BY SubSeqFull
<1> HIDE DEF a
<1>6. \A k \in 1..Len(s) : a[k] = s[k]
  <2>1. \A k \in 1..Len(s) : 0 + k = k
    BY <1>1
  <2> QED BY <1>2, <2>1
<1>7. a = s
  BY <1>2, <1>6, SeqEqual
<1> QED BY <1>3, <1>4, <1>5, <1>7 DEF a

(***************************************************************************)
(* A slash behind a text is behind what is left of it.                     *)
(***************************************************************************)
LEMMA SlashedFrom ==
  ASSUME NEW s \in Seq(Byte), NEW n \in Nat, n <= Len(s)
  PROVE  /\ From(Slashed(s), n) = Slashed(From(s, n))
         /\ Replace(Slashed(s), n) = Slashed(Replace(s, n))
<1> DEFINE z == Slashed(s)
           f == From(s, n)
           g == From(z, n)
           h == Slashed(f)
           l == Len(s)
<1>1. /\ z \in Seq(Byte) /\ Len(z) = l + 1 /\ l \in Nat
      /\ \A k \in 1..l : z[k] = s[k]
      /\ z[l + 1] = "/"
  BY SlashedIs, LenProperties
<1>2. f \in Seq(Byte) /\ Len(f) = l - n /\ \A k \in 1..Len(f) : f[k] = s[n + k]
  <2>1. /\ f \in Seq(Byte) /\ Len(f) = IF n <= Len(s) THEN Len(s) - n ELSE 0
        /\ \A k \in 1..Len(f) : f[k] = s[n + k]
    BY FromIs
  <2> HIDE DEF f
  <2> QED BY <2>1
<1> HIDE DEF z, f, l
<1>3. /\ g \in Seq(Byte) /\ Len(g) = (l + 1) - n
      /\ \A k \in 1..Len(g) : g[k] = z[n + k]
  <2>1. /\ g \in Seq(Byte) /\ Len(g) = IF n <= Len(z) THEN Len(z) - n ELSE 0
        /\ \A k \in 1..Len(g) : g[k] = z[n + k]
    BY <1>1, FromIs
  <2>2. n <= l + 1
    BY <1>1 DEF l
  <2> HIDE DEF g
  <2> QED BY <1>1, <2>1, <2>2
<1>4. /\ h \in Seq(Byte) /\ Len(h) = Len(f) + 1
      /\ \A k \in 1..Len(f) : h[k] = f[k]
      /\ h[Len(f) + 1] = "/"
  BY <1>2, SlashedIs
<1> HIDE DEF g, h
<1>5. n <= l
  BY DEF l
<1>6. Len(g) = Len(h)
  BY <1>1, <1>2, <1>3, <1>4, <1>5
<1>7. ASSUME NEW k \in 1..Len(g) PROVE g[k] = h[k]
  <2>1. CASE k \in 1..l - n
    <3>1. n + k \in 1..l
      BY <1>1, <1>5, <2>1
    <3> QED BY <1>1, <1>2, <1>3, <1>4, <2>1, <3>1
  <2>2. CASE k = (l - n) + 1
    <3>1. n + k = l + 1
      BY <1>1, <1>5, <2>2
    <3> QED BY <1>1, <1>2, <1>3, <1>4, <2>2, <3>1
  <2> QED BY <1>1, <1>3, <1>5, <2>1, <2>2
<1>8. g = h
  BY <1>3, <1>4, <1>6, <1>7, SeqEqual
<1> DEFINE w == <<"/">>
<1>9. w \in Seq(Byte)
  <2>1. "/" \in Byte
    BY ByteAssumption
  <2> QED BY <2>1, WordOf
<1> HIDE DEF w
<1>10. w \o (f \o w) = (w \o f) \o w
  BY <1>2, <1>9, ConcatAssociative
<1>11. Replace(z, n) = w \o (f \o w) /\ Slashed(Replace(s, n)) = (w \o f) \o w
  BY <1>8 DEF Replace, Slashed, w, f, g, h
<1> QED BY <1>8, <1>10, <1>11 DEF g, h, z, f

(***************************************************************************)
(* What is left behind the whole of a text, and put in its place.          *)
(***************************************************************************)
LEMMA ReplaceWhole ==
  ASSUME NEW s \in Seq(Byte)
  PROVE  From(s, Len(s)) = << >> /\ Replace(s, Len(s)) = <<"/">>
<1> DEFINE w == <<"/">>
           z == From(s, Len(s))
<1>1. w \in Seq(Byte)
  <2>1. "/" \in Byte
    BY ByteAssumption
  <2> QED BY <2>1, WordOf
<1>2. z \in Seq(Byte) /\ Len(z) = 0
  <2>1. Len(s) \in Nat
    BY LenProperties
  <2>2. z \in Seq(Byte) /\ Len(z) = IF Len(s) <= Len(s) THEN Len(s) - Len(s) ELSE 0
    BY <2>1, FromIs
  <2> HIDE DEF z
  <2> QED BY <2>1, <2>2
<1>3. Replace(s, Len(s)) = w \o z
  BY DEF Replace
<1> HIDE DEF w, z
<1>4. z = << >>
  BY <1>2, EmptySeq
<1>5. w \o << >> = w
  BY <1>1, ConcatEmptySeq
<1> QED BY <1>3, <1>4, <1>5 DEF w, z

(***************************************************************************)
(* A slash behind a text is found where there is none before it, and       *)
(* leaves what is before it alone.                                         *)
(***************************************************************************)
LEMMA SlashedFind ==
  ASSUME NEW s \in Paths, Len(s) < NPos
  PROVE  LET t == Find(s, <<"/">>, 1)
         IN /\ Find(Slashed(s), <<"/">>, 1) = IF t = NPos THEN Len(s) ELSE t
            /\ t # NPos => t \in 1..Len(s) - 1 /\ s[t + 1] = "/"
<1> DEFINE z == Slashed(s)
           t == Find(s, <<"/">>, 1)
           v == Find(z, <<"/">>, 1)
           l == Len(s)
<1>0. l < NPos /\ NPos \in Nat
  BY SizeAssumption DEF NPos
<1>1. s \in Seq(Byte) /\ l \in Nat /\ l >= 1
  BY LenProperties DEF Paths
<1>2. /\ z \in Seq(Byte) /\ Len(z) = l + 1
      /\ \A k \in 1..l : z[k] = s[k]
      /\ z[l + 1] = "/"
  BY <1>1, SlashedIs
<1>3. "/" \in Byte
  BY ByteAssumption
<1>4. \/ /\ t = NPos
         /\ \A k \in 1..l - 1 : s[k + 1] # "/"
      \/ /\ t \in 1..l - 1 /\ t \in Nat /\ s[t + 1] = "/"
         /\ \A k \in 1..t - 1 : s[k + 1] # "/"
  BY <1>1, <1>3, FindByteIs
<1>5. \/ /\ v = NPos
         /\ \A k \in 1..(l + 1) - 1 : z[k + 1] # "/"
      \/ /\ v \in 1..(l + 1) - 1 /\ v \in Nat /\ z[v + 1] = "/"
         /\ \A k \in 1..v - 1 : z[k + 1] # "/"
  BY <1>2, <1>3, FindByteIs
<1> HIDE DEF z, t, v, l
<1>6. /\ v \in 1..l /\ v \in Nat /\ z[v + 1] = "/"
      /\ \A k \in 1..v - 1 : z[k + 1] # "/"
  <2>1. l \in 1..(l + 1) - 1 /\ (l + 1) - 1 = l
    BY <1>1
  <2> QED BY <1>2, <1>5, <2>1
<1>7. \A k \in 1..l - 1 : k + 1 \in 1..l
  BY <1>1
<1>8. CASE t = NPos /\ \A k \in 1..l - 1 : s[k + 1] # "/"
  <2>1. ~(v \in 1..l - 1)
    BY <1>2, <1>6, <1>7, <1>8
  <2>2. v = l
    BY <1>1, <1>6, <2>1
  <2> QED BY <1>8, <2>2 DEF t, v, z, l
<1>9. CASE /\ t \in 1..l - 1 /\ t \in Nat /\ s[t + 1] = "/"
           /\ \A k \in 1..t - 1 : s[k + 1] # "/"
  <2>1. z[t + 1] = "/"
    BY <1>2, <1>7, <1>9
  <2>2. ~(t \in 1..v - 1)
    BY <1>6, <2>1
  <2>3. ~(v \in 1..t - 1)
    <3> SUFFICES ASSUME v \in 1..t - 1 PROVE FALSE
      OBVIOUS
    <3>1. v \in 1..l - 1 /\ s[v + 1] # "/"
      BY <1>1, <1>9
    <3> QED BY <1>2, <1>6, <1>7, <3>1
  <2>4. v = t
    BY <1>6, <1>9, <2>2, <2>3
  <2>5. t # NPos
    BY <1>0, <1>1, <1>9
  <2> QED BY <1>9, <2>4, <2>5 DEF t, v, z, l
<1> QED BY <1>4, <1>8, <1>9

(***************************************************************************)
(* What is before a slash that is added stays the same.                    *)
(***************************************************************************)
LEMMA SlashedPart ==
  ASSUME NEW s \in Seq(Byte), NEW n \in Nat, n <= Len(s), n # NPos
  PROVE  Substr(Slashed(s), 0, n) = Substr(s, 0, n)
<1> DEFINE z == Slashed(s)
           a == Substr(z, 0, n)
           b == Substr(s, 0, n)
<1>1. /\ z \in Seq(Byte) /\ Len(z) = Len(s) + 1 /\ Len(s) \in Nat
      /\ \A k \in 1..Len(s) : z[k] = s[k]
  BY SlashedIs, LenProperties
<1> HIDE DEF z
<1>2. a \in Seq(Byte) /\ Len(a) = n /\ \A k \in 1..n : a[k] = z[0 + k]
  <2>1. 0 + n <= Len(z)
    BY <1>1
  <2> QED BY <1>1, <2>1, SubstrIs
<1>3. b \in Seq(Byte) /\ Len(b) = n /\ \A k \in 1..n : b[k] = s[0 + k]
  <2>1. 0 + n <= Len(s)
    BY <1>1
  <2> QED BY <2>1, SubstrIs
<1>4. \A k \in 1..n : 0 + k \in 1..Len(s)
  BY <1>1
<1> HIDE DEF a, b
<1>5. \A k \in 1..Len(a) : a[k] = b[k]
  BY <1>1, <1>2, <1>3, <1>4
<1>6. a = b
  BY <1>2, <1>3, <1>5, SeqEqual
<1> QED BY <1>6 DEF a, b, z

(***************************************************************************)
(* What is cut off in front leaves the last byte.                          *)
(***************************************************************************)
LEMMA EndKept ==
  ASSUME NEW u \in Seq(Byte), NEW n \in Nat, n < Len(u)
  PROVE  /\ From(u, n) \in Seq(Byte) /\ Len(From(u, n)) = Len(u) - n
         /\ From(u, n)[Len(From(u, n))] = u[Len(u)]
         /\ From(u, n)[1] = u[n + 1]
         /\ Replace(u, n) \in Paths /\ Len(Replace(u, n)) = (Len(u) - n) + 1
         /\ Replace(u, n)[Len(Replace(u, n))] = u[Len(u)]
<1> DEFINE f == From(u, n)
           r == Replace(u, n)
           l == Len(u)
           w == <<"/">>
<1>1. l \in Nat /\ n < l
  BY LenProperties
<1>2. /\ f \in Seq(Byte) /\ Len(f) = l - n
      /\ \A k \in 1..Len(f) : f[k] = u[n + k]
  <2>1. /\ f \in Seq(Byte) /\ Len(f) = IF n <= Len(u) THEN Len(u) - n ELSE 0
        /\ \A k \in 1..Len(f) : f[k] = u[n + k]
    BY FromIs
  <2> HIDE DEF f
  <2> QED BY <1>1, <2>1
<1>3. w \in Seq(Byte) /\ Len(w) = 1
  <2>1. "/" \in Byte
    BY ByteAssumption
  <2> QED BY <2>1, WordOf
<1>4. r = w \o f
  BY DEF Replace
<1> HIDE DEF f, l, w
<1>5. Len(f) \in 1..Len(f) /\ 1 \in 1..Len(f) /\ n + Len(f) = l
  BY <1>1, <1>2
<1>6. f[Len(f)] = u[l] /\ f[1] = u[n + 1]
  BY <1>2, <1>5
<1>7. /\ Len(w \o f) = 1 + Len(f)
      /\ \A i \in 1..1 + Len(f) : (w \o f)[i] = IF i <= 1 THEN w[i] ELSE f[i - 1]
  <2>1. /\ Len(w \o f) = Len(w) + Len(f)
        /\ \A i \in 1..Len(w) + Len(f) :
             (w \o f)[i] = IF i <= Len(w) THEN w[i] ELSE f[i - Len(w)]
    BY <1>2, <1>3, ConcatProperties
  <2> QED BY <1>3, <2>1
<1>8. (w \o f)[1 + Len(f)] = f[Len(f)]
  <2>1. 1 + Len(f) \in 1..1 + Len(f) /\ ~(1 + Len(f) <= 1) /\ (1 + Len(f)) - 1 = Len(f)
    BY <1>1, <1>2
  <2> QED BY <1>7, <2>1
<1>9. r \in Paths
  BY ReplaceIs
<1> HIDE DEF r
<1>10. Len(r) = (l - n) + 1 /\ r[Len(r)] = u[l]
  BY <1>1, <1>2, <1>4, <1>6, <1>7, <1>8
<1> QED BY <1>2, <1>6, <1>9, <1>10 DEF f, r, l

\* A text that ends in a slash, or is given one.
Closed(s) == IF s[Len(s)] = "/" THEN s ELSE Slashed(s)

(***************************************************************************)
(* A text with a slash added is given no other.                            *)
(***************************************************************************)
LEMMA ClosedIs ==
  ASSUME NEW s \in Seq(Byte)
  PROVE  Closed(Slashed(s)) = Slashed(s)
<1> DEFINE z == Slashed(s)
<1>1. z[Len(z)] = "/"
  BY SlashedIs
<1> HIDE DEF z
<1> QED BY <1>1 DEF Closed, z

(***************************************************************************)
(* ParseSegments() of a slash adds it to what was put out.                 *)
(***************************************************************************)
LEMMA SlashAlone ==
  ASSUME NEW o \in Seq(Byte)
  PROVE  Segments[<<<<"/">>, o>>] = Slashed(o)
<1> DEFINE u == <<"/">>
           t == Find(u, <<"/">>, 1)
           e == << >>
<1>1. "/" \in Byte /\ 1 # NPos
  <2>1. "/" \in Byte
    BY ByteAssumption
  <2>2. 1 # NPos
    BY SizeAssumption DEF NPos
  <2> QED BY <2>1, <2>2
<1>2. u \in Seq(Byte) /\ Len(u) = 1 /\ u[1] = "/"
  BY <1>1, WordOf
<1>3. e \in Seq(Byte)
  OBVIOUS
<1>4. t = NPos
  <2>1. \/ t = NPos
        \/ t \in 1..Len(u) - 1
    BY <1>1, <1>2, FindByteIs
  <2> QED BY <1>2, <2>1
<1>5. u \in Paths /\ u # e
  BY <1>2 DEF Paths
<1> HIDE DEF u
<1>6. Substr(u, 0, t) = u
  BY <1>1, <1>2, <1>4, WholeIs
<1>7. Turn(u, o) = <<e, o \o u>>
  <2>1. Turn(u, o) = <<IF t = NPos THEN e ELSE From(u, t), o \o Substr(u, 0, t)>>
    <3>1. ~(Len(u) >= 3) /\ ~(Len(u) = 2) /\ ~(Len(u) >= 4) /\ ~(Len(u) = 3)
      BY <1>2
    <3> QED BY <1>5, <3>1, TurnOf
  <2> QED BY <1>4, <1>6, <2>1
<1>8. o \o u = Slashed(o) /\ Slashed(o) \in Seq(Byte)
  BY SlashedIs DEF Slashed, u
<1>9. Segments[<<u, o>>] = Segments[<<e, Slashed(o)>>]
  <2>1. Segments[<<u, o>>] = IF u = e THEN o ELSE Segments[Turn(u, o)]
    BY <1>2, SegmentsAre
  <2> QED BY <1>5, <1>7, <1>8, <2>1
<1>10. Segments[<<e, Slashed(o)>>] = Slashed(o)
  BY <1>3, <1>8, SegmentsAre
<1> QED BY <1>9, <1>10 DEF u

\* A path that ends in no slash.
Shut(u) == u \in Paths /\ Len(u) < NPos /\ u[Len(u)] # "/"

(***************************************************************************)
(* A turn on a path that ends in no slash, and on the path with one.       *)
(***************************************************************************)
LEMMA ShutTurn ==
  ASSUME NEW u, Shut(u), NEW o \in Seq(Byte)
  PROVE  \/ Segments[<<Slashed(u), o>>] = Closed(Segments[<<u, o>>])
         \/ \E v, p : /\ Shut(v) /\ Len(v) < Len(u) /\ p \in Seq(Byte)
                      /\ Segments[<<u, o>>] = Segments[<<v, p>>]
                      /\ Segments[<<Slashed(u), o>>] = Segments[<<Slashed(v), p>>]
<1> DEFINE z == Slashed(u)
           l == Len(u)
           t == Find(u, <<"/">>, 1)
           e == << >>
           c1 == l >= 3 /\ u[2] = "." /\ u[3] = "/"
           c2 == l = 2 /\ u[2] = "."
           c3 == l >= 4 /\ u[2] = "." /\ u[3] = "." /\ u[4] = "/"
           c4 == l = 3 /\ u[2] = "." /\ u[3] = "."
           Onward == \E v, p : /\ Shut(v) /\ Len(v) < Len(u) /\ p \in Seq(Byte)
                               /\ Segments[<<u, o>>] = Segments[<<v, p>>]
                               /\ Segments[<<z, o>>] = Segments[<<Slashed(v), p>>]
           Same == Segments[<<z, o>>] = Closed(Segments[<<u, o>>])
<1>1. /\ u \in Paths /\ u \in Seq(Byte) /\ l \in Nat /\ l >= 2 /\ l < NPos
      /\ u[1] = "/" /\ u[l] # "/"
  <2>1. u \in Paths /\ u \in Seq(Byte) /\ l \in Nat /\ l >= 1 /\ l < NPos
        /\ u[1] = "/" /\ u[l] # "/"
    BY LenProperties DEF Shut, Paths
  <2>2. l # 1
    BY <2>1
  <2> HIDE DEF l
  <2> QED BY <2>1, <2>2
<1>2. /\ z \in Seq(Byte) /\ Len(z) = l + 1
      /\ \A k \in 1..l : z[k] = u[k]
      /\ z[l + 1] = "/"
  BY <1>1, SlashedIs
<1>3. z \in Paths
  <2>1. 1 \in 1..l
    BY <1>1
  <2> HIDE DEF z, l
  <2> QED BY <1>1, <1>2, <2>1 DEF Paths
<1>4. /\ Segments[<<u, o>>] = Segments[Turn(u, o)]
      /\ Segments[<<z, o>>] = Segments[Turn(z, o)]
  <2>1. u # e /\ z # e
    BY <1>1, <1>2
  <2>2. /\ Segments[<<u, o>>] = IF u = e THEN o ELSE Segments[Turn(u, o)]
        /\ Segments[<<z, o>>] = IF z = e THEN o ELSE Segments[Turn(z, o)]
    BY <1>1, <1>2, SegmentsAre
  <2> QED BY <2>1, <2>2
<1>5. NPos \in Nat
  BY SizeAssumption DEF NPos
<1>6. ASSUME NEW n \in Nat, n < l, NEW p \in Seq(Byte),
             Turn(u, o) = <<Replace(u, n), p>>, Turn(z, o) = <<Replace(z, n), p>>, n >= 2
      PROVE  Onward
  <2> DEFINE v == Replace(u, n)
  <2>1. v \in Paths /\ Len(v) = (l - n) + 1 /\ v[Len(v)] = u[l]
    BY <1>1, <1>6, EndKept
  <2>2. Replace(z, n) = Slashed(v)
    BY <1>1, <1>6, SlashedFrom
  <2> HIDE DEF v, l, z
  <2>3. Len(v) < l /\ Len(v) < NPos
    BY <1>1, <1>5, <1>6, <2>1
  <2>4. Shut(v)
    BY <1>1, <2>1, <2>3 DEF Shut
  <2>5. /\ Segments[<<u, o>>] = Segments[<<v, p>>]
        /\ Segments[<<z, o>>] = Segments[<<Slashed(v), p>>]
    BY <1>4, <1>6, <2>2 DEF v
  <2>6. Len(v) < Len(u)
    BY <2>3 DEF l
  <2> QED BY <2>4, <2>5, <2>6
<1>7. ASSUME NEW p \in Seq(Byte), Turn(u, o) = <<Replace(u, l), p>>,
             Turn(z, o) = <<Replace(z, Len(z)), p>>
      PROVE  Same
  <2>1. Replace(u, l) = <<"/">> /\ Replace(z, Len(z)) = <<"/">>
    BY <1>1, <1>2, ReplaceWhole
  <2>2. Segments[<<u, o>>] = Slashed(p) /\ Segments[<<z, o>>] = Slashed(p)
    BY <1>4, <1>7, <2>1, SlashAlone
  <2> QED BY <2>2, ClosedIs
<1>8. ASSUME NEW n \in Nat, NEW p, Turn(u, o) = <<Replace(u, n), p>>
      PROVE  p \in Seq(Byte)
  <2>1. Turn(u, o) \in Seq(Byte) \X Seq(Byte)
    BY <1>1, TurnType
  <2> QED BY <1>8, <2>1
<1>9. CASE c1
  <2>1. l # 3
    BY <1>1, <1>9
  <2>2. l > 3 /\ Len(z) >= 3 /\ z[2] = "." /\ z[3] = "/"
    <3>1. 2 \in 1..l /\ 3 \in 1..l
      BY <1>1, <1>9
    <3> HIDE DEF z, l
    <3> QED BY <1>1, <1>2, <1>9, <2>1, <3>1
  <2>3. Turn(u, o) = <<Replace(u, 3), o>> /\ Turn(z, o) = <<Replace(z, 3), o>>
    BY <1>1, <1>3, <1>9, <2>2, TurnOf
  <2>4. 3 < l
    BY <2>2
  <2> HIDE DEF z, l, Onward
  <2>5. Onward
    BY <1>6, <2>3, <2>4
  <2> QED BY <2>5 DEF Onward, z
<1>10. CASE c2
  <2>1. Len(z) = 3 /\ z[2] = "." /\ z[3] = "/"
    <3>1. 2 \in 1..l /\ l + 1 = 3
      BY <1>10
    <3> HIDE DEF z, l
    <3> QED BY <1>2, <1>10, <3>1
  <2>2. Turn(u, o) = <<Replace(u, 2), o>> /\ Turn(z, o) = <<Replace(z, 3), o>>
    <3>1. Turn(u, o) = <<Replace(u, 2), o>>
      BY <1>1, <1>10, TurnOf
    <3>2. Len(z) >= 3
      BY <2>1
    <3> HIDE DEF z, l
    <3>3. Turn(z, o) = <<Replace(z, 3), o>>
      BY <1>3, <2>1, <3>2, TurnOf
    <3> QED BY <3>1, <3>3
  <2> HIDE DEF z, l, Same
  <2>3. Same
    BY <1>7, <1>10, <2>1, <2>2
  <2> QED BY <2>3 DEF Same, z
<1>11. CASE c3
  <2>1. l # 4
    BY <1>1, <1>11
  <2>2. l > 4 /\ Len(z) >= 4 /\ z[2] = "." /\ z[3] = "." /\ z[4] = "/"
    <3>1. 2 \in 1..l /\ 3 \in 1..l /\ 4 \in 1..l
      BY <1>1, <1>11
    <3> HIDE DEF z, l
    <3> QED BY <1>1, <1>2, <1>11, <2>1, <3>1
  <2>3. Turn(u, o) = <<Replace(u, 4), Parent(o)>> /\ Turn(z, o) = <<Replace(z, 4), Parent(o)>>
    BY <1>1, <1>3, <1>11, <2>2, TurnOf
  <2>4. 4 < l /\ Parent(o) \in Seq(Byte)
    BY <1>8, <2>2, <2>3
  <2> HIDE DEF z, l, Onward
  <2>5. Onward
    BY <1>6, <2>3, <2>4
  <2> QED BY <2>5 DEF Onward, z
<1>12. CASE c4
  <2>1. Len(z) = 4 /\ z[2] = "." /\ z[3] = "." /\ z[4] = "/"
    <3>1. 2 \in 1..l /\ 3 \in 1..l /\ l + 1 = 4
      BY <1>12
    <3> HIDE DEF z, l
    <3> QED BY <1>2, <1>12, <3>1
  <2>2. Turn(u, o) = <<Replace(u, 3), Parent(o)>> /\ Turn(z, o) = <<Replace(z, 4), Parent(o)>>
    <3>1. Turn(u, o) = <<Replace(u, 3), Parent(o)>>
      BY <1>1, <1>12, TurnOf
    <3>2. Len(z) >= 4
      BY <2>1
    <3> HIDE DEF z, l
    <3>3. Turn(z, o) = <<Replace(z, 4), Parent(o)>>
      BY <1>3, <2>1, <3>2, TurnOf
    <3> QED BY <3>1, <3>3
  <2>3. Parent(o) \in Seq(Byte)
    BY <1>8, <2>2
  <2> HIDE DEF z, l, Same
  <2>4. Same
    BY <1>7, <1>12, <2>1, <2>2, <2>3
  <2> QED BY <2>4 DEF Same, z
<1>13. CASE ~c1 /\ ~c2 /\ ~c3 /\ ~c4
  <2> DEFINE v == Find(z, <<"/">>, 1)
  <2>1. /\ v = IF t = NPos THEN l ELSE t
        /\ t # NPos => t \in 1..l - 1 /\ u[t + 1] = "/"
    BY <1>1, SlashedFind
  <2>2. Turn(u, o) = <<IF t = NPos THEN e ELSE From(u, t), o \o Substr(u, 0, t)>>
    BY <1>1, <1>13, TurnOf
  <2>3. v # NPos /\ v \in Nat
    BY <1>1, <1>5, <2>1
  <2>4. Turn(z, o) = <<IF v = NPos THEN e ELSE From(z, v), o \o Substr(z, 0, v)>>
    <3>1. /\ ~(Len(z) >= 3 /\ z[2] = "." /\ z[3] = "/")
          /\ ~(Len(z) = 2 /\ z[2] = ".")
      <4>1. 2 \in 1..l
        BY <1>1
      <4> HIDE DEF z, l
      <4>2. l = 2 \/ 3 \in 1..l
        BY <1>1
      <4> QED BY <1>1, <1>2, <1>13, <4>1, <4>2
    <3>2. /\ ~(Len(z) >= 4 /\ z[2] = "." /\ z[3] = "." /\ z[4] = "/")
          /\ ~(Len(z) = 3 /\ z[2] = "." /\ z[3] = ".")
      <4>1. 2 \in 1..l
        BY <1>1
      <4>2. "/" # "."
        OBVIOUS
      <4> HIDE DEF z, l
      <4>3. CASE l = 2
        BY <1>2, <4>2, <4>3
      <4>4. CASE l = 3
        <5>1. 3 \in 1..l
          BY <4>4
        <5> QED BY <1>2, <1>13, <4>1, <4>2, <4>4, <5>1
      <4>5. CASE l > 3
        <5>1. 3 \in 1..l /\ 4 \in 1..l
          BY <1>1, <4>5
        <5> QED BY <1>1, <1>2, <1>13, <4>1, <4>5, <5>1
      <4>6. l = 2 \/ l = 3 \/ l > 3
        BY <1>1
      <4> QED BY <4>3, <4>4, <4>5, <4>6
    <3> HIDE DEF z
    <3> QED BY <1>3, <3>1, <3>2, TurnOf DEF v
  <2> HIDE DEF v
  <2>5. CASE t = NPos
    <3>1. Turn(u, o) = <<e, o \o u>>
      <4>1. Substr(u, 0, t) = u
        BY <1>1, <1>5, <2>5, WholeIs
      <4> HIDE DEF t
      <4> QED BY <2>2, <2>5, <4>1
    <3>2. From(z, v) = <<"/">>
      <4>1. v = l
        BY <2>1, <2>5
      <4>2. From(z, l) = Slashed(From(u, l)) /\ From(u, l) = e
        BY <1>1, SlashedFrom, ReplaceWhole
      <4>3. Slashed(e) = <<"/">>
        BY DEF Slashed
      <4> HIDE DEF z, l, e
      <4> QED BY <4>1, <4>2, <4>3
    <3>3. Substr(z, 0, v) = u
      <4>1. Substr(z, 0, l) = Substr(u, 0, l) /\ Substr(u, 0, l) = u
        BY <1>1, <1>5, SlashedPart, WholeIs
      <4> HIDE DEF z, l, t
      <4> QED BY <2>1, <2>5, <4>1
    <3> DEFINE q == o \o u
    <3>4. q \in Seq(Byte) /\ q[Len(q)] # "/"
      <4>1. /\ q \in Seq(Byte) /\ Len(q) = Len(o) + l
            /\ \A i \in 1..Len(o) + l :
                 q[i] = IF i <= Len(o) THEN o[i] ELSE u[i - Len(o)]
        BY <1>1, ConcatProperties
      <4>2. Len(o) \in Nat
        BY LenProperties
      <4>3. /\ Len(o) + l \in 1..Len(o) + l /\ ~(Len(o) + l <= Len(o))
            /\ (Len(o) + l) - Len(o) = l
        BY <1>1, <4>2
      <4> HIDE DEF q, l
      <4> QED BY <1>1, <4>1, <4>3
    <3>5. Segments[<<u, o>>] = q
      <4>1. e \in Seq(Byte)
        OBVIOUS
      <4>2. Segments[<<e, q>>] = q
        BY <3>4, <4>1, SegmentsAre
      <4> HIDE DEF e, q
      <4> QED BY <1>4, <3>1, <4>2 DEF q
    <3>6. Segments[<<z, o>>] = Slashed(q)
      <4>1. Turn(z, o) = <<<<"/">>, q>>
        BY <2>3, <2>4, <3>2, <3>3
      <4> HIDE DEF q
      <4> QED BY <1>4, <3>4, <4>1, SlashAlone
    <3> HIDE DEF q
    <3>7. Same
      BY <3>4, <3>5, <3>6 DEF Closed
    <3> QED BY <3>7
  <2>6. CASE t # NPos
    <3> DEFINE f == From(u, t)
               p == o \o Substr(u, 0, t)
    <3>1. v = t /\ t \in Nat /\ t >= 1 /\ t < l /\ u[t + 1] = "/"
      <4> HIDE DEF t
      <4> QED BY <1>1, <2>1, <2>6
    <3>2. Turn(u, o) = <<f, p>>
      <4> HIDE DEF t
      <4> QED BY <2>2, <2>6
    <3>3. From(z, v) = Slashed(f)
      BY <1>1, <3>1, SlashedFrom
    <3>4. Substr(z, 0, v) = Substr(u, 0, t)
      <4> HIDE DEF t
      <4> QED BY <1>1, <2>6, <3>1, SlashedPart
    <3>5. Turn(z, o) = <<Slashed(f), p>>
      <4> HIDE DEF z, t, f
      <4> QED BY <2>3, <2>4, <3>3, <3>4
    <3>6. f \in Seq(Byte) /\ Len(f) = l - t /\ f[Len(f)] = u[l] /\ f[1] = u[t + 1]
      <4> HIDE DEF t
      <4> QED BY <1>1, <3>1, EndKept
    <3>7. Shut(f) /\ Len(f) < l
      <4> HIDE DEF f, t, l
      <4>1. Len(f) >= 1 /\ Len(f) < l /\ Len(f) < NPos
        BY <1>1, <1>5, <3>1, <3>6
      <4> QED BY <1>1, <3>1, <3>6, <4>1 DEF Shut, Paths
    <3>8. p \in Seq(Byte)
      <4>1. Turn(u, o) \in Seq(Byte) \X Seq(Byte)
        BY <1>1, TurnType
      <4> HIDE DEF p, f
      <4> QED BY <3>2, <4>1
    <3> HIDE DEF f, p, t
    <3>9. Onward
      BY <1>4, <3>2, <3>5, <3>7, <3>8
    <3> QED BY <3>9
  <2> QED BY <2>5, <2>6
<1> QED BY <1>9, <1>10, <1>11, <1>12, <1>13

(***************************************************************************)
(* ParseSegments() of a path that ends in no slash, and of the path with   *)
(* one: the results differ in a slash at most.                             *)
(***************************************************************************)
LEMMA ShutSegments ==
  ASSUME NEW u, Shut(u), NEW o \in Seq(Byte)
  PROVE  Segments[<<Slashed(u), o>>] = Closed(Segments[<<u, o>>])
<1> DEFINE Fails(v, p) == Segments[<<Slashed(v), p>>] # Closed(Segments[<<v, p>>])
           T == {n \in Nat : \E v \in Paths, p \in Seq(Byte) :
                               Shut(v) /\ Len(v) = n /\ Fails(v, p)}
<1>1. SUFFICES ASSUME T # {} PROVE FALSE
  <2>1. u \in Paths /\ Len(u) \in Nat
    BY LenProperties DEF Shut, Paths
  <2> QED BY <2>1
<1>2. PICK n \in T : \A i \in T : n <= i
  BY <1>1, LeastNat
<1>3. PICK v \in Paths, p \in Seq(Byte) : Shut(v) /\ Len(v) = n /\ Fails(v, p)
  BY <1>2
<1>4. PICK w, q : /\ Shut(w) /\ Len(w) < Len(v) /\ q \in Seq(Byte)
                  /\ Segments[<<v, p>>] = Segments[<<w, q>>]
                  /\ Segments[<<Slashed(v), p>>] = Segments[<<Slashed(w), q>>]
  BY <1>3, ShutTurn
<1>5. w \in Paths /\ Len(w) \in Nat
  BY <1>4, LenProperties DEF Shut, Paths
<1>6. Fails(w, q)
  BY <1>3, <1>4
<1>7. Len(w) \in T
  BY <1>4, <1>5, <1>6
<1> HIDE DEF T, Fails
<1>8. n <= Len(w) /\ n \in Nat
  BY <1>2, <1>7 DEF T
<1> QED BY <1>3, <1>4, <1>5, <1>8

(***************************************************************************)
(* A beginning of a text, and the next byte.                               *)
(***************************************************************************)
LEMMA PartGrows ==
  ASSUME NEW s \in Seq(Byte), Len(s) < NPos, NEW i \in Nat, i < Len(s)
  PROVE  Append(Substr(s, 0, i), s[i + 1]) = Substr(s, 0, i + 1)
<1> DEFINE a == Substr(s, 0, i)
           b == Substr(s, 0, i + 1)
           c == Append(a, s[i + 1])
<1>1. Len(s) \in Nat /\ NPos \in Nat /\ i + 1 <= Len(s) /\ i # NPos /\ i + 1 # NPos
  BY LenProperties, SizeAssumption DEF NPos
<1>2. a \in Seq(Byte) /\ Len(a) = i /\ \A k \in 1..i : a[k] = s[0 + k]
  <2>1. 0 + i <= Len(s)
    BY <1>1
  <2> QED BY <1>1, <2>1, SubstrIs
<1>3. b \in Seq(Byte) /\ Len(b) = i + 1 /\ \A k \in 1..i + 1 : b[k] = s[0 + k]
  <2>1. 0 + (i + 1) <= Len(s) /\ i + 1 \in Nat
    BY <1>1
  <2> QED BY <1>1, <2>1, SubstrIs
<1> HIDE DEF a, b
<1>4. s[i + 1] \in Byte
  BY <1>1, ElementOfSeq
<1>5. /\ c \in Seq(Byte) /\ Len(c) = i + 1
      /\ \A k \in 1..i : c[k] = a[k]
      /\ c[i + 1] = s[i + 1]
  BY <1>2, <1>4, AppendProperties
<1> HIDE DEF c
<1>6. ASSUME NEW k \in 1..i + 1 PROVE c[k] = b[k]
  <2>1. 0 + k = k
    OBVIOUS
  <2>2. CASE k \in 1..i
    BY <1>2, <1>3, <1>5, <2>1, <2>2
  <2>3. CASE k = i + 1
    BY <1>3, <1>5, <2>1, <2>3
  <2> QED BY <2>2, <2>3
<1>7. c = b
  BY <1>3, <1>5, <1>6, SeqEqual
<1> QED BY <1>7 DEF a, b, c

(***************************************************************************)
(* A uri without escapes is decoded to its path (protocol.cpp:690-703).    *)
(***************************************************************************)
LEMMA DecodePlain ==
  ASSUME NEW uri \in Paths, Len(uri) < NPos, \A i \in 1..Len(uri) : uri[i] # "%"
  PROVE  Decode(uri) = Substr(uri, 0, QueryAt(uri))
<1> DEFINE qv == QueryAt(uri)
           S  == Nat \X Seq(Byte)
           over(i) == i >= qv \/ (uri[i + 1] = "%" /\ i >= qv - 2)
           Ends == {p \in S : over(p[1])}
           result == [p \in S |-> p[2]]
           next == [p \in S |-> IF p \in Ends THEN p ELSE DecodeTurn(uri, p[1], p[2])]
           f == DecodeFrom(uri, qv)
           part(i) == Substr(uri, 0, i)
<1>1. /\ uri \in Seq(Byte) /\ Len(uri) \in Nat /\ uri[1] = "/"
      /\ qv \in 1..Len(uri) /\ qv \in Nat
  BY QueryAtIs, LenProperties DEF Paths
<1>2. f = Pass(S, Ends, result, next, f)
  BY DecodeLoop
<1> HIDE DEF qv
<1>3. ASSUME NEW i \in 1..qv
      PROVE  /\ part(i) \in Seq(Byte)
             /\ i < qv => Append(part(i), uri[i + 1]) = part(i + 1) /\ uri[i + 1] # "%"
  <2>1. part(i) \in Seq(Byte)
    BY <1>1, SubstrType
  <2>2. ASSUME i < qv
        PROVE  Append(part(i), uri[i + 1]) = part(i + 1) /\ uri[i + 1] # "%"
    <3>1. i \in Nat /\ i < Len(uri) /\ i + 1 \in 1..Len(uri)
      BY <1>1, <2>2
    <3> QED BY <1>1, <3>1, PartGrows
  <2> QED BY <2>1, <2>2
<1> HIDE DEF part
<1> DEFINE I == {p \in S : p[1] \in 1..qv /\ p[2] = part(p[1])}
           m == [p \in I |-> qv - p[1]]
           G == {part(qv)}
<1>4. I \in SUBSET S /\ m \in [I -> Nat]
  <2>1. \A p \in I : qv - p[1] \in Nat
    BY <1>1
  <2> QED BY <2>1
<1>5. ASSUME NEW p \in I
      PROVE  IF p \in Ends THEN result[p] \in G
             ELSE next[p] \in I /\ m[next[p]] < m[p]
  <2> DEFINE i == p[1]
             n == <<i + 1, part(i + 1)>>
  <2>1. p \in S /\ i \in 1..qv /\ i \in Nat /\ p[2] = part(i)
    OBVIOUS
  <2>2. CASE p \in Ends
    <3>1. over(i)
      BY <2>2
    <3>2. i = qv
      BY <1>1, <1>3, <2>1, <3>1
    <3>3. result[p] = p[2]
      BY <2>1
    <3> QED BY <2>1, <2>2, <3>2, <3>3
  <2>3. CASE p \notin Ends
    <3>1. i < qv
      BY <1>1, <2>1, <2>3
    <3>2. DecodeTurn(uri, i, p[2]) = n
      <4>1. uri[i + 1] # "%" /\ Append(part(i), uri[i + 1]) = part(i + 1)
        BY <1>3, <2>1, <3>1
      <4> QED BY <2>1, <4>1 DEF DecodeTurn
    <3>3. next[p] = n
      BY <2>1, <2>3, <3>2
    <3>4. n \in I
      <4>1. i + 1 \in 1..qv
        BY <1>1, <2>1, <3>1
      <4>2. part(i + 1) \in Seq(Byte)
        BY <1>3, <4>1
      <4> QED BY <4>1, <4>2
    <3>5. m[n] = qv - (i + 1) /\ m[p] = qv - i
      BY <3>4
    <3>6. qv - (i + 1) < qv - i
      BY <1>1, <2>1
    <3> QED BY <2>3, <3>3, <3>4, <3>5, <3>6
  <2> QED BY <2>2, <2>3
<1>6. <<"/">> = part(1)
  <2>1. "/" \in Byte
    BY ByteAssumption
  <2>2. 0 + 1 <= Len(uri) /\ 1 # NPos /\ 0 + 1 = 1
    BY <1>1, SizeAssumption DEF NPos
  <2> DEFINE w == <<"/">>
             a == Substr(uri, 0, 1)
  <2>3. w \in Seq(Byte) /\ Len(w) = 1 /\ w[1] = "/"
    BY <2>1, WordOf
  <2>4. a \in Seq(Byte) /\ Len(a) = 1 /\ a[1] = uri[1]
    <3>1. \A n \in Nat : 0 + n <= Len(uri) /\ n # NPos =>
            /\ Substr(uri, 0, n) \in Seq(Byte) /\ Len(Substr(uri, 0, n)) = n
            /\ \A k \in 1..n : Substr(uri, 0, n)[k] = uri[0 + k]
      BY <1>1, SubstrIs
    <3>2. 1 \in Nat /\ 1 \in 1..1
      OBVIOUS
    <3> QED BY <2>2, <3>1, <3>2
  <2> HIDE DEF w, a
  <2>5. \A k \in 1..Len(w) : w[k] = a[k]
    BY <1>1, <2>3, <2>4
  <2>6. w = a
    BY <2>3, <2>4, <2>5, SeqEqual
  <2> QED BY <2>6 DEF w, a, part
<1>7. <<1, part(1)>> \in I
  <2>1. 1 \in 1..qv /\ 1 \in Nat
    BY <1>1
  <2>2. part(1) \in Seq(Byte)
    BY <1>3, <2>1
  <2> QED BY <2>1, <2>2
<1> HIDE DEF f, S, Ends, result, next, I, m, G
<1>8. f[<<1, part(1)>>] \in G
  BY <1>2, <1>4, <1>5, <1>7, LoopAnswers
<1>9. Decode(uri) = f[<<1, part(1)>>]
  BY <1>6 DEF Decode, f, qv
<1> QED BY <1>8, <1>9 DEF G, qv, part

(***************************************************************************)
(* The slash of a redirection is where its query string begins.            *)
(***************************************************************************)
LEMMA LocationQuery ==
  ASSUME NEW uri \in Paths, Len(uri) + 1 < NPos
  PROVE  QueryAt(Location(uri)) = QueryAt(uri) + 1
<1> DEFINE q == QueryAt(uri)
           l == Location(uri)
           n == Len(uri)
           i == Find(uri, <<"?">>, 0)
           j == Find(l, <<"?">>, 0)
<1>1. n \in Nat /\ NPos \in Nat /\ n < NPos /\ n + 1 < NPos
  BY LenProperties, SizeAssumption DEF NPos, Paths
<1>2. /\ q \in Nat /\ q \in 1..n
      /\ l \in Paths /\ Len(l) = n + 1
      /\ \A k \in 1..q : l[k] = uri[k]
      /\ l[q + 1] = "/"
      /\ \A k \in q + 1..n : l[k + 1] = uri[k]
  BY <1>1, LocationBytes
<1>3. "?" \in Byte /\ "?" # "/"
  BY ByteAssumption
<1>4. uri \in Seq(Byte) /\ l \in Seq(Byte)
  BY <1>2 DEF Paths
<1>5. \/ /\ i = NPos
         /\ \A k \in 0..n - 1 : uri[k + 1] # "?"
      \/ /\ i \in 0..n - 1 /\ i \in Nat /\ uri[i + 1] = "?"
         /\ \A k \in 0..i - 1 : uri[k + 1] # "?"
  BY <1>3, <1>4, FindByteIs
<1>6. \/ /\ j = NPos
         /\ \A k \in 0..(n + 1) - 1 : l[k + 1] # "?"
      \/ /\ j \in 0..(n + 1) - 1 /\ j \in Nat /\ l[j + 1] = "?"
         /\ \A k \in 0..j - 1 : l[k + 1] # "?"
  <2>1. \/ /\ j = NPos
           /\ \A k \in 0..Len(l) - 1 : l[k + 1] # "?"
        \/ /\ j \in 0..Len(l) - 1 /\ j \in Nat /\ l[j + 1] = "?"
           /\ \A k \in 0..j - 1 : l[k + 1] # "?"
    BY <1>3, <1>4, FindByteIs
  <2> HIDE DEF j, l, n
  <2> QED BY <1>2, <2>1
<1>7. /\ q = IF i = NPos THEN n ELSE i
      /\ QueryAt(l) = IF j = NPos THEN n + 1 ELSE j
  BY <1>2 DEF QueryAt
<1> HIDE DEF q, l, n, i, j
<1>8. ASSUME i = NPos, \A k \in 0..n - 1 : uri[k + 1] # "?"
      PROVE  QueryAt(l) = q + 1
  <2>1. q = n
    BY <1>7, <1>8
  <2>2. \A k \in 1..n : l[k] # "?"
    <3>1. ASSUME NEW k \in 1..n PROVE l[k] # "?"
      <4>1. k - 1 \in 0..n - 1 /\ (k - 1) + 1 = k
        BY <1>1
      <4> QED BY <1>2, <1>8, <2>1, <4>1
    <3> QED BY <3>1
  <2>3. ~(j \in 0..(n + 1) - 1 /\ j \in Nat /\ l[j + 1] = "?")
    <3>1. j \in 0..(n + 1) - 1 => j + 1 \in 1..n \/ j + 1 = n + 1
      BY <1>1
    <3> QED BY <1>2, <1>3, <2>1, <2>2, <3>1
  <2>4. j = NPos
    BY <1>6, <2>3
  <2> QED BY <1>7, <2>1, <2>4
<1>9. ASSUME i \in 0..n - 1, i \in Nat, uri[i + 1] = "?",
             \A k \in 0..i - 1 : uri[k + 1] # "?"
      PROVE  QueryAt(l) = q + 1
  <2>1. i # NPos /\ q = i
    BY <1>1, <1>7, <1>9
  <2>2. l[(i + 1) + 1] = "?"
    <3>1. i + 1 \in q + 1..n
      BY <1>1, <1>9, <2>1
    <3> QED BY <1>2, <1>9, <3>1
  <2>3. \A k \in 1..i + 1 : l[k] # "?"
    <3>1. ASSUME NEW k \in 1..i + 1 PROVE l[k] # "?"
      <4>1. CASE k = i + 1
        BY <1>2, <1>3, <2>1, <4>1
      <4>2. CASE k # i + 1
        <5>1. k \in 1..q /\ k - 1 \in 0..i - 1 /\ (k - 1) + 1 = k
          BY <1>9, <2>1, <4>2
        <5> QED BY <1>2, <1>9, <5>1
      <4> QED BY <4>1, <4>2
    <3> QED BY <3>1
  <2>4. i + 1 \in 0..(n + 1) - 1
    BY <1>1, <1>9
  <2>5. /\ j \in 0..(n + 1) - 1 /\ j \in Nat /\ l[j + 1] = "?"
        /\ \A k \in 0..j - 1 : l[k + 1] # "?"
    BY <1>6, <2>2, <2>4
  <2>6. ~(j < i + 1)
    <3> SUFFICES ASSUME j < i + 1 PROVE FALSE
      OBVIOUS
    <3>1. j + 1 \in 1..i + 1
      BY <1>9, <2>5
    <3> QED BY <2>3, <2>5, <3>1
  <2>7. ~(i + 1 < j)
    <3> SUFFICES ASSUME i + 1 < j PROVE FALSE
      OBVIOUS
    <3>1. i + 1 \in 0..j - 1
      BY <1>9, <2>5
    <3> QED BY <2>2, <2>5, <3>1
  <2>8. j = i + 1
    BY <1>9, <2>5, <2>6, <2>7
  <2>9. j # NPos
    BY <1>1, <2>5
  <2> QED BY <1>7, <2>1, <2>8, <2>9
<1>10. QueryAt(l) = q + 1
  BY <1>5, <1>8, <1>9
<1> QED BY <1>10 DEF q, l

(***************************************************************************)
(* Who follows a redirection without escapes asks for the resource with a  *)
(* slash at its end, and the uri has one where its path ends.              *)
(***************************************************************************)
LEMMA Followed ==
  ASSUME NEW uri \in Paths, Len(uri) + 1 < NPos, uri[QueryAt(uri)] # "/",
         \A i \in 1..Len(Location(uri)) : Location(uri)[i] # "%"
  PROVE  /\ Resource(Location(uri)) = Closed(Resource(uri))
         /\ Location(uri)[QueryAt(Location(uri))] = "/"
<1> DEFINE q == QueryAt(uri)
           l == Location(uri)
           n == Len(uri)
           u == Substr(uri, 0, q)
           v == Substr(l, 0, q + 1)
           z == Slashed(u)
           e == << >>
<1>1. n \in Nat /\ NPos \in Nat /\ n + 1 < NPos /\ n < NPos
  BY LenProperties, SizeAssumption DEF NPos, Paths
<1>2. /\ q \in Nat /\ q \in 1..n
      /\ l \in Paths /\ Len(l) = n + 1
      /\ \A k \in 1..q : l[k] = uri[k]
      /\ l[q + 1] = "/"
      /\ \A k \in q + 1..n : l[k + 1] = uri[k]
  BY <1>1, LocationBytes
<1>3. uri \in Seq(Byte) /\ l \in Seq(Byte) /\ uri[1] = "/" /\ uri[q] # "/"
  BY <1>2 DEF Paths
<1>4. QueryAt(l) = q + 1
  BY LocationQuery
<1>5. \A k \in 1..Len(l) : l[k] # "%"
  OBVIOUS
<1>6. Decode(l) = v
  <2> HIDE DEF l, q
  <2>1. Len(l) < NPos
    BY <1>1, <1>2
  <2>2. Decode(l) = Substr(l, 0, QueryAt(l))
    BY <1>2, <1>5, <2>1, DecodePlain
  <2> QED BY <1>4, <2>2
<1>7. Decode(uri) = u
  <2>1. \A k \in 1..n : uri[k] # "%"
    <3> SUFFICES ASSUME NEW k \in 1..n PROVE uri[k] # "%"
      OBVIOUS
    <3> HIDE DEF l, q, n
    <3>1. CASE k <= q
      <4>1. k \in 1..q /\ k \in 1..n + 1
        BY <1>1, <1>2, <3>1
      <4> QED BY <1>2, <1>5, <4>1
    <3>2. CASE ~(k <= q)
      <4>1. k \in q + 1..n /\ k + 1 \in 1..n + 1
        BY <1>1, <1>2, <3>2
      <4> QED BY <1>2, <1>5, <4>1
    <3> QED BY <3>1, <3>2
  <2> QED BY <1>1, <2>1, DecodePlain
<1> HIDE DEF l, q
<1>8. u \in Seq(Byte) /\ Len(u) = q /\ \A k \in 1..q : u[k] = uri[k]
  <2>1. 0 + q <= Len(uri) /\ q # NPos
    BY <1>1, <1>2
  <2>2. u \in Seq(Byte) /\ Len(u) = q /\ \A k \in 1..q : u[k] = uri[0 + k]
    BY <1>2, <1>3, <2>1, SubstrIs
  <2>3. \A k \in 1..q : 0 + k = k
    BY <1>2
  <2> QED BY <2>2, <2>3
<1>9. v \in Seq(Byte) /\ Len(v) = q + 1 /\ \A k \in 1..q + 1 : v[k] = l[k]
  <2>1. 0 + (q + 1) <= Len(l) /\ q + 1 # NPos /\ q + 1 \in Nat
    BY <1>1, <1>2
  <2>2. v \in Seq(Byte) /\ Len(v) = q + 1 /\ \A k \in 1..q + 1 : v[k] = l[0 + k]
    BY <1>3, <2>1, SubstrIs
  <2>3. \A k \in 1..q + 1 : 0 + k = k
    BY <1>2
  <2> QED BY <2>2, <2>3
<1>10. /\ z \in Seq(Byte) /\ Len(z) = Len(u) + 1
       /\ \A k \in 1..Len(u) : z[k] = u[k]
       /\ z[Len(u) + 1] = "/"
  BY <1>8, SlashedIs
<1> HIDE DEF u, v, z
<1>11. v = z
  <2>1. ASSUME NEW k \in 1..Len(v) PROVE v[k] = z[k]
    <3>1. k \in 1..q \/ k = q + 1
      BY <1>2, <1>9
    <3>2. CASE k \in 1..q
      <4>1. k \in 1..q + 1
        BY <1>2, <3>2
      <4> QED BY <1>2, <1>8, <1>9, <1>10, <3>2, <4>1
    <3>3. CASE k = q + 1
      <4>1. k \in 1..q + 1
        BY <1>2, <3>3
      <4> QED BY <1>2, <1>8, <1>9, <1>10, <3>3, <4>1
    <3> QED BY <3>1, <3>2, <3>3
  <2>2. Len(v) = Len(z)
    BY <1>8, <1>9, <1>10
  <2> QED BY <1>9, <1>10, <2>1, <2>2, SeqEqual
<1>12. Shut(u)
  <2>1. 1 \in 1..q /\ q \in 1..q /\ q < NPos /\ q >= 1
    BY <1>1, <1>2
  <2>2. u[1] = "/" /\ u[Len(u)] # "/"
    BY <1>3, <1>8, <2>1
  <2> QED BY <1>8, <2>1, <2>2 DEF Shut, Paths
<1>13. e \in Seq(Byte)
  OBVIOUS
<1> HIDE DEF e
<1>14. Segments[<<z, e>>] = Closed(Segments[<<u, e>>])
  BY <1>12, <1>13, ShutSegments DEF z
<1>15. Resource(l) = Segments[<<z, e>>] /\ Resource(uri) = Segments[<<u, e>>]
  BY <1>6, <1>7, <1>11 DEF Resource, ParseSegments, e
<1> QED BY <1>2, <1>4, <1>14, <1>15 DEF l

(***************************************************************************)
(* Only a directory whose path ends in no slash is redirected              *)
(* (protocol.cpp:782-788).                                                 *)
(***************************************************************************)
LEMMA MovedOnly ==
  ASSUME NEW q, NEW c, q.status # 303, Process(q, c).status = 303
  PROVE  /\ q.status = 200 /\ q.uri[QueryAt(q.uri)] # "/"
         /\ Process(q, c) = Refuse(FormatHeader(<< >>, "Location", Formatted(Location(q.uri))),
                                   303, q, Kept(q, c))
<1> DEFINE keep == Kept(q, c)
           b == AddHeader(<< >>, "Connection", Persistence(keep))
           moved == FormatHeader(<< >>, "Location", Formatted(Location(q.uri)))
           get == q.method # "HEAD"
           page == IF get THEN ListDir(q.resource, c.entries) ELSE << >>
           e == << >>
           allow == AddHeader(e, "Allow", <<"GET,HEAD">>)
           post  == ~c.cgi /\ q.method = "POST"
           slash == q.uri[QueryAt(q.uri)] = "/"
           fails == get /\ ~c.opens
           lost  == q.method = "POST" /\ ~q.length.ok
           r405  == Refuse(allow, 405, q, keep)
           r404  == Refuse(e, 404, q, keep)
           r403  == Refuse(e, 403, q, keep)
           r303  == Refuse(moved, 303, q, keep)
           none  == Refuse(b, 404, q, keep)
           error == Refuse(b, 500, q, keep)
           r411  == Refuse(b, 411, q, keep)
           list  == SendPage(b, page, keep)
           out   == SendOutput(b, c.out)
           same  == Reply(304, Generate(b, Number(304), TRUE), 0, keep)
           file  == SendFile(b, q, c, keep)
           rest  == IF c.dir /\ ~c.listing THEN none
                    ELSE IF c.dir THEN IF fails THEN error ELSE list
                    ELSE IF c.cgi THEN IF lost THEN r411 ELSE out
                    ELSE IF c.fresh THEN same
                    ELSE IF fails THEN error ELSE file
           r == Process(q, c)
<1>1. /\ q.status # 200 => r = Refuse(<< >>, q.status, q, keep)
      /\ q.status = 200 =>
           r = IF post THEN r405
               ELSE IF ~c.exists THEN r404
               ELSE IF c.deny THEN r403
               ELSE IF c.dir /\ ~slash THEN r303
               ELSE rest
  BY DEF Process
<1>2. \A d, s : Refuse(d, s, q, keep).status = s
  BY DEF Refuse, Reply
<1>3. /\ r405.status # 303 /\ r404.status # 303 /\ r403.status # 303
      /\ none.status # 303 /\ error.status # 303 /\ r411.status # 303
  <2> HIDE DEF b, keep, e, allow
  <2>1. r405.status = 405 /\ r404.status = 404 /\ r403.status = 403
    BY <1>2
  <2>2. none.status = 404 /\ error.status = 500 /\ r411.status = 411
    BY <1>2
  <2> HIDE DEF r405, r404, r403, none, error, r411
  <2> QED BY <2>1, <2>2
<1>4. list.status # 303 /\ out.status # 303 /\ same.status # 303 /\ file.status # 303
  BY DEF SendPage, SendOutput, SendFile, Reply
<1>5. r.status = 303
  OBVIOUS
<1>6. q.status = 200
  <2> SUFFICES ASSUME q.status # 200 PROVE FALSE
    OBVIOUS
  <2> HIDE DEF r, keep
  <2>1. r = Refuse(<< >>, q.status, q, keep)
    BY <1>1
  <2>2. r.status = q.status
    BY <1>2, <2>1
  <2> QED BY <1>5, <2>2
<1>7. rest \in {none, error, list, r411, out, same, file}
  <2> HIDE DEF none, error, list, r411, out, same, file, fails, lost
  <2> QED OBVIOUS
<1> HIDE DEF r405, r404, r403, r303, none, error, list, r411, out, same, file
<1>8. rest.status # 303
  <2> HIDE DEF rest
  <2> QED BY <1>3, <1>4, <1>7
<1> HIDE DEF r, rest, post, slash
<1>9. ~slash /\ r = r303
  BY <1>1, <1>3, <1>5, <1>6, <1>8
<1> QED BY <1>6, <1>9 DEF slash, r, r303

(***************************************************************************)
(* What the remote end reads in the header of a redirection.               *)
(***************************************************************************)
LEMMA MovedSays ==
  ASSUME NEW uri \in Paths, Unbroken(uri), Len(uri) + 6 < BufferSize, NEW q, NEW keep
  PROVE  LET f == Formatted(Location(uri))
         IN Only(Refuse(FormatHeader(<< >>, "Location", f), 303, q, keep).head, "Location") = f
<1> DEFINE f == Formatted(Location(uri))
           e == << >>
           moved == FormatHeader(e, "Location", f)
           zero == <<"0">>
           p == Persistence(keep)
           typed == AddHeader(moved, "Content-Length", zero)
           b == AddHeader(typed, "Connection", p)
           g == Generate(b, Number(303), FALSE)
           h == Generate(b, Number(303), TRUE)
           One(d) == Collected(d) /\ Single(Open(d), "Location", f)
<1>1. f \in Seq(Byte) /\ Unbroken(f) /\ Len(f) + 5 < BufferSize
  BY LocationIs
<1> HIDE DEF f
<1>2. /\ "Location" \in Name /\ "Content-Length" \in Name /\ "Connection" \in Name
      /\ "Location" # "Content-Length" /\ "Location" # "Connection"
  BY NamesAre
<1>3. moved = AddHeader(e, "Location", f)
  <2>1. Len(f) \in Nat /\ BufferSize \in Nat
    BY <1>1, LenProperties, BufferAssumption
  <2>2. Len(f) < BufferSize
    BY <1>1, <2>1
  <2> QED BY <1>1, <2>2, FormatHeaderIs
<1>4. Collected(e) /\ Silent(Open(e), "Location")
  BY <1>2, NoneCollected
<1> HIDE DEF e, moved
<1>5. One(moved)
  BY <1>1, <1>2, <1>3, <1>4, AddHeaderIs
<1>6. /\ zero \in Seq(Byte) /\ Unbroken(zero) /\ Len(zero) + 5 < BufferSize
  <2>1. "0" \in Byte
    BY NumberAssumption, SizeAssumption
  <2>2. zero \in Seq(Byte) /\ Unbroken(zero) /\ Len(zero) = 1
    BY <2>1, OneWord
  <2> HIDE DEF zero
  <2> QED BY <2>2, BufferAssumption
<1>7. /\ p \in Seq(Byte) /\ Unbroken(p) /\ Len(p) + 5 < BufferSize
  <2>1. p \in Seq(Byte) /\ Unbroken(p) /\ Len(p) = 1
    BY PersistenceIs
  <2> HIDE DEF p
  <2> QED BY <2>1, BufferAssumption
<1> HIDE DEF zero, p
<1>8. One(typed)
  BY <1>2, <1>5, <1>6, AddHeaderIs
<1> HIDE DEF typed
<1>9. One(b)
  BY <1>2, <1>7, <1>8, AddHeaderIs
<1> HIDE DEF b
<1>10. /\ Number(303) \in Seq(Byte) /\ Unbroken(Number(303))
       /\ Len(Number(303)) + 7 < BufferSize
  <2>1. 303 \in Statuses
    BY DEF Statuses
  <2>2. /\ Number(303) \in Seq(Byte) /\ Unbroken(Number(303))
        /\ Len(Number(303)) = 1
    BY <2>1, NumberIs
  <2> HIDE DEF h, g
  <2>3. \A n : Len(n) = 1 => Len(n) + 7 < BufferSize
    BY BufferAssumption
  <2> QED BY <2>2, <2>3
<1>11. Block(g) /\ Begins(g) /\ Keeps(Open(b), g) /\ h = g \o CRLF
  BY <1>9, <1>10, GenerateIs
<1> HIDE DEF g, h
<1>12. Keeps(g, h) /\ Ended(h)
  BY <1>11, EndIs
<1>13. Single(h, "Location", f)
  BY <1>2, <1>9, <1>11, <1>12 DEF Keeps
<1>14. h \in Seq(Byte)
  BY <1>12 DEF Ended
<1>15. Only(h, "Location") = f
  BY <1>2, <1>13, <1>14, SingleSays
<1>16. Refuse(moved, 303, q, keep).head = h
  BY DEF Refuse, Reply, h, b, typed, zero, p
<1> QED BY <1>15, <1>16 DEF f, moved, e

(***************************************************************************)
(* A redirection leads to the resource with a slash, which is answered.    *)
(***************************************************************************)
LEMMA Redirected ==
  ASSUME NEW q, NEW c, NEW r, Answered(r, q, c), Fits(r), r.reply.status = 303,
         Only(r.reply.head, "Location") # <<"undefined">>
  PROVE  LET location == Only(r.reply.head, "Location")
         IN /\ Resource(location) = Closed(r.pci.resource)
            /\ \A p : (p.status = 200 /\ p.uri = location) => Process(p, c).status # 303
<1> DEFINE uri == q.uri
           l == Location(uri)
           f == Formatted(l)
           location == Only(r.reply.head, "Location")
<1>1. /\ r.pci.uri = q.uri /\ r.pci.resource = q.resource /\ r.reply = Process(q, c)
      /\ q.status # 303
      /\ q.status = 200 => /\ q.uri \in Paths /\ Unbroken(q.uri)
                           /\ q.resource = Resource(q.uri)
  BY DEF Answered
<1>2. /\ q.status = 200 /\ q.uri[QueryAt(q.uri)] # "/"
      /\ r.reply = Refuse(FormatHeader(<< >>, "Location", f), 303, q, Kept(q, c))
  <2>1. Process(q, c).status = 303
    BY <1>1
  <2> QED BY <1>1, <2>1, MovedOnly
<1>3. /\ uri \in Paths /\ Unbroken(uri) /\ Len(uri) + 6 < BufferSize
      /\ r.pci.resource = Resource(uri) /\ uri[QueryAt(uri)] # "/"
  BY <1>1, <1>2 DEF Fits
<1>4. location = f
  BY <1>2, <1>3, MovedSays
<1> HIDE DEF location, uri
<1>5. Len(uri) + 1 < NPos
  <2>1. Len(uri) \in Nat /\ BufferSize \in Nat /\ BufferSize < NPos /\ NPos \in Int
    BY <1>3, LenProperties, BufferAssumption, SizeAssumption DEF Paths, NPos
  <2> QED BY <1>3, <2>1
<1>6. location = l /\ \A i \in 1..Len(l) : l[i] # "%"
  <2>1. location # <<"undefined">>
    BY DEF location
  <2>2. f = IF \E i \in 1..Len(l) : l[i] = "%" THEN <<"undefined">> ELSE l
    BY DEF Formatted
  <2> HIDE DEF f, l
  <2> QED BY <1>4, <2>1, <2>2
<1>7. Resource(l) = Closed(Resource(uri)) /\ l[QueryAt(l)] = "/"
  BY <1>3, <1>5, <1>6, Followed
<1> HIDE DEF l
<1>8. ASSUME NEW p, p.status = 200, p.uri = location PROVE Process(p, c).status # 303
  <2> SUFFICES ASSUME Process(p, c).status = 303 PROVE FALSE
    OBVIOUS
  <2>1. p.status # 303
    BY <1>8
  <2>2. p.uri[QueryAt(p.uri)] # "/"
    BY <2>1, MovedOnly
  <2> QED BY <1>6, <1>7, <1>8, <2>2
<1>9. Resource(location) = Closed(r.pci.resource)
  BY <1>3, <1>6, <1>7
<1> QED BY <1>8, <1>9 DEF location

(***************************************************************************)
(* The redirections that the server has answered with.                     *)
(***************************************************************************)
\* What RedirectEnds says of one of them, and that its resource is a text.
Leads(t) ==
  t.reply.status = 303 /\ Fits(t) /\ Only(t.reply.head, "Location") # <<"undefined">> =>
    LET location == Only(t.reply.head, "Location")
    IN /\ t.pci.resource \in Seq(Byte)
       /\ Resource(location) = Closed(t.pci.resource)
       /\ \A p : (p.status = 200 /\ p.uri = location) =>
            Process(p, t.answer).status # 303

RedirectInv ==
  /\ PathsInv
  /\ "uri" \in DOMAIN pci
  /\ \A k \in 1..Len(taken) : Leads(taken[k])

(***************************************************************************)
(* RedirectInv is inductive.                                               *)
(***************************************************************************)
LEMMA RedirectInit ==
  ASSUME Init
  PROVE  RedirectInv
<1>1. PathsInv
  BY PathsInit
<1>2. "uri" \in DOMAIN pci
  BY DEF Init
<1>3. 1..Len(taken) = {}
  BY DEF Init
<1> QED BY <1>1, <1>2, <1>3 DEF RedirectInv

LEMMA RedirectKept ==
  ASSUME RedirectInv, [Next]_vars
  PROVE  RedirectInv'
<1>1. PathsInv'
  BY PathsKept DEF RedirectInv
<1>2. CASE RunTask
  <2>1. PathsInv /\ "uri" \in DOMAIN pci
    BY DEF RedirectInv
  <2>2. "uri" \in DOMAIN pci'
    BY <1>2, <2>1, RunTaskAdds
  <2>3. PICK r, q : \E c \in Answers :
          /\ Answered(r, q, c)
          /\ \A k \in 1..Len(taken') :
               taken'[k] = r \/ (k \in 1..Len(taken) /\ taken'[k] = taken[k])
    BY <1>2, <2>1, RunTaskAdds
  <2>4. PICK c \in Answers :
          /\ Answered(r, q, c)
          /\ \A k \in 1..Len(taken') :
               taken'[k] = r \/ (k \in 1..Len(taken) /\ taken'[k] = taken[k])
    BY <2>3
  <2>5. Leads(r)
    <3> SUFFICES ASSUME r.reply.status = 303, Fits(r),
                        Only(r.reply.head, "Location") # <<"undefined">>
        PROVE LET location == Only(r.reply.head, "Location")
              IN /\ r.pci.resource \in Seq(Byte)
                 /\ Resource(location) = Closed(r.pci.resource)
                 /\ \A p : (p.status = 200 /\ p.uri = location) =>
                      Process(p, r.answer).status # 303
      BY DEF Leads
    <3>1. r.answer = c
      BY <2>4 DEF Answered
    <3>2. r.pci.resource \in Seq(Byte)
      <4>1. q.status # 303 /\ Process(q, c).status = 303
        BY <2>4 DEF Answered
      <4>2. q.status = 200
        BY <4>1, MovedOnly
      <4> QED BY <2>4, <4>2 DEF Answered
    <3> QED BY <2>4, <3>1, <3>2, Redirected
  <2>6. ASSUME NEW k \in 1..Len(taken') PROVE Leads(taken'[k])
    <3>1. CASE taken'[k] = r
      BY <2>5, <3>1
    <3>2. CASE k \in 1..Len(taken) /\ taken'[k] = taken[k]
      BY <3>2 DEF RedirectInv
    <3> QED BY <2>4, <3>1, <3>2
  <2> QED BY <1>1, <2>2, <2>6 DEF RedirectInv, Leads, Fits
<1>3. CASE UNCHANGED <<pci, taken>>
  BY <1>1, <1>3 DEF RedirectInv, Leads, Fits
<1>4. [Next]_vars => RunTask \/ UNCHANGED <<pci, taken>>
  BY DEF Next, Receive, Finish, vars
<1> QED BY <1>2, <1>3, <1>4

(***************************************************************************)
(* Who follows the redirection of a directory, however long its path and   *)
(* with whatever dot segments and query string, names the same directory   *)
(* and is not sent on again (protocol.cpp:690-706, 782-788, 939-988).      *)
(***************************************************************************)
THEOREM RedirectCorrect == Spec => []RedirectEnds
<1>1. Init => RedirectInv
  BY RedirectInit
<1>2. RedirectInv /\ [Next]_vars => RedirectInv'
  BY RedirectKept
<1>3. RedirectInv => RedirectEnds
  <2> SUFFICES ASSUME RedirectInv, NEW k \in 1..Len(taken),
                      taken[k].reply.status = 303, Fits(taken[k]),
                      Only(taken[k].reply.head, "Location") # <<"undefined">>
      PROVE LET t        == taken[k]
                location == Only(t.reply.head, "Location")
                q        == [status |-> 200, keep |-> TRUE, uri |-> location,
                             method |-> "GET", resource |-> Resource(location)]
            IN /\ Resource(location) = IF Last(t.pci.resource) = "/" THEN t.pci.resource
                                       ELSE Append(t.pci.resource, "/")
               /\ Process(q, t.answer).status # 303
    BY DEF RedirectEnds
  <2> DEFINE t == taken[k]
             s == t.pci.resource
             location == Only(t.reply.head, "Location")
             q == [status |-> 200, keep |-> TRUE, uri |-> location,
                   method |-> "GET", resource |-> Resource(location)]
  <2>1. /\ s \in Seq(Byte) /\ Resource(location) = Closed(s)
        /\ \A p : (p.status = 200 /\ p.uri = location) => Process(p, t.answer).status # 303
    BY DEF RedirectInv, Leads
  <2> HIDE DEF t, s, location
  <2>2. q.status = 200 /\ q.uri = location
    OBVIOUS
  <2>3. Process(q, t.answer).status # 303
    <3> HIDE DEF q
    <3> QED BY <2>1, <2>2
  <2>4. Closed(s) = IF Last(s) = "/" THEN s ELSE Append(s, "/")
    <3>1. "/" \in Byte
      BY ByteAssumption
    <3>2. Append(s, "/") = s \o <<"/">>
      BY <2>1, <3>1, AppendIsConcat
    <3> QED BY <3>2 DEF Closed, Slashed, Last
  <2> QED BY <2>1, <2>3, <2>4 DEF t, s, location
<1> QED BY <1>1, <1>2, <1>3, PTL DEF Spec

=============================================================================
