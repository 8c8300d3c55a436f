--------------------------- MODULE RequestProofs ---------------------------
(***************************************************************************)
(* What the server makes of the bytes of a connection is what their sender *)
(* meant: the requests that are taken are those that were sent, with the   *)
(* length of their body and the resource of their uri.                     *)
(***************************************************************************)
EXTENDS RequestTextProofs

-----------------------------------------------------------------------------
(* The requests of a remote end, in the bytes it sends.                    *)

\* f[n] are the first n pieces of s, joined.
Joins(s, n, f) == f = [i \in 1..n |-> IF i = 1 THEN s[i] ELSE f[i - 1] \o s[i]]

\* Text h is made of the pieces s, the i-th of which ends at o[i].
Joined(s, h, o) ==
  /\ h \in Seq(Byte) /\ o \in [0..Len(s) -> Nat]
  /\ o[0] = 0 /\ o[Len(s)] = Len(h)
  /\ \A i \in 1..Len(s) : o[i] = o[i - 1] + Len(s[i]) /\ Part(s[i], h, o[i - 1])

(***************************************************************************)
(* Such a function exists.                                                 *)
(***************************************************************************)
LEMMA JoinsExists ==
  ASSUME NEW s, NEW n \in Nat
  PROVE  \E f : Joins(s, n, f)
<1> DEFINE T == {k \in Nat : ~ \E f : Joins(s, k, f)}
<1>1. ASSUME T # {} PROVE FALSE
  <2>1. PICK k \in T : \A j \in T : k <= j
    <3> HIDE DEF T
    <3>1. T \in SUBSET Nat
      BY DEF T
    <3> QED BY <1>1, <3>1, LeastNat
  <2>2. k \in Nat /\ k # 0
    <3>1. Joins(s, 0, [i \in 1..0 |-> i])
      BY DEF Joins
    <3> QED BY <3>1
  <2>3. k - 1 \in Nat /\ ~(k <= k - 1)
    BY <2>2
  <2>4. PICK f : Joins(s, k - 1, f)
    BY <2>1, <2>3
  <2> DEFINE g == [i \in 1..k |-> IF i = k THEN (IF k = 1 THEN s[k] ELSE f[k - 1] \o s[k])
                                  ELSE f[i]]
  <2>5. ASSUME NEW i \in 1..k PROVE g[i] = IF i = 1 THEN s[i] ELSE g[i - 1] \o s[i]
    <3>1. CASE i = k
      <4>1. CASE k = 1
        BY <3>1, <4>1
      <4>2. CASE k # 1
        <5>1. k - 1 \in 1..k /\ k - 1 # k
          BY <2>2, <4>2
        <5>2. g[k - 1] = f[k - 1]
          BY <5>1
        <5> QED BY <2>2, <3>1, <4>2, <5>2
      <4> QED BY <4>1, <4>2
    <3>2. CASE i # k
      <4>1. i \in 1..k - 1
        BY <2>2, <3>2
      <4>2. f[i] = IF i = 1 THEN s[i] ELSE f[i - 1] \o s[i]
        BY <2>4, <4>1 DEF Joins
      <4>3. i # 1 => i - 1 \in 1..k /\ i - 1 # k
        BY <2>2, <4>1
      <4>4. i # 1 => g[i - 1] = f[i - 1]
        BY <4>3
      <4> QED BY <3>2, <4>2, <4>4
    <3> QED BY <3>1, <3>2
  <2>6. Joins(s, k, g)
    <3>1. g = [i \in 1..k |-> g[i]]
      OBVIOUS
    <3> HIDE DEF g
    <3> QED BY <2>5, <3>1 DEF Joins
  <2> QED BY <2>1, <2>6
<1> QED BY <1>1

(***************************************************************************)
(* A part of a part is a part.                                             *)
(***************************************************************************)
LEMMA PartOf ==
  ASSUME NEW r, NEW s, NEW h, NEW d, NEW e, Part(r, s, d), Part(s, h, e)
  PROVE  Part(r, h, e + d)
<1>1. /\ r \in Seq(Byte) /\ h \in Seq(Byte) /\ d \in Nat /\ e \in Nat
      /\ Len(r) \in Nat /\ Len(s) \in Nat /\ Len(h) \in Nat
      /\ d + Len(r) <= Len(s) /\ e + Len(s) <= Len(h)
      /\ \A k \in 1..Len(r) : s[d + k] = r[k]
      /\ \A k \in 1..Len(s) : h[e + k] = s[k]
  BY DEF Part
<1>2. (e + d) + Len(r) <= Len(h) /\ e + d \in Nat
  BY <1>1
<1>3. ASSUME NEW k \in 1..Len(r) PROVE h[(e + d) + k] = r[k]
  <2>1. d + k \in 1..Len(s) /\ e + (d + k) = (e + d) + k
    BY <1>1
  <2> QED BY <1>1, <2>1
<1> QED BY <1>1, <1>2, <1>3 DEF Part

(***************************************************************************)
(* Both texts are parts of their concatenation.                            *)
(***************************************************************************)
LEMMA ConcatParts ==
  ASSUME NEW a \in Seq(Byte), NEW b \in Seq(Byte)
  PROVE  /\ a \o b \in Seq(Byte) /\ Len(a \o b) = Len(a) + Len(b)
         /\ Part(a, a \o b, 0) /\ Part(b, a \o b, Len(a))
<1> DEFINE h == a \o b
<1>1. /\ h \in Seq(Byte) /\ Len(h) = Len(a) + Len(b)
      /\ \A k \in 1..Len(a) + Len(b) : h[k] = IF k <= Len(a) THEN a[k] ELSE b[k - Len(a)]
  BY ConcatProperties
<1>2. Len(a) \in Nat /\ Len(b) \in Nat
  BY LenProperties
<1> HIDE DEF h
<1>3. ASSUME NEW k \in 1..Len(a) PROVE h[0 + k] = a[k]
  <2>1. k \in 1..Len(a) + Len(b) /\ k <= Len(a) /\ 0 + k = k
    BY <1>2
  <2> QED BY <1>1, <2>1
<1>4. ASSUME NEW k \in 1..Len(b) PROVE h[Len(a) + k] = b[k]
  <2>1. /\ Len(a) + k \in 1..Len(a) + Len(b) /\ ~(Len(a) + k <= Len(a))
        /\ (Len(a) + k) - Len(a) = k
    BY <1>2
  <2> QED BY <1>1, <2>1
<1>5. Len(h) \in Nat /\ 0 + Len(a) <= Len(h) /\ Len(a) + Len(b) <= Len(h)
  BY <1>1, <1>2
<1> QED BY <1>1, <1>2, <1>3, <1>4, <1>5 DEF Part, h

(***************************************************************************)
(* Joined texts are found where the lengths of those before them say.      *)
(***************************************************************************)
LEMMA JoinedIs ==
  ASSUME NEW s \in Seq(Seq(Byte))
  PROVE  \E o : Joined(s, FlattenSeq(s), o)
<1> DEFINE n == Len(s)
           h == FlattenSeq(s)
<1>1. n \in Nat /\ \A i \in 1..n : s[i] \in Seq(Byte)
  BY LenProperties, ElementOfSeq
<1>2. CASE n = 0
  <2>1. h = s /\ s = << >>
    BY <1>2, EmptySeq DEF FlattenSeq
  <2>2. h \in Seq(Byte) /\ Len(h) = 0
    BY <2>1
  <2>3. Joined(s, h, [i \in 0..n |-> 0])
    <3> HIDE DEF h
    <3>1. \A i \in 1..Len(s) : FALSE
      BY <1>2
    <3> QED BY <1>2, <2>2, <3>1 DEF Joined
  <2> QED BY <2>3
<1>3. CASE n # 0
  <2>1. PICK f : Joins(s, n, f) /\ h = f[n]
    <3> DEFINE g == CHOOSE f : f = [i \in 1..n |-> IF i = 1 THEN s[i] ELSE f[i - 1] \o s[i]]
    <3>1. h = g[n]
      BY <1>3 DEF FlattenSeq
    <3>2. \E f : Joins(s, n, f)
      BY <1>1, JoinsExists
    <3> HIDE DEF h, n
    <3>3. Joins(s, n, g)
      BY <3>2 DEF Joins
    <3> QED BY <3>1, <3>3
  <2>2. \A i \in 1..n : f[i] = IF i = 1 THEN s[i] ELSE f[i - 1] \o s[i]
    BY <2>1 DEF Joins
  <2> HIDE DEF h, n
  <2> DEFINE Bad == {k \in 1..n : f[k] \notin Seq(Byte)}
  <2>3. \A k \in 1..n : f[k] \in Seq(Byte)
    <3>1. ASSUME Bad # {} PROVE FALSE
      <4>1. PICK k \in Bad : \A j \in Bad : k <= j
        <5>1. Bad \in SUBSET Nat
          BY <1>1
        <5> HIDE DEF Bad
        <5> QED BY <3>1, <5>1, LeastNat
      <4>2. k \in 1..n /\ k # 1
        BY <1>1, <2>2
      <4>3. k - 1 \in 1..n /\ ~(k <= k - 1)
        BY <1>1, <4>2
      <4>4. f[k - 1] \in Seq(Byte)
        BY <4>1, <4>3
      <4>5. f[k] = f[k - 1] \o s[k] /\ s[k] \in Seq(Byte)
        BY <1>1, <2>2, <4>2
      <4>6. f[k] \in Seq(Byte)
        BY <4>4, <4>5, ConcatProperties
      <4> QED BY <4>1, <4>6
    <3> QED BY <3>1
  <2> DEFINE o == [i \in 0..n |-> IF i = 0 THEN 0 ELSE Len(f[i])]
  <2>4. \A i \in 1..n : o[i] = Len(f[i]) /\ Len(f[i]) \in Nat
    BY <1>1, <2>3, LenProperties
  <2>5. o[0] = 0 /\ o \in [0..n -> Nat]
    <3>1. \A i \in 0..n : i # 0 => i \in 1..n
      BY <1>1
    <3>2. \A i \in 0..n : (IF i = 0 THEN 0 ELSE Len(f[i])) \in Nat
      BY <2>4, <3>1
    <3> QED BY <1>1, <3>2
  <2> HIDE DEF o
  <2>6. ASSUME NEW i \in 1..n
        PROVE  /\ o[i] = o[i - 1] + Len(s[i]) /\ Part(s[i], f[i], o[i - 1])
               /\ i # 1 => Part(f[i - 1], f[i], 0)
    <3>1. s[i] \in Seq(Byte) /\ Len(s[i]) \in Nat /\ f[i] \in Seq(Byte)
      BY <1>1, <2>3, LenProperties
    <3>2. CASE i = 1
      <4>1. f[i] = s[i] /\ o[i - 1] = 0 /\ o[i] = Len(f[i])
        BY <2>2, <2>4, <2>5, <3>2
      <4>2. \A k \in 1..Len(s[i]) : f[i][0 + k] = s[i][k]
        BY <3>1, <4>1
      <4> QED BY <3>1, <3>2, <4>1, <4>2 DEF Part
    <3>3. CASE i # 1
      <4>1. i - 1 \in 1..n
        BY <1>1, <3>3
      <4>2. /\ f[i - 1] \in Seq(Byte) /\ f[i] = f[i - 1] \o s[i]
            /\ o[i - 1] = Len(f[i - 1]) /\ o[i] = Len(f[i])
        BY <2>2, <2>3, <2>4, <3>3, <4>1
      <4> QED BY <3>1, <4>2, ConcatParts
    <3> QED BY <3>2, <3>3
  <2>7. ASSUME NEW i \in 1..n PROVE Part(s[i], f[n], o[i - 1])
    <3> DEFINE Not == {k \in 1..n : i <= k /\ ~Part(s[i], f[k], o[i - 1])}
    <3>1. ASSUME Not # {} PROVE FALSE
      <4>1. PICK k \in Not : \A j \in Not : k <= j
        <5>1. Not \in SUBSET Nat
          BY <1>1
        <5> HIDE DEF Not
        <5> QED BY <3>1, <5>1, LeastNat
      <4>2. k \in 1..n /\ i <= k /\ k # i
        BY <2>6
      <4>3. k - 1 \in 1..n /\ ~(k <= k - 1) /\ i <= k - 1 /\ k # 1
        BY <1>1, <4>2
      <4>4. Part(s[i], f[k - 1], o[i - 1])
        BY <4>1, <4>3
      <4>5. Part(f[k - 1], f[k], 0)
        BY <2>6, <4>2, <4>3
      <4>6. Part(s[i], f[k], 0 + o[i - 1])
        BY <4>4, <4>5, PartOf
      <4>7. 0 + o[i - 1] = o[i - 1]
        BY <4>4 DEF Part
      <4> QED BY <4>1, <4>6, <4>7
    <3>2. n \in 1..n /\ i <= n
      BY <1>1, <1>3
    <3> QED BY <3>1, <3>2
  <2>8. n \in 1..n
    BY <1>1, <1>3
  <2>9. h \in Seq(Byte) /\ o[n] = Len(h)
    BY <2>1, <2>3, <2>4, <2>8
  <2>10. Joined(s, h, o)
    BY <2>1, <2>5, <2>6, <2>7, <2>9 DEF Joined, n
  <2> QED BY <2>10 DEF h
<1> QED BY <1>2, <1>3

(***************************************************************************)
(* A byte of a part.                                                       *)
(***************************************************************************)
LEMMA PartAt ==
  ASSUME NEW s, NEW h, NEW d, Part(s, h, d), NEW k \in 1..Len(s)
  PROVE  h[d + k] = s[k]
BY DEF Part

(***************************************************************************)
(* Words of two bytes, and a byte n times.                                 *)
(***************************************************************************)
LEMMA TwoWord ==
  ASSUME NEW a \in Byte, NEW b \in Byte
  PROVE  <<a, b>> \in Seq(Byte) /\ Len(<<a, b>>) = 2 /\ <<a, b>>[1] = a /\ <<a, b>>[2] = b
OBVIOUS

LEMMA TimesIs ==
  ASSUME NEW b \in Byte, NEW n \in Nat
  PROVE  LET z == [i \in 1..n |-> b]
         IN z \in Seq(Byte) /\ Len(z) = n /\ \A k \in 1..n : z[k] = b
OBVIOUS

(***************************************************************************)
(* The bytes of a header field.                                            *)
(***************************************************************************)
FieldOK(h) ==
  /\ h.name \in Name /\ h.blanks \in Nat /\ h.content \in Seq(Name)
  /\ Len(h.content) >= 1 => h.content[1] # " "

LEMMA RenderFieldIs ==
  ASSUME NEW h, FieldOK(h)
  PROVE  LET f == RenderField(h)
             b == h.blanks
             n == Len(h.content)
         IN /\ f \in Seq(Byte) /\ n \in Nat /\ Len(f) = (b + n) + 4
            /\ f[1] = h.name /\ f[2] = ":"
            /\ \A k \in 1..b : f[2 + k] = " "
            /\ \A k \in 1..n : f[(2 + b) + k] = h.content[k]
            /\ f[(b + n) + 3] = "CR" /\ f[(b + n) + 4] = "LF"
            /\ \A k \in 1..(b + n) + 2 : f[k] # "CR"
<1> DEFINE f == RenderField(h)
           b == h.blanks
           n == Len(h.content)
           w == <<h.name, ":">>
           z == [i \in 1..b |-> " "]
           wz == w \o z
           wzc == wz \o h.content
<1>1. /\ h.name \in Name /\ b \in Nat /\ h.content \in Seq(Byte) /\ n \in Nat
      /\ \A k \in 1..n : h.content[k] \in Name
  <2>1. h.content \in Seq(Name) /\ Name \subseteq Byte
    BY DEF FieldOK, Name
  <2>2. h.content \in Seq(Byte)
    BY <2>1
  <2> QED BY <2>1, <2>2, LenProperties, ElementOfSeq DEF FieldOK
<1>2. w \in Seq(Byte) /\ Len(w) = 2 /\ w[1] = h.name /\ w[2] = ":"
  <2>1. h.name \in Byte /\ ":" \in Byte
    BY <1>1, WordsAssumption DEF Name
  <2> QED BY <2>1, TwoWord
<1>3. z \in Seq(Byte) /\ Len(z) = b /\ \A k \in 1..b : z[k] = " "
  <2>1. " " \in Byte
    BY ByteAssumption
  <2> HIDE DEF b
  <2> QED BY <1>1, <2>1, TimesIs DEF z
<1>4. CRLF \in Seq(Byte) /\ Len(CRLF) = 2 /\ CRLF[1] = "CR" /\ CRLF[2] = "LF"
  <2>1. "CR" \in Byte /\ "LF" \in Byte
    BY ByteAssumption
  <2> QED BY <2>1 DEF CRLF
<1>5. f = wzc \o CRLF
  BY DEF RenderField
<1> HIDE DEF f, b, n, w, z
<1>6. /\ wz \in Seq(Byte) /\ Len(wz) = 2 + b /\ Part(w, wz, 0) /\ Part(z, wz, 2)
  BY <1>2, <1>3, ConcatParts
<1> HIDE DEF wz
<1>7. /\ wzc \in Seq(Byte) /\ Len(wzc) = (2 + b) + n /\ Part(wz, wzc, 0)
      /\ Part(h.content, wzc, 2 + b)
  BY <1>1, <1>6, ConcatParts DEF n
<1> HIDE DEF wzc
<1>8. /\ f \in Seq(Byte) /\ Len(f) = ((2 + b) + n) + 2 /\ Part(wzc, f, 0)
      /\ Part(CRLF, f, (2 + b) + n)
  BY <1>4, <1>5, <1>7, ConcatParts
<1>9. Part(w, f, 0) /\ Part(z, f, 2) /\ Part(h.content, f, 2 + b)
  <2>1. Part(wz, f, 0 + 0)
    BY <1>7, <1>8, PartOf
  <2>2. Part(wz, f, 0)
    BY <2>1
  <2>3. Part(w, f, 0 + 0) /\ Part(z, f, 0 + 2)
    BY <1>6, <2>2, PartOf
  <2>4. Part(h.content, f, 0 + (2 + b))
    BY <1>7, <1>8, PartOf
  <2>5. 0 + (2 + b) = 2 + b
    BY <1>1
  <2> QED BY <2>3, <2>4, <2>5
<1>10. f[1] = h.name /\ f[2] = ":"
  <2>1. f[0 + 1] = w[1] /\ f[0 + 2] = w[2]
    BY <1>2, <1>9 DEF Part
  <2> QED BY <1>2, <2>1
<1>11. \A k \in 1..b : f[2 + k] = " "
  BY <1>3, <1>9 DEF Part
<1>12. \A k \in 1..n : f[(2 + b) + k] = h.content[k]
  BY <1>9 DEF Part, n
<1>13. f[(b + n) + 3] = "CR" /\ f[(b + n) + 4] = "LF" /\ Len(f) = (b + n) + 4
  <2>1. f[((2 + b) + n) + 1] = "CR" /\ f[((2 + b) + n) + 2] = "LF"
    BY <1>4, <1>8 DEF Part
  <2>2. ((2 + b) + n) + 1 = (b + n) + 3 /\ ((2 + b) + n) + 2 = (b + n) + 4
    BY <1>1
  <2> QED BY <1>8, <2>1, <2>2
<1>14. ASSUME NEW k \in 1..(b + n) + 2 PROVE f[k] # "CR"
  <2>1. CASE k = 1 \/ k = 2
    BY <1>1, <1>10, <2>1 DEF Name
  <2>2. CASE k > 2 /\ k <= 2 + b
    <3>1. k - 2 \in 1..b /\ 2 + (k - 2) = k
      BY <1>1, <2>2
    <3>2. f[k] = " "
      BY <1>11, <3>1
    <3> QED BY <3>2
  <2>3. CASE k > 2 + b
    <3>1. k - (2 + b) \in 1..n /\ (2 + b) + (k - (2 + b)) = k
      BY <1>1, <2>3
    <3>2. f[k] = h.content[k - (2 + b)] /\ h.content[k - (2 + b)] \in Name
      BY <1>1, <1>12, <3>1
    <3> QED BY <3>2 DEF Name
  <2> QED BY <1>1, <2>1, <2>2, <2>3
<1> QED BY <1>1, <1>8, <1>10, <1>11, <1>12, <1>13, <1>14 DEF f, b, n

\* The header fields of r, as they are written.
FieldsOf(r) == [i \in 1..Len(r.fields) |-> RenderField(r.fields[i])]

(***************************************************************************)
(* What Regular() says, with a field at a time.                            *)
(***************************************************************************)
LEMMA RegularIs ==
  ASSUME NEW r, Regular(r)
  PROVE  LET u == FlattenSeq(r.uri)
         IN /\ r.method \in Name \ {" "} /\ r.version \in Name \ {" "}
            /\ u \in Seq(Byte) /\ Len(u) \in Nat /\ Len(u) >= 1 /\ u[1] = "/"
            /\ \A k \in 1..Len(u) : u[k] \in Name \ {" "}
            /\ Len(r.fields) \in Nat
            /\ \A i \in 1..Len(r.fields) : FieldOK(r.fields[i])
<1> DEFINE u == FlattenSeq(r.uri)
           F == [name : Name, blanks : Nat, content : Seq(Name)]
<1>1. /\ r.method \in Name \ {" "} /\ r.version \in Name \ {" "}
      /\ u \in Seq(Name \ {" "}) /\ Starts(u, <<"/">>)
      /\ r.fields \in Seq(F)
      /\ \A i \in 1..Len(r.fields) : ~Starts(r.fields[i].content, <<" ">>)
  BY DEF Regular, Name
<1> HIDE DEF u
<1>2. u \in Seq(Byte) /\ Len(u) \in Nat /\ \A k \in 1..Len(u) : u[k] \in Name \ {" "}
  <2>1. Name \ {" "} \subseteq Byte
    BY DEF Name
  <2> HIDE DEF F
  <2>3. u \in Seq(Byte)
    BY <1>1, <2>1, SeqMonotonic
  <2> QED BY <1>1, <2>3, LenProperties, ElementOfSeq
<1>3. Len(u) >= 1 /\ u[1] = "/"
  <2>1. "/" \in Byte
    BY ByteAssumption
  <2>2. Len(<<"/">>) <= Len(u) /\ At(u, <<"/">>, 0)
    BY <1>1, <1>2, <2>1, WordOf, StartsIs
  <2>3. u[0 + 1] = <<"/">>[1] /\ Len(<<"/">>) = 1
    BY <2>1, <2>2, WordOf DEF At
  <2> QED BY <2>2, <2>3
<1>4. Len(r.fields) \in Nat
  <2> HIDE DEF F
  <2> QED BY <1>1, LenProperties
<1>5. ASSUME NEW i \in 1..Len(r.fields) PROVE FieldOK(r.fields[i])
  <2> DEFINE h == r.fields[i]
  <2>1. h \in F
    <3> HIDE DEF F
    <3> QED BY <1>1, ElementOfSeq
  <2>2. h.name \in Name /\ h.blanks \in Nat /\ h.content \in Seq(Name)
    BY <2>1
  <2>3. ~Starts(h.content, <<" ">>)
    BY <1>1
  <2> HIDE DEF h, F
  <2>4. h.content \in Seq(Byte) /\ Len(h.content) \in Nat
    <3>1. Name \subseteq Byte
      BY DEF Name
    <3> QED BY <2>2, <3>1, LenProperties
  <2>5. Len(h.content) >= 1 => h.content[1] # " "
    <3>1. ASSUME Len(h.content) >= 1, h.content[1] = " " PROVE FALSE
      <4>1. " " \in Byte
        BY ByteAssumption
      <4>2. Len(<<" ">>) = 1 /\ <<" ">>[1] = " " /\ <<" ">> \in Seq(Byte)
        BY <4>1, WordOf
      <4>3. At(h.content, <<" ">>, 0)
        <5>1. \A k \in 1..1 : h.content[0 + k] = <<" ">>[k]
          <6>1. \A k \in 1..1 : k = 1 /\ 0 + k = 1
            OBVIOUS
          <6> QED BY <3>1, <4>2, <6>1
        <5> QED BY <4>2, <5>1 DEF At
      <4>4. Starts(h.content, <<" ">>)
        BY <2>4, <3>1, <4>2, <4>3, StartsIs
      <4> QED BY <2>3, <4>4
    <3> QED BY <3>1
  <2> QED BY <2>2, <2>5 DEF FieldOK, h
<1> QED BY <1>1, <1>2, <1>3, <1>4, <1>5 DEF u

\* The bytes t of request r: its first line ends at e[0], its i-th field at e[i].
Laid(r, t, e) ==
  LET u == FlattenSeq(r.uri)
      n == Len(r.fields)
  IN /\ t \in Seq(Byte) /\ e \in [0..n -> Nat]
     /\ t[1] = r.method /\ t[2] = " "
     /\ \A k \in 1..Len(u) : t[2 + k] = u[k]
     /\ t[Len(u) + 3] = " " /\ t[Len(u) + 4] = r.version
     /\ e[0] = Len(u) + 6 /\ Pair(t, Len(u) + 5)
     /\ \A i \in 1..n : /\ e[i] = e[i - 1] + Len(FieldsOf(r)[i])
                        /\ Part(FieldsOf(r)[i], t, e[i - 1])
     /\ Len(t) = e[n] + 2 /\ Pair(t, e[n] + 1)

LEMMA RenderIs ==
  ASSUME NEW r, Regular(r)
  PROVE  \E e : Laid(r, Render(r), e)
<1> DEFINE u == FlattenSeq(r.uri)
           n == Len(r.fields)
           t == Render(r)
           fs == FieldsOf(r)
           h == FlattenSeq(fs)
           a == <<r.method, " ">>
           v == <<" ", r.version>>
           au == a \o u
           auv == au \o v
           l == auv \o CRLF
           lh == l \o h
<1>1. t = lh \o CRLF
  BY DEF Render, FieldsOf
<1>2. /\ r.method \in Name \ {" "} /\ r.version \in Name \ {" "}
      /\ u \in Seq(Byte) /\ Len(u) \in Nat /\ n \in Nat
      /\ \A i \in 1..n : FieldOK(r.fields[i])
  BY RegularIs
<1>0. u \in Seq(Byte) /\ Len(u) \in Nat /\ n \in Nat
  BY <1>2
<1>3. fs \in Seq(Seq(Byte)) /\ Len(fs) = n
  <2>1. \A i \in 1..n : RenderField(r.fields[i]) \in Seq(Byte)
    BY <1>2, RenderFieldIs
  <2> HIDE DEF n
  <2>2. [i \in 1..n |-> RenderField(r.fields[i])] \in Seq(Seq(Byte))
        /\ Len([i \in 1..n |-> RenderField(r.fields[i])]) = n
    BY <1>0, <2>1
  <2> QED BY <2>2 DEF FieldsOf, n
<1> HIDE DEF t, u, fs
<1>4. PICK o : Joined(fs, h, o)
  BY <1>3, JoinedIs
<1>5. a \in Seq(Byte) /\ Len(a) = 2 /\ a[1] = r.method /\ a[2] = " "
  <2>1. r.method \in Byte /\ " " \in Byte
    BY <1>2, ByteAssumption DEF Name
  <2> QED BY <2>1, TwoWord
<1>6. v \in Seq(Byte) /\ Len(v) = 2 /\ v[1] = " " /\ v[2] = r.version
  <2>1. r.version \in Byte /\ " " \in Byte
    BY <1>2, ByteAssumption DEF Name
  <2> QED BY <2>1, TwoWord
<1>7. CRLF \in Seq(Byte) /\ Len(CRLF) = 2 /\ CRLF[1] = "CR" /\ CRLF[2] = "LF"
  <2>1. "CR" \in Byte /\ "LF" \in Byte
    BY ByteAssumption
  <2> QED BY <2>1 DEF CRLF
<1>8. h \in Seq(Byte) /\ Len(h) \in Nat /\ Len(h) = o[n] /\ o \in [0..n -> Nat] /\ o[0] = 0
  BY <1>3, <1>4, LenProperties DEF Joined
<1>50. /\ Len(a) = 2 /\ 1 \in 1..Len(a) /\ 2 \in 1..Len(a)
       /\ Len(v) = 2 /\ 1 \in 1..Len(v) /\ 2 \in 1..Len(v)
  OBVIOUS
<1> HIDE DEF a, v, h
<1>9. au \in Seq(Byte) /\ Len(au) = 2 + Len(u) /\ Part(a, au, 0) /\ Part(u, au, 2)
  BY <1>0, <1>5, ConcatParts
<1> HIDE DEF au
<1>10. /\ auv \in Seq(Byte) /\ Len(auv) = (2 + Len(u)) + 2
       /\ Part(au, auv, 0) /\ Part(v, auv, 2 + Len(u))
  BY <1>6, <1>9, ConcatParts
<1> HIDE DEF auv
<1>11. /\ l \in Seq(Byte) /\ Len(l) = ((2 + Len(u)) + 2) + 2
       /\ Part(auv, l, 0) /\ Part(CRLF, l, (2 + Len(u)) + 2)
  BY <1>7, <1>10, ConcatParts
<1> HIDE DEF l
<1>12. /\ lh \in Seq(Byte) /\ Len(lh) = (((2 + Len(u)) + 2) + 2) + Len(h)
       /\ Part(l, lh, 0) /\ Part(h, lh, ((2 + Len(u)) + 2) + 2)
  BY <1>8, <1>11, ConcatParts
<1> HIDE DEF lh
<1>13. /\ t \in Seq(Byte) /\ Len(t) = ((((2 + Len(u)) + 2) + 2) + Len(h)) + 2
       /\ Part(lh, t, 0) /\ Part(CRLF, t, (((2 + Len(u)) + 2) + 2) + Len(h))
  BY <1>1, <1>7, <1>12, ConcatParts
<1>14. /\ Part(a, t, 0) /\ Part(u, t, 2) /\ Part(v, t, 2 + Len(u))
       /\ Part(CRLF, t, 4 + Len(u)) /\ Part(h, t, 6 + Len(u))
       /\ Part(CRLF, t, (6 + Len(u)) + Len(h)) /\ Len(t) = ((6 + Len(u)) + Len(h)) + 2
  <2>1. Part(l, t, 0 + 0) /\ Part(h, t, 0 + (((2 + Len(u)) + 2) + 2))
    BY <1>12, <1>13, PartOf
  <2>2. Part(l, t, 0)
    BY <2>1
  <2>3. Part(auv, t, 0 + 0) /\ Part(CRLF, t, 0 + ((2 + Len(u)) + 2))
    BY <1>11, <2>2, PartOf
  <2>4. Part(auv, t, 0)
    BY <2>3
  <2>5. Part(au, t, 0 + 0) /\ Part(v, t, 0 + (2 + Len(u)))
    BY <1>10, <2>4, PartOf
  <2>6. Part(au, t, 0)
    BY <2>5
  <2>7. Part(a, t, 0 + 0) /\ Part(u, t, 0 + 2)
    BY <1>9, <2>6, PartOf
  <2>8. /\ 0 + 0 = 0 /\ 0 + 2 = 2 /\ 0 + (2 + Len(u)) = 2 + Len(u)
        /\ 0 + ((2 + Len(u)) + 2) = 4 + Len(u)
        /\ 0 + (((2 + Len(u)) + 2) + 2) = 6 + Len(u)
        /\ (((2 + Len(u)) + 2) + 2) + Len(h) = (6 + Len(u)) + Len(h)
    BY <1>0, <1>8
  <2> QED BY <1>13, <2>1, <2>3, <2>5, <2>7, <2>8
<1> DEFINE e == [i \in 0..n |-> (6 + Len(u)) + o[i]]
<1>15. e \in [0..n -> Nat] /\ e[0] = Len(u) + 6 /\ e[n] = (6 + Len(u)) + Len(h)
  BY <1>0, <1>8
<1>16. ASSUME NEW i \in 1..n
       PROVE  e[i] = e[i - 1] + Len(fs[i]) /\ Part(fs[i], t, e[i - 1])
  <2>1. i \in 0..n /\ i - 1 \in 0..n /\ i \in 1..Len(fs)
    BY <1>0, <1>3
  <2>2. o[i] = o[i - 1] + Len(fs[i]) /\ Part(fs[i], h, o[i - 1])
    BY <1>4, <2>1 DEF Joined
  <2>3. Part(fs[i], t, (6 + Len(u)) + o[i - 1])
    BY <1>14, <2>2, PartOf
  <2>4. o[i - 1] \in Nat /\ Len(fs[i]) \in Nat
    BY <2>2 DEF Part
  <2>5. e[i] = (6 + Len(u)) + o[i] /\ e[i - 1] = (6 + Len(u)) + o[i - 1]
    BY <2>1
  <2> HIDE DEF e
  <2>6. e[i] = e[i - 1] + Len(fs[i])
    BY <1>0, <2>2, <2>4, <2>5
  <2> QED BY <2>3, <2>5, <2>6
<1> HIDE DEF e
<1>17. t[1] = r.method /\ t[2] = " "
  <2>1. Part(a, t, 0)
    BY <1>14
  <2>4. \A k \in 1..Len(a) : t[0 + k] = a[k]
    BY <2>1, PartAt
  <2>2. t[0 + 1] = a[1] /\ t[0 + 2] = a[2]
    BY <2>4, <1>50
  <2>3. 0 + 1 = 1 /\ 0 + 2 = 2
    OBVIOUS
  <2> QED BY <1>5, <2>2, <2>3, Zenon
<1>18. \A k \in 1..Len(u) : t[2 + k] = u[k]
  BY <1>14 DEF Part
<1>19. t[Len(u) + 3] = " " /\ t[Len(u) + 4] = r.version
  <2>1. t[(2 + Len(u)) + 1] = v[1] /\ t[(2 + Len(u)) + 2] = v[2]
    <3>1. Part(v, t, 2 + Len(u))
      BY <1>14
    <3>2. \A k \in 1..Len(v) : t[(2 + Len(u)) + k] = v[k]
      BY <3>1, PartAt
    <3>3. t[(2 + Len(u)) + 1] = v[1] /\ t[(2 + Len(u)) + 2] = v[2]
      BY <1>50, <3>2
    <3> QED BY <1>6, <3>3
  <2>2. (2 + Len(u)) + 1 = Len(u) + 3 /\ (2 + Len(u)) + 2 = Len(u) + 4
    BY <1>0
  <2> QED BY <1>6, <2>1, <2>2
<1>20. Pair(t, Len(u) + 5)
  <2>1. t[(4 + Len(u)) + 1] = "CR" /\ t[(4 + Len(u)) + 2] = "LF"
    BY <1>7, <1>14 DEF Part
  <2>2. (4 + Len(u)) + 1 = Len(u) + 5 /\ (4 + Len(u)) + 2 = (Len(u) + 5) + 1
    BY <1>0
  <2> QED BY <2>1, <2>2 DEF Pair
<1>21. Len(t) = e[n] + 2 /\ Pair(t, e[n] + 1)
  <2>1. t[e[n] + 1] = "CR" /\ t[e[n] + 2] = "LF"
    BY <1>7, <1>14, <1>15 DEF Part
  <2>2. (e[n] + 1) + 1 = e[n] + 2
    BY <1>15
  <2> QED BY <1>14, <1>15, <2>1, <2>2 DEF Pair
<1>22. Laid(r, t, e)
  <2> HIDE DEF n
  <2> QED BY <1>13, <1>15, <1>16, <1>17, <1>18, <1>19, <1>20, <1>21 DEF Laid, n, u, fs
<1> QED BY <1>22 DEF t

\* Field f lies in text t behind d bytes and ends at z.
FieldLaid(f, t, d, z) ==
  LET b == f.blanks
      c == Len(f.content)
  IN /\ d \in Nat /\ b \in Nat /\ c \in Nat /\ z = ((d + b) + c) + 4
     /\ z \in Nat /\ z <= Len(t)
     /\ f.content \in Seq(Byte) /\ f.name \in Name
     /\ c >= 1 => f.content[1] # " "
     /\ t[d + 1] = f.name /\ t[d + 2] = ":"
     /\ \A k \in 1..b : t[(d + 2) + k] = " "
     /\ \A k \in 1..c : t[((d + 2) + b) + k] = f.content[k]
     /\ Pair(t, z - 1)
     /\ \A p \in d + 1..z - 2 : t[p] # "CR"

(***************************************************************************)
(* A field within the bytes of its request.                                *)
(***************************************************************************)
LEMMA LaidField ==
  ASSUME NEW r, NEW t, NEW e, Regular(r), Laid(r, t, e), NEW i \in 1..Len(r.fields)
  PROVE  FieldLaid(r.fields[i], t, e[i - 1], e[i])
<1> DEFINE f == r.fields[i]
           b == f.blanks
           c == Len(f.content)
           d == e[i - 1]
           w == RenderField(f)
<1>1. FieldOK(f) /\ Len(r.fields) \in Nat
  BY RegularIs
<1>2. FieldsOf(r)[i] = w
  BY DEF FieldsOf
<1>3. e[i] = d + Len(w) /\ Part(w, t, d)
  BY <1>2 DEF Laid
<1> HIDE DEF f, w
<1>4. /\ c \in Nat /\ Len(w) = (b + c) + 4
      /\ w[1] = f.name /\ w[2] = ":"
      /\ \A k \in 1..b : w[2 + k] = " "
      /\ \A k \in 1..c : w[(2 + b) + k] = f.content[k]
      /\ w[(b + c) + 3] = "CR" /\ w[(b + c) + 4] = "LF"
      /\ \A k \in 1..(b + c) + 2 : w[k] # "CR"
  BY <1>1, RenderFieldIs DEF w
<1>5. /\ b \in Nat /\ f.name \in Name /\ f.content \in Seq(Byte)
      /\ c >= 1 => f.content[1] # " "
  <2>1. f.content \in Seq(Name) /\ Name \subseteq Byte
    BY <1>1 DEF FieldOK, Name
  <2>2. f.content \in Seq(Byte)
    BY <2>1, SeqMonotonic
  <2> QED BY <1>1, <2>2 DEF FieldOK
<1> HIDE DEF b, c, d
<1>6. d \in Nat /\ b \in Nat /\ c \in Nat /\ Len(w) = (b + c) + 4 /\ e[i] = ((d + b) + c) + 4
  <2>1. d \in Nat
    BY <1>3 DEF Part
  <2>2. e[i] = d + ((b + c) + 4) /\ Len(w) = (b + c) + 4 /\ c \in Nat /\ b \in Nat
    BY <1>3, <1>4, <1>5
  <2> QED BY <2>1, <2>2
<1>7. e[i] \in Nat /\ e[i] <= Len(t)
  <2>1. d + Len(w) <= Len(t)
    BY <1>3 DEF Part
  <2> QED BY <1>3, <1>6, <2>1
<1>8. \A k \in 1..(b + c) + 4 : t[d + k] = w[k]
  BY <1>3, <1>4 DEF Part
<1>9. t[d + 1] = f.name /\ t[d + 2] = ":"
  <2>1. 1 \in 1..(b + c) + 4 /\ 2 \in 1..(b + c) + 4
    BY <1>6
  <2>2. t[d + 1] = w[1] /\ t[d + 2] = w[2]
    BY <1>8, <2>1
  <2> QED BY <1>4, <2>2
<1>10. ASSUME NEW k \in 1..b PROVE t[(d + 2) + k] = " "
  <2>1. 2 + k \in 1..(b + c) + 4 /\ (d + 2) + k = d + (2 + k)
    BY <1>6
  <2> QED BY <1>4, <1>8, <2>1
<1>11. ASSUME NEW k \in 1..c PROVE t[((d + 2) + b) + k] = f.content[k]
  <2>1. (2 + b) + k \in 1..(b + c) + 4 /\ ((d + 2) + b) + k = d + ((2 + b) + k)
    BY <1>6
  <2> QED BY <1>4, <1>8, <2>1
<1>12. Pair(t, e[i] - 1)
  <2>1. /\ (b + c) + 3 \in 1..(b + c) + 4 /\ d + ((b + c) + 3) = e[i] - 1
        /\ (b + c) + 4 \in 1..(b + c) + 4 /\ d + ((b + c) + 4) = (e[i] - 1) + 1
    BY <1>6
  <2>2. t[e[i] - 1] = w[(b + c) + 3] /\ t[(e[i] - 1) + 1] = w[(b + c) + 4]
    BY <1>8, <2>1
  <2> QED BY <1>4, <2>2 DEF Pair
<1>13. ASSUME NEW p \in d + 1..e[i] - 2 PROVE t[p] # "CR"
  <2>1. /\ p - d \in 1..(b + c) + 2 /\ p - d \in 1..(b + c) + 4 /\ d + (p - d) = p
    BY <1>6
  <2>2. t[p] = w[p - d]
    BY <1>8, <2>1
  <2> QED BY <1>4, <2>1, <2>2
<1> QED BY <1>5, <1>6, <1>7, <1>9, <1>10, <1>11, <1>12, <1>13 DEF f, b, c, d, FieldLaid

\* The line ends of text t: one behind the first line, one behind each of n
\* fields, one more.
BrokenAt(t, e, n) ==
  /\ n \in Nat /\ Len(t) \in Nat /\ Len(t) = e[n] + 2
  /\ \A i \in 0..n : e[i] \in Nat /\ e[i] >= 7 /\ Pair(t, e[i] - 1)
  /\ \A i, j \in 0..n : i <= j => e[i] <= e[j]
  /\ Pair(t, e[n] + 1)
  /\ \A p \in 1..Len(t) : t[p] = "CR" => p = e[n] + 1 \/ \E i \in 0..n : p = e[i] - 1

(***************************************************************************)
(* The line ends of a request: one behind the first line, one behind every *)
(* field, one more.                                                        *)
(***************************************************************************)
LEMMA LaidBreaks ==
  ASSUME NEW r, NEW t, NEW e, Regular(r), Laid(r, t, e)
  PROVE  BrokenAt(t, e, Len(r.fields))
<1> DEFINE n == Len(r.fields)
           u == FlattenSeq(r.uri)
<1>1. /\ n \in Nat /\ Len(u) \in Nat /\ Len(u) >= 1
      /\ r.method \in Name /\ r.version \in Name
      /\ \A k \in 1..Len(u) : u[k] \in Name
  BY RegularIs
<1>2. /\ t \in Seq(Byte) /\ e \in [0..n -> Nat] /\ t[1] = r.method /\ t[2] = " "
      /\ \A k \in 1..Len(u) : t[2 + k] = u[k]
      /\ t[Len(u) + 3] = " " /\ t[Len(u) + 4] = r.version
      /\ e[0] = Len(u) + 6 /\ Pair(t, Len(u) + 5)
      /\ Len(t) = e[n] + 2 /\ Pair(t, e[n] + 1)
  BY DEF Laid
<1>3. \A i \in 1..n : LET d == e[i - 1]
                      IN /\ e[i] >= d + 4 /\ Pair(t, e[i] - 1)
                         /\ \A p \in d + 1..e[i] - 2 : t[p] # "CR"
  <2> SUFFICES ASSUME NEW i \in 1..n
               PROVE  LET d == e[i - 1]
                      IN /\ e[i] >= d + 4 /\ Pair(t, e[i] - 1)
                         /\ \A p \in d + 1..e[i] - 2 : t[p] # "CR"
    OBVIOUS
  <2> DEFINE d == e[i - 1]
             b == r.fields[i].blanks
             c == Len(r.fields[i].content)
  <2>0. FieldLaid(r.fields[i], t, d, e[i])
    BY LaidField
  <2>1. d \in Nat /\ b \in Nat /\ c \in Nat /\ e[i] = ((d + b) + c) + 4
    BY <2>0 DEF FieldLaid
  <2>2. Pair(t, e[i] - 1) /\ \A p \in d + 1..e[i] - 2 : t[p] # "CR"
    BY <2>0 DEF FieldLaid
  <2> HIDE DEF d, b, c
  <2>3. e[i] >= d + 4
    BY <2>1
  <2> QED BY <2>2, <2>3 DEF d
<1>4. Len(t) \in Nat
  BY <1>2, LenProperties
<1> HIDE DEF n, u
<1>20. /\ n \in Nat /\ Len(u) \in Nat /\ Len(u) >= 1 /\ e \in [0..n -> Nat]
       /\ e[0] = Len(u) + 6 /\ Len(t) \in Nat /\ Len(t) = e[n] + 2
  BY <1>1, <1>2, <1>4
<1>21. \A i \in 0..n : e[i] \in Nat
  BY <1>20
<1>5. ASSUME NEW i \in 0..n, NEW j \in 0..n, i <= j PROVE e[i] <= e[j]
  <2> DEFINE Bad == {k \in i..n : ~(e[i] <= e[k])}
  <2>1. ASSUME Bad # {} PROVE FALSE
    <3>1. Bad \in SUBSET Nat
      BY <1>1
    <3>2. PICK k \in Bad : \A m \in Bad : k <= m
      <4> HIDE DEF Bad
      <4> QED BY <2>1, <3>1, LeastNat
    <3>3. k \in i..n /\ ~(e[i] <= e[k])
      BY <3>2
    <3>4. e[i] \in Nat /\ k # i
      BY <1>21, <3>3
    <3>5. k \in 1..n /\ k - 1 \in i..n /\ ~(k <= k - 1) /\ k - 1 \in 0..n /\ k \in 0..n
      BY <1>1, <3>3, <3>4
    <3>6. e[i] <= e[k - 1]
      <4>1. k - 1 \notin Bad
        BY <3>2, <3>5
      <4> QED BY <3>5, <4>1
    <3>7. e[k] >= e[k - 1] + 4
      BY <1>3, <3>5
    <3>8. e[k] \in Nat /\ e[k - 1] \in Nat
      BY <1>2, <3>5
    <3> QED BY <3>3, <3>4, <3>6, <3>7, <3>8
  <2>2. j \in i..n
    BY <1>1, <1>5
  <2> QED BY <2>1, <2>2
<1>6. ASSUME NEW i \in 0..n PROVE e[i] \in Nat /\ e[i] >= 7 /\ Pair(t, e[i] - 1)
  <2>1. e[i] \in Nat
    BY <1>2
  <2>2. e[i] >= 7
    <3>1. 0 \in 0..n /\ 0 <= i
      BY <1>1
    <3>2. e[0] <= e[i] /\ e[0] >= 7
      BY <1>5, <1>20, <3>1
    <3>3. e[0] \in Nat
      BY <1>21, <3>1
    <3> QED BY <2>1, <3>2, <3>3
  <2>3. Pair(t, e[i] - 1)
    <3>1. CASE i = 0
      <4>1. e[0] - 1 = Len(u) + 5
        BY <1>20
      <4> QED BY <1>2, <3>1, <4>1
    <3>2. CASE i # 0
      <4>1. i \in 1..n
        BY <1>1, <3>2
      <4> QED BY <1>3, <4>1
    <3> QED BY <3>1, <3>2
  <2> QED BY <2>1, <2>2, <2>3
<1>7. ASSUME NEW p \in 1..Len(t), t[p] = "CR"
      PROVE  p = e[n] + 1 \/ \E i \in 0..n : p = e[i] - 1
  <2>0. 0 \in 0..n /\ n \in 0..n
    BY <1>1
  <2>1. CASE p <= e[0]
    <3>1. p \in 1..Len(u) + 6
      BY <1>20, <2>1
    <3>2. CASE p = 1
      BY <1>1, <1>2, <1>7, <3>2 DEF Name
    <3>3. CASE p = 2
      BY <1>2, <1>7, <3>3
    <3>4. CASE p > 2 /\ p <= Len(u) + 2
      <4>1. p - 2 \in 1..Len(u) /\ 2 + (p - 2) = p
        BY <1>1, <3>1, <3>4
      <4>2. t[p] = u[p - 2] /\ u[p - 2] \in Name
        BY <1>1, <1>2, <4>1
      <4> QED BY <1>7, <4>2 DEF Name
    <3>5. CASE p = Len(u) + 3
      BY <1>2, <1>7, <3>5
    <3>6. CASE p = Len(u) + 4
      BY <1>1, <1>2, <1>7, <3>6 DEF Name
    <3>7. CASE p = Len(u) + 5
      <4>1. p = e[0] - 1
        BY <1>20, <3>7
      <4> QED BY <2>0, <4>1
    <3>8. CASE p = Len(u) + 6
      <4>1. t[(Len(u) + 5) + 1] = "LF" /\ (Len(u) + 5) + 1 = p
        <5>1. t[(Len(u) + 5) + 1] = "LF"
          BY <1>2 DEF Pair
        <5> QED BY <1>20, <3>8, <5>1
      <4> QED BY <1>7, <4>1
    <3> QED BY <1>1, <3>1, <3>2, <3>3, <3>4, <3>5, <3>6, <3>7, <3>8
  <2>2. CASE p > e[0] /\ p <= e[n]
    <3> DEFINE A == {k \in 0..n : p <= e[k]}
    <3>1. A # {} /\ A \in SUBSET Nat
      BY <1>1, <2>0, <2>2
    <3>2. PICK k \in A : \A m \in A : k <= m
      <4> HIDE DEF A
      <4> QED BY <3>1, LeastNat
    <3>3. k \in 0..n /\ p <= e[k] /\ e[0] \in Nat /\ e[k] \in Nat
      BY <1>6, <2>0, <3>2
    <3>4. k # 0
      BY <1>4, <2>2, <3>3
    <3>5. k \in 1..n /\ k - 1 \in 0..n /\ ~(k <= k - 1)
      BY <1>1, <3>3, <3>4
    <3>6. ~(p <= e[k - 1]) /\ e[k - 1] \in Nat
      BY <1>6, <3>2, <3>5
    <3>7. p \notin e[k - 1] + 1..e[k] - 2
      BY <1>3, <1>7, <3>5
    <3>8. p = e[k] - 1 \/ p = e[k]
      BY <1>4, <3>3, <3>6, <3>7
    <3>9. p # e[k]
      <4>1. Pair(t, e[k] - 1) /\ (e[k] - 1) + 1 = e[k]
        BY <1>6, <3>3
      <4>2. t[e[k]] = "LF"
        BY <4>1 DEF Pair
      <4> QED BY <1>7, <4>2
    <3> QED BY <3>3, <3>8, <3>9
  <2>3. CASE p > e[n]
    <3>1. p = e[n] + 1 \/ p = e[n] + 2
      <4>1. e[n] \in Nat /\ p \in 1..e[n] + 2 /\ p > e[n]
        BY <1>20, <1>21, <2>0, <2>3
      <4> QED BY <4>1
    <3>2. p # e[n] + 2
      <4>1. (e[n] + 1) + 1 = e[n] + 2
        BY <1>6, <2>0
      <4>2. t[e[n] + 2] = "LF"
        BY <1>2, <4>1 DEF Pair
      <4> QED BY <1>7, <4>2
    <3> QED BY <3>1, <3>2
  <2>4. e[0] \in Nat /\ e[n] \in Nat /\ p \in Nat
    BY <1>4, <1>6, <2>0
  <2> QED BY <2>1, <2>2, <2>3, <2>4
<1> QED BY <1>1, <1>2, <1>4, <1>5, <1>6, <1>7 DEF n, BrokenAt

(***************************************************************************)
(* The only empty line of a request is its last one.                       *)
(***************************************************************************)
LEMMA RequestEnded ==
  ASSUME NEW r, NEW t, NEW e, Regular(r), Laid(r, t, e)
  PROVE  Ended(t)
<1> DEFINE n == Len(r.fields)
<1>1. BrokenAt(t, e, n)
  BY LaidBreaks
<1>2. ASSUME NEW i \in 1..n
      PROVE  e[i - 1] \in Nat /\ e[i] >= e[i - 1] + 4 /\ t[e[i - 1] + 1] # "CR"
  <2> DEFINE d == e[i - 1]
             b == r.fields[i].blanks
             c == Len(r.fields[i].content)
  <2>1. FieldLaid(r.fields[i], t, d, e[i])
    BY LaidField
  <2>2. d \in Nat /\ b \in Nat /\ c \in Nat /\ e[i] = ((d + b) + c) + 4
    BY <2>1 DEF FieldLaid
  <2>3. \A p \in d + 1..e[i] - 2 : t[p] # "CR"
    BY <2>1 DEF FieldLaid
  <2> HIDE DEF d, b, c
  <2>4. e[i] >= d + 4 /\ d + 1 \in d + 1..e[i] - 2
    BY <2>2
  <2> QED BY <2>2, <2>3, <2>4 DEF d
<1>3. t \in Seq(Byte)
  BY DEF Laid
<1> HIDE DEF n
<1>4. /\ n \in Nat /\ e[n] \in Nat /\ e[n] >= 7 /\ Pair(t, e[n] - 1) /\ Pair(t, e[n] + 1)
      /\ Len(t) \in Nat /\ Len(t) = e[n] + 2
  BY <1>1 DEF BrokenAt
<1>5. Len(t) >= 4 /\ Pair(t, Len(t) - 3) /\ Pair(t, Len(t) - 1)
  <2>1. Len(t) >= 4 /\ Len(t) - 3 = e[n] - 1 /\ Len(t) - 1 = e[n] + 1
    BY <1>4
  <2> QED BY <1>4, <2>1
<1>6. ASSUME NEW p \in 1..Len(t) - 4, Pair(t, p), Pair(t, p + 2) PROVE FALSE
  <2>1. t[p] = "CR" /\ t[p + 2] = "CR"
    BY <1>6 DEF Pair
  <2>2. p \in 1..Len(t) /\ p + 2 \in 1..Len(t) /\ p # e[n] + 1 /\ p + 2 # e[n] + 1
    BY <1>4
  <2>3. PICK i \in 0..n : p = e[i] - 1
    BY <1>1, <2>1, <2>2 DEF BrokenAt
  <2>4. e[i] \in Nat
    BY <1>1 DEF BrokenAt
  <2>5. i # n
    BY <1>4, <2>2, <2>3, <2>4
  <2>6. i + 1 \in 1..n /\ (i + 1) - 1 = i
    BY <1>4, <2>5
  <2>7. t[e[i] + 1] # "CR"
    BY <1>2, <2>6
  <2>8. p + 2 = e[i] + 1
    BY <2>3, <2>4
  <2> QED BY <2>1, <2>7, <2>8
<1> QED BY <1>3, <1>5, <1>6 DEF Ended

(***************************************************************************)
(* FindBreak() finds the end of a request that is there as a whole, and    *)
(* none where it is not.                                                   *)
(***************************************************************************)
LEMMA BreakOffsets ==
  ASSUME NEW p \in Nat, NEW m \in Nat, NEW n \in Nat, p \in 4..n, p < m
  PROVE  /\ p - 4 \in Nat /\ (p - 4) + 3 = (p - 3) + 2 /\ (p - 4) + 1 = p - 3
         /\ p - 3 \in 1..m - 4 /\ p - 3 \in 1..m - 1 /\ (p - 3) + 2 \in 1..m - 1
         /\ p - 3 \in 1..n - 1 /\ (p - 3) + 2 \in 1..n - 1
OBVIOUS

LEMMA RequestFound ==
  ASSUME NEW t, Ended(t), NEW buffer \in Seq(Byte), Len(buffer) < NPos
  PROVE  /\ Part(t, buffer, 0) => FindBreak(buffer).found /\ FindBreak(buffer).pp = Len(t)
         /\ (Part(buffer, t, 0) /\ Len(buffer) < Len(t)) => ~FindBreak(buffer).found
<1> DEFINE b == FindBreak(buffer)
<1>1. /\ b.pp \in Nat
      /\ ~b.found => \A j \in 0..Len(buffer) - 4 : ~At(buffer, BreakWord, j)
      /\ b.found => /\ b.pp \in 4..Len(buffer)
                    /\ At(buffer, BreakWord, b.pp - 4)
                    /\ \A j \in 0..b.pp - 5 : ~At(buffer, BreakWord, j)
  BY FindBreakIs
<1> HIDE DEF b
<1>2. /\ Len(t) \in Nat /\ Len(t) >= 4 /\ Pair(t, Len(t) - 3) /\ Pair(t, Len(t) - 1)
      /\ \A i \in 1..Len(t) - 4 : ~(Pair(t, i) /\ Pair(t, i + 2))
  BY LenProperties DEF Ended
<1>3. Len(buffer) \in Nat
  BY LenProperties
<1>4. ASSUME Part(t, buffer, 0) PROVE b.found /\ b.pp = Len(t)
  <2>1. Len(t) <= Len(buffer)
    <3>1. 0 + Len(t) <= Len(buffer)
      BY <1>4 DEF Part
    <3> QED BY <1>2, <1>3, <3>1
  <2>2. ASSUME NEW j \in 1..Len(t) - 1 PROVE Pair(buffer, j) <=> Pair(t, j)
    <3>1. Pair(buffer, 0 + j) <=> Pair(t, j)
      BY <1>4, PartIs
    <3>2. 0 + j = j
      BY <1>2
    <3> QED BY <3>1, <3>2
  <2>3. At(buffer, BreakWord, Len(t) - 4)
    <3>1. /\ Len(t) - 4 \in Nat /\ (Len(t) - 4) + 1 = Len(t) - 3
          /\ (Len(t) - 4) + 3 = Len(t) - 1
          /\ Len(t) - 3 \in 1..Len(t) - 1 /\ Len(t) - 1 \in 1..Len(t) - 1
      BY <1>2
    <3>2. Pair(buffer, (Len(t) - 4) + 1) /\ Pair(buffer, (Len(t) - 4) + 3)
      BY <1>2, <2>2, <3>1
    <3> QED BY <3>1, <3>2, DoubleAt
  <2>4. b.found
    <3>1. Len(t) - 4 \in 0..Len(buffer) - 4
      BY <1>2, <1>3, <2>1
    <3> QED BY <1>1, <2>3, <3>1
  <2>5. b.pp \in 4..Len(buffer) /\ At(buffer, BreakWord, b.pp - 4)
    BY <1>1, <2>4
  <2>6. ~(b.pp > Len(t))
    <3>1. ASSUME b.pp > Len(t) PROVE FALSE
      <4>1. Len(t) - 4 \in 0..b.pp - 5
        BY <1>1, <1>2, <3>1
      <4> QED BY <1>1, <2>3, <2>4, <4>1
    <3> QED BY <3>1
  <2>7. ~(b.pp < Len(t))
    <3>1. ASSUME b.pp < Len(t) PROVE FALSE
      <4>1. /\ b.pp - 4 \in Nat /\ (b.pp - 4) + 3 = (b.pp - 3) + 2
            /\ (b.pp - 4) + 1 = b.pp - 3
            /\ b.pp - 3 \in 1..Len(t) - 4
            /\ b.pp - 3 \in 1..Len(t) - 1 /\ (b.pp - 3) + 2 \in 1..Len(t) - 1
        BY <1>1, <1>2, <1>3, <2>5, <3>1, BreakOffsets
      <4>2. Pair(buffer, b.pp - 3) /\ Pair(buffer, (b.pp - 3) + 2)
        BY <2>5, <4>1, DoubleAt
      <4>3. Pair(t, b.pp - 3) /\ Pair(t, (b.pp - 3) + 2)
        BY <2>2, <4>1, <4>2
      <4> QED BY <1>2, <4>1, <4>3
    <3> QED BY <3>1
  <2>8. b.pp = Len(t)
    BY <1>1, <1>2, <2>6, <2>7
  <2> QED BY <2>4, <2>8
<1>5. ASSUME Part(buffer, t, 0), Len(buffer) < Len(t), b.found PROVE FALSE
  <2>1. b.pp \in 4..Len(buffer) /\ At(buffer, BreakWord, b.pp - 4)
    BY <1>1, <1>5
  <2>0. b.pp < Len(t)
    BY <1>1, <1>2, <1>3, <1>5, <2>1
  <2>2. ASSUME NEW j \in 1..Len(buffer) - 1 PROVE Pair(t, j) <=> Pair(buffer, j)
    <3>1. Pair(t, 0 + j) <=> Pair(buffer, j)
      BY <1>5, PartIs
    <3>2. 0 + j = j
      BY <1>3
    <3> QED BY <3>1, <3>2
  <2>3. /\ b.pp - 4 \in Nat /\ (b.pp - 4) + 3 = (b.pp - 3) + 2
        /\ (b.pp - 4) + 1 = b.pp - 3
        /\ b.pp - 3 \in 1..Len(t) - 4
        /\ b.pp - 3 \in 1..Len(buffer) - 1 /\ (b.pp - 3) + 2 \in 1..Len(buffer) - 1
    BY <1>1, <1>2, <1>3, <2>0, <2>1, BreakOffsets
  <2>4. Pair(buffer, b.pp - 3) /\ Pair(buffer, (b.pp - 3) + 2)
    BY <2>1, <2>3, DoubleAt
  <2>5. Pair(t, b.pp - 3) /\ Pair(t, (b.pp - 3) + 2)
    BY <2>2, <2>3, <2>4
  <2> QED BY <1>2, <2>3, <2>5
<1> QED BY <1>4, <1>5 DEF b

(***************************************************************************)
(* A place of a word or of another byte is the first when none is before.  *)
(***************************************************************************)
LEMMA FindAt ==
  ASSUME NEW s \in Seq(Byte), NEW w \in Seq(Byte), Len(w) # NPos, NEW i \in Nat,
         NEW k \in Nat, i <= k, k + Len(w) <= Len(s), At(s, w, k),
         \A j \in i..k - 1 : ~At(s, w, j)
  PROVE  Find(s, w, i) = k
<1> DEFINE f == Find(s, w, i)
<1>1. \/ /\ f = NPos
         /\ \A j \in i..Len(s) - Len(w) : ~At(s, w, j)
      \/ /\ f \in i..Len(s) - Len(w) /\ f \in Nat /\ At(s, w, f)
         /\ \A j \in i..f - 1 : ~At(s, w, j)
  BY FindIs
<1> HIDE DEF f
<1>2. Len(s) \in Nat /\ Len(w) \in Nat
  BY LenProperties
<1>3. k \in i..Len(s) - Len(w)
  BY <1>2
<1>4. f \in i..Len(s) - Len(w) /\ f \in Nat /\ At(s, w, f) /\ \A j \in i..f - 1 : ~At(s, w, j)
  BY <1>1, <1>3
<1>5. ~(k < f)
  <2>1. k < f => k \in i..f - 1
    BY <1>4
  <2> QED BY <1>4, <2>1
<1>6. ~(f < k)
  <2>1. f < k => f \in i..k - 1
    BY <1>2, <1>4
  <2> QED BY <1>4, <2>1
<1> QED BY <1>4, <1>5, <1>6 DEF f

LEMMA FindNotAt ==
  ASSUME NEW s \in Seq(Byte), NEW b, NEW i \in Nat, NEW k \in Nat, i <= k, k < Len(s),
         s[k + 1] # b, \A j \in i..k - 1 : s[j + 1] = b
  PROVE  FindNot(s, b, i) = k
<1> DEFINE S == {j \in i..(Len(s) - 1) : s[j + 1] # b}
<1>1. Len(s) \in Nat
  BY LenProperties
<1>2. k \in S
  BY <1>1
<1>3. \A j \in S : j \in Nat /\ k <= j
  <2> SUFFICES ASSUME NEW j \in i..(Len(s) - 1), s[j + 1] # b PROVE j \in Nat /\ k <= j
    OBVIOUS
  <2>1. j \in Nat
    BY <1>1
  <2>2. j \notin i..k - 1
    OBVIOUS
  <2> QED BY <1>1, <2>1, <2>2
<1>4. FindNot(s, b, i) = First(S)
  BY DEF FindNot
<1> HIDE DEF S
<1>5. First(S) = Min(S) /\ S # {}
  BY <1>2 DEF First
<1>6. Min(S) \in S /\ \A j \in S : Min(S) <= j
  BY <1>2, <1>3 DEF Min
<1>7. Min(S) \in Nat /\ Min(S) <= k /\ k <= Min(S)
  BY <1>2, <1>3, <1>6
<1> QED BY <1>4, <1>5, <1>7

(***************************************************************************)
(* What Accept() reads from the first line of a request                    *)
(* (protocol.cpp:661-686).                                                 *)
(***************************************************************************)
LEMMA FirstLineIs ==
  ASSUME NEW r, NEW t, NEW e, Regular(r), Laid(r, t, e), Len(t) < NPos
  PROVE  /\ Find(t, CRLF, 0) = e[0] - 2
         /\ RequestLine(t) =
              IF r.method \notin {"GET", "HEAD", "POST"}
              THEN [status |-> 501, uri |-> << >>]
              ELSE IF r.version # "HTTP/1.1" THEN [status |-> 505, uri |-> << >>]
              ELSE [status |-> 200, uri |-> FlattenSeq(r.uri)]
<1> DEFINE u == FlattenSeq(r.uri)
           n == Len(r.fields)
           m == Len(u)
           q == Substr(t, 0, m + 4)
<1>1. /\ u \in Seq(Byte) /\ u[1] = "/" /\ \A k \in 1..m : u[k] # " "
      /\ r.method # " " /\ r.version # " "
  BY RegularIs
<1>2. /\ t \in Seq(Byte) /\ t[1] = r.method /\ t[2] = " "
      /\ \A k \in 1..m : t[2 + k] = u[k]
      /\ t[m + 3] = " " /\ t[m + 4] = r.version /\ Pair(t, m + 5)
  BY DEF Laid
<1>3. m \in Nat /\ m >= 1 /\ e[0] = m + 6
  BY RegularIs DEF Laid
<1>4. BrokenAt(t, e, n)
  BY LaidBreaks
<1> HIDE DEF u, m, n
<1>5. n \in Nat /\ 0 \in 0..n /\ n \in 0..n
  BY <1>4 DEF BrokenAt
<1>6. Len(t) \in Nat /\ Len(t) >= m + 8
  <2>1. e[0] <= e[n] /\ Len(t) = e[n] + 2 /\ e[n] \in Nat /\ Len(t) \in Nat
    BY <1>4, <1>5 DEF BrokenAt
  <2> QED BY <1>3, <2>1
<1>7. ASSUME NEW p \in 1..m + 4 PROVE t[p] # "CR"
  <2>1. p \in 1..Len(t) /\ p < e[0] - 1
    BY <1>3, <1>6
  <2>2. \A i \in 0..n : e[0] <= e[i] /\ e[i] \in Nat
    BY <1>4, <1>5 DEF BrokenAt
  <2>3. \A i \in 0..n : p # e[i] - 1 /\ p # e[i] + 1
    BY <1>3, <2>1, <2>2
  <2> QED BY <1>4, <1>5, <2>1, <2>3 DEF BrokenAt
<1>8. NPos \in Nat /\ NPos > 7
  BY SizeAssumption DEF NPos
<1>9. Find(t, CRLF, 0) = m + 4
  <2>1. At(t, CRLF, m + 4)
    <3>1. m + 4 \in Nat /\ (m + 4) + 1 = m + 5
      BY <1>3
    <3> QED BY <1>2, <3>1, BreakAt
  <2>2. ASSUME NEW j \in 0..(m + 4) - 1 PROVE ~At(t, CRLF, j)
    <3>1. j \in Nat /\ j + 1 \in 1..m + 4
      BY <1>3
    <3>2. ~Pair(t, j + 1)
      BY <1>7, <3>1 DEF Pair
    <3> QED BY <3>1, <3>2, BreakAt
  <2>3. m + 4 \in Nat /\ 0 \in Nat /\ 0 <= m + 4 /\ (m + 4) + Len(CRLF) <= Len(t)
    BY <1>3, <1>6, BreakWordIs
  <2> QED BY <1>2, <2>1, <2>2, <2>3, BreakWordIs, FindAt
<1>10. q \in Seq(Byte) /\ Len(q) = m + 4 /\ \A k \in 1..m + 4 : q[k] = t[k]
  <2>1. 0 \in Nat /\ m + 4 \in Nat /\ 0 + (m + 4) <= Len(t) /\ m + 4 # NPos
    BY <1>3, <1>6, <1>8
  <2>2. /\ q \in Seq(Byte) /\ Len(q) = m + 4
        /\ \A k \in 1..m + 4 : q[k] = t[0 + k]
    BY <1>2, <2>1, SubstrIs
  <2>3. \A k \in 1..m + 4 : 0 + k = k
    BY <1>3
  <2> QED BY <2>2, <2>3
<1> HIDE DEF q
<1>11. MethodLength(t) = IF r.method \in {"GET", "HEAD", "POST"} THEN 2 ELSE 0
  <2>1. " " \in Byte /\ "GET" \in Byte /\ "HEAD" \in Byte /\ "POST" \in Byte
    BY ByteAssumption, TokensAssumption
  <2>2. Len(t) >= 2
    BY <1>3, <1>6
  <2>3. \A x \in {"HEAD", "GET", "POST"} : Starts(t, <<x, " ">>) <=> x = r.method
    <3>1. \A x, y \in Byte :
             Starts(t, <<x, y>>) <=> Len(t) >= 2 /\ t[1] = x /\ t[2] = y
      BY <1>2, StartsWith
    <3> QED BY <1>2, <2>1, <2>2, <3>1
  <2> QED BY <2>3 DEF MethodLength
<1>12. ASSUME NEW i, i = 2 PROVE FindNot(q, " ", i) = i /\ q[i + 1] = "/"
  <2>1. /\ i + 1 \in 1..m + 4 /\ 1 \in 1..m /\ i + 1 = 2 + 1 /\ i \in Nat /\ i <= i
        /\ i < m + 4 /\ \A j \in i..i - 1 : FALSE
    BY <1>3, <1>12
  <2>2. t[i + 1] = u[1]
    BY <1>2, <2>1
  <2>3. q[i + 1] = "/"
    BY <1>1, <1>10, <2>1, <2>2
  <2>4. i < Len(q) /\ q[i + 1] # " " /\ q \in Seq(Byte)
    BY <1>10, <2>1, <2>3
  <2> QED BY <2>1, <2>3, <2>4, FindNotAt
<1>14. Find(q, <<" ">>, 2 + 1) = m + 2
  <2> DEFINE w == <<" ">>
  <2>0. " " \in Byte
    BY ByteAssumption
  <2>1. w \in Seq(Byte) /\ Len(w) = 1 /\ w[1] = " " /\ Len(w) # NPos
    BY <2>0, WordOf
  <2>7. 1 \in 1..Len(w) /\ \A k \in 1..Len(w) : k = 1
    OBVIOUS
  <2> HIDE DEF w
  <2>2. \A j \in Nat : At(q, w, j) <=> q[j + 1] = " "
    BY <2>1, <2>7, Zenon DEF At
  <2>3. At(q, w, m + 2)
    <3>1. m + 2 \in Nat /\ (m + 2) + 1 = m + 3 /\ m + 3 \in 1..m + 4
      BY <1>3
    <3>2. q[(m + 2) + 1] = " "
      BY <1>2, <1>10, <3>1
    <3> QED BY <2>2, <3>1, <3>2
  <2>4. ASSUME NEW j \in (2 + 1)..(m + 2) - 1 PROVE ~At(q, w, j)
    <3>1. j \in Nat /\ j + 1 \in 1..m + 4 /\ j - 1 \in 1..m /\ 2 + (j - 1) = j + 1
      BY <1>3
    <3>2. t[j + 1] = u[j - 1]
      BY <1>2, <3>1
    <3>3. q[j + 1] # " "
      BY <1>1, <1>10, <3>1, <3>2
    <3> QED BY <2>2, <3>1, <3>3
  <2>5. 2 + 1 \in Nat /\ m + 2 \in Nat /\ 2 + 1 <= m + 2 /\ (m + 2) + Len(w) <= Len(q)
    <3>1. 2 + 1 \in Nat /\ m + 2 \in Nat /\ 2 + 1 <= m + 2 /\ (m + 2) + 1 <= m + 4
      BY <1>3
    <3>2. Len(q) = m + 4
      BY <1>10
    <3> QED BY <2>1, <3>1, <3>2
  <2>6. Find(q, w, 2 + 1) = m + 2
    BY <1>10, <2>1, <2>3, <2>4, <2>5, FindAt
  <2> QED BY <2>6 DEF w
<1>15. FindNot(q, " ", (m + 2) + 1) = m + 3 /\ q[(m + 3) + 1] = r.version
  <2>1. /\ (m + 2) + 1 = m + 3 /\ (m + 3) + 1 = m + 4 /\ m + 3 \in Nat /\ m + 3 <= m + 3
        /\ m + 3 < m + 4 /\ m + 4 \in 1..m + 4
    BY <1>3
  <2>2. q[(m + 3) + 1] = r.version
    BY <1>2, <1>10, <2>1
  <2>3. \A j \in m + 3..(m + 3) - 1 : FALSE
    BY <1>3
  <2>4. FindNot(q, " ", m + 3) = m + 3
    <3>1. m + 3 < Len(q) /\ q[(m + 3) + 1] # " " /\ q \in Seq(Byte)
      BY <1>1, <1>10, <2>1, <2>2
    <3> QED BY <2>1, <2>3, <3>1, FindNotAt
  <2> QED BY <2>1, <2>2, <2>4
<1>16. Substr(q, 2, (m + 2) - 2) = u
  <2> DEFINE s == Substr(q, 2, m)
  <2>1. (m + 2) - 2 = m /\ 2 + m <= Len(q) /\ m # NPos /\ 2 \in Nat
    BY <1>3, <1>6, <1>8, <1>10
  <2>2. s \in Seq(Byte) /\ Len(s) = m /\ \A k \in 1..m : s[k] = q[2 + k]
    BY <1>3, <1>10, <2>1, SubstrIs
  <2> HIDE DEF s
  <2>3. \A k \in 1..m : 2 + k \in 1..m + 4
    BY <1>3
  <2>4. \A k \in 1..m : s[k] = u[k]
    BY <1>2, <1>10, <2>2, <2>3
  <2>5. s = u
    <3>1. Len(s) = Len(u) /\ \A k \in 1..Len(s) : s[k] = u[k]
      BY <2>2, <2>4 DEF m
    <3> QED BY <1>1, <2>2, <3>1, SeqEqual
  <2> QED BY <2>1, <2>5 DEF s
<1>17. /\ 2 # NPos /\ m + 2 # NPos /\ m + 3 # NPos /\ 2 # 0
  BY <1>3, <1>6, <1>8
<1>18. RequestLine(t) =
         IF r.method \notin {"GET", "HEAD", "POST"} THEN [status |-> 501, uri |-> << >>]
         ELSE IF r.version # "HTTP/1.1" THEN [status |-> 505, uri |-> << >>]
         ELSE [status |-> 200, uri |-> u]
  <2> DEFINE ml == MethodLength(t)
             ru == FindNot(q, " ", ml)
             rl == Find(q, <<" ">>, ru + 1)
             hv == FindNot(q, " ", rl + 1)
             fail(status) == [status |-> status, uri |-> << >>]
  <2> DEFINE x == Substr(t, 0, Find(t, CRLF, 0))
             xu == FindNot(x, " ", ml)
             xl == Find(x, <<" ">>, xu + 1)
             xv == FindNot(x, " ", xl + 1)
  <2>4. RequestLine(t) =
          IF ml = 0 THEN fail(501)
          ELSE IF xu = NPos \/ x[xu + 1] # "/" \/ xl = NPos THEN fail(400)
          ELSE IF xv = NPos \/ x[xv + 1] # "HTTP/1.1" THEN fail(505)
          ELSE [status |-> 200, uri |-> Substr(x, xu, xl - xu)]
    BY DEF RequestLine
  <2>5. x = q
    BY <1>9 DEF q
  <2> HIDE DEF x
  <2>1. RequestLine(t) =
          IF ml = 0 THEN fail(501)
          ELSE IF ru = NPos \/ q[ru + 1] # "/" \/ rl = NPos THEN fail(400)
          ELSE IF hv = NPos \/ q[hv + 1] # "HTTP/1.1" THEN fail(505)
          ELSE [status |-> 200, uri |-> Substr(q, ru, rl - ru)]
    BY <2>4, <2>5
  <2>2. CASE r.method \in {"GET", "HEAD", "POST"}
    <3>1. ml = 2
      BY <1>11, <2>2
    <3>2. ru = 2
      BY <1>12, <3>1
    <3>3. rl = m + 2
      BY <1>14, <3>2
    <3>4. hv = m + 3
      BY <1>15, <3>3
    <3> HIDE DEF ml, ru, rl, hv
    <3>5. q[ru + 1] = "/" /\ q[hv + 1] = r.version /\ Substr(q, ru, rl - ru) = u
      BY <1>12, <1>15, <1>16, <3>2, <3>3, <3>4
    <3>6. ml # 0 /\ ru # NPos /\ rl # NPos /\ hv # NPos
      BY <1>17, <3>1, <3>2, <3>3, <3>4
    <3> QED BY <2>1, <2>2, <3>5, <3>6
  <2>3. CASE r.method \notin {"GET", "HEAD", "POST"}
    <3>1. ml = 0
      BY <1>11, <2>3
    <3> QED BY <2>1, <2>3, <3>1
  <2> QED BY <2>2, <2>3
<1>19. m + 4 = e[0] - 2
  BY <1>3
<1> QED BY <1>9, <1>18, <1>19 DEF u

(***************************************************************************)
(* ParseHeader() looks for the bytes of a field of that name.              *)
(***************************************************************************)
LEMMA FieldWordAt ==
  ASSUME NEW s, NEW name \in Name, NEW j \in Nat, j + 5 <= Len(s)
  PROVE  At(s, CRLF \o <<name, ":", " ">>, j) <=> FieldHere(s, name, j)
<1> DEFINE w == CRLF \o <<name, ":", " ">>
<1>1. /\ Len(w) = 5
      /\ w[1] = "CR" /\ w[2] = "LF" /\ w[3] = name /\ w[4] = ":" /\ w[5] = " "
  BY FieldWordIs
<1>2. \A k \in 1..Len(w) : k = 1 \/ k = 2 \/ k = 3 \/ k = 4 \/ k = 5
  <2>1. Len(w) = 5
    BY <1>1
  <2> HIDE DEF w
  <2> QED BY <2>1
<1>3. 1 \in 1..Len(w) /\ 2 \in 1..Len(w) /\ 3 \in 1..Len(w) /\ 4 \in 1..Len(w) /\ 5 \in 1..Len(w)
  <2>1. Len(w) = 5
    BY <1>1
  <2> HIDE DEF w
  <2> QED BY <2>1
<1> HIDE DEF w
<1>4. At(s, w, j) <=> /\ s[j + 1] = w[1] /\ s[j + 2] = w[2] /\ s[j + 3] = w[3]
                      /\ s[j + 4] = w[4] /\ s[j + 5] = w[5]
  BY <1>2, <1>3 DEF At
<1>5. (j + 1) + 1 = j + 2
  OBVIOUS
<1> QED BY <1>1, <1>4, <1>5 DEF FieldHere, Pair, w

\* The fields of r that ParseHeader() takes to have that name.
NamedIn(r, name) ==
  {i \in 1..Len(r.fields) : r.fields[i].name = name /\ r.fields[i].blanks > 0}

(***************************************************************************)
(* The fields of a request are where it has their bytes, and nowhere else. *)
(***************************************************************************)
LEMMA FieldsFound ==
  ASSUME NEW r, NEW t, NEW e, Regular(r), Laid(r, t, e), NEW name \in Name
  PROVE  /\ \A i \in NamedIn(r, name) : FieldHere(t, name, e[i - 1] - 2)
         /\ \A p \in Nat : FieldHere(t, name, p) =>
              \E i \in NamedIn(r, name) : p = e[i - 1] - 2
<1> DEFINE n == Len(r.fields)
<1>1. BrokenAt(t, e, n)
  BY LaidBreaks
<1>2. /\ n \in Nat /\ Len(t) \in Nat /\ Len(t) = e[n] + 2
      /\ \A i \in 0..n : e[i] \in Nat /\ e[i] >= 7 /\ Pair(t, e[i] - 1)
  BY <1>1 DEF BrokenAt
<1>3. \A i \in 1..n : FieldLaid(r.fields[i], t, e[i - 1], e[i])
  BY LaidField
<1>4. NamedIn(r, name) = {i \in 1..n : r.fields[i].name = name /\ r.fields[i].blanks > 0}
  BY DEF NamedIn
<1> HIDE DEF n
<1>5. ASSUME NEW i \in 1..n
      PROVE  LET d == e[i - 1]
             IN /\ d - 2 \in Nat /\ (d - 2) + 1 = d - 1 /\ (d - 2) + 3 = d + 1
                /\ (d - 2) + 4 = d + 2 /\ (d - 2) + 5 = d + 3
                /\ d + 4 <= Len(t)
  <2> DEFINE d == e[i - 1]
             b == r.fields[i].blanks
             c == Len(r.fields[i].content)
  <2>1. FieldLaid(r.fields[i], t, d, e[i])
    BY <1>3
  <2>2. /\ b \in Nat /\ c \in Nat /\ e[i] = ((d + b) + c) + 4 /\ e[i] \in Nat
        /\ e[i] <= Len(t)
    BY <2>1 DEF FieldLaid
  <2>3. d \in Nat /\ d >= 7
    <3>1. i - 1 \in 0..n
      BY <1>2
    <3> QED BY <1>2, <3>1
  <2> HIDE DEF d, b, c
  <2>4. d + 4 <= Len(t)
    BY <1>2, <2>2, <2>3
  <2> QED BY <2>3, <2>4 DEF d
<1>6. ASSUME NEW i \in 1..n
      PROVE  LET d == e[i - 1]
                 b == r.fields[i].blanks
             IN /\ t[d + 1] = r.fields[i].name /\ t[d + 2] = ":"
                /\ t[d + 3] = " " <=> b > 0
  <2> DEFINE d == e[i - 1]
             b == r.fields[i].blanks
             c == Len(r.fields[i].content)
  <2>1. FieldLaid(r.fields[i], t, d, e[i])
    BY <1>3
  <2>2. /\ d \in Nat /\ b \in Nat /\ c \in Nat /\ e[i] = ((d + b) + c) + 4
    BY <2>1 DEF FieldLaid
  <2>3. /\ t[d + 1] = r.fields[i].name /\ t[d + 2] = ":"
        /\ c >= 1 => r.fields[i].content[1] # " "
        /\ \A k \in 1..b : t[(d + 2) + k] = " "
        /\ \A k \in 1..c : t[((d + 2) + b) + k] = r.fields[i].content[k]
        /\ Pair(t, e[i] - 1)
    BY <2>1 DEF FieldLaid
  <2> HIDE DEF d, b, c
  <2>4. CASE b > 0
    <3>1. 1 \in 1..b /\ (d + 2) + 1 = d + 3
      BY <2>2, <2>4
    <3>2. t[d + 3] = " "
      BY <2>3, <3>1
    <3> QED BY <2>3, <2>4, <3>2 DEF d, b
  <2>5. CASE ~(b > 0) /\ c >= 1
    <3>1. 1 \in 1..c /\ ((d + 2) + b) + 1 = d + 3
      BY <2>2, <2>5
    <3>2. t[d + 3] # " "
      BY <2>3, <2>5, <3>1
    <3> QED BY <2>3, <2>5, <3>2 DEF d, b
  <2>6. CASE ~(b > 0) /\ ~(c >= 1)
    <3>1. e[i] - 1 = d + 3
      BY <2>2, <2>6
    <3>2. t[d + 3] # " "
      BY <2>3, <3>1 DEF Pair
    <3> QED BY <2>3, <2>6, <3>2 DEF d, b
  <2> QED BY <2>4, <2>5, <2>6
<1>7. ASSUME NEW i \in NamedIn(r, name) PROVE FieldHere(t, name, e[i - 1] - 2)
  <2> DEFINE d == e[i - 1]
  <2>1. i \in 1..n /\ r.fields[i].name = name /\ r.fields[i].blanks > 0
    BY <1>4
  <2>2. /\ d - 2 \in Nat /\ (d - 2) + 1 = d - 1 /\ (d - 2) + 3 = d + 1
        /\ (d - 2) + 4 = d + 2 /\ (d - 2) + 5 = d + 3
        /\ d + 4 <= Len(t)
    BY <1>5, <2>1
  <2>3. t[d + 1] = name /\ t[d + 2] = ":" /\ t[d + 3] = " "
    BY <1>6, <2>1
  <2>4. Pair(t, d - 1) /\ d \in Nat
    <3>1. i - 1 \in 0..n
      BY <1>2, <2>1
    <3> QED BY <1>2, <3>1
  <2> HIDE DEF d
  <2>5. (d - 2) + 5 <= Len(t)
    BY <1>2, <2>2, <2>4
  <2> QED BY <2>2, <2>3, <2>4, <2>5 DEF FieldHere, d
<1>8. ASSUME NEW p \in Nat, FieldHere(t, name, p)
      PROVE  \E i \in NamedIn(r, name) : p = e[i - 1] - 2
  <2>1. /\ p + 5 <= Len(t) /\ t[p + 1] = "CR" /\ t[p + 3] = name
        /\ t[p + 4] = ":" /\ t[p + 5] = " "
    BY <1>8 DEF FieldHere, Pair
  <2>2. /\ p + 1 \in 1..Len(t) /\ n \in 0..n /\ e[n] \in Nat
        /\ p + 1 # e[n] + 1
    <3>1. n \in Nat /\ Len(t) \in Nat /\ Len(t) = e[n] + 2
      BY <1>2
    <3>2. n \in 0..n
      BY <3>1
    <3>3. e[n] \in Nat
      BY <1>2, <3>2
    <3>4. p + 5 <= Len(t)
      BY <2>1
    <3> QED BY <3>1, <3>2, <3>3, <3>4
  <2>4. PICK j \in 0..n : p + 1 = e[j] - 1
    <3>1. t[p + 1] = "CR"
      BY <2>1
    <3> QED BY <1>1, <2>2, <3>1 DEF BrokenAt
  <2>5. e[j] \in Nat
    BY <1>2
  <2>6. j # n
    <3>1. Len(t) = e[n] + 2 /\ p + 5 <= Len(t)
      BY <1>2, <2>1
    <3>2. e[n] \in Nat
      BY <2>2
    <3> QED BY <2>4, <3>1, <3>2
  <2>7. j + 1 \in 1..n /\ (j + 1) - 1 = j
    BY <1>2, <2>6
  <2>8. /\ t[e[j] + 1] = r.fields[j + 1].name
        /\ t[e[j] + 3] = " " <=> r.fields[j + 1].blanks > 0
    BY <1>6, <2>7
  <2>9. p + 3 = e[j] + 1 /\ p + 5 = e[j] + 3 /\ p = e[j] - 2
    BY <2>4, <2>5
  <2>10. r.fields[j + 1].name = name /\ r.fields[j + 1].blanks > 0
    BY <2>1, <2>8, <2>9
  <2>11. j + 1 \in NamedIn(r, name)
    BY <1>4, <2>7, <2>10
  <2> QED BY <2>7, <2>9, <2>11
<1> QED BY <1>7, <1>8

(***************************************************************************)
(* The content of a field, found from where its name was.                  *)
(***************************************************************************)
LEMMA ContentFound ==
  ASSUME NEW t \in Seq(Byte), NEW f, NEW d, NEW z, FieldLaid(f, t, d, z), f.blanks > 0
  PROVE  LET b == f.blanks
             c == Len(f.content)
         IN /\ Find(t, CRLF, d + 3) = z - 2 /\ FindNot(t, " ", d + 3) = (d + 2) + b
            /\ (z - 2) - ((d + 2) + b) = c /\ c \in Nat /\ z - 2 \in Nat
            /\ (d + 2) + b \in Nat /\ ((d + 2) + b) + c <= Len(t)
<1> DEFINE b == f.blanks
           c == Len(f.content)
<1>1. /\ d \in Nat /\ b \in Nat /\ c \in Nat /\ z = ((d + b) + c) + 4
      /\ z \in Nat /\ z <= Len(t) /\ b > 0 /\ Len(t) \in Nat
  BY LenProperties DEF FieldLaid
<1>2. /\ c >= 1 => f.content[1] # " "
      /\ \A k \in 1..b : t[(d + 2) + k] = " "
      /\ \A k \in 1..c : t[((d + 2) + b) + k] = f.content[k]
      /\ Pair(t, z - 1)
      /\ \A p \in d + 1..z - 2 : t[p] # "CR"
  BY DEF FieldLaid
<1> HIDE DEF b, c
<1>3. /\ z - 2 \in Nat /\ (z - 2) + 1 = z - 1 /\ d + 3 \in Nat /\ d + 3 <= z - 2
      /\ (z - 2) + 2 <= Len(t) /\ (d + 2) + b \in Nat /\ (d + 2) + b < Len(t)
      /\ d + 3 <= (d + 2) + b /\ ((d + 2) + b) + c <= Len(t)
      /\ (z - 2) - ((d + 2) + b) = c
  BY <1>1
<1>4. Find(t, CRLF, d + 3) = z - 2
  <2>1. At(t, CRLF, z - 2)
    BY <1>2, <1>3, BreakAt
  <2>2. ASSUME NEW j \in d + 3..(z - 2) - 1 PROVE ~At(t, CRLF, j)
    <3>1. j \in Nat /\ j + 1 \in d + 1..z - 2
      BY <1>1
    <3>2. t[j + 1] # "CR"
      BY <1>2, <3>1
    <3> QED BY <3>1, <3>2, BreakAt DEF Pair
  <2>3. Len(CRLF) = 2 /\ CRLF \in Seq(Byte) /\ Len(CRLF) # NPos
    BY BreakWordIs
  <2>4. (z - 2) + Len(CRLF) <= Len(t)
    BY <1>3, <2>3
  <2> QED BY <1>3, <2>1, <2>2, <2>3, <2>4, FindAt
<1>5. FindNot(t, " ", d + 3) = (d + 2) + b
  <2>1. t[((d + 2) + b) + 1] # " "
    <3>1. CASE c >= 1
      <4>1. 1 \in 1..c
        BY <1>1, <3>1
      <4> QED BY <1>2, <3>1, <4>1
    <3>2. CASE ~(c >= 1)
      <4>1. ((d + 2) + b) + 1 = z - 1
        BY <1>1, <3>2
      <4> QED BY <1>2, <4>1 DEF Pair
    <3> QED BY <3>1, <3>2
  <2>2. ASSUME NEW j \in d + 3..((d + 2) + b) - 1 PROVE t[j + 1] = " "
    <3>1. (j + 1) - (d + 2) \in 1..b /\ (d + 2) + ((j + 1) - (d + 2)) = j + 1
      BY <1>1
    <3> QED BY <1>2, <3>1
  <2> QED BY <1>3, <2>1, <2>2, FindNotAt
<1> QED BY <1>1, <1>3, <1>4, <1>5 DEF b, c

(***************************************************************************)
(* The first of the fields of a name.                                      *)
(***************************************************************************)
LEMMA FirstNamed ==
  ASSUME NEW r, NEW name, Len(r.fields) \in Nat, NamedIn(r, name) # {}
  PROVE  LET m == Min(NamedIn(r, name))
         IN m \in NamedIn(r, name) /\ \A i \in NamedIn(r, name) : m <= i
<1>1. NamedIn(r, name) \in SUBSET Nat
  BY DEF NamedIn
<1>2. \E x \in NamedIn(r, name) : \A y \in NamedIn(r, name) : x <= y
  BY <1>1, LeastNat
<1> QED BY <1>2 DEF Min

(***************************************************************************)
(* Where ParseHeader() finds a name: at the first field that has it.       *)
(***************************************************************************)
LEMMA HeaderLineIs ==
  ASSUME NEW r, NEW t, NEW e, Regular(r), Laid(r, t, e), NEW name \in Name
  PROVE  HeaderLine(t, name, e[0] - 2) =
           IF NamedIn(r, name) = {} THEN NPos ELSE e[Min(NamedIn(r, name)) - 1] - 2
<1> DEFINE n == Len(r.fields)
           N == NamedIn(r, name)
           w == CRLF \o <<name, ":", " ">>
           lf == e[0] - 2
<1>1. BrokenAt(t, e, n)
  BY LaidBreaks
<1>2. /\ n \in Nat /\ Len(t) \in Nat /\ Len(t) = e[n] + 2
      /\ \A i \in 0..n : e[i] \in Nat /\ e[i] >= 7
      /\ \A i, j \in 0..n : i <= j => e[i] <= e[j]
  BY <1>1 DEF BrokenAt
<1>3. /\ \A i \in N : FieldHere(t, name, e[i - 1] - 2)
      /\ \A p \in Nat : FieldHere(t, name, p) => \E i \in N : p = e[i - 1] - 2
  BY FieldsFound
<1>4. w \in Seq(Byte) /\ Len(w) = 5 /\ Len(w) # NPos
  <2>1. w \in Seq(Byte) /\ Len(w) = 5
    BY FieldWordIs
  <2>2. 5 # NPos
    BY SizeAssumption DEF NPos
  <2> QED BY <2>1, <2>2
<1>5. t \in Seq(Byte)
  BY DEF Laid
<1>6. N = {i \in 1..n : r.fields[i].name = name /\ r.fields[i].blanks > 0}
  BY DEF NamedIn
<1>7. lf \in Nat
  <2>1. 0 \in 0..n
    BY <1>2
  <2> QED BY <1>2, <2>1
<1>8. \A j \in Nat : j + 5 <= Len(t) => (At(t, w, j) <=> FieldHere(t, name, j))
  BY FieldWordAt
<1>9. HeaderLine(t, name, lf) = Find(t, w, lf)
  BY DEF HeaderLine
<1> HIDE DEF n, N, w, lf
<1>10. CASE N = {}
  <2>1. \A j \in lf..Len(t) - Len(w) : ~At(t, w, j)
    <3>1. ASSUME NEW j \in lf..Len(t) - Len(w) PROVE ~At(t, w, j)
      <4>1. j \in Nat /\ j + 5 <= Len(t)
        BY <1>2, <1>4, <1>7
      <4> QED BY <1>3, <1>8, <1>10, <4>1
    <3> QED BY <3>1
  <2> DEFINE x == Find(t, w, lf)
  <2>2. \/ x = NPos
        \/ x \in lf..Len(t) - Len(w) /\ At(t, w, x)
    BY <1>4, <1>5, <1>7, FindIs
  <2> HIDE DEF x
  <2>3. x = NPos
    BY <2>1, <2>2
  <2> QED BY <1>9, <1>10, <2>3 DEF x, N, lf
<1>11. CASE N # {}
  <2> DEFINE m == Min(N)
  <2>1. m \in N /\ \A i \in N : m <= i
    BY <1>2, <1>11, FirstNamed DEF N, n
  <2> HIDE DEF m
  <2>2. m \in 1..n /\ m - 1 \in 0..n /\ 0 \in 0..n /\ 0 <= m - 1
    BY <1>2, <1>6, <2>1
  <2> DEFINE k == e[m - 1] - 2
  <2>3. k \in Nat /\ lf <= k
    <3>1. e[0] \in Nat /\ e[m - 1] \in Nat /\ e[m - 1] >= 7 /\ e[0] <= e[m - 1]
      BY <1>2, <2>2
    <3> QED BY <3>1 DEF lf
  <2>4. FieldHere(t, name, k) /\ k + 5 <= Len(t)
    BY <1>3, <2>1 DEF FieldHere
  <2> HIDE DEF k
  <2>5. At(t, w, k) /\ k + Len(w) <= Len(t)
    BY <1>4, <1>8, <2>3, <2>4
  <2>6. ASSUME NEW j \in lf..k - 1 PROVE ~At(t, w, j)
    <3>1. j \in Nat /\ j < k /\ j + 5 <= Len(t)
      BY <1>2, <1>7, <2>3, <2>4
    <3> SUFFICES ASSUME FieldHere(t, name, j) PROVE FALSE
      BY <1>8, <3>1
    <3>2. PICK i \in N : j = e[i - 1] - 2
      BY <1>3, <3>1
    <3>3. i \in 1..n /\ i - 1 \in 0..n /\ m - 1 <= i - 1
      BY <1>2, <1>6, <2>1, <2>2
    <3>4. e[m - 1] <= e[i - 1] /\ e[m - 1] \in Nat /\ e[i - 1] \in Nat
      BY <1>2, <2>2, <3>3
    <3> QED BY <3>1, <3>2, <3>4 DEF k
  <2>7. Find(t, w, lf) = k
    BY <1>4, <1>5, <1>7, <2>3, <2>5, <2>6, FindAt
  <2> QED BY <1>9, <1>11, <2>7 DEF k, m, N, lf
<1> QED BY <1>10, <1>11

(***************************************************************************)
(* ParseHeader() gives the content of the first field of that name         *)
(* (protocol.cpp:991-1002).                                                *)
(***************************************************************************)
LEMMA HeaderOf ==
  ASSUME NEW r, NEW t, NEW e, Regular(r), Laid(r, t, e), Len(t) < NPos,
         NEW name \in Name
  PROVE  ParseHeader(e[0] - 2, t, name) = FieldOf(r, name)
<1> DEFINE n == Len(r.fields)
           N == NamedIn(r, name)
           m == Min(N)
           d == e[m - 1]
           z == e[m]
           hs == HeaderLine(t, name, e[0] - 2)
           hl == hs + 5
           he == Find(t, CRLF, hl)
           hc == FindNot(t, " ", hl)
<1>1. hs = IF N = {} THEN NPos ELSE d - 2
  BY HeaderLineIs
<1>2. ParseHeader(e[0] - 2, t, name) =
        IF hs = NPos \/ he <= hc THEN << >> ELSE Substr(t, hc, he - hc)
  BY DEF ParseHeader
<1>3. FieldOf(r, name) = IF N = {} THEN << >> ELSE r.fields[m].content
  BY DEF FieldOf, NamedIn
<1>4. t \in Seq(Byte)
  BY DEF Laid
<1>5. BrokenAt(t, e, n)
  BY LaidBreaks
<1>6. n \in Nat
  BY <1>5 DEF BrokenAt
<1>7. CASE N = {}
  <2>1. hs = NPos /\ FieldOf(r, name) = << >>
    BY <1>1, <1>3, <1>7
  <2> HIDE DEF N, hs, hl, he, hc
  <2> QED BY <1>2, <2>1
<1>8. CASE N # {}
  <2>1. m \in N
    BY <1>6, <1>8, FirstNamed
  <2> DEFINE f == r.fields[m]
             b == f.blanks
             c == Len(f.content)
  <2>2. m \in 1..n /\ f.blanks > 0
    BY <2>1 DEF NamedIn
  <2>3. FieldLaid(f, t, d, z)
    BY <2>2, LaidField
  <2>4. /\ Find(t, CRLF, d + 3) = z - 2 /\ FindNot(t, " ", d + 3) = (d + 2) + b
        /\ (z - 2) - ((d + 2) + b) = c /\ c \in Nat /\ z - 2 \in Nat
        /\ (d + 2) + b \in Nat /\ ((d + 2) + b) + c <= Len(t)
    BY <1>4, <2>2, <2>3, ContentFound
  <2>5. /\ d \in Nat /\ f.content \in Seq(Byte)
        /\ \A k \in 1..c : t[((d + 2) + b) + k] = f.content[k]
    BY <2>3 DEF FieldLaid
  <2>6. hs = d - 2
    BY <1>1, <1>8
  <2>7. FieldOf(r, name) = f.content
    BY <1>3, <1>8
  <2> HIDE DEF N, m, d, z, f, b, c, hs
  <2>8. hl = d + 3 /\ Len(t) \in Nat /\ NPos \in Int
    BY <1>4, <2>5, <2>6, LenProperties, SizeAssumption DEF NPos
  <2> HIDE DEF hl
  <2>9. he = z - 2 /\ hc = (d + 2) + b
    BY <2>4, <2>8
  <2> HIDE DEF he, hc
  <2>10. /\ hs # NPos /\ he \in Nat /\ hc \in Nat /\ he - hc = c
         /\ hc + c <= Len(t) /\ c # NPos /\ c \in Nat
    <3>1. b \in Nat /\ z \in Nat
      BY <2>3 DEF FieldLaid, b
    <3>2. Len(t) < NPos /\ Len(t) \in Nat /\ NPos \in Int
      BY <2>8
    <3>3. d \in Nat /\ c \in Nat /\ ((d + 2) + b) + c <= Len(t)
      BY <2>4, <2>5
    <3>4. d - 2 # NPos /\ c # NPos
      BY <3>1, <3>2, <3>3
    <3>5. hs # NPos /\ c # NPos
      BY <2>6, <3>4
    <3>6. /\ he \in Nat /\ hc \in Nat /\ he - hc = c /\ hc + c <= Len(t)
      BY <2>4, <2>9
    <3> QED BY <2>4, <3>5, <3>6
  <2>11. CASE c = 0
    <3>1. he <= hc
      BY <2>10, <2>11
    <3>2. f.content = << >>
      BY <2>5, <2>11, EmptySeq DEF c
    <3> QED BY <1>2, <2>7, <3>1, <3>2
  <2>12. CASE c # 0
    <3>1. ~(he <= hc)
      BY <2>10, <2>12
    <3> DEFINE s == Substr(t, hc, c)
    <3>2. s \in Seq(Byte) /\ Len(s) = c /\ \A k \in 1..c : s[k] = t[hc + k]
      BY <1>4, <2>10, SubstrIs
    <3> HIDE DEF s
    <3>3. \A k \in 1..Len(s) : s[k] = f.content[k]
      BY <2>5, <2>9, <3>2
    <3>4. s = f.content
      BY <2>5, <3>2, <3>3, SeqEqual DEF c
    <3> QED BY <1>2, <2>7, <2>10, <3>1, <3>4 DEF s
  <2> QED BY <2>11, <2>12
<1> QED BY <1>7, <1>8

(***************************************************************************)
(* The names Accept() and Process() look for.                              *)
(***************************************************************************)
LEMMA HeadersAre ==
  /\ "Host" \in Name /\ "Connection" \in Name /\ "Content-Length" \in Name
  /\ "Referer" \in Name
BY TokensAssumption, WordsAssumption DEF Name

(***************************************************************************)
(* What Accept() answers for the bytes of a request, and what Process()    *)
(* reads of the length of its body, is what the request says.              *)
(***************************************************************************)
Told(r, p, a) ==
  /\ DOMAIN a.pci = DOMAIN p
  /\ a.status = StatusOf(r)
  /\ a.status # 200 => ~a.keep
  /\ a.status = 200 =>
       /\ a.pci.host = FieldOf(r, "Host")
       /\ a.pci.uri = FlattenSeq(r.uri)
       /\ a.pci.resource = Resource(FlattenSeq(r.uri))
       /\ a.keep <=> ~Starts(FieldOf(r, "Connection"), <<"close">>)

LEMMA AcceptOf ==
  ASSUME NEW r, Regular(r), Len(Render(r)) < NPos,
         NEW s, s.state # "CORRUPTED", Text(s) = Render(r),
         NEW p, "host" \in DOMAIN p, "uri" \in DOMAIN p, "resource" \in DOMAIN p
  PROVE  /\ Told(r, p, Accept(s, p))
         /\ Text(s)[1] = r.method
         /\ BodyLength(Text(s)) = StrToUl(FieldOf(r, "Content-Length"))
<1> DEFINE text  == Text(s)
           line  == RequestLine(text)
           lf    == Find(text, CRLF, 0)
           host  == ParseHeader(lf, text, "Host")
           where == [p EXCEPT !.resource = Resource(line.uri)]
           full  == [where EXCEPT !.host = host,
                                  !.referer = Setting(text, "Referer", p.referer),
                                  !.uri = line.uri]
           keep  == ~Starts(ParseHeader(lf, text, "Connection"), <<"close">>)
           a     == Accept(s, p)
<1>1. a = IF line.status # 200
          THEN [status |-> line.status, pci |-> p, keep |-> FALSE]
          ELSE IF host = << >> THEN [status |-> 400, pci |-> where, keep |-> FALSE]
          ELSE [status |-> 200, pci |-> full, keep |-> keep]
  BY DEF Accept
<1>2. PICK e : Laid(r, text, e)
  BY RenderIs
<1>3. /\ lf = e[0] - 2
      /\ line = IF r.method \notin {"GET", "HEAD", "POST"}
                THEN [status |-> 501, uri |-> << >>]
                ELSE IF r.version # "HTTP/1.1" THEN [status |-> 505, uri |-> << >>]
                ELSE [status |-> 200, uri |-> FlattenSeq(r.uri)]
  BY <1>2, FirstLineIs
<1>4. /\ host = FieldOf(r, "Host")
      /\ ParseHeader(lf, text, "Connection") = FieldOf(r, "Connection")
      /\ ParseHeader(lf, text, "Content-Length") = FieldOf(r, "Content-Length")
  BY <1>2, <1>3, HeaderOf, HeadersAre
<1>5. BodyLength(text) = StrToUl(FieldOf(r, "Content-Length"))
  BY <1>4 DEF BodyLength
<1>6. text[1] = r.method
  BY <1>2 DEF Laid
<1>7. keep <=> ~Starts(FieldOf(r, "Connection"), <<"close">>)
  BY <1>4
<1>8. /\ DOMAIN where = DOMAIN p
      /\ DOMAIN full = DOMAIN p /\ full.host = host /\ full.uri = line.uri
      /\ full.resource = Resource(line.uri)
  <2>1. DOMAIN where = DOMAIN p /\ where.resource = Resource(line.uri)
    OBVIOUS
  <2> HIDE DEF where
  <2>2. DOMAIN full = DOMAIN where
    OBVIOUS
  <2>3. full.host = host /\ full.uri = line.uri /\ full.resource = where.resource
    BY <2>1
  <2> QED BY <2>1, <2>2, <2>3
<1> HIDE DEF text, line, lf, host, where, full, keep, a
<1>9. CASE r.method \notin {"GET", "HEAD", "POST"}
  <2>1. line.status = 501 /\ StatusOf(r) = 501
    BY <1>3, <1>9 DEF StatusOf
  <2>2. a = [status |-> 501, pci |-> p, keep |-> FALSE]
    BY <1>1, <2>1
  <2> QED BY <1>5, <1>6, <2>1, <2>2 DEF Told, a, text
<1>10. CASE r.method \in {"GET", "HEAD", "POST"} /\ r.version # "HTTP/1.1"
  <2>1. line.status = 505 /\ StatusOf(r) = 505
    BY <1>3, <1>10 DEF StatusOf
  <2>2. a = [status |-> 505, pci |-> p, keep |-> FALSE]
    BY <1>1, <2>1
  <2> QED BY <1>5, <1>6, <2>1, <2>2 DEF Told, a, text
<1>11. CASE r.method \in {"GET", "HEAD", "POST"} /\ r.version = "HTTP/1.1"
  <2>1. line.status = 200 /\ line.uri = FlattenSeq(r.uri)
    BY <1>3, <1>11
  <2>2. StatusOf(r) = IF host = << >> THEN 400 ELSE 200
    BY <1>4, <1>11 DEF StatusOf
  <2>3. CASE host = << >>
    <3>1. a = [status |-> 400, pci |-> where, keep |-> FALSE]
      BY <1>1, <2>1, <2>3
    <3> QED BY <1>5, <1>6, <1>8, <2>2, <2>3, <3>1 DEF Told, a, text
  <2>4. CASE host # << >>
    <3>1. a = [status |-> 200, pci |-> full, keep |-> keep]
      BY <1>1, <2>1, <2>4
    <3>2. a.status = 200 /\ a.pci = full /\ a.keep = keep
      BY <3>1
    <3>3. StatusOf(r) = 200
      BY <2>2, <2>4
    <3>4. Told(r, p, a)
      BY <1>4, <1>7, <1>8, <2>1, <3>2, <3>3 DEF Told
    <3> QED BY <1>5, <1>6, <3>4 DEF a, text
  <2> QED BY <2>3, <2>4
<1> QED BY <1>9, <1>10, <1>11

(***************************************************************************)
(* A request above the limit is refused for it.                            *)
(***************************************************************************)
LEMMA AcceptCorrupted ==
  ASSUME NEW s, s.state = "CORRUPTED", NEW p
  PROVE  Accept(s, p).status = 413 /\ ~Accept(s, p).keep /\ Accept(s, p).pci = p
BY DEF Accept

(***************************************************************************)
(* Process() keeps the connection unless a script had it, and refuses a    *)
(* body of unknown length that a script would be given.                    *)
(***************************************************************************)
LEMMA ProcessKeeps ==
  ASSUME NEW q, NEW c
  PROVE  Process(q, c).keep <=> Kept(q, c)
<1> DEFINE keep == Kept(q, c)
           buffer == AddHeader(<< >>, "Connection", Persistence(keep))
           get == q.method # "HEAD"
           status == Refuse(<< >>, q.status, q, keep)
           allow  == Refuse(AddHeader(<< >>, "Allow", <<"GET,HEAD">>), 405, q, keep)
           none   == Refuse(<< >>, 404, q, keep)
           denied == Refuse(<< >>, 403, q, keep)
           moved  == Refuse(FormatHeader(<< >>, "Location", Formatted(Location(q.uri))),
                            303, q, keep)
           unlisted == Refuse(buffer, 404, q, keep)
           closed == Refuse(buffer, 500, q, keep)
           length == Refuse(buffer, 411, q, keep)
           page   == SendPage(buffer, IF get THEN ListDir(q.resource, c.entries) ELSE << >>,
                              keep)
           output == SendOutput(buffer, c.out)
           fresh  == Reply(304, Generate(buffer, Number(304), TRUE), 0, keep)
           file   == SendFile(buffer, q, c, keep)
           slash  == q.uri[QueryAt(q.uri)] # "/"
<1>1. Process(q, c) =
        IF q.status # 200 THEN status
        ELSE IF ~c.cgi /\ q.method = "POST" THEN allow
        ELSE IF ~c.exists THEN none
        ELSE IF c.deny THEN denied
        ELSE IF c.dir /\ slash THEN moved
        ELSE IF c.dir /\ ~c.listing THEN unlisted
        ELSE IF c.dir THEN IF get /\ ~c.opens THEN closed ELSE page
        ELSE IF c.cgi
             THEN IF q.method = "POST" /\ ~q.length.ok THEN length ELSE output
        ELSE IF c.fresh THEN fresh
        ELSE IF get /\ ~c.opens THEN closed
        ELSE file
  BY DEF Process
<1>2. /\ status.keep = keep /\ allow.keep = keep /\ none.keep = keep
      /\ denied.keep = keep /\ moved.keep = keep /\ unlisted.keep = keep
      /\ closed.keep = keep /\ length.keep = keep
  BY DEF Refuse, Reply
<1>3. page.keep = keep /\ fresh.keep = keep /\ file.keep = keep
  BY DEF SendPage, SendFile, Reply
<1>4. output.keep = FALSE /\ (c.cgi => keep = FALSE)
  BY DEF SendOutput, Reply, Kept
<1> HIDE DEF keep, buffer, get, status, allow, none, denied, moved, unlisted, closed,
             length, page, output, fresh, file, slash
<1>5. Process(q, c).keep = keep
  BY <1>1, <1>2, <1>3, <1>4
<1> QED BY <1>5 DEF keep

LEMMA ProcessLength ==
  ASSUME NEW q, NEW c, q.status = 200, q.method = "POST",
         c.cgi, c.exists, ~c.deny, ~c.dir
  PROVE  Process(q, c).status = 411 <=> ~q.length.ok
<1> DEFINE keep == Kept(q, c)
           b == AddHeader(<< >>, "Connection", Persistence(keep))
<1>1. Process(q, c) = IF ~q.length.ok THEN Refuse(b, 411, q, keep) ELSE SendOutput(b, c.out)
  BY DEF Process
<1>2. Refuse(b, 411, q, keep).status = 411
  BY DEF Refuse, Reply
<1>3. SendOutput(b, c.out).status = 200
  BY DEF SendOutput, Reply
<1> HIDE DEF keep, b
<1> QED BY <1>1, <1>2, <1>3

(***************************************************************************)
(* White space is skipped to the first byte that is none.                  *)
(***************************************************************************)
LEMMA UnspacedIs ==
  ASSUME NEW s \in Seq(Byte)
  PROVE  \E e \in 0..Len(s) :
           /\ Unspaced(s) = From(s, e)
           /\ e < Len(s) => s[e + 1] \notin Spaces
           /\ \A j \in 1..e : s[j] \in Spaces
<1> DEFINE n == Len(s)
           ends == {j \in 0..n : j < n => s[j + 1] \notin Spaces}
           e == Min(ends)
<1>1. n \in Nat
  BY LenProperties
<1>2. e \in ends /\ \A j \in ends : e <= j
  <2>1. ends \in SUBSET Nat /\ n \in ends
    BY <1>1
  <2>2. ends # {}
    BY <2>1
  <2> HIDE DEF ends
  <2>3. \E j \in ends : \A k \in ends : j <= k
    BY <2>1, <2>2, LeastNat
  <2> QED BY <2>3 DEF Min
<1>3. Unspaced(s) = From(s, e)
  BY DEF Unspaced
<1> HIDE DEF e
<1>4. e \in 0..n /\ (e < n => s[e + 1] \notin Spaces)
  BY <1>2
<1>5. ASSUME NEW j \in 1..e PROVE s[j] \in Spaces
  <2>1. j - 1 \in 0..n /\ ~(e <= j - 1) /\ (j - 1) + 1 = j
    BY <1>1, <1>4
  <2>2. j - 1 \notin ends
    BY <1>2, <2>1
  <2> QED BY <2>1, <2>2
<1> QED BY <1>3, <1>4, <1>5

(***************************************************************************)
(* StrToUl() reads a text of digits as their value, and takes nothing for  *)
(* a number but digits behind white space and at most one sign.            *)
(***************************************************************************)
LEMMA StrToUlIs ==
  ASSUME NEW s \in Seq(Byte)
  PROVE  /\ Numeral(s) /\ DigitsValue(s) < SizeModulus =>
              StrToUl(s).ok /\ StrToUl(s).ul = DigitsValue(s)
         /\ StrToUl(s).ok => States(s, StrToUl(s).ul)
<1> DEFINE text == Unspaced(s)
           signed == text # << >> /\ text[1] \in {"plus", "-"}
           digits == IF signed THEN Tail(text) ELSE text
           n == DigitsValue(digits)
           ok == IsNumber(digits) /\ n < SizeModulus
<1>1. StrToUl(s) = [ok |-> ok,
                    ul |-> IF ~ok THEN 0
                           ELSE IF text[1] = "-" THEN (-n) % SizeModulus ELSE n]
  BY DEF StrToUl
<1>2. IsNumber(digits) <=> Numeral(digits)
  <2>1. DOMAIN Digits = {"0", "1", "2"}
    BY DEF Digits
  <2> HIDE DEF digits
  <2> QED BY <2>1 DEF IsNumber, Numeral
<1>3. PICK e \in 0..Len(s) :
        /\ text = From(s, e)
        /\ e < Len(s) => s[e + 1] \notin Spaces
        /\ \A j \in 1..e : s[j] \in Spaces
  BY UnspacedIs
<1>4. /\ Len(s) \in Nat /\ e \in Nat /\ e <= Len(s)
      /\ text \in Seq(Byte) /\ Len(text) = Len(s) - e
      /\ \A k \in 1..Len(text) : text[k] = s[e + k]
  BY <1>3, FromIs, LenProperties
<1> HIDE DEF text
<1>5. ASSUME Numeral(s) PROVE digits = s
  <2>1. 1 \in 1..Len(s) /\ s[1] \in {"0", "1", "2"}
    BY <1>5, EmptySeq DEF Numeral
  <2>2. e = 0
    <3>1. e # 0 => 1 \in 1..e
      BY <1>4
    <3> QED BY <1>3, <2>1, <3>1 DEF Spaces
  <2>3. text = s
    <3>1. Len(text) = Len(s) /\ \A k \in 1..Len(text) : text[k] = s[k]
      BY <1>4, <2>2
    <3> QED BY <1>4, <3>1, SeqEqual
  <2>4. ~signed
    BY <2>1, <2>3
  <2> QED BY <2>3, <2>4
<1>6. /\ StrToUl(s).ok = ok
      /\ ok => StrToUl(s).ul = IF text[1] = "-" THEN (-n) % SizeModulus ELSE n
  <2> HIDE DEF ok, n
  <2> QED BY <1>1
<1>7. ASSUME Numeral(s), DigitsValue(s) < SizeModulus
      PROVE  StrToUl(s).ok /\ StrToUl(s).ul = DigitsValue(s)
  <2>1. digits = s
    BY <1>5, <1>7
  <2>2. ok /\ n = DigitsValue(s)
    BY <1>2, <1>7, <2>1
  <2>3. text[1] # "-"
    <3>1. 1 \in 1..Len(s) /\ s[1] \in {"0", "1", "2"}
      BY <1>7, EmptySeq DEF Numeral
    <3>2. ~signed => text[1] # "-"
      BY <2>1, <3>1
    <3>3. signed => FALSE
      <4> SUFFICES ASSUME signed PROVE FALSE
        OBVIOUS
      <4>1. s = Tail(text) /\ Len(text) <= Len(s) /\ Len(text) \in Nat
        BY <1>4, <2>1
      <4>2. text # << >>
        OBVIOUS
      <4>3. Len(Tail(text)) = Len(text) - 1
        BY <1>4, <4>2, HeadTailProperties
      <4> QED BY <4>1, <4>3
    <3> QED BY <3>2, <3>3
  <2> HIDE DEF ok, n
  <2> QED BY <1>6, <2>2, <2>3
<1>8. ASSUME ok PROVE States(s, StrToUl(s).ul)
  <2> DEFINE i == IF signed THEN e + 1 ELSE e
  <2>1. i \in 0..Len(s) /\ digits = From(s, i)
    <3>1. CASE ~signed
      BY <1>3, <1>4, <3>1
    <3>2. CASE signed
      <4>1. Len(text) # 0
        BY <1>4, <3>2, EmptySeq
      <4>2. e + 1 <= Len(s)
        BY <1>4, <4>1
      <4>3. /\ Tail(text) \in Seq(Byte) /\ Len(Tail(text)) = Len(text) - 1
            /\ \A k \in 1..Len(Tail(text)) : Tail(text)[k] = text[k + 1]
        BY <1>4, <3>2, HeadTailProperties
      <4>4. /\ From(s, e + 1) \in Seq(Byte) /\ Len(From(s, e + 1)) = Len(s) - (e + 1)
            /\ \A k \in 1..Len(From(s, e + 1)) : From(s, e + 1)[k] = s[(e + 1) + k]
        <5> DEFINE d == e + 1
        <5>1. d \in Nat /\ d <= Len(s)
          BY <1>4, <4>2
        <5> HIDE DEF d
        <5>2. /\ From(s, d) \in Seq(Byte) /\ Len(From(s, d)) = Len(s) - d
              /\ \A k \in 1..Len(From(s, d)) : From(s, d)[k] = s[d + k]
          BY <5>1, FromIs
        <5> QED BY <5>2 DEF d
      <4>5. Len(Tail(text)) = Len(From(s, e + 1))
        BY <1>4, <4>3, <4>4
      <4>6. ASSUME NEW k \in 1..Len(Tail(text)) PROVE Tail(text)[k] = From(s, e + 1)[k]
        <5>1. k + 1 \in 1..Len(text) /\ e + (k + 1) = (e + 1) + k
          BY <1>4, <4>3
        <5> QED BY <1>4, <4>3, <4>4, <4>5, <5>1
      <4>7. Tail(text) = From(s, e + 1)
        BY <4>3, <4>4, <4>5, <4>6, SeqEqual
      <4> QED BY <1>4, <3>2, <4>2, <4>7
    <3> QED BY <3>1, <3>2
  <2>2. Numeral(digits) /\ n < SizeModulus
    BY <1>2, <1>8
  <2>3. text # << >> /\ text[1] = s[e + 1] /\ e < Len(s)
    <3>1. digits # << >>
      BY <2>2 DEF Numeral
    <3>2. text # << >>
      BY <3>1
    <3>3. 1 \in 1..Len(text)
      BY <1>4, <3>2, EmptySeq
    <3> QED BY <1>4, <3>2, <3>3
  <2>4. signed <=> i > 0 /\ s[i] \in {"plus", "-"}
    <3>1. CASE signed
      BY <1>4, <2>3, <3>1
    <3>2. CASE ~signed
      <4>1. i = e /\ (e > 0 => e \in 1..e)
        BY <1>4, <3>2
      <4>2. e > 0 => s[e] \in Spaces
        BY <1>3, <4>1
      <4> QED BY <3>2, <4>1, <4>2 DEF Spaces
    <3> QED BY <3>1, <3>2
  <2>5. (IF signed THEN i - 1 ELSE i) = e /\ (signed => s[i] = text[1])
    BY <1>4, <2>3
  <2>6. text[1] = "-" <=> signed /\ s[i] = "-"
    BY <2>3, <2>5
  <2>7. StrToUl(s).ul = IF signed /\ s[i] = "-" THEN (-n) % SizeModulus ELSE n
    <3>1. StrToUl(s).ul = IF text[1] = "-" THEN (-n) % SizeModulus ELSE n
      BY <1>6, <1>8
    <3> HIDE DEF n
    <3> QED BY <2>6, <3>1
  <2>8. n = DigitsValue(From(s, i))
    BY <2>1
  <2> HIDE DEF n, digits, signed, i
  <2>9. /\ Numeral(From(s, i)) /\ DigitsValue(From(s, i)) < SizeModulus
        /\ \A j \in 1..(IF i > 0 /\ s[i] \in {"plus", "-"} THEN i - 1 ELSE i) : s[j] \in Spaces
        /\ StrToUl(s).ul = IF (i > 0 /\ s[i] \in {"plus", "-"}) /\ s[i] = "-"
                           THEN (-DigitsValue(From(s, i))) % SizeModulus
                           ELSE DigitsValue(From(s, i))
    BY <1>3, <2>1, <2>2, <2>4, <2>5, <2>7, <2>8
  <2> QED BY <2>1, <2>9 DEF States
<1> HIDE DEF ok
<1> QED BY <1>6, <1>7, <1>8

(***************************************************************************)
(* Parts of a text: two from the same offset, what is left of one, one     *)
(* taken out, and two that follow one another.                             *)
(***************************************************************************)
LEMMA PartsMeet ==
  ASSUME NEW a, NEW b, NEW h, NEW d, Part(a, h, d), Part(b, h, d), Len(a) <= Len(b)
  PROVE  Part(a, b, 0)
<1>1. /\ a \in Seq(Byte) /\ b \in Seq(Byte) /\ Len(a) \in Nat /\ Len(b) \in Nat
      /\ \A k \in 1..Len(a) : h[d + k] = a[k]
      /\ \A k \in 1..Len(b) : h[d + k] = b[k]
  BY DEF Part
<1>2. 0 \in Nat /\ 0 + Len(a) <= Len(b)
  BY <1>1
<1>3. ASSUME NEW k \in 1..Len(a) PROVE b[0 + k] = a[k]
  <2>1. k \in 1..Len(b) /\ 0 + k = k
    BY <1>1
  <2> QED BY <1>1, <2>1
<1> QED BY <1>1, <1>2, <1>3 DEF Part

LEMMA PartFrom ==
  ASSUME NEW b, NEW h, NEW d, Part(b, h, d), NEW i \in Nat, i <= Len(b)
  PROVE  Part(From(b, i), h, d + i) /\ Len(From(b, i)) = Len(b) - i
<1> DEFINE s == From(b, i)
<1>1. /\ b \in Seq(Byte) /\ h \in Seq(Byte) /\ d \in Nat
      /\ Len(b) \in Nat /\ Len(h) \in Nat /\ d + Len(b) <= Len(h)
      /\ \A k \in 1..Len(b) : h[d + k] = b[k]
  BY DEF Part
<1>2. /\ s \in Seq(Byte) /\ Len(s) = Len(b) - i
      /\ \A k \in 1..Len(s) : s[k] = b[i + k]
  BY <1>1, FromIs
<1> HIDE DEF s
<1>3. Len(s) \in Nat /\ d + i \in Nat /\ (d + i) + Len(s) <= Len(h)
  BY <1>1, <1>2
<1>4. ASSUME NEW k \in 1..Len(s) PROVE h[(d + i) + k] = s[k]
  <2>1. i + k \in 1..Len(b) /\ d + (i + k) = (d + i) + k
    BY <1>1, <1>2
  <2> QED BY <1>1, <1>2, <2>1
<1>5. Part(s, h, d + i)
  BY <1>1, <1>2, <1>3, <1>4 DEF Part
<1> QED BY <1>2, <1>5 DEF s

LEMMA PartTaken ==
  ASSUME NEW b \in Seq(Byte), NEW n \in Nat, n <= Len(b), n # NPos
  PROVE  Part(Substr(b, 0, n), b, 0) /\ Len(Substr(b, 0, n)) = n
<1> DEFINE s == Substr(b, 0, n)
<1>1. 0 \in Nat /\ 0 + n <= Len(b) /\ Len(b) \in Nat
  BY LenProperties
<1>2. s \in Seq(Byte) /\ Len(s) = n /\ \A k \in 1..n : s[k] = b[0 + k]
  BY <1>1, SubstrIs
<1> HIDE DEF s
<1>3. Part(s, b, 0)
  BY <1>1, <1>2 DEF Part
<1> QED BY <1>2, <1>3 DEF s

LEMMA PartSame ==
  ASSUME NEW a, NEW b, Part(a, b, 0), Len(a) # NPos
  PROVE  Substr(b, 0, Len(a)) = a
<1> DEFINE s == Substr(b, 0, Len(a))
<1>1. /\ a \in Seq(Byte) /\ b \in Seq(Byte) /\ Len(a) \in Nat /\ 0 + Len(a) <= Len(b)
      /\ \A k \in 1..Len(a) : b[0 + k] = a[k]
  BY DEF Part
<1>2. s \in Seq(Byte) /\ Len(s) = Len(a) /\ \A k \in 1..Len(a) : s[k] = b[0 + k]
  BY <1>1, SubstrIs
<1> HIDE DEF s
<1>3. \A k \in 1..Len(s) : s[k] = a[k]
  BY <1>1, <1>2
<1>4. s = a
  BY <1>1, <1>2, <1>3, SeqEqual
<1> QED BY <1>4 DEF s

LEMMA PartsJoin ==
  ASSUME NEW b, NEW c, NEW h, NEW d, Part(b, h, d), Part(c, h, d + Len(b))
  PROVE  Part(b \o c, h, d) /\ Len(b \o c) = Len(b) + Len(c)
<1> DEFINE s == b \o c
<1>1. /\ b \in Seq(Byte) /\ h \in Seq(Byte) /\ d \in Nat
      /\ Len(b) \in Nat /\ Len(h) \in Nat
      /\ \A k \in 1..Len(b) : h[d + k] = b[k]
  BY DEF Part
<1>2. /\ c \in Seq(Byte) /\ Len(c) \in Nat /\ (d + Len(b)) + Len(c) <= Len(h)
      /\ \A k \in 1..Len(c) : h[(d + Len(b)) + k] = c[k]
  BY DEF Part
<1>3. /\ s \in Seq(Byte) /\ Len(s) = Len(b) + Len(c)
      /\ \A k \in 1..Len(b) : s[0 + k] = b[k]
      /\ \A k \in 1..Len(c) : s[Len(b) + k] = c[k]
  BY <1>1, <1>2, ConcatParts DEF Part
<1> HIDE DEF s
<1>4. Len(s) \in Nat /\ d + Len(s) <= Len(h)
  BY <1>1, <1>2, <1>3
<1>5. ASSUME NEW k \in 1..Len(s) PROVE h[d + k] = s[k]
  <2>1. CASE k <= Len(b)
    <3>1. k \in 1..Len(b) /\ 0 + k = k
      BY <1>1, <2>1
    <3> QED BY <1>1, <1>3, <3>1
  <2>2. CASE ~(k <= Len(b))
    <3>1. k - Len(b) \in 1..Len(c)
      BY <1>1, <1>2, <1>3, <2>2
    <3>2. Len(b) + (k - Len(b)) = k /\ (d + Len(b)) + (k - Len(b)) = d + k
      BY <1>1
    <3> QED BY <1>2, <1>3, <3>1, <3>2
  <2> QED BY <2>1, <2>2
<1>6. Part(s, h, d)
  BY <1>1, <1>3, <1>4, <1>5 DEF Part
<1> QED BY <1>3, <1>6 DEF s

(***************************************************************************)
(* The most bytes a read brings.                                           *)
(***************************************************************************)
LEMMA MostRead ==
  ASSUME NEW n \in Reads
  PROVE  Max(Reads) \in Reads /\ n <= Max(Reads)
<1> DEFINE T == {x \in Nat : \E y \in Reads : x = RequestLimit - y}
<1>1. RequestLimit \in Nat /\ \A y \in Reads : y \in 1..RequestLimit
  BY LimitAssumption, ReadsAssumption
<1>2. RequestLimit - n \in T
  BY <1>1
<1>3. T \in SUBSET Nat /\ T # {}
  BY <1>2
<1>4. PICK i \in T : \A j \in T : i <= j
  BY <1>3, LeastNat
<1>5. PICK x \in Reads : i = RequestLimit - x
  BY <1>4
<1>6. ASSUME NEW y \in Reads PROVE x >= y
  <2>1. RequestLimit - y \in T
    BY <1>1
  <2>2. RequestLimit - x <= RequestLimit - y
    BY <1>4, <1>5, <2>1
  <2> QED BY <1>1, <2>2
<1>7. Max(Reads) \in Reads /\ \A y \in Reads : Max(Reads) >= y
  BY <1>6 DEF Max
<1> QED BY <1>1, <1>7

-----------------------------------------------------------------------------
(* The requests of a connection, as they follow one another.               *)

\* The k-th request of rs ends at offset o[k] of what is sent.
Cut(rs, o) ==
  /\ Len(rs) \in Nat /\ RenderAll(rs) \in Seq(Byte)
  /\ o[0] = 0 /\ o[Len(rs)] = Len(RenderAll(rs))
  /\ \A k \in 0..Len(rs) : o[k] \in Nat
  /\ \A k \in 0..Len(rs) - 1 :
       /\ Regular(rs[k + 1]) /\ Ended(Render(rs[k + 1]))
       /\ o[k + 1] = o[k] + Len(Render(rs[k + 1]))
       /\ Part(Render(rs[k + 1]), RenderAll(rs), o[k])

(***************************************************************************)
(* There are such offsets.                                                 *)
(***************************************************************************)
LEMMA CutExists ==
  ASSUME RegularRequests, NEW rs \in Requests
  PROVE  \E o : Cut(rs, o)
<1> DEFINE n == Len(rs)
           s == [i \in 1..n |-> Render(rs[i])]
<1>1. n \in Nat /\ RenderAll(rs) \in Seq(Byte)
  BY RequestsAssumption
<1>2. ASSUME NEW i \in 1..n
      PROVE  Regular(rs[i]) /\ Render(rs[i]) \in Seq(Byte) /\ Ended(Render(rs[i]))
  <2>1. Regular(rs[i])
    BY DEF RegularRequests
  <2>2. PICK e : Laid(rs[i], Render(rs[i]), e)
    BY <2>1, RenderIs
  <2> QED BY <2>1, <2>2, RequestEnded DEF Laid
<1>3. s \in Seq(Seq(Byte)) /\ Len(s) = n /\ \A i \in 1..n : s[i] = Render(rs[i])
  BY <1>1, <1>2
<1>4. RenderAll(rs) = FlattenSeq(s)
  BY DEF RenderAll
<1> HIDE DEF n, s
<1>5. PICK o : Joined(s, RenderAll(rs), o)
  BY <1>3, <1>4, JoinedIs
<1>6. /\ o \in [0..n -> Nat] /\ o[0] = 0 /\ o[n] = Len(RenderAll(rs))
      /\ \A i \in 1..n : o[i] = o[i - 1] + Len(s[i]) /\ Part(s[i], RenderAll(rs), o[i - 1])
  BY <1>3, <1>5 DEF Joined
<1>7. ASSUME NEW k \in 0..n - 1
      PROVE  /\ Regular(rs[k + 1]) /\ Ended(Render(rs[k + 1]))
             /\ o[k + 1] = o[k] + Len(Render(rs[k + 1]))
             /\ Part(Render(rs[k + 1]), RenderAll(rs), o[k])
  <2>1. k + 1 \in 1..n /\ (k + 1) - 1 = k
    BY <1>1
  <2> QED BY <1>2, <1>3, <1>6, <2>1
<1>8. \A k \in 0..n : o[k] \in Nat
  BY <1>6
<1> QED BY <1>1, <1>6, <1>7, <1>8 DEF Cut, n

\* After k requests the buffer b and then the wire w have what is left.
Ahead(rs, o, k, b, w) ==
  /\ k \in 0..Len(rs) /\ b \in Seq(Byte) /\ w \in Seq(Byte)
  /\ Part(b, RenderAll(rs), o[k]) /\ Part(w, RenderAll(rs), o[k] + Len(b))
  /\ (o[k] + Len(b)) + Len(w) = Len(RenderAll(rs))

(***************************************************************************)
(* A scan of the buffer finds the next request where that is whole.        *)
(***************************************************************************)
LEMMA NextFound ==
  ASSUME NEW rs, NEW o, Cut(rs, o), NEW k, NEW b, NEW w, Ahead(rs, o, k, b, w),
         Len(b) < NPos
  PROVE  LET found == FindBreak(b).found
             t == Render(rs[k + 1])
         IN /\ found \in BOOLEAN
            /\ found => /\ k < Len(rs) /\ FindBreak(b).pp = Len(t) /\ Len(t) <= Len(b)
                        /\ Len(b) >= 4
            /\ ~found => k = Len(rs) \/ Len(b) < Len(t)
            /\ k = Len(rs) => Len(b) = 0 /\ Len(w) = 0
<1> DEFINE found == FindBreak(b).found
           pp == FindBreak(b).pp
           t == Render(rs[k + 1])
           h == RenderAll(rs)
<1>1. /\ k \in 0..Len(rs) /\ b \in Seq(Byte) /\ Len(rs) \in Nat /\ h \in Seq(Byte)
      /\ Len(b) \in Nat /\ Len(w) \in Nat /\ o[k] \in Nat /\ Len(h) \in Nat
      /\ Part(b, h, o[k]) /\ (o[k] + Len(b)) + Len(w) = Len(h)
  BY LenProperties DEF Ahead, Cut
<1>2. found \in BOOLEAN /\ (found => pp \in 4..Len(b))
  BY <1>1, FindBreakIs
<1>3. ASSUME k = Len(rs) PROVE Len(b) = 0 /\ Len(w) = 0 /\ ~found
  <2>1. o[k] = Len(h)
    BY <1>3 DEF Cut
  <2>2. Len(b) = 0 /\ Len(w) = 0
    BY <1>1, <2>1
  <2> HIDE DEF found, pp
  <2>3. ~found
    BY <1>2, <2>2
  <2> QED BY <2>2, <2>3
<1>4. ASSUME k # Len(rs)
      PROVE  /\ k < Len(rs)
             /\ found => pp = Len(t) /\ Len(t) <= Len(b) /\ Len(b) >= 4
             /\ ~found => Len(b) < Len(t)
  <2>1. k \in 0..Len(rs) - 1 /\ k < Len(rs)
    BY <1>1, <1>4
  <2>2. Ended(t) /\ Part(t, h, o[k])
    BY <2>1 DEF Cut
  <2>3. Len(t) \in Nat /\ Len(t) >= 4
    BY <2>2 DEF Ended, Part
  <2>4. CASE Len(t) <= Len(b)
    <3>1. Part(t, b, 0)
      BY <1>1, <2>2, <2>4, PartsMeet
    <3>2. found /\ pp = Len(t)
      BY <1>1, <2>2, <3>1, RequestFound
    <3>3. Len(b) >= 4
      BY <1>1, <2>3, <2>4
    <3> HIDE DEF found, pp, t
    <3> QED BY <2>1, <2>4, <3>2, <3>3
  <2>5. CASE ~(Len(t) <= Len(b))
    <3>1. Len(b) < Len(t) /\ Len(b) <= Len(t)
      BY <1>1, <2>3, <2>5
    <3>2. Part(b, t, 0)
      BY <1>1, <2>2, <3>1, PartsMeet
    <3>3. ~found
      BY <1>1, <2>2, <3>1, <3>2, RequestFound
    <3> HIDE DEF found, pp, t
    <3> QED BY <2>1, <3>1, <3>3
  <2> QED BY <2>4, <2>5
<1> HIDE DEF found, pp, t
<1>5. k # Len(rs) \/ k = Len(rs)
  OBVIOUS
<1> QED BY <1>2, <1>3, <1>4, <1>5 DEF found, pp, t

(***************************************************************************)
(* What the state of a connection is between its requests: the next one    *)
(* is whole in the buffer, or not yet, or above the limit.                 *)
(***************************************************************************)
Whole(rs, k, s) ==
  /\ s.state = "SUCCESS" /\ k < Len(rs)
  /\ s.postl = Len(Render(rs[k + 1])) /\ s.postl <= Len(s.buffer)

Partial(rs, k, s) ==
  /\ s.state = "PENDING"
  /\ k = Len(rs) \/ Len(s.buffer) < Len(Render(rs[k + 1]))

TooLong(rs, k, s) ==
  /\ s.state = "CORRUPTED" /\ k < Len(rs)
  /\ Len(Render(rs[k + 1])) + Max(Reads) > RequestLimit

\* The text of a request that is whole is that request.
LEMMA WholeText ==
  ASSUME NEW rs, NEW o, Cut(rs, o), NEW k, NEW s, NEW w, Ahead(rs, o, k, s.buffer, w),
         Whole(rs, k, s), Len(s.buffer) < NPos
  PROVE  /\ Text(s) = Render(rs[k + 1]) /\ Regular(rs[k + 1])
         /\ Len(Render(rs[k + 1])) \in Nat /\ Len(Render(rs[k + 1])) <= Len(s.buffer)
<1> DEFINE t == Render(rs[k + 1])
           h == RenderAll(rs)
<1>1. /\ k \in 0..Len(rs) /\ Len(rs) \in Nat /\ k < Len(rs)
      /\ s.postl = Len(t) /\ s.postl <= Len(s.buffer)
      /\ Part(s.buffer, h, o[k])
  BY DEF Ahead, Cut, Whole
<1>2. k \in 0..Len(rs) - 1
  BY <1>1
<1>3. Regular(rs[k + 1]) /\ Part(t, h, o[k])
  BY <1>2 DEF Cut
<1>4. Len(t) \in Nat /\ Len(s.buffer) \in Nat
  BY <1>1, <1>3 DEF Part
<1>5. Part(t, s.buffer, 0)
  BY <1>1, <1>3, PartsMeet
<1>6. Len(t) <= Len(s.buffer) /\ NPos \in Int
  BY <1>1, SizeAssumption DEF NPos
<1> HIDE DEF t
<1>7. Len(t) # NPos
  BY <1>4, <1>6
<1>8. Text(s) = t
  BY <1>1, <1>5, <1>7, PartSame DEF Text
<1> QED BY <1>3, <1>4, <1>6, <1>8 DEF t

(***************************************************************************)
(* Received bytes go from the wire to the buffer, and a request that was   *)
(* answered leaves the buffer.                                             *)
(***************************************************************************)
LEMMA ReceiveAhead ==
  ASSUME NEW rs, NEW o, NEW k, NEW b, NEW w, Ahead(rs, o, k, b, w), o[k] \in Nat,
         NEW n \in Nat, n <= Len(w), n # NPos
  PROVE  /\ Ahead(rs, o, k, b \o SubSeq(w, 1, n), SubSeq(w, n + 1, Len(w)))
         /\ Len(b \o SubSeq(w, 1, n)) = Len(b) + n
<1> DEFINE h == RenderAll(rs)
           d == o[k] + Len(b)
           x == SubSeq(w, 1, n)
           y == SubSeq(w, n + 1, Len(w))
           z == b \o x
<1>1. /\ k \in 0..Len(rs) /\ b \in Seq(Byte) /\ w \in Seq(Byte)
      /\ Part(b, h, o[k]) /\ Part(w, h, d) /\ d + Len(w) = Len(h)
  BY DEF Ahead
<1>2. Len(b) \in Nat /\ Len(w) \in Nat /\ d \in Nat
  BY <1>1, LenProperties
<1>3. x = Substr(w, 0, n) /\ y = From(w, n)
  <2>1. ~(0 + n > Len(w)) /\ 0 + 1 = 1 /\ 0 + n = n
    BY <1>2
  <2> QED BY <2>1 DEF Substr, From
<1>4. Part(x, w, 0) /\ Len(x) = n
  BY <1>1, <1>3, PartTaken
<1>5. Part(y, h, d + n) /\ Len(y) = Len(w) - n
  BY <1>1, <1>3, PartFrom
<1> HIDE DEF x, y
<1>6. Part(x, h, d + 0)
  BY <1>1, <1>4, PartOf
<1>7. d + 0 = d
  BY <1>2
<1>8. Part(x, h, o[k] + Len(b))
  BY <1>6, <1>7
<1>9. Part(z, h, o[k]) /\ Len(z) = Len(b) + n
  BY <1>1, <1>4, <1>8, PartsJoin
<1>10. z \in Seq(Byte) /\ y \in Seq(Byte)
  BY <1>5, <1>9 DEF Part
<1> HIDE DEF z
<1>11. o[k] + Len(z) = d + n
  BY <1>2, <1>9
<1>12. (o[k] + Len(z)) + Len(y) = Len(h)
  <2>1. d + Len(w) = Len(h) /\ Len(y) = Len(w) - n
    BY <1>1, <1>5
  <2>2. Len(w) \in Nat /\ d \in Nat /\ o[k] + Len(z) = d + n
    BY <1>2, <1>11
  <2> HIDE DEF d, h
  <2> QED BY <2>1, <2>2
<1>13. Ahead(rs, o, k, z, y)
  BY <1>1, <1>5, <1>9, <1>10, <1>11, <1>12 DEF Ahead
<1> QED BY <1>9, <1>13 DEF x, y, z

LEMMA EraseAhead ==
  ASSUME NEW rs, NEW o, Cut(rs, o), NEW k, NEW s, NEW w, Ahead(rs, o, k, s.buffer, w),
         Whole(rs, k, s)
  PROVE  Ahead(rs, o, k + 1, Erased(s), w)
<1> DEFINE h == RenderAll(rs)
           b == s.buffer
           t == Render(rs[k + 1])
           y == Erased(s)
<1>1. /\ k \in 0..Len(rs) /\ b \in Seq(Byte) /\ w \in Seq(Byte) /\ Len(rs) \in Nat
      /\ Part(b, h, o[k]) /\ Part(w, h, o[k] + Len(b))
      /\ (o[k] + Len(b)) + Len(w) = Len(h)
      /\ k < Len(rs) /\ s.postl = Len(t) /\ s.postl <= Len(b)
  BY DEF Ahead, Cut, Whole
<1>2. k \in 0..Len(rs) - 1 /\ k + 1 \in 0..Len(rs)
  BY <1>1
<1>3. o[k + 1] = o[k] + Len(t) /\ Part(t, h, o[k]) /\ o[k] \in Nat
  BY <1>1, <1>2 DEF Cut
<1>4. Len(t) \in Nat /\ Len(b) \in Nat /\ Len(w) \in Nat
  BY <1>1, <1>3, LenProperties DEF Part
<1>5. Part(y, h, o[k] + Len(t)) /\ Len(y) = Len(b) - Len(t)
  BY <1>1, <1>4, PartFrom DEF Erased
<1>6. y \in Seq(Byte)
  BY <1>5 DEF Part
<1> HIDE DEF y, t, b
<1>7. o[k + 1] + Len(y) = o[k] + Len(b)
  BY <1>3, <1>4, <1>5
<1>8. Part(y, h, o[k + 1])
  BY <1>3, <1>5
<1>9. Ahead(rs, o, k + 1, y, w)
  BY <1>1, <1>2, <1>6, <1>7, <1>8 DEF Ahead
<1> QED BY <1>9 DEF y

(***************************************************************************)
(* What was made of the request r is what r says.                          *)
(***************************************************************************)
Right(r, t) ==
  LET length == StrToUl(FieldOf(r, "Content-Length"))
  IN /\ Regular(r)
     /\ \/ t.accepted = StatusOf(r) /\ Len(Render(r)) <= RequestLimit
        \/ t.accepted = 413 /\ Len(Render(r)) + Max(Reads) > RequestLimit
     /\ t.accepted = 200 =>
          /\ t.method = r.method
          /\ t.pci.host = FieldOf(r, "Host")
          /\ t.pci.uri = FlattenSeq(r.uri)
          /\ t.pci.resource = Resource(FlattenSeq(r.uri))
          /\ t.reply.keep <=>
               ~Starts(FieldOf(r, "Connection"), <<"close">>) /\ ~t.answer.cgi
          /\ t.length = length.ul
          /\ r.method = "POST" /\ Runs(t) => (t.reply.status = 411 <=> ~length.ok)

\* Where the connection stands in what was sent to it.
Placed(o) ==
  LET k == Len(taken)
      before(i) == Ahead(asked, o, i, spreq.buffer, wire)
  IN /\ stage = "receive" => before(k) /\ Partial(asked, k, spreq)
     /\ stage = "run" => \/ before(k) /\ Whole(asked, k, spreq)
                         \/ TooLong(asked, k, spreq)
     /\ stage = "send" =>
          /\ k >= 1
          /\ Last(taken).reply.keep => before(k - 1) /\ Whole(asked, k - 1, spreq)

TakenInv ==
  /\ PathsInv
  /\ "uri" \in DOMAIN pci /\ "host" \in DOMAIN pci
  /\ Len(taken) <= Len(asked)
  /\ \A k \in 1..Len(taken) : Right(asked[k], taken[k])
  /\ \E o : Cut(asked, o) /\ Placed(o)

(***************************************************************************)
(* A connection begins with nothing taken and all to be received.          *)
(***************************************************************************)
LEMMA TakenInit ==
  ASSUME RegularRequests, Init
  PROVE  TakenInv
<1>1. PathsInv
  BY PathsInit
<1>2. /\ asked \in Requests /\ wire = RenderAll(asked)
      /\ spreq.state = "PENDING" /\ spreq.buffer = << >> /\ stage = "receive"
      /\ Len(taken) = 0 /\ "uri" \in DOMAIN pci /\ "host" \in DOMAIN pci
  BY DEF Init
<1>3. PICK o : Cut(asked, o)
  BY <1>2, CutExists
<1> DEFINE h == RenderAll(asked)
<1>4. /\ Len(asked) \in Nat /\ h \in Seq(Byte) /\ o[0] = 0 /\ Len(h) \in Nat
      /\ \A k \in 0..Len(asked) - 1 : Ended(Render(asked[k + 1]))
  BY <1>3, LenProperties DEF Cut
<1>5. << >> \in Seq(Byte) /\ Len(<< >>) = 0 /\ 1..0 = {} /\ 0 \in 0..Len(asked)
  BY <1>4
<1> HIDE DEF h
<1>6. 0 + 0 = 0 /\ 0 + Len(h) <= Len(h) /\ 0 + 0 <= Len(h) /\ 0 \in Nat
      /\ (0 + 0) + Len(h) = Len(h) /\ \A k \in 1..Len(h) : 0 + k = k
  BY <1>4
<1>7. Part(<< >>, h, 0) /\ Part(h, h, 0)
  BY <1>4, <1>5, <1>6 DEF Part
<1>8. Ahead(asked, o, 0, << >>, h)
  BY <1>4, <1>5, <1>6, <1>7 DEF Ahead, h
<1>9. Partial(asked, 0, spreq)
  <2>1. CASE Len(asked) = 0
    BY <1>2, <2>1 DEF Partial
  <2>2. CASE Len(asked) # 0
    <3>1. 0 \in 0..Len(asked) - 1
      BY <1>4, <2>2
    <3>2. Len(Render(asked[0 + 1])) >= 4
      BY <1>4, <3>1 DEF Ended
    <3>3. Render(asked[0 + 1]) \in Seq(Byte)
      BY <1>4, <3>1 DEF Ended
    <3>4. Len(Render(asked[0 + 1])) \in Nat
      BY <3>3, LenProperties
    <3>5. 0 < Len(Render(asked[0 + 1]))
      BY <3>2, <3>4
    <3> QED BY <1>2, <1>5, <3>5 DEF Partial
  <2> QED BY <2>1, <2>2
<1>10. Placed(o)
  BY <1>2, <1>8, <1>9 DEF Placed, h
<1>11. Len(taken) <= Len(asked) /\ \A k \in 1..Len(taken) : Right(asked[k], taken[k])
  BY <1>2, <1>4, <1>5
<1> QED BY <1>1, <1>2, <1>3, <1>10, <1>11 DEF TakenInv

(***************************************************************************)
(* A read leaves the next request in part, whole, or above the limit.      *)
(***************************************************************************)
LEMMA ReceiveTaken ==
  ASSUME TakenInv, PathsInv', NEW n \in Reads, Receive(n)
  PROVE  TakenInv'
<1> DEFINE k == Len(taken)
           b == spreq.buffer \o SubSeq(wire, 1, n)
           w == SubSeq(wire, n + 1, Len(wire))
           found == FindBreak(b).found
           pp == FindBreak(b).pp
           long == Len(b) > RequestLimit
<1>1. /\ stage = "receive" /\ n <= Len(wire) /\ wire' = w
      /\ spreq' = IF long THEN [spreq EXCEPT !.state = "CORRUPTED"]
                  ELSE IF found
                  THEN [state |-> "SUCCESS", buffer |-> b, postl |-> pp]
                  ELSE [spreq EXCEPT !.buffer = b]
      /\ stage' = IF long \/ found THEN "run" ELSE stage
      /\ UNCHANGED <<asked, pci, taken>>
  BY DEF Receive
<1>2. PICK o : Cut(asked, o) /\ Placed(o)
  BY DEF TakenInv
<1>3. Ahead(asked, o, k, spreq.buffer, wire) /\ Partial(asked, k, spreq)
  BY <1>1, <1>2 DEF Placed
<1>4. /\ n \in 1..RequestLimit /\ n \in Nat /\ n # NPos
      /\ RequestLimit \in Nat /\ NPos \in Int /\ RequestLimit < NPos
  BY LimitAssumption, ReadsAssumption, SizeAssumption DEF NPos
<1>5. /\ k \in 0..Len(asked) /\ Len(asked) \in Nat /\ o[k] \in Nat
      /\ Len(spreq.buffer) \in Nat /\ Len(wire) \in Nat
  BY <1>2, <1>3, LenProperties DEF Ahead, Cut
<1>6. Ahead(asked, o, k, b, w) /\ Len(b) = Len(spreq.buffer) + n
  BY <1>1, <1>3, <1>4, <1>5, ReceiveAhead
<1>7. k \in 0..Len(asked) - 1 /\ k < Len(asked)
  <2>1. k # Len(asked)
    <3> SUFFICES ASSUME k = Len(asked) PROVE FALSE
      OBVIOUS
    <3>1. /\ (o[k] + Len(spreq.buffer)) + Len(wire) = Len(RenderAll(asked))
          /\ o[k] = Len(RenderAll(asked))
      BY <1>2, <1>3 DEF Ahead, Cut
    <3>2. Len(wire) = 0
      BY <1>5, <3>1
    <3> QED BY <1>1, <1>4, <3>2
  <2> QED BY <1>5, <2>1
<1> DEFINE t == Render(asked[k + 1])
<1>8. Len(t) \in Nat /\ Len(spreq.buffer) < Len(t)
  <2>1. Len(t) \in Nat
    BY <1>2, <1>7 DEF Cut, Part
  <2>2. k = Len(asked) \/ Len(spreq.buffer) < Len(t)
    BY <1>3 DEF Partial
  <2> HIDE DEF t
  <2> QED BY <1>5, <1>7, <2>1, <2>2
<1>9. spreq.state = "PENDING"
  BY <1>3 DEF Partial
<1> HIDE DEF b, w, found, pp, t
<1>10. Placed(o)'
  <2>1. CASE long
    <3>1. stage' = "run"
      BY <1>1, <2>1
    <3>2. Max(Reads) \in Nat /\ n <= Max(Reads)
      <4>1. Max(Reads) \in Reads /\ n <= Max(Reads)
        BY MostRead
      <4>2. Max(Reads) \in 1..RequestLimit
        BY <4>1, ReadsAssumption
      <4> QED BY <1>4, <4>1, <4>2
    <3>3. Len(t) + Max(Reads) > RequestLimit
      BY <1>4, <1>5, <1>6, <1>8, <2>1, <3>2
    <3>4. spreq'.state = "CORRUPTED"
      BY <1>1, <1>9, <2>1
    <3>5. TooLong(asked', Len(taken'), spreq')
      BY <1>1, <1>7, <3>3, <3>4 DEF TooLong, t
    <3> QED BY <3>1, <3>5 DEF Placed
  <2>2. CASE ~long
    <3>1. Len(b) < NPos
      BY <1>4, <1>5, <1>6, <2>2
    <3>2. /\ found \in BOOLEAN
          /\ found => k < Len(asked) /\ pp = Len(t) /\ Len(t) <= Len(b)
          /\ ~found => k = Len(asked) \/ Len(b) < Len(t)
      BY <1>2, <1>6, <3>1, NextFound DEF found, pp, t
    <3>3. CASE found
      <4>1. spreq' = [state |-> "SUCCESS", buffer |-> b, postl |-> pp] /\ stage' = "run"
        BY <1>1, <2>2, <3>3
      <4>2. Whole(asked', Len(taken'), spreq') /\ spreq'.buffer = b
        BY <1>1, <3>2, <3>3, <4>1 DEF Whole, t
      <4> QED BY <1>1, <1>6, <4>1, <4>2 DEF Placed
    <3>4. CASE ~found
      <4>1. spreq' = [spreq EXCEPT !.buffer = b] /\ stage' = "receive"
        BY <1>1, <2>2, <3>4
      <4>2. spreq'.state = "PENDING" /\ spreq'.buffer = b
        BY <1>9, <4>1
      <4>3. Partial(asked', Len(taken'), spreq')
        BY <1>1, <3>2, <3>4, <4>2 DEF Partial, t
      <4> QED BY <1>1, <1>6, <4>1, <4>2, <4>3 DEF Placed
    <3> QED BY <3>3, <3>4
  <2> QED BY <2>1, <2>2
<1>11. Cut(asked', o)
  BY <1>1, <1>2
<1> QED BY <1>1, <1>10, <1>11 DEF TakenInv

(***************************************************************************)
(* Once a response was sent, the next request is whole, or in part.        *)
(***************************************************************************)
LEMMA FinishTaken ==
  ASSUME TakenInv, PathsInv', Finish
  PROVE  TakenInv'
<1> DEFINE k == Len(taken)
           b == Erased(spreq)
           found == FindBreak(b).found
           pp == FindBreak(b).pp
           next == Len(b) >= 4 /\ found
<1>1. /\ stage = "send"
      /\ stage' = IF ~Last(taken).reply.keep THEN "closed"
                 ELSE IF next THEN "run" ELSE "receive"
      /\ spreq' = [state |-> IF next THEN "SUCCESS" ELSE "PENDING", buffer |-> b,
                   postl |-> IF next THEN pp ELSE spreq.postl]
      /\ UNCHANGED <<asked, wire, pci, taken>>
  BY DEF Finish
<1>2. PICK o : Cut(asked, o) /\ Placed(o)
  BY DEF TakenInv
<1>3. k >= 1 /\ k \in Nat
  BY <1>1, <1>2, LenProperties DEF Placed, TakenInv, PathsInv
<1>4. Len(b) < NPos
  <2>1. b \in Seq(Byte) /\ Len(b) <= RequestLimit
    BY ErasedIs DEF TakenInv, PathsInv
  <2>2. Len(b) \in Nat
    BY <2>1, LenProperties
  <2> HIDE DEF b
  <2> QED BY <2>1, <2>2, LimitAssumption, SizeAssumption DEF NPos
<1>5. Placed(o)'
  <2>1. CASE ~Last(taken).reply.keep
    <3>1. stage' = "closed"
      BY <1>1, <2>1
    <3> QED BY <3>1 DEF Placed
  <2>2. CASE Last(taken).reply.keep
    <3>1. Ahead(asked, o, k - 1, spreq.buffer, wire) /\ Whole(asked, k - 1, spreq)
      BY <1>1, <1>2, <2>2 DEF Placed
    <3>2. Ahead(asked, o, (k - 1) + 1, b, wire)
      BY <1>2, <3>1, EraseAhead
    <3>3. Ahead(asked, o, k, b, wire)
      <4>1. (k - 1) + 1 = k
        BY <1>3
      <4> QED BY <3>2, <4>1
    <3> DEFINE t == Render(asked[k + 1])
    <3>4. /\ found \in BOOLEAN
          /\ found => k < Len(asked) /\ pp = Len(t) /\ Len(t) <= Len(b) /\ Len(b) >= 4
          /\ ~found => k = Len(asked) \/ Len(b) < Len(t)
      BY <1>2, <1>4, <3>3, NextFound
    <3>5. next <=> found
      BY <3>4
    <3> HIDE DEF b, found, pp, t, next
    <3>6. CASE found
      <4>1. spreq' = [state |-> "SUCCESS", buffer |-> b, postl |-> pp] /\ stage' = "run"
        BY <1>1, <2>2, <3>5, <3>6
      <4>2. Whole(asked', Len(taken'), spreq') /\ spreq'.buffer = b
        BY <1>1, <3>4, <3>6, <4>1 DEF Whole, t
      <4> QED BY <1>1, <3>3, <4>1, <4>2 DEF Placed
    <3>7. CASE ~found
      <4>1. spreq'.state = "PENDING" /\ spreq'.buffer = b /\ stage' = "receive"
        BY <1>1, <2>2, <3>5, <3>7
      <4>2. Partial(asked', Len(taken'), spreq')
        BY <1>1, <3>4, <3>7, <4>1 DEF Partial, t
      <4> QED BY <1>1, <3>3, <4>1, <4>2 DEF Placed
    <3> QED BY <3>6, <3>7
  <2> QED BY <2>1, <2>2
<1>6. Cut(asked', o)
  BY <1>1, <1>2
<1> QED BY <1>1, <1>5, <1>6 DEF TakenInv

(***************************************************************************)
(* What Accept() and Process() make of a request that is whole is what the *)
(* request says; one above the limit is refused.                           *)
(***************************************************************************)
\* The entry x of request q, answered c.
Entered(x, a, text, c) ==
  LET q == [status |-> a.status, keep |-> a.keep, uri |-> a.pci.uri,
            method |-> IF a.status \in {413, 501} THEN "GET" ELSE text[1],
            resource |-> a.pci.resource, length |-> BodyLength(text)]
  IN x = [accepted |-> a.status, method |-> q.method, pci |-> a.pci,
          answer |-> c, length |-> q.length.ul, reply |-> Process(q, c)]

LEMMA EnteredIs ==
  ASSUME NEW x, NEW a, NEW text, NEW c, Entered(x, a, text, c)
  PROVE  /\ x.accepted = a.status /\ x.pci = a.pci /\ x.answer = c
         /\ x.length = BodyLength(text).ul
         /\ a.status = 200 => x.method = text[1]
         /\ x.reply.keep <=> a.keep /\ ~c.cgi
         /\ a.status = 200 /\ text[1] = "POST" /\ Runs(x) =>
              (x.reply.status = 411 <=> ~BodyLength(text).ok)
<1> DEFINE m == IF a.status \in {413, 501} THEN "GET" ELSE text[1]
           length == BodyLength(text)
           q == [status |-> a.status, keep |-> a.keep, uri |-> a.pci.uri,
                 method |-> m, resource |-> a.pci.resource, length |-> length]
<1>1. x = [accepted |-> a.status, method |-> q.method, pci |-> a.pci,
           answer |-> c, length |-> q.length.ul, reply |-> Process(q, c)]
  BY DEF Entered
<1>2. q.status = a.status /\ q.keep = a.keep /\ q.method = m /\ q.length = length
  OBVIOUS
<1> HIDE DEF q, length
<1>3. /\ x.accepted = a.status /\ x.pci = a.pci /\ x.answer = c
      /\ x.method = q.method /\ x.length = q.length.ul /\ x.reply = Process(q, c)
  BY <1>1
<1>4. x.reply.keep <=> a.keep /\ ~c.cgi
  BY <1>2, <1>3, ProcessKeeps DEF Kept
<1>5. a.status = 200 => m = text[1]
  OBVIOUS
<1> HIDE DEF m
<1>6. ASSUME a.status = 200, text[1] = "POST", Runs(x)
      PROVE  x.reply.status = 411 <=> ~length.ok
  <2>1. c.cgi /\ c.exists /\ ~c.deny /\ ~c.dir
    BY <1>3, <1>6 DEF Runs
  <2>2. q.status = 200 /\ q.method = "POST"
    BY <1>2, <1>5, <1>6
  <2>3. Process(q, c).status = 411 <=> ~q.length.ok
    BY <2>1, <2>2, ProcessLength
  <2> QED BY <1>2, <1>3, <2>3
<1> QED BY <1>2, <1>3, <1>4, <1>5, <1>6 DEF length

LEMMA RunTaskTaken ==
  ASSUME TakenInv, PathsInv', RunTask
  PROVE  TakenInv'
<1> DEFINE n == Len(taken)
           a == Accept(spreq, pci)
           text == Text(spreq)
           r == asked[n + 1]
<1>1. /\ stage = "run" /\ stage' = "send" /\ pci' = a.pci
      /\ UNCHANGED <<asked, wire, spreq, undef>>
      /\ \E c \in Answers : \E x : Entered(x, a, text, c) /\ taken' = Append(taken, x)
  BY DEF RunTask, Entered
<1>2. PICK c \in Answers : \E x : Entered(x, a, text, c) /\ taken' = Append(taken, x)
  BY <1>1
<1>3. PICK x : Entered(x, a, text, c) /\ taken' = Append(taken, x)
  BY <1>2
<1>4. /\ x.accepted = a.status /\ x.pci = a.pci /\ x.answer = c
      /\ x.length = BodyLength(text).ul
      /\ a.status = 200 => x.method = text[1]
      /\ x.reply.keep <=> a.keep /\ ~c.cgi
      /\ a.status = 200 /\ text[1] = "POST" /\ Runs(x) =>
           (x.reply.status = 411 <=> ~BodyLength(text).ok)
  BY <1>3, EnteredIs
<1>5. PICK o : Cut(asked, o) /\ Placed(o)
  BY DEF TakenInv
<1>6. \/ Ahead(asked, o, n, spreq.buffer, wire) /\ Whole(asked, n, spreq)
      \/ TooLong(asked, n, spreq)
  BY <1>1, <1>5 DEF Placed
<1>7. PICK T : taken \in Seq(T)
  BY DEF TakenInv, PathsInv
<1> DEFINE U == T \cup {x}
<1>8. taken \in Seq(U) /\ x \in U
  BY <1>7, SeqMonotonic
<1> HIDE DEF U
<1>9. /\ n \in Nat /\ Len(taken') = n + 1
      /\ \A i \in 1..n : taken'[i] = taken[i]
      /\ taken'[n + 1] = x
  BY <1>3, <1>8, AppendProperties, LenProperties
<1>10. Last(taken') = x
  BY <1>9 DEF Last
<1>11. Len(asked) \in Nat /\ n < Len(asked) /\ n \in 0..Len(asked) - 1
  <2>1. Len(asked) \in Nat
    BY <1>5 DEF Cut
  <2>2. n < Len(asked)
    BY <1>6 DEF Whole, TooLong
  <2> QED BY <1>9, <2>1, <2>2
<1>12. Regular(r)
  BY <1>5, <1>11 DEF Cut
<1>13. /\ "uri" \in DOMAIN pci /\ "host" \in DOMAIN pci /\ "resource" \in DOMAIN pci
       /\ Len(spreq.buffer) < NPos /\ Len(spreq.buffer) <= RequestLimit
       /\ Len(spreq.buffer) \in Nat /\ RequestLimit \in Nat /\ NPos \in Int
  <2>1. spreq.buffer \in Seq(Byte) /\ Len(spreq.buffer) <= RequestLimit
    BY DEF TakenInv, PathsInv, ScanInv
  <2>2. Len(spreq.buffer) \in Nat
    BY <2>1, LenProperties
  <2>3. RequestLimit \in Nat /\ RequestLimit < NPos /\ NPos \in Int
    BY LimitAssumption, SizeAssumption DEF NPos
  <2>4. Len(spreq.buffer) < NPos
    BY <2>1, <2>2, <2>3
  <2> QED BY <2>1, <2>2, <2>3, <2>4 DEF TakenInv, PathsInv
<1> HIDE DEF a, text, r
<1>14. /\ Right(r, x)
       /\ x.reply.keep =>
            Ahead(asked, o, n, spreq.buffer, wire) /\ Whole(asked, n, spreq)
       /\ DOMAIN a.pci = DOMAIN pci
  <2>1. CASE Ahead(asked, o, n, spreq.buffer, wire) /\ Whole(asked, n, spreq)
    <3>1. text = Render(r) /\ Len(Render(r)) \in Nat /\ Len(Render(r)) <= Len(spreq.buffer)
      BY <1>5, <1>13, <2>1, WholeText DEF text, r
    <3>2. Len(Render(r)) <= RequestLimit /\ Len(Render(r)) < NPos
      BY <1>13, <3>1
    <3>3. spreq.state # "CORRUPTED"
      BY <2>1 DEF Whole
    <3>4. /\ Told(r, pci, a) /\ text[1] = r.method
          /\ BodyLength(text) = StrToUl(FieldOf(r, "Content-Length"))
      BY <1>12, <1>13, <3>1, <3>2, <3>3, AcceptOf DEF a, text
    <3>5. Right(r, x)
      BY <1>4, <1>12, <3>2, <3>4 DEF Right, Told
    <3> QED BY <2>1, <3>4, <3>5 DEF Told
  <2>2. CASE TooLong(asked, n, spreq)
    <3>1. a.status = 413 /\ ~a.keep /\ a.pci = pci
      BY <2>2, AcceptCorrupted DEF a, TooLong
    <3>2. Len(Render(r)) + Max(Reads) > RequestLimit
      BY <2>2 DEF TooLong, r
    <3>3. Right(r, x)
      BY <1>4, <1>12, <3>1, <3>2 DEF Right
    <3> QED BY <1>4, <3>1, <3>3
  <2> QED BY <1>6, <2>1, <2>2
<1>15. ASSUME NEW i \in 1..Len(taken') PROVE Right(asked'[i], taken'[i])
  <2>1. i \in 1..n \/ i = n + 1
    BY <1>9
  <2>2. CASE i \in 1..n
    BY <1>1, <1>9, <2>2 DEF TakenInv
  <2>3. CASE i = n + 1
    BY <1>1, <1>9, <1>14, <2>3 DEF r
  <2> QED BY <2>1, <2>2, <2>3
<1>16. Len(taken') <= Len(asked')
  BY <1>1, <1>9, <1>11
<1>17. Placed(o)'
  <2>1. Len(taken') >= 1 /\ Len(taken') - 1 = n
    BY <1>9
  <2> QED BY <1>1, <1>10, <1>14, <2>1 DEF Placed
<1>18. Cut(asked', o)
  BY <1>1, <1>5
<1>19. "uri" \in DOMAIN pci' /\ "host" \in DOMAIN pci'
  BY <1>1, <1>13, <1>14
<1> QED BY <1>15, <1>16, <1>17, <1>18, <1>19 DEF TakenInv

(***************************************************************************)
(* TakenInv is inductive.                                                  *)
(***************************************************************************)
LEMMA TakenKept ==
  ASSUME TakenInv, [Next]_vars
  PROVE  TakenInv'
<1>1. PathsInv'
  BY PathsKept DEF TakenInv
<1>2. ASSUME NEW n \in Reads, Receive(n) PROVE TakenInv'
  BY <1>1, <1>2, ReceiveTaken
<1>3. CASE RunTask
  BY <1>1, <1>3, RunTaskTaken
<1>4. CASE Finish
  BY <1>1, <1>4, FinishTaken
<1>5. CASE UNCHANGED vars
  <2>1. /\ asked' = asked /\ wire' = wire /\ spreq' = spreq /\ pci' = pci
        /\ stage' = stage /\ taken' = taken
    BY <1>5 DEF vars
  <2>2. \A o : Placed(o) => Placed(o)'
    BY <2>1 DEF Placed
  <2> QED BY <1>1, <2>1, <2>2 DEF TakenInv
<1> QED BY <1>2, <1>3, <1>4, <1>5 DEF Next

(***************************************************************************)
(* The k-th request the server takes is the k-th that was sent, however    *)
(* the bytes arrive and whatever was sent ahead: its status, its method,   *)
(* its host and uri and what becomes of the connection are those of that   *)
(* request alone (protocol.cpp:90-132, 643-741, 991-1025).                 *)
(***************************************************************************)
THEOREM TakenCorrect ==
  ASSUME RegularRequests
  PROVE  Spec => []RequestsTaken
<1>1. Init => TakenInv
  BY TakenInit
<1>2. TakenInv /\ [Next]_vars => TakenInv'
  BY TakenKept
<1>3. TakenInv => RequestsTaken
  BY DEF TakenInv, Right, RequestsTaken
<1> QED BY <1>1, <1>2, <1>3, PTL DEF Spec

(***************************************************************************)
(* The content of a field is a text.                                       *)
(***************************************************************************)
LEMMA FieldIs ==
  ASSUME NEW r, Regular(r), NEW name
  PROVE  FieldOf(r, name) \in Seq(Byte)
<1> DEFINE m == Min(NamedIn(r, name))
<1>1. FieldOf(r, name) = IF NamedIn(r, name) = {} THEN << >> ELSE r.fields[m].content
  BY DEF FieldOf, NamedIn
<1>2. /\ Len(r.fields) \in Nat
      /\ \A i \in 1..Len(r.fields) : FieldOK(r.fields[i])
  BY RegularIs
<1>3. CASE NamedIn(r, name) = {}
  BY <1>1, <1>3, EmptySeq
<1>4. CASE NamedIn(r, name) # {}
  <2>1. m \in NamedIn(r, name)
    BY <1>2, <1>4, FirstNamed
  <2> HIDE DEF m
  <2>2. m \in 1..Len(r.fields)
    BY <2>1 DEF NamedIn
  <2>3. r.fields[m].content \in Seq(Name)
    BY <1>2, <2>2 DEF FieldOK
  <2>4. Name \subseteq Byte
    BY DEF Name
  <2>5. r.fields[m].content \in Seq(Byte)
    BY <2>3, <2>4, SeqMonotonic
  <2> QED BY <1>1, <1>4, <2>5
<1> QED BY <1>3, <1>4

(***************************************************************************)
(* A script is given a body only of the length its request states; a body  *)
(* is not refused only where its length is digits behind white space and a *)
(* sign, as strtoul() takes them (protocol.cpp:830-834, 1005-1011).        *)
(***************************************************************************)
THEOREM LengthCorrect ==
  ASSUME RegularRequests
  PROVE  Spec => []LengthRead
<1>1. Init => TakenInv
  BY TakenInit
<1>2. TakenInv /\ [Next]_vars => TakenInv'
  BY TakenKept
<1>3. TakenInv => LengthRead
  <2> SUFFICES ASSUME TakenInv, NEW k \in 1..Len(taken),
                      asked[k].method = "POST", Runs(taken[k])
      PROVE LET r == asked[k]
                content == FieldOf(r, "Content-Length")
                n == DigitsValue(content)
                refused == taken[k].reply.status = 411
            IN /\ PlainLength(r) /\ n < SizeModulus => ~refused /\ taken[k].length = n
               /\ ~refused => States(content, taken[k].length)
    BY DEF LengthRead
  <2> DEFINE r == asked[k]
             s == FieldOf(r, "Content-Length")
             n == DigitsValue(s)
             t == taken[k]
  <2>1. t.accepted = 200
    BY DEF Runs
  <2>2. Right(r, t)
    BY DEF TakenInv
  <2>3. /\ Regular(r) /\ t.length = StrToUl(s).ul
        /\ t.reply.status = 411 <=> ~StrToUl(s).ok
    BY <2>1, <2>2 DEF Right
  <2>4. s \in Seq(Byte)
    BY <2>3, FieldIs
  <2>5. PlainLength(r) <=> Numeral(s)
    BY DEF PlainLength
  <2>6. /\ Numeral(s) /\ n < SizeModulus => StrToUl(s).ok /\ StrToUl(s).ul = n
        /\ StrToUl(s).ok => States(s, StrToUl(s).ul)
    BY <2>4, StrToUlIs
  <2> HIDE DEF n, s, t, r
  <2>7. /\ PlainLength(r) /\ n < SizeModulus => ~(t.reply.status = 411) /\ t.length = n
        /\ ~(t.reply.status = 411) => States(s, t.length)
    BY <2>3, <2>5, <2>6
  <2> QED BY <2>7 DEF n, s, t, r
<1> QED BY <1>1, <1>2, <1>3, PTL DEF Spec

-----------------------------------------------------------------------------
(* The resource that a uri stands for.                                     *)

(***************************************************************************)
(* Joining texts takes one after the other.                                *)
(***************************************************************************)
LEMMA FlattenIs ==
  ASSUME NEW s, Len(s) \in Nat, Len(s) # 0
  PROVE  \E f : Joins(s, Len(s), f) /\ FlattenSeq(s) = f[Len(s)]
<1> DEFINE n == Len(s)
           g == CHOOSE f : f = [i \in 1..n |-> IF i = 1 THEN s[i] ELSE f[i - 1] \o s[i]]
<1>1. FlattenSeq(s) = g[n]
  BY DEF FlattenSeq
<1>2. \E f : Joins(s, n, f)
  BY JoinsExists
<1>3. Joins(s, n, g)
  <2> HIDE DEF n
  <2> QED BY <1>2 DEF Joins
<1> HIDE DEF g
<1> QED BY <1>1, <1>3

(***************************************************************************)
(* One more text is joined behind the others.                              *)
(***************************************************************************)
LEMMA FlattenAppend ==
  ASSUME NEW s \in Seq(Seq(Byte)), NEW x \in Seq(Byte)
  PROVE  /\ FlattenSeq(s) \in Seq(Byte)
         /\ FlattenSeq(Append(s, x)) = FlattenSeq(s) \o x
<1> DEFINE n == Len(s)
           t == Append(s, x)
<1>1. /\ n \in Nat /\ Len(t) = n + 1 /\ t[n + 1] = x
      /\ \A i \in 1..n : t[i] = s[i]
  BY AppendProperties, LenProperties
<1>2. FlattenSeq(s) \in Seq(Byte)
  BY JoinedIs DEF Joined
<1> HIDE DEF t
<1>3. PICK g : Joins(t, n + 1, g) /\ FlattenSeq(t) = g[n + 1]
  BY <1>1, FlattenIs
<1>4. \A i \in 1..n + 1 : g[i] = IF i = 1 THEN t[i] ELSE g[i - 1] \o t[i]
  BY <1>3 DEF Joins
<1>5. CASE n = 0
  <2>1. FlattenSeq(s) = s /\ s = << >>
    BY <1>5, EmptySeq DEF FlattenSeq
  <2>2. FlattenSeq(t) = x
    BY <1>1, <1>3, <1>4, <1>5
  <2>3. << >> \o x = x
    BY ConcatEmptySeq
  <2> QED BY <1>2, <2>1, <2>2, <2>3 DEF t
<1>6. CASE n # 0
  <2>1. PICK f : Joins(s, n, f) /\ FlattenSeq(s) = f[n]
    BY <1>1, <1>6, FlattenIs
  <2>2. \A i \in 1..n : f[i] = IF i = 1 THEN s[i] ELSE f[i - 1] \o s[i]
    BY <2>1 DEF Joins
  <2> HIDE DEF n
  <2> DEFINE Bad == {k \in 1..n : f[k] # g[k]}
  <2>3. ASSUME Bad # {} PROVE FALSE
    <3>1. PICK k \in Bad : \A j \in Bad : k <= j
      <4>1. Bad \in SUBSET Nat
        BY <1>1
      <4> HIDE DEF Bad
      <4> QED BY <2>3, <4>1, LeastNat
    <3>2. k \in 1..n /\ k \in 1..n + 1 /\ t[k] = s[k]
      BY <1>1
    <3>3. k # 1 /\ f[k] = f[k - 1] \o s[k] /\ g[k] = g[k - 1] \o s[k]
      BY <1>4, <2>2, <3>1, <3>2
    <3>4. k - 1 \in 1..n /\ ~(k <= k - 1)
      BY <1>1, <3>2, <3>3
    <3>5. f[k - 1] = g[k - 1]
      BY <3>1, <3>4
    <3> QED BY <3>1, <3>3, <3>5
  <2>4. n \in 1..n /\ n + 1 \in 1..n + 1 /\ n + 1 # 1 /\ (n + 1) - 1 = n
    BY <1>1, <1>6
  <2>5. f[n] = g[n]
    BY <2>3, <2>4
  <2>6. g[n + 1] = g[n] \o x
    BY <1>1, <1>4, <2>4
  <2> QED BY <1>2, <1>3, <2>1, <2>5, <2>6 DEF t
<1> QED BY <1>5, <1>6

(***************************************************************************)
(* A function on 1..n is a sequence.                                       *)
(***************************************************************************)
LEMMA RowIs ==
  ASSUME NEW S, NEW n \in Nat, NEW f \in [1..n -> S]
  PROVE  f \in Seq(S) /\ Len(f) = n
<1>1. f \in Seq(S)
  BY SeqDef
<1>2. DOMAIN f = 1..n /\ DOMAIN f = 1..Len(f) /\ Len(f) \in Nat
  BY <1>1, LenProperties
<1> QED BY <1>1, <1>2

\* Segments have no slash.
NoSlash == {s \in Seq(Byte) : \A k \in 1..Len(s) : s[k] # "/"}

(***************************************************************************)
(* A slash and a text.                                                     *)
(***************************************************************************)
LEMMA SlashThen ==
  ASSUME NEW s \in Seq(Byte)
  PROVE  LET t == <<"/">> \o s
         IN /\ t \in Seq(Byte) /\ Len(t) = Len(s) + 1 /\ t[1] = "/"
            /\ \A k \in 1..Len(s) : t[k + 1] = s[k]
<1> DEFINE w == <<"/">>
           t == w \o s
<1>1. w \in Seq(Byte) /\ Len(w) = 1 /\ w[1] = "/"
  BY ByteAssumption, WordOf
<1> HIDE DEF w
<1>2. /\ t \in Seq(Byte) /\ Len(t) = Len(w) + Len(s) /\ Len(s) \in Nat
      /\ \A k \in 1..Len(w) + Len(s) :
           t[k] = IF k <= Len(w) THEN w[k] ELSE s[k - Len(w)]
  BY <1>1, ConcatProperties, LenProperties
<1> HIDE DEF t
<1>3. t[1] = "/" /\ Len(t) = Len(s) + 1
  BY <1>1, <1>2
<1>4. ASSUME NEW k \in 1..Len(s) PROVE t[k + 1] = s[k]
  <2>1. k + 1 \in 1..Len(w) + Len(s) /\ ~(k + 1 <= Len(w)) /\ (k + 1) - Len(w) = k
    BY <1>1, <1>2
  <2> QED BY <1>2, <2>1
<1> QED BY <1>2, <1>3, <1>4 DEF t, w

(***************************************************************************)
(* The text of segments, and of one more.                                  *)
(***************************************************************************)
LEMMA RejoinedIs ==
  /\ Rejoined(<< >>) = << >>
  /\ \A st \in Seq(NoSlash), s \in Seq(Byte) :
       /\ Rejoined(st) \in Seq(Byte)
       /\ Rejoined(Append(st, s)) = Rejoined(st) \o (<<"/">> \o s)
<1> DEFINE R(st) == [k \in 1..Len(st) |-> <<"/">> \o st[k]]
<1>1. Rejoined(<< >>) = << >>
  <2> DEFINE e == << >>
             r == R(e)
  <2>1. Len(e) = 0 /\ e \in Seq(Byte)
    OBVIOUS
  <2>2. r \in [1..0 -> Byte]
    <3>1. \A k \in 1..0 : FALSE
      OBVIOUS
    <3> QED BY <2>1, <3>1
  <2>3. 0 \in Nat
    OBVIOUS
  <2> HIDE DEF r
  <2>4. r \in Seq(Byte) /\ Len(r) = 0
    BY <2>2, <2>3, RowIs
  <2>5. FlattenSeq(r) = r /\ r = << >>
    BY <2>4, EmptySeq DEF FlattenSeq
  <2> QED BY <2>5 DEF Rejoined, r
<1>2. ASSUME NEW st \in Seq(NoSlash), NEW s \in Seq(Byte)
      PROVE  /\ Rejoined(st) \in Seq(Byte)
             /\ Rejoined(Append(st, s)) = Rejoined(st) \o (<<"/">> \o s)
  <2> DEFINE n == Len(st)
             a == R(st)
             t == <<"/">> \o s
             u == Append(st, s)
  <2>1. n \in Nat /\ \A k \in 1..n : st[k] \in Seq(Byte)
    <3>1. NoSlash \subseteq Seq(Byte)
      BY DEF NoSlash
    <3> QED BY <3>1, LenProperties, ElementOfSeq
  <2>2. t \in Seq(Byte)
    BY SlashThen
  <2> HIDE DEF t
  <2>3. a \in Seq(Seq(Byte)) /\ Len(a) = n
    <3>1. \A k \in 1..n : <<"/">> \o st[k] \in Seq(Byte)
      BY <2>1, SlashThen
    <3>2. a \in [1..n -> Seq(Byte)]
      BY <3>1
    <3> HIDE DEF a, n
    <3> QED BY <2>1, <3>2, RowIs
  <2>4. \A k \in 1..n : a[k] = <<"/">> \o st[k]
    OBVIOUS
  <2>5. st \in Seq(Seq(Byte))
    <3>1. NoSlash \subseteq Seq(Byte)
      BY DEF NoSlash
    <3> QED BY <3>1, SeqMonotonic
  <2>6. Len(u) = n + 1 /\ u[n + 1] = s /\ \A k \in 1..n : u[k] = st[k]
    BY <2>5, AppendProperties
  <2> HIDE DEF u, a, n
  <2> DEFINE b == R(u)
  <2>7. /\ Append(a, t) \in Seq(Seq(Byte)) /\ Len(Append(a, t)) = n + 1
        /\ Append(a, t)[n + 1] = t /\ \A k \in 1..n : Append(a, t)[k] = a[k]
    BY <2>2, <2>3, AppendProperties
  <2>8. ASSUME NEW k \in 1..n + 1 PROVE b[k] = Append(a, t)[k] /\ b[k] \in Seq(Byte)
    <3>1. b[k] = <<"/">> \o u[k]
      BY <2>6
    <3>2. CASE k = n + 1
      BY <2>2, <2>6, <2>7, <3>1, <3>2 DEF t
    <3>3. CASE k # n + 1
      <4>1. k \in 1..n
        BY <2>1, <3>3
      <4> QED BY <2>1, <2>4, <2>6, <2>7, <3>1, <4>1, SlashThen
    <3> QED BY <3>2, <3>3
  <2>9. b = Append(a, t)
    <3>1. b \in [1..n + 1 -> Seq(Byte)]
      BY <2>6, <2>8
    <3> HIDE DEF b
    <3>2. n + 1 \in Nat
      BY <2>1
    <3>3. b \in Seq(Seq(Byte)) /\ Len(b) = n + 1
      BY <3>1, <3>2, RowIs
    <3> QED BY <2>7, <2>8, <3>3, SeqEqual
  <2>10. /\ FlattenSeq(a) \in Seq(Byte)
         /\ FlattenSeq(Append(a, t)) = FlattenSeq(a) \o t
    BY <2>2, <2>3, FlattenAppend
  <2>11. Rejoined(st) = FlattenSeq(a) /\ Rejoined(u) = FlattenSeq(b)
    BY DEF Rejoined, a, n
  <2> QED BY <2>9, <2>10, <2>11 DEF t, u
<1> QED BY <1>1, <1>2

(***************************************************************************)
(* The segment behind a slash ends before the next one.                    *)
(***************************************************************************)
LEMMA SegmentIs ==
  ASSUME NEW d \in Seq(Byte), NEW i \in 1..Len(d)
  PROVE  LET s == Segment(d, i)
         IN \E e \in i + 1..Len(d) + 1 :
              /\ s \in NoSlash /\ Len(s) = e - i - 1
              /\ \A k \in 1..e - i - 1 : s[k] = d[i + k]
              /\ e <= Len(d) => d[e] = "/"
              /\ \A j \in i + 1..e - 1 : d[j] # "/"
<1> DEFINE n == Len(d)
           ends == {j \in i + 1..n + 1 : j = n + 1 \/ d[j] = "/"}
           e == Min(ends)
           s == SubSeq(d, i + 1, e - 1)
<1>1. n \in Nat /\ i \in Nat /\ i <= n
  BY LenProperties
<1>2. e \in ends /\ \A j \in ends : e <= j
  <2>1. ends \in SUBSET Nat /\ n + 1 \in ends
    BY <1>1
  <2>2. ends # {}
    BY <2>1
  <2> HIDE DEF ends
  <2>3. \E j \in ends : \A k \in ends : j <= k
    BY <2>1, <2>2, LeastNat
  <2> QED BY <2>3 DEF Min
<1> HIDE DEF e
<1>3. e \in i + 1..n + 1 /\ e \in Nat /\ (e <= n => d[e] = "/")
  BY <1>1, <1>2
<1>4. ASSUME NEW j \in i + 1..e - 1 PROVE d[j] # "/"
  <2>1. j \in i + 1..n + 1 /\ ~(e <= j)
    BY <1>1, <1>3
  <2> QED BY <1>2, <2>1
<1>5. \A j \in i + 1..e - 1 : d[j] \in Byte
  <2>1. \A j \in i + 1..e - 1 : j \in 1..n
    BY <1>1, <1>3
  <2> QED BY <2>1, ElementOfSeq
<1>6. /\ s \in Seq(Byte)
      /\ Len(s) = IF i + 1 <= e - 1 THEN (e - 1) - (i + 1) + 1 ELSE 0
      /\ \A k \in 1..(e - 1) - (i + 1) + 1 : s[k] = d[(i + 1) + k - 1]
  BY <1>1, <1>3, <1>5, SubSeqProperties
<1> HIDE DEF s
<1>7. Len(s) = e - i - 1
  BY <1>1, <1>3, <1>6
<1>8. ASSUME NEW k \in 1..e - i - 1 PROVE s[k] = d[i + k] /\ s[k] # "/"
  <2>1. k \in 1..(e - 1) - (i + 1) + 1 /\ (i + 1) + k - 1 = i + k /\ i + k \in i + 1..e - 1
    BY <1>1, <1>3
  <2> QED BY <1>4, <1>6, <2>1
<1>9. s \in NoSlash
  BY <1>6, <1>7, <1>8 DEF NoSlash
<1>10. Segment(d, i) = s
  BY DEF Segment, s, e
<1> HIDE DEF n
<1> QED BY <1>3, <1>4, <1>7, <1>8, <1>9, <1>10 DEF n

(***************************************************************************)
(* All segments but the last.                                              *)
(***************************************************************************)
LEMMA FrontIs ==
  ASSUME NEW st \in Seq(NoSlash)
  PROVE  /\ Front(st) \in Seq(NoSlash)
         /\ st = << >> => Front(st) = << >>
         /\ st # << >> => \E s \in NoSlash : st = Append(Front(st), s)
<1> DEFINE n == Len(st)
           f == SubSeq(st, 1, n - 1)
<1>1. n \in Nat /\ (st = << >> => n = 0) /\ (st # << >> => n >= 1)
  BY EmptySeq, LenProperties
<1>2. Front(st) = f
  BY DEF Front
<1>3. \A j \in 1..n - 1 : st[j] \in NoSlash
  <2>1. \A j \in 1..n - 1 : j \in 1..n
    BY <1>1
  <2> QED BY <2>1, ElementOfSeq
<1>4. /\ f \in Seq(NoSlash)
      /\ Len(f) = IF 1 <= n - 1 THEN (n - 1) - 1 + 1 ELSE 0
      /\ \A k \in 1..(n - 1) - 1 + 1 : f[k] = st[1 + k - 1]
  BY <1>1, <1>3, SubSeqProperties
<1>5. st = << >> => f = << >>
  <2>1. 0 - 1 < 1 /\ 1 \in Int /\ 0 - 1 \in Int
    OBVIOUS
  <2>2. SubSeq(st, 1, 0 - 1) = << >>
    BY <2>1, SubSeqEmpty
  <2> QED BY <1>1, <2>2
<1> HIDE DEF f
<1>6. ASSUME st # << >> PROVE \E s \in NoSlash : st = Append(f, s)
  <2> DEFINE s == st[n]
             a == Append(f, s)
  <2>1. n >= 1 /\ Len(f) = n - 1 /\ s \in NoSlash
    <3>1. n >= 1 /\ n \in 1..n
      BY <1>1, <1>6
    <3>2. Len(f) = n - 1
      <4>1. Len(f) = IF 1 <= n - 1 THEN (n - 1) - 1 + 1 ELSE 0
        BY <1>4
      <4> HIDE DEF n
      <4> QED BY <1>1, <3>1, <4>1
    <3>3. st[n] \in NoSlash
      BY <3>1, ElementOfSeq
    <3> QED BY <3>1, <3>2, <3>3
  <2> HIDE DEF s
  <2>2. /\ a \in Seq(NoSlash) /\ Len(a) = (n - 1) + 1
        /\ \A k \in 1..n - 1 : a[k] = f[k]
        /\ a[(n - 1) + 1] = s
    BY <1>4, <2>1, AppendProperties
  <2> HIDE DEF a
  <2>3. Len(a) = n /\ a[n] = s
    <3>1. (n - 1) + 1 = n
      BY <1>1
    <3> QED BY <2>2, <3>1
  <2>4. ASSUME NEW k \in 1..n PROVE a[k] = st[k]
    <3>1. CASE k = n
      BY <2>3, <3>1 DEF s
    <3>2. CASE k # n
      <4>1. k \in 1..n - 1 /\ k \in 1..(n - 1) - 1 + 1 /\ 1 + k - 1 = k
        BY <1>1, <3>2
      <4> QED BY <1>4, <2>2, <4>1
    <3> QED BY <3>1, <3>2
  <2>5. a = st
    BY <2>2, <2>3, <2>4, SeqEqual
  <2> QED BY <2>1, <2>5 DEF a
<1> QED BY <1>2, <1>4, <1>5, <1>6

(***************************************************************************)
(* The parent of a text with a segment behind it is the text.              *)
(***************************************************************************)
LEMMA ParentBehind ==
  ASSUME NEW p \in Seq(Byte), NEW s \in NoSlash
  PROVE  Parent(p \o (<<"/">> \o s)) = p
<1> DEFINE t == <<"/">> \o s
           q == p \o t
           l == Len(p)
           slashes == {i \in 1..Len(q) : q[i] = "/"}
<1>1. s \in Seq(Byte) /\ \A k \in 1..Len(s) : s[k] # "/"
  BY DEF NoSlash
<1>2. /\ t \in Seq(Byte) /\ Len(t) = Len(s) + 1 /\ t[1] = "/"
      /\ \A k \in 1..Len(s) : t[k + 1] = s[k]
  BY <1>1, SlashThen
<1> HIDE DEF t
<1>3. /\ q \in Seq(Byte) /\ Len(q) = l + Len(t)
      /\ Part(p, q, 0) /\ Part(t, q, l)
  BY <1>2, ConcatParts
<1>4. l \in Nat /\ Len(s) \in Nat /\ Len(t) \in Nat
  BY <1>1, <1>2, LenProperties
<1> HIDE DEF q
<1>5. l + 1 \in slashes
  <2>1. 1 \in 1..Len(t) /\ l + 1 \in 1..Len(q)
    BY <1>2, <1>3, <1>4
  <2>2. q[l + 1] = t[1]
    BY <1>3, <2>1, PartAt
  <2> QED BY <1>2, <2>1, <2>2
<1>6. ASSUME NEW j \in slashes PROVE l + 1 >= j
  <2>1. j \in 1..l + Len(t) /\ q[j] = "/"
    BY <1>3
  <2>2. CASE j > l + 1
    <3> DEFINE k == j - (l + 1)
    <3>1. k \in 1..Len(s) /\ k + 1 \in 1..Len(t) /\ l + (k + 1) = j
      BY <1>2, <1>4, <2>1, <2>2
    <3> HIDE DEF k
    <3>2. q[l + (k + 1)] = t[k + 1]
      BY <1>3, <3>1, PartAt
    <3> QED BY <1>1, <1>2, <2>1, <3>1, <3>2
  <2>3. CASE ~(j > l + 1)
    BY <1>4, <2>1, <2>3
  <2> QED BY <2>2, <2>3
<1> DEFINE m == Max(slashes)
<1>7. m = l + 1
  <2>1. slashes \subseteq Nat
    BY <1>3, <1>4
  <2> HIDE DEF slashes
  <2>2. m \in slashes /\ \A j \in slashes : m >= j
    BY <1>5, <1>6 DEF Max
  <2> HIDE DEF m
  <2>3. m >= l + 1 /\ l + 1 >= m
    BY <1>5, <1>6, <2>2
  <2>4. m \in Nat
    BY <2>1, <2>2
  <2> QED BY <1>4, <2>3, <2>4
<1>8. Parent(q) = SubSeq(q, 1, m - 1)
  BY <1>5 DEF Parent
<1> HIDE DEF m, slashes
<1>9. Parent(q) = SubSeq(q, 1, l)
  <2>1. m - 1 = l
    BY <1>4, <1>7
  <2> QED BY <1>8, <2>1
<1> DEFINE r == SubSeq(q, 1, l)
<1>10. \A j \in 1..l : q[j] \in Byte /\ q[j] = p[j]
  <2>1. \A j \in 1..l : j \in 1..Len(q) /\ 0 + j = j
    BY <1>3, <1>4
  <2>2. \A j \in 1..l : q[0 + j] = p[j]
    BY <1>3, PartAt
  <2> QED BY <1>3, <2>1, <2>2, ElementOfSeq
<1>11. /\ r \in Seq(Byte)
       /\ Len(r) = IF 1 <= l THEN l - 1 + 1 ELSE 0
       /\ \A k \in 1..l - 1 + 1 : r[k] = q[1 + k - 1]
  BY <1>4, <1>10, SubSeqProperties
<1> HIDE DEF r
<1>12. Len(r) = l
  BY <1>4, <1>11
<1>13. \A k \in 1..Len(r) : r[k] = p[k]
  <2>1. \A k \in 1..l : k \in 1..l - 1 + 1 /\ 1 + k - 1 = k
    BY <1>4
  <2> QED BY <1>10, <1>11, <1>12, <2>1
<1>14. r = p
  BY <1>11, <1>12, <1>13, SeqEqual
<1> QED BY <1>9, <1>14 DEF q, t, r

(***************************************************************************)
(* The parent of a text of segments has all of them but the last.          *)
(***************************************************************************)
LEMMA ParentOf ==
  ASSUME NEW st \in Seq(NoSlash)
  PROVE  Parent(Rejoined(st)) = Rejoined(Front(st))
<1>1. CASE st = << >>
  <2>1. Front(st) = << >> /\ Rejoined(<< >>) = << >>
    BY <1>1, FrontIs, RejoinedIs
  <2>2. Parent(<< >>) = << >>
    <3> DEFINE e == << >>
    <3>1. {i \in 1..Len(e) : e[i] = "/"} = {}
      <4>1. Len(e) = 0 /\ 1..0 = {}
        OBVIOUS
      <4> QED BY <4>1
    <3> HIDE DEF e
    <3>2. Parent(e) = << >>
      BY <3>1 DEF Parent
    <3> QED BY <3>2 DEF e
  <2> QED BY <1>1, <2>1, <2>2
<1>2. CASE st # << >>
  <2>1. PICK s \in NoSlash : st = Append(Front(st), s)
    BY <1>2, FrontIs
  <2>2. Front(st) \in Seq(NoSlash) /\ s \in Seq(Byte)
    BY FrontIs DEF NoSlash
  <2>3. /\ Rejoined(Front(st)) \in Seq(Byte)
        /\ Rejoined(st) = Rejoined(Front(st)) \o (<<"/">> \o s)
    BY <2>1, <2>2, RejoinedIs
  <2> QED BY <2>3, ParentBehind
<1> QED BY <1>1, <1>2

\* f[i] are the segments that are left of the first i bytes of d.
Lefts(d, n, f) ==
  f = [i \in 0..n |-> IF i = 0 THEN << >>
                      ELSE IF d[i] = "/" THEN AddSegment(f[i - 1], Segment(d, i))
                      ELSE f[i - 1]]

(***************************************************************************)
(* Such a function exists.                                                 *)
(***************************************************************************)
LEMMA LeftsExists ==
  ASSUME NEW d, NEW n \in Nat
  PROVE  \E f : Lefts(d, n, f)
<1> DEFINE T == {k \in Nat : ~ \E f : Lefts(d, k, f)}
           Then(f, i) == IF d[i] = "/" THEN AddSegment(f[i - 1], Segment(d, i))
                         ELSE f[i - 1]
<1>1. ASSUME T # {} PROVE FALSE
  <2>1. PICK k \in T : \A j \in T : k <= j
    <3> HIDE DEF T
    <3>1. T \in SUBSET Nat
      BY DEF T
    <3> QED BY <1>1, <3>1, LeastNat
  <2>2. k \in Nat /\ k # 0
    <3>1. Lefts(d, 0, [i \in 0..0 |-> << >>])
      BY DEF Lefts
    <3> QED BY <3>1
  <2>3. k - 1 \in Nat /\ ~(k <= k - 1)
    BY <2>2
  <2>4. PICK f : Lefts(d, k - 1, f)
    BY <2>1, <2>3
  <2> DEFINE g == [i \in 0..k |-> IF i = k THEN Then(f, k) ELSE f[i]]
  <2>5. ASSUME NEW i \in 0..k PROVE g[i] = IF i = 0 THEN << >> ELSE Then(g, i)
    <3>1. i # 0 => i - 1 \in 0..k /\ i - 1 # k
      BY <2>2
    <3>2. i # 0 => g[i - 1] = f[i - 1]
      BY <3>1
    <3>3. CASE i = k
      BY <2>2, <3>2, <3>3
    <3>4. CASE i # k
      <4>1. i \in 0..k - 1
        BY <2>2, <3>4
      <4>2. f[i] = IF i = 0 THEN << >> ELSE Then(f, i)
        BY <2>4, <4>1 DEF Lefts
      <4> QED BY <3>2, <3>4, <4>2
    <3> QED BY <3>3, <3>4
  <2>6. Lefts(d, k, g)
    <3>1. g = [i \in 0..k |-> g[i]]
      OBVIOUS
    <3> HIDE DEF g
    <3> QED BY <2>5, <3>1 DEF Lefts
  <2> QED BY <2>1, <2>6
<1> QED BY <1>1

(***************************************************************************)
(* The segments that are left, byte by byte.                               *)
(***************************************************************************)
LEMMA LeftIs ==
  ASSUME NEW d \in Seq(Byte)
  PROVE  LET f == Left(d)
         IN /\ f[0] = << >>
            /\ \A i \in 1..Len(d) : f[i] = IF d[i] = "/"
                                          THEN AddSegment(f[i - 1], Segment(d, i))
                                          ELSE f[i - 1]
            /\ \A i \in 0..Len(d) : f[i] \in Seq(NoSlash)
<1> DEFINE n == Len(d)
           f == Left(d)
<1>1. n \in Nat
  BY LenProperties
<1>2. Lefts(d, n, f)
  <2>1. f = CHOOSE g : Lefts(d, n, g)
    BY DEF Left, Lefts
  <2> HIDE DEF f, n
  <2>2. \E g : Lefts(d, n, g)
    BY <1>1, LeftsExists
  <2> QED BY <2>1, <2>2
<1> HIDE DEF f, n
<1>3. /\ f[0] = << >>
      /\ \A i \in 1..n : f[i] = IF d[i] = "/" THEN AddSegment(f[i - 1], Segment(d, i))
                                ELSE f[i - 1]
  <2>1. 0 \in 0..n /\ \A i \in 1..n : i \in 0..n /\ i # 0
    BY <1>1
  <2> QED BY <1>2, <2>1 DEF Lefts
<1> DEFINE Bad == {i \in 0..n : f[i] \notin Seq(NoSlash)}
<1>4. ASSUME Bad # {} PROVE FALSE
  <2>1. PICK k \in Bad : \A j \in Bad : k <= j
    <3>1. Bad \in SUBSET Nat
      BY <1>1
    <3> HIDE DEF Bad
    <3> QED BY <1>4, <3>1, LeastNat
  <2>2. k \in 1..n
    <3>1. << >> \in Seq(NoSlash)
      BY EmptySeq
    <3>2. k # 0
      BY <1>3, <2>1, <3>1
    <3> QED BY <1>1, <2>1, <3>2
  <2>3. f[k - 1] \in Seq(NoSlash)
    <3>1. k - 1 \in 0..n /\ ~(k <= k - 1)
      BY <1>1, <2>2
    <3> QED BY <2>1, <3>1
  <2>4. Segment(d, k) \in NoSlash
    BY <2>2, SegmentIs DEF n
  <2>5. AddSegment(f[k - 1], Segment(d, k)) \in Seq(NoSlash)
    <3>1. /\ Front(f[k - 1]) \in Seq(NoSlash)
          /\ Append(f[k - 1], Segment(d, k)) \in Seq(NoSlash)
      BY <2>3, <2>4, FrontIs, AppendProperties
    <3> QED BY <2>3, <3>1 DEF AddSegment
  <2> QED BY <1>3, <2>1, <2>2, <2>3, <2>5
<1> QED BY <1>3, <1>4 DEF f, n

(***************************************************************************)
(* What is left of what is left of a text.                                 *)
(***************************************************************************)
LEMMA FromFrom ==
  ASSUME NEW d \in Seq(Byte), NEW a \in Nat, NEW b \in Nat, a + b <= Len(d)
  PROVE  From(From(d, a), b) = From(d, a + b)
<1> DEFINE u == From(d, a)
           v == From(u, b)
           w == From(d, a + b)
<1>1. Len(d) \in Nat /\ a + b \in Nat
  BY LenProperties
<1>2. u \in Seq(Byte) /\ Len(u) = Len(d) - a /\ \A k \in 1..Len(u) : u[k] = d[a + k]
  <2>1. a <= Len(d)
    BY <1>1
  <2> QED BY <2>1, FromIs
<1> HIDE DEF u
<1>3. v \in Seq(Byte) /\ Len(v) = Len(u) - b /\ \A k \in 1..Len(v) : v[k] = u[b + k]
  <2>1. b <= Len(u)
    BY <1>1, <1>2
  <2> QED BY <1>2, <2>1, FromIs
<1>4. w \in Seq(Byte) /\ Len(w) = Len(d) - (a + b) /\ \A k \in 1..Len(w) : w[k] = d[(a + b) + k]
  BY <1>1, FromIs
<1> HIDE DEF v, w
<1>5. Len(v) = Len(w)
  BY <1>1, <1>2, <1>3, <1>4
<1>6. ASSUME NEW k \in 1..Len(v) PROVE v[k] = w[k]
  <2>1. b + k \in 1..Len(u) /\ a + (b + k) = (a + b) + k /\ k \in 1..Len(w)
    BY <1>1, <1>2, <1>3, <1>5
  <2> QED BY <1>2, <1>3, <1>4, <2>1
<1>7. v = w
  BY <1>3, <1>4, <1>5, <1>6, SeqEqual
<1> QED BY <1>7 DEF u, v, w

(***************************************************************************)
(* Where a slash is replaced by a slash nothing changes.                   *)
(***************************************************************************)
LEMMA SlashStays ==
  ASSUME NEW u \in Seq(Byte), NEW n \in Nat, n < Len(u), u[n + 1] = "/"
  PROVE  Replace(u, n + 1) = From(u, n)
<1> DEFINE r == From(u, n + 1)
           a == <<"/">> \o r
           b == From(u, n)
<1>1. Len(u) \in Nat /\ n + 1 \in Nat /\ n + 1 <= Len(u)
  BY LenProperties
<1>2. /\ r \in Seq(Byte) /\ Len(r) = Len(u) - (n + 1)
      /\ \A k \in 1..Len(r) : r[k] = u[(n + 1) + k]
  BY <1>1, FromIs
<1>3. b \in Seq(Byte) /\ Len(b) = Len(u) - n /\ \A k \in 1..Len(b) : b[k] = u[n + k]
  BY <1>1, FromIs
<1> HIDE DEF r, b
<1>4. /\ a \in Seq(Byte) /\ Len(a) = Len(r) + 1 /\ a[1] = "/"
      /\ \A k \in 1..Len(r) : a[k + 1] = r[k]
  BY <1>2, SlashThen
<1> HIDE DEF a
<1>5. Len(a) = Len(b)
  BY <1>1, <1>2, <1>3, <1>4
<1>6. ASSUME NEW k \in 1..Len(a) PROVE a[k] = b[k]
  <2>1. k \in 1..Len(b)
    BY <1>5
  <2>2. CASE k = 1
    BY <1>3, <1>4, <2>1, <2>2
  <2>3. CASE k # 1
    <3>1. k - 1 \in 1..Len(r) /\ (k - 1) + 1 = k /\ (n + 1) + (k - 1) = n + k
      BY <1>1, <1>2, <1>4, <2>3
    <3>2. a[k] = r[k - 1] /\ r[k - 1] = u[n + k]
      BY <1>2, <1>4, <3>1
    <3> QED BY <1>3, <2>1, <3>2
  <2> QED BY <2>2, <2>3
<1>7. a = b
  BY <1>3, <1>4, <1>5, <1>6, SeqEqual
<1> QED BY <1>7 DEF Replace, a, b, r

(***************************************************************************)
(* Nothing is added between two slashes.                                   *)
(***************************************************************************)
LEMMA LeftSame ==
  ASSUME NEW d \in Seq(Byte), NEW i \in 1..Len(d), NEW e \in i + 1..Len(d) + 1,
         \A j \in i + 1..e - 1 : d[j] # "/"
  PROVE  Left(d)[e - 1] = Left(d)[i]
<1> DEFINE f == Left(d)
           Bad == {k \in i..e - 1 : f[k] # f[i]}
<1>1. Len(d) \in Nat /\ i \in Nat /\ e \in Nat
  BY LenProperties
<1>2. \A k \in 1..Len(d) : d[k] # "/" => f[k] = f[k - 1]
  BY LeftIs
<1> HIDE DEF f
<1>3. ASSUME Bad # {} PROVE FALSE
  <2>1. PICK k \in Bad : \A j \in Bad : k <= j
    <3>1. Bad \in SUBSET Nat
      BY <1>1
    <3> HIDE DEF Bad
    <3> QED BY <1>3, <3>1, LeastNat
  <2>2. k \in i..e - 1 /\ k # i /\ f[k] # f[i]
    BY <2>1
  <2>3. k \in i + 1..e - 1 /\ k \in 1..Len(d) /\ k - 1 \in i..e - 1 /\ ~(k <= k - 1)
    BY <1>1, <2>2
  <2>4. f[k] = f[k - 1]
    BY <1>2, <2>3
  <2>5. f[k - 1] = f[i]
    BY <2>1, <2>3
  <2> QED BY <2>2, <2>4, <2>5
<1>4. e - 1 \in i..e - 1
  BY <1>1
<1> QED BY <1>3, <1>4 DEF f

\* The first m bytes of u are a slash and the segment s.
FirstSegment(u, m, s) ==
  /\ m \in 1..Len(u) /\ s \in NoSlash /\ Len(s) = m - 1
  /\ \A k \in 1..m - 1 : u[k + 1] = s[k]
  /\ m < Len(u) => u[m + 1] = "/"

(***************************************************************************)
(* A turn of ParseSegments() takes one segment (protocol.cpp:939-988).     *)
(***************************************************************************)
LEMMA TurnTakes ==
  ASSUME NEW u \in Paths, Len(u) < NPos, NEW st \in Seq(NoSlash),
         NEW m, NEW s, FirstSegment(u, m, s)
  PROVE  LET left == Rejoined(AddSegment(st, s))
             a    == Segments[<<u, Rejoined(st)>>]
         IN /\ m < Len(u) => a = Segments[<<From(u, m), left>>]
            /\ ~(m < Len(u)) => a = IF s \in Dots THEN Slashed(left) ELSE left
<1> DEFINE l == Len(u)
           o == Rejoined(st)
           left == Rejoined(AddSegment(st, s))
           a == Segments[<<u, o>>]
           t == Find(u, <<"/">>, 1)
           seg == <<"/">> \o s
<1>1. /\ u \in Seq(Byte) /\ l \in Nat /\ m \in Nat /\ 1 <= m /\ m <= l /\ u[1] = "/"
      /\ NPos \in Nat /\ "/" \in Byte /\ l < NPos
  <2>1. u \in Seq(Byte) /\ l \in Nat /\ u[1] = "/"
    BY LenProperties DEF Paths
  <2>2. NPos \in Nat /\ "/" \in Byte
    <3>1. NPos \in Nat
      BY SizeAssumption DEF NPos
    <3>2. "/" \in Byte
      BY ByteAssumption
    <3> QED BY <3>1, <3>2
  <2>3. m \in 1..l
    BY DEF FirstSegment
  <2> QED BY <2>1, <2>2, <2>3
<1>2. /\ s \in Seq(Byte) /\ Len(s) = m - 1
      /\ \A k \in 1..m - 1 : s[k] # "/" /\ u[k + 1] # "/" /\ u[k + 1] = s[k]
      /\ m < Len(u) => u[m + 1] = "/"
  BY DEF NoSlash, FirstSegment
<1>3. o \in Seq(Byte)
  <2>1. << >> \in Seq(Byte)
    OBVIOUS
  <2> QED BY <2>1, RejoinedIs
<1>4. a = Segments[Turn(u, o)]
  <2>1. u # << >>
    BY <1>1, EmptySeq
  <2> HIDE DEF o
  <2> QED BY <1>1, <1>3, <2>1, SegmentsAre
<1> HIDE DEF l, o, a
<1>5. l = Len(u)
  BY DEF l
<1>6. s = <<".">> <=> m = 2 /\ u[2] = "."
  <2> DEFINE w == <<".">>
  <2>1. w \in Seq(Byte) /\ Len(w) = 1 /\ w[1] = "."
    BY ByteAssumption, WordOf
  <2> HIDE DEF w
  <2>2. ASSUME m = 2, u[2] = "." PROVE s = w
    <3>1. Len(s) = 1 /\ 1 \in 1..m - 1
      BY <1>2, <2>2
    <3>2. s[1] = u[1 + 1]
      BY <1>2, <3>1
    <3>3. s[1] = "."
      BY <2>2, <3>2
    <3>4. \A k \in 1..Len(s) : s[k] = w[k]
      BY <2>1, <3>1, <3>3
    <3> QED BY <1>2, <2>1, <3>1, <3>4, SeqEqual
  <2>3. ASSUME s = w PROVE m = 2 /\ u[2] = "."
    <3>1. m = 2 /\ 1 \in 1..m - 1
      <4>1. Len(s) = 1 /\ Len(s) = m - 1
        BY <1>2, <2>1, <2>3
      <4>2. m - 1 = 1
        BY <4>1
      <4>3. m \in Nat
        BY <1>1
      <4>4. m = 2
        BY <4>2, <4>3
      <4> QED BY <4>4
    <3>2. u[1 + 1] = s[1]
      BY <1>2, <3>1
    <3> QED BY <2>1, <2>3, <3>1, <3>2
  <2> QED BY <2>2, <2>3 DEF w
<1>7. s = <<".", ".">> <=> m = 3 /\ u[2] = "." /\ u[3] = "."
  <2> DEFINE w == <<".", ".">>
  <2>1. w \in Seq(Byte) /\ Len(w) = 2 /\ w[1] = "." /\ w[2] = "."
    <3>1. "." \in Byte
      BY ByteAssumption
    <3> QED BY <3>1
  <2> HIDE DEF w
  <2>2. ASSUME m = 3, u[2] = ".", u[3] = "." PROVE s = w
    <3>1. Len(s) = 2 /\ 1 \in 1..m - 1 /\ 2 \in 1..m - 1
      BY <1>2, <2>2
    <3>2. s[1] = u[1 + 1] /\ s[2] = u[2 + 1]
      BY <1>2, <3>1
    <3>3. s[1] = "." /\ s[2] = "."
      BY <2>2, <3>2
    <3>4. \A k \in 1..Len(s) : s[k] = w[k]
      BY <2>1, <3>1, <3>3
    <3> QED BY <1>2, <2>1, <3>1, <3>4, SeqEqual
  <2>3. ASSUME s = w PROVE m = 3 /\ u[2] = "." /\ u[3] = "."
    <3>1. m = 3 /\ 1 \in 1..m - 1 /\ 2 \in 1..m - 1
      <4>1. Len(s) = 2 /\ Len(s) = m - 1
        BY <1>2, <2>1, <2>3
      <4>2. m - 1 = 2
        BY <4>1
      <4>3. m \in Nat
        BY <1>1
      <4>4. m = 3
        BY <4>2, <4>3
      <4> QED BY <4>4
    <3>2. u[1 + 1] = s[1] /\ u[2 + 1] = s[2]
      BY <1>2, <3>1
    <3> QED BY <2>1, <2>3, <3>1, <3>2
  <2> QED BY <2>2, <2>3 DEF w
<1>8. seg \in Seq(Byte) /\ Len(seg) = m /\ \A k \in 1..m : seg[k] = u[k]
  <2>1. /\ seg \in Seq(Byte) /\ Len(seg) = Len(s) + 1 /\ seg[1] = "/"
        /\ \A k \in 1..Len(s) : seg[k + 1] = s[k]
    BY <1>2, SlashThen
  <2> HIDE DEF seg
  <2>2. Len(seg) = m
    BY <1>1, <1>2, <2>1
  <2>3. ASSUME NEW k \in 1..m PROVE seg[k] = u[k]
    <3>1. CASE k = 1
      BY <1>1, <2>1, <3>1
    <3>2. CASE k # 1
      <4>1. k - 1 \in 1..m - 1 /\ (k - 1) + 1 = k /\ k - 1 \in 1..Len(s)
        BY <1>1, <1>2, <3>2
      <4>2. seg[(k - 1) + 1] = s[k - 1] /\ u[(k - 1) + 1] = s[k - 1]
        BY <1>2, <2>1, <4>1
      <4> QED BY <4>1, <4>2
    <3> QED BY <3>1, <3>2
  <2> QED BY <2>1, <2>2, <2>3
<1> HIDE DEF seg
<1>9. CASE s = <<".">>
  <2>1. m = 2 /\ u[2] = "." /\ left = o /\ s \in Dots
    BY <1>6, <1>9 DEF AddSegment, Dots, o
  <2> HIDE DEF left
  <2>2. CASE m < l
    <3>1. l >= 3 /\ u[3] = "/" /\ 2 < l
      <4>1. u[m + 1] = "/" /\ m + 1 = 3
        BY <1>2, <1>5, <2>1, <2>2
      <4> QED BY <1>1, <2>1, <2>2, <4>1
    <3>2. Turn(u, o) = <<Replace(u, 3), o>>
      BY <1>5, <2>1, <3>1, TurnOf
    <3>3. Replace(u, 2 + 1) = From(u, 2)
      BY <1>1, <1>5, <3>1, SlashStays
    <3>4. a = Segments[<<From(u, m), left>>]
      BY <1>4, <2>1, <3>2, <3>3
    <3> QED BY <1>5, <2>2, <3>4 DEF left, a, o
  <2>3. CASE ~(m < l)
    <3>1. l = 2
      BY <1>1, <2>1, <2>3
    <3>2. Turn(u, o) = <<Replace(u, 2), o>>
      BY <1>5, <2>1, <3>1, TurnOf
    <3>3. Replace(u, 2) = <<"/">>
      BY <1>1, <1>5, <3>1, ReplaceWhole
    <3>4. a = Slashed(left)
      BY <1>3, <1>4, <2>1, <3>2, <3>3, SlashAlone
    <3> QED BY <1>5, <2>1, <2>3, <3>4 DEF left, a, o
  <2> QED BY <2>2, <2>3
<1>10. CASE s = <<".", ".">>
  <2>1. m = 3 /\ u[2] = "." /\ u[3] = "." /\ s \in Dots
    BY <1>7, <1>10 DEF Dots
  <2>2. left = Parent(o)
    <3>1. <<".", ".">> # <<".">>
      <4>1. Len(<<".", ".">>) = 2 /\ Len(<<".">>) = 1
        OBVIOUS
      <4> QED BY <4>1
    <3>2. AddSegment(st, s) = Front(st)
      BY <1>10, <3>1 DEF AddSegment
    <3> QED BY <3>2, ParentOf DEF o
  <2> HIDE DEF left
  <2>3. Parent(o) \in Seq(Byte)
    BY <1>3, ParentIs
  <2>4. CASE m < l
    <3>1. l >= 4 /\ u[4] = "/" /\ 3 < l
      <4>1. u[m + 1] = "/" /\ m + 1 = 4
        BY <1>2, <1>5, <2>1, <2>4
      <4> QED BY <1>1, <2>1, <2>4, <4>1
    <3>2. Turn(u, o) = <<Replace(u, 4), Parent(o)>>
      BY <1>5, <2>1, <3>1, TurnOf
    <3>3. Replace(u, 3 + 1) = From(u, 3)
      BY <1>1, <1>5, <3>1, SlashStays
    <3>4. a = Segments[<<From(u, m), left>>]
      BY <1>4, <2>1, <2>2, <3>2, <3>3
    <3> QED BY <1>5, <2>4, <3>4 DEF left, a, o
  <2>5. CASE ~(m < l)
    <3>1. l = 3
      BY <1>1, <2>1, <2>5
    <3>2. Turn(u, o) = <<Replace(u, 3), Parent(o)>>
      BY <1>5, <2>1, <3>1, TurnOf
    <3>3. Replace(u, 3) = <<"/">>
      BY <1>1, <1>5, <3>1, ReplaceWhole
    <3>4. a = Slashed(left)
      BY <1>4, <2>2, <2>3, <3>2, <3>3, SlashAlone
    <3> QED BY <1>5, <2>1, <2>5, <3>4 DEF left, a, o
  <2> QED BY <2>4, <2>5
<1>11. CASE s \notin Dots
  <2>1. s # <<".">> /\ s # <<".", ".">>
    BY <1>11 DEF Dots
  <2>2. left = o \o seg
    <3>1. AddSegment(st, s) = Append(st, s)
      BY <2>1 DEF AddSegment
    <3> QED BY <1>2, <3>1, RejoinedIs DEF o, seg
  <2> HIDE DEF left, t
  <2>3. Turn(u, o) = <<IF t = NPos THEN << >> ELSE From(u, t), o \o Substr(u, 0, t)>>
    <3>1. /\ ~(l >= 3 /\ u[2] = "." /\ u[3] = "/") /\ ~(l = 2 /\ u[2] = ".")
          /\ ~(l >= 4 /\ u[2] = "." /\ u[3] = "." /\ u[4] = "/")
          /\ ~(l = 3 /\ u[2] = "." /\ u[3] = ".")
      <4>1. "/" # "."
        OBVIOUS
      <4>2. CASE m = 1
        <5>1. 1 < l => u[2] = "/"
          <6>1. m + 1 = 2 /\ (m < Len(u) => u[m + 1] = "/")
            BY <1>2, <4>2
          <6> QED BY <1>5, <4>2, <6>1
        <5> QED BY <1>1, <4>1, <5>1
      <4>3. CASE m = 2
        <5>1. 2 < l => u[3] = "/"
          <6>1. m + 1 = 3 /\ (m < Len(u) => u[m + 1] = "/")
            BY <1>2, <4>3
          <6> QED BY <1>5, <4>3, <6>1
        <5> QED BY <1>1, <1>6, <2>1, <4>1, <4>3, <5>1
      <4>4. CASE m = 3
        <5>1. u[3] # "/"
          <6>1. 2 \in 1..m - 1 /\ 2 + 1 = 3
            BY <4>4
          <6> QED BY <1>2, <6>1
        <5> QED BY <1>1, <1>7, <2>1, <4>1, <4>4, <5>1
      <4>5. CASE m >= 4
        <5>1. u[3] # "/" /\ u[4] # "/"
          <6>1. 2 \in 1..m - 1 /\ 2 + 1 = 3 /\ 3 \in 1..m - 1 /\ 3 + 1 = 4
            BY <1>1, <4>5
          <6> QED BY <1>2, <6>1
        <5> QED BY <1>1, <4>5, <5>1
      <4>6. m = 1 \/ m = 2 \/ m = 3 \/ m >= 4
        BY <1>1
      <4> QED BY <4>2, <4>3, <4>4, <4>5, <4>6
    <3> QED BY <1>5, <3>1, TurnOf DEF t
  <2>4. \/ t = NPos /\ \A k \in 1..l - 1 : u[k + 1] # "/"
        \/ /\ t \in 1..l - 1 /\ t \in Nat /\ u[t + 1] = "/"
           /\ \A k \in 1..t - 1 : u[k + 1] # "/"
    BY <1>1, <1>5, FindByteIs DEF t
  <2>5. CASE m < l
    <3>1. u[m + 1] = "/" /\ m \in 1..l - 1
      BY <1>1, <1>2, <1>5, <2>5
    <3>2. t \in 1..l - 1 /\ u[t + 1] = "/" /\ \A k \in 1..t - 1 : u[k + 1] # "/"
      BY <2>4, <3>1
    <3>3. t = m
      <4>1. ~(m \in 1..t - 1) /\ ~(t \in 1..m - 1)
        BY <1>2, <3>1, <3>2
      <4> QED BY <1>1, <3>1, <3>2, <4>1
    <3>4. Substr(u, 0, m) = seg
      <4> DEFINE b == Substr(u, 0, m)
      <4>1. b \in Seq(Byte) /\ Len(b) = m /\ \A k \in 1..m : b[k] = u[0 + k]
        <5>1. 0 + m <= Len(u) /\ m # NPos
          BY <1>1, <1>5
        <5> QED BY <1>1, <5>1, SubstrIs
      <4> HIDE DEF b
      <4>2. \A k \in 1..Len(b) : b[k] = seg[k]
        <5>1. \A k \in 1..m : 0 + k = k
          BY <1>1
        <5> QED BY <1>8, <4>1, <5>1
      <4>3. b = seg
        BY <1>8, <4>1, <4>2, SeqEqual
      <4> QED BY <4>3 DEF b
    <3>5. t # NPos
      BY <1>1, <3>2
    <3>6. a = Segments[<<From(u, m), left>>]
      BY <1>4, <2>2, <2>3, <3>3, <3>4, <3>5
    <3> QED BY <1>5, <2>5, <3>6 DEF left, a, o
  <2>6. CASE ~(m < l)
    <3>1. m = l
      BY <1>1, <2>6
    <3>2. t = NPos
      <4>1. ASSUME t \in 1..l - 1, u[t + 1] = "/" PROVE FALSE
        BY <1>2, <3>1, <4>1
      <4> QED BY <2>4, <4>1
    <3>3. Substr(u, 0, NPos) = seg
      <4>1. Substr(u, 0, NPos) = u
        BY <1>1, <1>5, WholeIs
      <4>2. Len(u) = Len(seg) /\ \A k \in 1..Len(u) : u[k] = seg[k]
        BY <1>5, <1>8, <3>1
      <4>3. u = seg
        BY <1>1, <1>8, <4>2, SeqEqual
      <4> QED BY <4>1, <4>3
    <3>4. Turn(u, o) = <<<< >>, left>>
      BY <2>2, <2>3, <3>2, <3>3
    <3>5. left \in Seq(Byte)
      BY <1>3, <1>8, <2>2, ConcatProperties
    <3> DEFINE e == << >>
    <3>6. e \in Seq(Byte)
      OBVIOUS
    <3>7. Segments[<<e, left>>] = left
      BY <3>5, <3>6, SegmentsAre
    <3> HIDE DEF e
    <3>8. a = left
      BY <1>4, <3>4, <3>7 DEF e
    <3> QED BY <1>5, <1>11, <2>6, <3>8 DEF left, a, o
  <2> QED BY <2>5, <2>6
<1> QED BY <1>9, <1>10, <1>11 DEF Dots

(***************************************************************************)
(* The greatest of some numbers.                                           *)
(***************************************************************************)
LEMMA GreatestIs ==
  ASSUME NEW n \in Nat, NEW X \in SUBSET (1..n), X # {}
  PROVE  Max(X) \in X /\ \A y \in X : y <= Max(X)
<1> DEFINE T == {n - i : i \in X}
<1>1. T \in SUBSET Nat /\ T # {}
  OBVIOUS
<1>2. PICK t \in T : \A j \in T : t <= j
  BY <1>1, LeastNat
<1>3. PICK x \in X : t = n - x
  BY <1>2
<1>4. ASSUME NEW y \in X PROVE x >= y
  <2>1. t <= n - y
    BY <1>2
  <2> QED BY <1>3, <2>1
<1>5. Max(X) \in X /\ \A y \in X : Max(X) >= y
  BY <1>3, <1>4 DEF Max
<1> HIDE DEF T
<1>6. ASSUME NEW y \in X PROVE y <= Max(X)
  <2> DEFINE x1 == Max(X)
  <2>1. x1 \in X /\ x1 >= y
    BY <1>5
  <2> HIDE DEF x1
  <2>2. x1 \in Nat /\ y \in Nat
    BY <2>1
  <2>3. y <= x1
    BY <2>1, <2>2
  <2> QED BY <2>3 DEF x1
<1> QED BY <1>5, <1>6

\* What ParseSegments() makes of what is left from the slash at i.
Onwards(d, i) == Segments[<<From(d, i - 1), Rejoined(Left(d)[i - 1])>>]

(***************************************************************************)
(* From one slash to the next, or from the last one to the result.         *)
(***************************************************************************)
LEMMA SegmentTaken ==
  ASSUME NEW d \in Paths, Len(d) < NPos, NEW i \in 1..Len(d), d[i] = "/"
  PROVE  LET left == Rejoined(Left(d)[Len(d)])
         IN \/ \E e \in i + 1..Len(d) : d[e] = "/" /\ Onwards(d, i) = Onwards(d, e)
            \/ /\ \A j \in i + 1..Len(d) : d[j] # "/"
               /\ Onwards(d, i) = IF Segment(d, i) \in Dots THEN Slashed(left) ELSE left
<1> DEFINE n == Len(d)
           f == Left(d)
           s == Segment(d, i)
           u == From(d, i - 1)
           st == f[i - 1]
<1>1. d \in Seq(Byte) /\ n \in Nat /\ i \in Nat /\ i >= 1 /\ i <= n /\ NPos \in Nat
  BY LenProperties, SizeAssumption DEF Paths, NPos
<1>2. PICK e \in i + 1..n + 1 :
        /\ s \in NoSlash /\ Len(s) = e - i - 1
        /\ \A k \in 1..e - i - 1 : s[k] = d[i + k]
        /\ e <= n => d[e] = "/"
        /\ \A j \in i + 1..e - 1 : d[j] # "/"
  BY <1>1, SegmentIs
<1>3. /\ st \in Seq(NoSlash) /\ f[i] = AddSegment(st, s) /\ f[e - 1] = f[i]
  <2>1. i - 1 \in 0..n
    BY <1>1
  <2> QED BY <1>1, <1>2, <2>1, LeftIs, LeftSame
<1> DEFINE m == e - i
<1> HIDE DEF f, s, st
<1>4. /\ u \in Seq(Byte) /\ Len(u) = (n - i) + 1
      /\ \A k \in 1..Len(u) : u[k] = d[(i - 1) + k]
  <2>1. i - 1 \in Nat /\ i - 1 <= n
    BY <1>1
  <2>2. /\ u \in Seq(Byte) /\ Len(u) = n - (i - 1)
        /\ \A k \in 1..Len(u) : u[k] = d[(i - 1) + k]
    BY <1>1, <2>1, FromIs
  <2> HIDE DEF u, n
  <2>3. n - (i - 1) = (n - i) + 1
    BY <1>1
  <2> QED BY <2>2, <2>3
<1> HIDE DEF u, n
<1>5. u \in Paths /\ Len(u) < NPos
  <2>1. 1 \in 1..Len(u) /\ (i - 1) + 1 = i /\ Len(u) < NPos
    BY <1>1, <1>4 DEF n
  <2>2. u[1] = "/"
    BY <1>4, <2>1
  <2> QED BY <1>4, <2>1, <2>2 DEF Paths
<1>6. m \in 1..Len(u) /\ m \in Nat /\ (i - 1) + m = e - 1 /\ (m < Len(u) <=> e <= n)
      /\ e \in Nat /\ m - 1 = e - i - 1
  BY <1>1, <1>2, <1>4
<1>7. FirstSegment(u, m, s)
  <2>1. ASSUME NEW k \in 1..m - 1 PROVE u[k + 1] = s[k]
    <3>1. k + 1 \in 1..Len(u) /\ (i - 1) + (k + 1) = i + k /\ k \in 1..e - i - 1
      BY <1>1, <1>4, <1>6
    <3> QED BY <1>2, <1>4, <3>1
  <2>2. ASSUME m < Len(u) PROVE u[m + 1] = "/"
    <3>1. m + 1 \in 1..Len(u) /\ (i - 1) + (m + 1) = e /\ e <= n
      BY <1>1, <1>6, <2>2
    <3> QED BY <1>2, <1>4, <3>1
  <2> QED BY <1>2, <1>6, <2>1, <2>2 DEF FirstSegment
<1> DEFINE left == Rejoined(f[e - 1])
           a == Segments[<<u, Rejoined(st)>>]
<1>8. /\ m < Len(u) => a = Segments[<<From(u, m), left>>]
      /\ ~(m < Len(u)) => a = IF s \in Dots THEN Slashed(left) ELSE left
  <2> HIDE DEF m
  <2> QED BY <1>3, <1>5, <1>7, TurnTakes
<1>9. a = Onwards(d, i)
  BY DEF Onwards, u, st, f
<1> HIDE DEF a, left
<1>10. CASE e <= n
  <2>1. From(u, m) = From(d, e - 1)
    <3>1. i - 1 \in Nat /\ (i - 1) + m <= Len(d)
      BY <1>1, <1>6, <1>10 DEF n
    <3>2. m \in Nat /\ (i - 1) + m = e - 1
      BY <1>6
    <3> HIDE DEF m
    <3>3. From(From(d, i - 1), m) = From(d, (i - 1) + m)
      BY <1>1, <3>1, <3>2, FromFrom
    <3> QED BY <3>2, <3>3 DEF u
  <2>2. Onwards(d, e) = Segments[<<From(u, m), left>>]
    BY <2>1 DEF Onwards, left, f
  <2>3. e \in i + 1..n /\ d[e] = "/"
    BY <1>1, <1>2, <1>10
  <2> HIDE DEF m
  <2>4. Onwards(d, i) = Onwards(d, e)
    BY <1>6, <1>8, <1>9, <1>10, <2>2
  <2> QED BY <2>3, <2>4 DEF n
<1>11. CASE ~(e <= n)
  <2>1. e - 1 = n
    BY <1>1, <1>2, <1>11
  <2>2. \A j \in i + 1..n : d[j] # "/"
    BY <1>2, <2>1
  <2>3. left = Rejoined(f[n])
    BY <2>1 DEF left
  <2> HIDE DEF m
  <2>4. Onwards(d, i) = IF s \in Dots THEN Slashed(left) ELSE left
    BY <1>6, <1>8, <1>9, <1>11
  <2> QED BY <2>2, <2>3, <2>4 DEF n, f, s
<1> QED BY <1>10, <1>11

(***************************************************************************)
(* ParseSegments() removes the dot segments of a path as RFC 3986 says     *)
(* (protocol.cpp:939-988).                                                 *)
(***************************************************************************)
LEMMA SegmentsMeant ==
  ASSUME NEW d \in Paths, Len(d) < NPos
  PROVE  ParseSegments(d) = RemoveDots(d)
<1> DEFINE n == Len(d)
           left == Left(d)[n]
           slashes == {i \in 1..n : d[i] = "/"}
           last == Max(slashes)
           Bad == {i \in slashes : Onwards(d, i) # RemoveDots(d)}
<1>1. d \in Seq(Byte) /\ n \in Nat /\ n >= 1 /\ d[1] = "/" /\ 1 \in slashes
  BY LenProperties DEF Paths
<1>2. last \in slashes /\ \A i \in slashes : i <= last
  <2>1. slashes \in SUBSET (1..n) /\ slashes # {}
    BY <1>1
  <2> HIDE DEF slashes, n
  <2> QED BY <1>1, <2>1, GreatestIs
<1>3. /\ RemoveDots(d) = Rejoined(IF Segment(d, last) \in Dots THEN Append(left, << >>)
                                  ELSE left)
      /\ Rejoined(Append(left, << >>)) = Slashed(Rejoined(left))
  <2>1. RemoveDots(d) = Rejoined(IF Segment(d, last) \in Dots THEN Append(left, << >>)
                                 ELSE left)
    BY DEF RemoveDots
  <2>2. left \in Seq(NoSlash)
    <3>1. n \in 0..n
      BY <1>1
    <3> QED BY <1>1, <3>1, LeftIs
  <2> HIDE DEF left
  <2> DEFINE e == << >>
             w == <<"/">>
  <2>3. e \in Seq(Byte) /\ w \in Seq(Byte)
    <3>1. "/" \in Byte
      BY ByteAssumption
    <3> QED BY <3>1, WordOf
  <2>4. w \o e = w
    BY <2>3, ConcatEmptySeq
  <2> HIDE DEF e, w
  <2>5. Rejoined(Append(left, e)) = Rejoined(left) \o (w \o e)
    BY <2>2, <2>3, RejoinedIs DEF w
  <2> QED BY <2>1, <2>4, <2>5 DEF Slashed, e, w
<1> HIDE DEF last
<1>4. ASSUME Bad # {} PROVE FALSE
  <2>1. PICK x \in Bad : \A y \in Bad : y <= x
    <3>1. Bad \in SUBSET (1..n)
      OBVIOUS
    <3> HIDE DEF Bad, n
    <3> QED BY <1>1, <1>4, <3>1, GreatestIs
  <2>2. x \in 1..Len(d) /\ d[x] = "/" /\ Onwards(d, x) # RemoveDots(d) /\ x \in Nat
    BY <1>1
  <2>3. CASE \E e \in x + 1..Len(d) : d[e] = "/" /\ Onwards(d, x) = Onwards(d, e)
    <3>1. PICK e \in x + 1..Len(d) : d[e] = "/" /\ Onwards(d, x) = Onwards(d, e)
      BY <2>3
    <3>2. e \in Bad /\ ~(e <= x)
      BY <1>1, <2>2, <3>1
    <3> QED BY <2>1, <3>2
  <2>4. CASE /\ \A j \in x + 1..n : d[j] # "/"
             /\ Onwards(d, x) = IF Segment(d, x) \in Dots THEN Slashed(Rejoined(left))
                                ELSE Rejoined(left)
    <3>1. x = last
      <4>1. x <= last /\ last \in 1..n /\ d[last] = "/"
        BY <1>2, <2>2
      <4>2. ~(last \in x + 1..n)
        BY <2>4, <4>1
      <4> QED BY <1>1, <2>2, <4>1, <4>2
    <3> QED BY <1>3, <2>2, <2>4, <3>1
  <2> QED BY <2>2, <2>3, <2>4, SegmentTaken
<1>5. Onwards(d, 1) = RemoveDots(d)
  BY <1>1, <1>4
<1>6. Onwards(d, 1) = ParseSegments(d)
  <2>1. From(d, 0) = d
    <3>1. n # NPos
      BY <1>1, SizeAssumption DEF NPos
    <3> QED BY <1>1, <3>1, WholeIs DEF From
  <2>2. Rejoined(Left(d)[0]) = << >>
    <3>1. Left(d)[0] = << >>
      BY <1>1, LeftIs
    <3> QED BY <3>1, RejoinedIs
  <2>3. 1 - 1 = 0
    OBVIOUS
  <2> QED BY <2>1, <2>2, <2>3 DEF Onwards, ParseSegments
<1> QED BY <1>5, <1>6

(***************************************************************************)
(* The ends of joined texts rise, and each byte is of one of them.         *)
(***************************************************************************)
LEMMA PiecesIs ==
  ASSUME NEW s \in Seq(Seq(Byte)), NEW h, NEW o, Joined(s, h, o)
  PROVE  /\ \A i \in 0..Len(s) : \A j \in i..Len(s) : o[i] <= o[j]
         /\ \A k \in 1..Len(h) : \E i \in 1..Len(s) :
              o[i - 1] < k /\ k <= o[i] /\ k - o[i - 1] \in 1..Len(s[i])
              /\ h[k] = s[i][k - o[i - 1]]
<1> DEFINE n == Len(s)
<1>1. n \in Nat /\ \A i \in 1..n : Len(s[i]) \in Nat
  BY LenProperties, ElementOfSeq
<1>2. /\ o \in [0..n -> Nat] /\ o[0] = 0 /\ o[n] = Len(h) /\ h \in Seq(Byte)
      /\ \A i \in 1..n : o[i] = o[i - 1] + Len(s[i]) /\ Part(s[i], h, o[i - 1])
  BY DEF Joined
<1> HIDE DEF n
<1>3. ASSUME NEW i \in 0..n, NEW j \in i..n PROVE o[i] <= o[j]
  <2> DEFINE Bad == {k \in i..n : ~(o[i] <= o[k])}
  <2>1. ASSUME Bad # {} PROVE FALSE
    <3>1. PICK k \in Bad : \A l \in Bad : k <= l
      <4>1. Bad \in SUBSET Nat
        BY <1>1
      <4> HIDE DEF Bad
      <4> QED BY <2>1, <4>1, LeastNat
    <3>2. k \in i..n /\ ~(o[i] <= o[k])
      BY <3>1
    <3>3. k # i
      <4>1. o[i] \in Nat
        BY <1>2
      <4> QED BY <3>2, <4>1
    <3>4. k \in 1..n /\ k - 1 \in i..n /\ k - 1 \in 0..n /\ k \in 0..n /\ ~(k <= k - 1)
      BY <1>1, <3>2, <3>3
    <3>5. o[i] <= o[k - 1]
      BY <3>1, <3>4
    <3>6. /\ o[i] \in Nat /\ o[k - 1] \in Nat /\ Len(s[k]) \in Nat
          /\ o[k] = o[k - 1] + Len(s[k])
      BY <1>1, <1>2, <3>4
    <3> QED BY <3>2, <3>5, <3>6
  <2> QED BY <2>1
<1>4. ASSUME NEW k \in 1..Len(h)
      PROVE  \E i \in 1..n : /\ o[i - 1] < k /\ k <= o[i] /\ k - o[i - 1] \in 1..Len(s[i])
                             /\ h[k] = s[i][k - o[i - 1]]
  <2> DEFINE T == {i \in 0..n : k <= o[i]}
  <2>1. Len(h) \in Nat /\ k \in Nat /\ k >= 1 /\ k <= Len(h)
    BY <1>2, LenProperties
  <2>2. T # {}
    <3>1. n \in 0..n
      BY <1>1
    <3> QED BY <1>2, <2>1, <3>1
  <2>3. PICK i \in T : \A j \in T : i <= j
    <3>1. T \in SUBSET Nat
      BY <1>1
    <3> HIDE DEF T
    <3> QED BY <2>2, <3>1, LeastNat
  <2>4. i \in 0..n /\ k <= o[i] /\ i # 0
    BY <1>2, <2>1
  <2>5. i \in 1..n /\ i - 1 \in 0..n /\ ~(i <= i - 1)
    BY <1>1, <2>4
  <2>6. ~(k <= o[i - 1])
    BY <2>3, <2>5
  <2>7. /\ o[i - 1] \in Nat /\ Len(s[i]) \in Nat /\ o[i] = o[i - 1] + Len(s[i])
        /\ Part(s[i], h, o[i - 1])
    BY <1>1, <1>2, <2>5
  <2>8. /\ o[i - 1] < k /\ k - o[i - 1] \in 1..Len(s[i])
        /\ o[i - 1] + (k - o[i - 1]) = k
    BY <2>1, <2>4, <2>6, <2>7
  <2>9. h[o[i - 1] + (k - o[i - 1])] = s[i][k - o[i - 1]]
    BY <2>7, <2>8, PartAt
  <2> QED BY <2>4, <2>5, <2>8, <2>9
<1> QED BY <1>3, <1>4 DEF n

\* What is decoded from offset i on, behind what was decoded before.
Decoded(uri, i, dec) == DecodeFrom(uri, QueryAt(uri))[<<i, dec>>]

(***************************************************************************)
(* The decoding goes on by turns.                                          *)
(***************************************************************************)
LEMMA DecodedIs ==
  ASSUME NEW uri \in Paths, NEW i \in Nat, NEW dec \in Seq(Byte)
  PROVE  LET qv == QueryAt(uri)
         IN Decoded(uri, i, dec) =
              IF i >= qv \/ (uri[i + 1] = "%" /\ i >= qv - 2) THEN dec
              ELSE DecodeFrom(uri, qv)[DecodeTurn(uri, i, dec)]
<1> DEFINE qv == QueryAt(uri)
           S  == Nat \X Seq(Byte)
           over(j) == j >= qv \/ (uri[j + 1] = "%" /\ j >= qv - 2)
           Ends == {p \in S : over(p[1])}
           result == [p \in S |-> p[2]]
           next == [p \in S |-> IF p \in Ends THEN p ELSE DecodeTurn(uri, p[1], p[2])]
           f == DecodeFrom(uri, qv)
           x == <<i, dec>>
<1>1. f = Pass(S, Ends, result, next, f)
  BY DecodeLoop
<1> HIDE DEF f, qv
<1>2. x \in S /\ x[1] = i /\ x[2] = dec
  OBVIOUS
<1>3. f[x] = IF x \in Ends THEN result[x] ELSE f[next[x]]
  <2> HIDE DEF S, Ends, result, next, x
  <2>1. \A p \in S : Pass(S, Ends, result, next, f)[p]
                     = IF p \in Ends THEN result[p] ELSE f[next[p]]
    BY DEF Pass
  <2>2. Pass(S, Ends, result, next, f)[x] = IF x \in Ends THEN result[x] ELSE f[next[x]]
    BY <1>2, <2>1
  <2> QED BY <1>1, <2>2
<1>4. x \in Ends <=> over(i)
  BY <1>2
<1>5. result[x] = dec /\ (x \notin Ends => next[x] = DecodeTurn(uri, i, dec))
  BY <1>2
<1>6. Decoded(uri, i, dec) = f[x]
  BY DEF Decoded, f, qv
<1> HIDE DEF S, Ends, result, next, x
<1>7. Decoded(uri, i, dec) = IF over(i) THEN dec ELSE f[DecodeTurn(uri, i, dec)]
  BY <1>3, <1>4, <1>5, <1>6
<1> QED BY <1>7 DEF f, qv

(***************************************************************************)
(* One byte behind the other is one text behind the other.                 *)
(***************************************************************************)
LEMMA AppendBehind ==
  ASSUME NEW a \in Seq(Byte), NEW b \in Seq(Byte), NEW c \in Byte
  PROVE  Append(a \o b, c) = a \o Append(b, c)
<1> DEFINE w == <<c>>
<1>1. w \in Seq(Byte) /\ a \o b \in Seq(Byte)
  BY WordOf, ConcatProperties
<1>2. Append(a \o b, c) = (a \o b) \o w /\ Append(b, c) = b \o w
  BY <1>1, AppendIsConcat
<1> HIDE DEF w
<1> QED BY <1>1, <1>2, ConcatAssociative

\* A piece of a uri without escapes and marks of a query string.
Plain(p) == \A j \in 1..Len(p) : p[j] \notin {"%", "?"}

(***************************************************************************)
(* A piece without escapes is decoded to itself.                           *)
(***************************************************************************)
LEMMA PlainDecoded ==
  ASSUME NEW uri \in Paths, NEW i, NEW p, Part(p, uri, i), Len(p) < NPos, Plain(p),
         i + Len(p) <= QueryAt(uri), NEW dec \in Seq(Byte)
  PROVE  Decoded(uri, i, dec) = Decoded(uri, i + Len(p), dec \o p)
<1> DEFINE qv == QueryAt(uri)
           n == Len(p)
           part(k) == Substr(p, 0, k)
           a == Decoded(uri, i, dec)
           b(k) == Decoded(uri, i + k, dec \o part(k))
           Bad == {k \in 0..n : b(k) # a}
<1>1. /\ p \in Seq(Byte) /\ uri \in Seq(Byte) /\ i \in Nat /\ n \in Nat
      /\ i + n <= qv /\ qv \in Nat /\ n < NPos
      /\ \A k \in 1..n : uri[i + k] = p[k] /\ p[k] # "%" /\ p[k] \in Byte
  <2>1. \A k \in 1..n : uri[i + k] = p[k] /\ p[k] # "%"
    BY DEF Part, Plain
  <2>2. p \in Seq(Byte) /\ uri \in Seq(Byte) /\ i \in Nat /\ n \in Nat
    BY DEF Part
  <2>3. \A k \in 1..n : p[k] \in Byte
    BY <2>2, ElementOfSeq
  <2>4. qv \in 1..Len(uri) /\ Len(uri) \in Nat
    BY <2>2, QueryAtIs, LenProperties
  <2> HIDE DEF qv
  <2>5. qv \in Nat
    BY <2>4
  <2> QED BY <2>1, <2>2, <2>3, <2>5 DEF qv
<1> HIDE DEF n, a
<1>2. b(0) = a
  <2>1. part(0) \in Seq(Byte) /\ Len(part(0)) = 0
    <3>1. 0 + 0 <= Len(p) /\ 0 # NPos /\ 0 \in Nat
      BY <1>1, SizeAssumption DEF n, NPos
    <3> QED BY <1>1, <3>1, SubstrIs
  <2> HIDE DEF part
  <2>2. part(0) = << >>
    BY <2>1, EmptySeq
  <2>3. dec \o << >> = dec /\ i + 0 = i
    BY <1>1, ConcatEmptySeq
  <2> QED BY <2>2, <2>3 DEF a
<1>3. ASSUME NEW k \in 1..n PROVE b(k) = b(k - 1)
  <2> DEFINE j == i + (k - 1)
             d == dec \o part(k - 1)
  <2>1. /\ k - 1 \in Nat /\ k - 1 < n /\ (k - 1) + 1 = k /\ j \in Nat /\ j < qv
        /\ j + 1 = i + k
    BY <1>1
  <2>2. part(k - 1) \in Seq(Byte) /\ Append(part(k - 1), p[k]) = part(k)
    <3>1. part(k - 1) \in Seq(Byte)
      BY <1>1, <2>1, SubstrType
    <3>2. Append(Substr(p, 0, k - 1), p[(k - 1) + 1]) = Substr(p, 0, (k - 1) + 1)
      BY <1>1, <2>1, PartGrows DEF n
    <3> QED BY <2>1, <3>1, <3>2
  <2>3. uri[j + 1] = p[k] /\ p[k] # "%" /\ p[k] \in Byte
    BY <1>1, <2>1
  <2> HIDE DEF part
  <2>4. d \in Seq(Byte) /\ Append(d, p[k]) = dec \o part(k)
    BY <2>2, <2>3, AppendBehind, ConcatProperties
  <2> HIDE DEF d, j, qv
  <2>5. ~(j >= qv \/ (uri[j + 1] = "%" /\ j >= qv - 2))
    BY <1>1, <2>1, <2>3
  <2>6. Decoded(uri, j, d) = DecodeFrom(uri, qv)[DecodeTurn(uri, j, d)]
    BY <2>1, <2>4, <2>5, DecodedIs DEF qv
  <2>7. DecodeTurn(uri, j, d) = <<j + 1, Append(d, uri[j + 1])>>
    BY <2>3 DEF DecodeTurn
  <2>8. DecodeTurn(uri, j, d) = <<i + k, dec \o part(k)>>
    BY <2>1, <2>3, <2>4, <2>7
  <2>9. Decoded(uri, j, d) = Decoded(uri, i + k, dec \o part(k))
    BY <2>6, <2>8 DEF Decoded, qv
  <2> QED BY <2>9 DEF j, d
<1> HIDE DEF b
<1>4. ASSUME Bad # {} PROVE FALSE
  <2>1. PICK k \in Bad : \A l \in Bad : k <= l
    <3>1. Bad \in SUBSET Nat
      BY <1>1
    <3> HIDE DEF Bad
    <3> QED BY <1>4, <3>1, LeastNat
  <2>2. k \in 1..n /\ b(k) # a
    BY <1>1, <1>2
  <2>3. k - 1 \in 0..n /\ ~(k <= k - 1)
    BY <1>1, <2>2
  <2>4. b(k - 1) = a
    BY <2>1, <2>3
  <2> QED BY <1>3, <2>2, <2>4
<1>5. b(n) = a
  <2>1. n \in 0..n
    BY <1>1
  <2> QED BY <1>4, <2>1
<1>6. part(n) = p
  <2>1. Len(p) # NPos
    BY <1>1 DEF n
  <2> QED BY <1>1, <2>1, WholeIs DEF n
<1> HIDE DEF part
<1> QED BY <1>5, <1>6 DEF a, b, n

(***************************************************************************)
(* The value of two digits (protocol.cpp:698).                             *)
(***************************************************************************)
LEMMA HexPair ==
  ASSUME NEW e, IsHex(e[1]), IsHex(e[2])
  PROVE  HexValue(e) = 16 * HexDigits[e[1]] + HexDigits[e[2]]
<1> DEFINE v == 16 * HexDigits[e[1]] + HexDigits[e[2]]
           w == HexDigits[e[1]]
           u == HexDigits[e[2]]
           a == IsHex(e[1])
           b == IsHex(e[2])
           o == e[1] \in Spaces \cup {"plus"}
<1>1. HexValue(e) = CASE a /\ b -> v [] a /\ ~b -> w [] o /\ b -> u [] OTHER -> 0
  BY Zenon DEF HexValue
<1>2. a /\ b /\ ~o
  <2>1. e[1] \in {"0", "1", "2", "a", "b", "e", "f"}
    <3> HIDE DEF o
    <3> QED BY DEF IsHex, HexDigits
  <2>2. ~o
    BY <2>1, Zenon DEF Spaces
  <2> QED BY <2>2, Zenon
<1> HIDE DEF v, w, u, a, b, o
<1>3. HexValue(e) = v
  BY <1>1, <1>2
<1> QED BY <1>3 DEF v

(***************************************************************************)
(* The escape of a dot is decoded to a dot, that of a slash to a slash.    *)
(***************************************************************************)
LEMMA EscapeDecoded ==
  ASSUME NEW uri \in Paths, NEW i, NEW h \in {"e", "f"},
         Part(<<"%", "2", h>>, uri, i), i + 3 <= QueryAt(uri), NEW dec \in Seq(Byte)
  PROVE  LET c == IF h = "e" THEN "." ELSE "/"
         IN c \in Byte /\ Decoded(uri, i, dec) = Decoded(uri, i + 3, dec \o <<c>>)
<1> DEFINE qv == QueryAt(uri)
           p == <<"%", "2", h>>
           enc == Substr(uri, i + 1, 2)
           c == IF h = "e" THEN "." ELSE "/"
<1>1. Len(p) = 3 /\ p[1] = "%" /\ p[2] = "2" /\ p[3] = h
  OBVIOUS
<1> HIDE DEF p
<1>2. /\ uri \in Seq(Byte) /\ i \in Nat /\ i + 3 <= Len(uri)
      /\ uri[i + 1] = "%" /\ uri[i + 2] = "2" /\ uri[i + 3] = h
  <2>1. Part(p, uri, i)
    BY DEF p
  <2>2. 1 \in 1..Len(p) /\ 2 \in 1..Len(p) /\ 3 \in 1..Len(p)
    BY <1>1
  <2>3. uri[i + 1] = p[1] /\ uri[i + 2] = p[2] /\ uri[i + 3] = p[3]
    BY <2>1, <2>2, PartAt
  <2>4. uri \in Seq(Byte) /\ i \in Nat /\ i + Len(p) <= Len(uri)
    BY <2>1 DEF Part
  <2> QED BY <1>1, <2>3, <2>4
<1>3. qv \in Nat
  <2>1. qv \in 1..Len(uri) /\ Len(uri) \in Nat
    BY <1>2, QueryAtIs, LenProperties
  <2> HIDE DEF qv
  <2> QED BY <2>1
<1>4. enc[1] = "2" /\ enc[2] = h
  <2>1. (i + 1) + 2 <= Len(uri) /\ i + 1 \in Nat /\ 2 # NPos /\ 2 \in Nat
    BY <1>2, SizeAssumption DEF NPos
  <2>2. \A k \in 1..2 : enc[k] = uri[(i + 1) + k]
    BY <1>2, <2>1, SubstrIs
  <2> HIDE DEF enc
  <2>3. 1 \in 1..2 /\ 2 \in 1..2 /\ (i + 1) + 1 = i + 2 /\ (i + 1) + 2 = i + 3
    BY <1>2
  <2>4. enc[1] = uri[(i + 1) + 1] /\ enc[2] = uri[(i + 1) + 2]
    BY <2>2, <2>3
  <2> QED BY <1>2, <2>3, <2>4
<1> HIDE DEF enc
<1>5. HexValue(enc) = IF h = "e" THEN 46 ELSE 47
  <2>1. /\ "2" \in DOMAIN HexDigits /\ "e" \in DOMAIN HexDigits /\ "f" \in DOMAIN HexDigits
        /\ HexDigits["2"] = 2 /\ HexDigits["e"] = 14 /\ HexDigits["f"] = 15
    BY DEF HexDigits
  <2>2. HexValue(enc) = 16 * HexDigits["2"] + HexDigits[h]
    <3>1. h \in {"e", "f"}
      OBVIOUS
    <3>2. IsHex(enc[1]) /\ IsHex(enc[2])
      BY <1>4, <2>1, <3>1 DEF IsHex
    <3>3. HexValue(enc) = 16 * HexDigits[enc[1]] + HexDigits[enc[2]]
      BY <3>2, HexPair
    <3> QED BY <1>4, <3>3
  <2>3. HexDigits[h] = IF h = "e" THEN 14 ELSE 15
    BY <2>1
  <2> QED BY <2>1, <2>2, <2>3
<1>6. c \in Byte /\ ByteOf(HexValue(enc)) = c /\ HexValue(enc) # 0
  <2>1. "." \in Byte /\ "/" \in Byte
    BY ByteAssumption
  <2>2. ByteOf(46) = "." /\ ByteOf(47) = "/"
    BY DEF ByteOf
  <2> QED BY <1>5, <2>1, <2>2
<1> HIDE DEF c
<1>7. DecodeTurn(uri, i, dec) = <<i + 3, dec \o <<c>>>>
  <2>1. Append(dec, c) = dec \o <<c>>
    BY <1>6, AppendIsConcat
  <2>2. DecodeTurn(uri, i, dec) = <<AfterEscape(i), Append(dec, c)>>
    BY <1>2, <1>6 DEF DecodeTurn, enc
  <2> QED BY <2>1, <2>2 DEF AfterEscape
<1> HIDE DEF qv
<1>8. ~(i >= qv \/ (uri[i + 1] = "%" /\ i >= qv - 2))
  <2>1. i + 3 <= qv
    BY DEF qv
  <2> QED BY <1>2, <1>3, <2>1
<1>9. Decoded(uri, i, dec) = DecodeFrom(uri, qv)[DecodeTurn(uri, i, dec)]
  BY <1>2, <1>8, DecodedIs DEF qv
<1>10. Decoded(uri, i, dec) = Decoded(uri, i + 3, dec \o <<c>>)
  BY <1>7, <1>9 DEF Decoded, qv
<1> QED BY <1>6, <1>10 DEF c

\* What WellFormed() says of a piece.
PieceOK(p) ==
  \/ p \in {<<"%", "2", "e">>, <<"%", "2", "f">>, <<"?">>}
  \/ Plain(p)

PiecesOK(s) == \A i \in 1..Len(s) : PieceOK(s[i])

(***************************************************************************)
(* A piece before the query string is decoded to what it stands for.       *)
(***************************************************************************)
LEMMA PieceDecoded ==
  ASSUME NEW uri \in Paths, NEW i, NEW p, Part(p, uri, i), Len(p) < NPos,
         PieceOK(p), p # <<"?">>, i + Len(p) <= QueryAt(uri), NEW dec \in Seq(Byte)
  PROVE  /\ PieceMeans(p) \in Seq(Byte)
         /\ Decoded(uri, i, dec) = Decoded(uri, i + Len(p), dec \o PieceMeans(p))
<1>1. <<"%", "2", "e">> # <<"%", "2", "f">>
  <2>1. <<"%", "2", "e">>[3] = "e" /\ <<"%", "2", "f">>[3] = "f"
    OBVIOUS
  <2> QED BY <2>1
<1>2. ASSUME NEW h \in {"e", "f"}, p = <<"%", "2", h>>
      PROVE  /\ PieceMeans(p) \in Seq(Byte)
             /\ Decoded(uri, i, dec) = Decoded(uri, i + Len(p), dec \o PieceMeans(p))
  <2> DEFINE c == IF h = "e" THEN "." ELSE "/"
  <2>1. PieceMeans(p) = <<c>>
    BY <1>1, <1>2 DEF PieceMeans
  <2>2. Len(p) = 3
    BY <1>2
  <2>3. c \in Byte /\ Decoded(uri, i, dec) = Decoded(uri, i + 3, dec \o <<c>>)
    <3>1. Part(<<"%", "2", h>>, uri, i) /\ i + 3 <= QueryAt(uri)
      BY <1>2, <2>2
    <3> QED BY <3>1, EscapeDecoded
  <2> HIDE DEF c
  <2>4. <<c>> \in Seq(Byte)
    BY <2>3, WordOf
  <2> QED BY <2>1, <2>2, <2>3, <2>4
<1>3. CASE p # <<"%", "2", "e">> /\ p # <<"%", "2", "f">>
  <2>1. PieceMeans(p) = p
    BY <1>3 DEF PieceMeans
  <2>2. Plain(p)
    BY <1>3 DEF PieceOK
  <2>3. p \in Seq(Byte)
    BY DEF Part
  <2>4. Decoded(uri, i, dec) = Decoded(uri, i + Len(p), dec \o p)
    BY <2>2, PlainDecoded
  <2> QED BY <2>1, <2>3, <2>4
<1> QED BY <1>2, <1>3

\* The first q pieces are the path: the query string begins where they end.
PathEnds(s, uri, o, q) ==
  /\ QueryAt(uri) = o[q] /\ Len(PathOf(s)) = q
  /\ \A i \in 1..q : PathOf(s)[i] = s[i] /\ s[i] # <<"?">>

(***************************************************************************)
(* The query string begins at the first piece that marks one.              *)
(***************************************************************************)
LEMMA PathOfIs ==
  ASSUME NEW s \in Seq(Seq(Byte)), NEW uri \in Paths, Len(uri) < NPos,
         NEW o, Joined(s, uri, o), PiecesOK(s)
  PROVE  \E q \in 1..Len(s) : PathEnds(s, uri, o, q)
<1> DEFINE n == Len(s)
           mark == <<"?">>
           Q == {i \in 1..n : s[i] = mark}
           j == Find(uri, mark, 0)
<1>1. /\ n \in Nat /\ "?" \in Byte /\ uri \in Seq(Byte) /\ Len(uri) \in Nat
      /\ Len(uri) >= 1 /\ uri[1] = "/" /\ NPos \in Nat
  <2>1. n \in Nat /\ uri \in Seq(Byte) /\ Len(uri) \in Nat /\ Len(uri) >= 1 /\ uri[1] = "/"
    BY LenProperties DEF Paths
  <2>2. "?" \in Byte
    BY ByteAssumption
  <2>3. NPos \in Nat
    BY SizeAssumption DEF NPos
  <2> QED BY <2>1, <2>2, <2>3
<1>2. mark \in Seq(Byte) /\ Len(mark) = 1 /\ mark[1] = "?"
  BY <1>1, WordOf
<1>3. /\ o[0] = 0 /\ o[n] = Len(uri) /\ o \in [0..n -> Nat]
      /\ \A i \in 1..n : o[i] = o[i - 1] + Len(s[i]) /\ Part(s[i], uri, o[i - 1])
  BY DEF Joined
<1>4. /\ \A i \in 0..n : \A k \in i..n : o[i] <= o[k]
      /\ \A k \in 1..Len(uri) : \E i \in 1..n :
           o[i - 1] < k /\ k <= o[i] /\ k - o[i - 1] \in 1..Len(s[i])
           /\ uri[k] = s[i][k - o[i - 1]]
  BY PiecesIs
<1>5. n # 0
  BY <1>1, <1>3
<1>6. PathOf(s) = IF Q = {} THEN s ELSE SubSeq(s, 1, Min(Q) - 1)
  BY DEF PathOf
<1>7. QueryAt(uri) = IF j = NPos THEN Len(uri) ELSE j
  BY DEF QueryAt
<1>8. \/ j = NPos /\ \A k \in 0..Len(uri) - 1 : uri[k + 1] # "?"
      \/ /\ j \in 0..Len(uri) - 1 /\ j \in Nat /\ uri[j + 1] = "?"
         /\ \A k \in 0..j - 1 : uri[k + 1] # "?"
  BY <1>1, FindByteIs
<1>9. ASSUME NEW i \in 1..n, s[i] # mark, NEW k \in 1..Len(s[i])
      PROVE  s[i][k] # "?"
  <2> DEFINE e == <<"%", "2", "e">>
             f == <<"%", "2", "f">>
  <2>1. PieceOK(s[i])
    BY DEF PiecesOK
  <2>2. /\ Len(e) = 3 /\ e[1] = "%" /\ e[2] = "2" /\ e[3] = "e"
        /\ Len(f) = 3 /\ f[1] = "%" /\ f[2] = "2" /\ f[3] = "f"
    OBVIOUS
  <2> HIDE DEF e, f, mark
  <2>3. CASE Plain(s[i])
    BY <1>9, <2>3 DEF Plain
  <2>4. CASE s[i] = e \/ s[i] = f
    <3>2. Len(s[i]) = 3
      BY <2>2, <2>4
    <3>3. k \in 1..3
      BY <1>9, <3>2
    <3>1. k = 1 \/ k = 2 \/ k = 3
      BY <3>3
    <3> QED BY <2>2, <2>4, <3>1
  <2> QED BY <1>9, <2>1, <2>3, <2>4 DEF PieceOK, e, f, mark
<1> HIDE DEF n, mark, j
<1>10. CASE Q = {}
  <2>1. \A i \in 1..n : s[i] # mark
    BY <1>10
  <2>2. \A k \in 1..Len(uri) : uri[k] # "?"
    BY <1>4, <1>9, <2>1
  <2>3. j = NPos
    <3>1. ASSUME j \in 0..Len(uri) - 1, uri[j + 1] = "?" PROVE FALSE
      <4>1. j + 1 \in 1..Len(uri)
        BY <1>1, <3>1
      <4> QED BY <2>2, <3>1, <4>1
    <3> QED BY <1>8, <3>1
  <2>4. QueryAt(uri) = o[n] /\ PathOf(s) = s /\ n \in 1..n
    BY <1>1, <1>3, <1>5, <1>6, <1>7, <1>10, <2>3
  <2> QED BY <2>1, <2>4 DEF PathEnds, n, mark
<1>11. CASE Q # {}
  <2> DEFINE m == Min(Q)
             q == m - 1
  <2>1. m \in Q /\ \A i \in Q : m <= i
    <3>1. Q \in SUBSET Nat
      BY <1>1
    <3> HIDE DEF Q
    <3>2. \E i \in Q : \A k \in Q : i <= k
      BY <1>11, <3>1, LeastNat
    <3> QED BY <3>2 DEF Min
  <2>2. PathOf(s) = SubSeq(s, 1, q)
    BY <1>6, <1>11
  <2> HIDE DEF m
  <2>3. m \in 1..n /\ s[m] = mark /\ m \in Nat /\ q \in 0..n /\ q \in Nat /\ m \in 0..n
    BY <1>1, <2>1
  <2>4. \A i \in 1..q : i \in 1..n /\ s[i] # mark
    <3>1. \A i \in 1..q : i \in 1..n /\ ~(m <= i)
      BY <1>1, <2>3
    <3> QED BY <2>1, <3>1
  <2>5. /\ Part(mark, uri, o[q]) /\ o[q] \in Nat /\ o[q] + 1 <= Len(uri)
        /\ uri[o[q] + 1] = "?"
    <3>1. Part(s[m], uri, o[m - 1])
      BY <1>3, <2>3
    <3>2. Part(mark, uri, o[q])
      BY <2>3, <3>1
    <3>3. 1 \in 1..Len(mark)
      BY <1>2
    <3>4. uri[o[q] + 1] = mark[1]
      BY <3>2, <3>3, PartAt
    <3> QED BY <1>2, <3>2, <3>4 DEF Part
  <2>6. ASSUME NEW k \in 1..o[q] PROVE uri[k] # "?"
    <3>1. k \in 1..Len(uri)
      BY <1>1, <2>5
    <3>2. PICK i \in 1..n : o[i - 1] < k /\ k <= o[i] /\ k - o[i - 1] \in 1..Len(s[i])
                            /\ uri[k] = s[i][k - o[i - 1]]
      BY <1>4, <3>1
    <3>3. i <= q
      <4>1. ASSUME ~(i <= q) PROVE FALSE
        <5>1. q \in 0..n /\ i - 1 \in q..n
          BY <1>1, <2>3, <4>1
        <5>2. o[q] <= o[i - 1]
          BY <1>4, <5>1
        <5>3. o[i - 1] \in Nat
          <6>1. i - 1 \in 0..n
            BY <1>1
          <6> QED BY <1>3, <6>1
        <5> QED BY <2>5, <3>2, <5>2, <5>3
      <4> QED BY <4>1
    <3>4. i \in 1..q
      BY <1>1, <2>3, <3>3
    <3>5. s[i] # mark
      BY <2>4, <3>4
    <3> QED BY <1>9, <3>2, <3>5
  <2>7. j = o[q]
    <3>1. o[q] \in 0..Len(uri) - 1
      BY <1>1, <2>5
    <3>2. /\ j \in 0..Len(uri) - 1 /\ j \in Nat /\ uri[j + 1] = "?"
          /\ \A k \in 0..j - 1 : uri[k + 1] # "?"
      BY <1>8, <2>5, <3>1
    <3>3. ~(o[q] \in 0..j - 1)
      BY <2>5, <3>2
    <3>4. ~(j + 1 \in 1..o[q])
      BY <2>6, <3>2
    <3> QED BY <2>5, <3>2, <3>3, <3>4
  <2>8. QueryAt(uri) = o[q]
    <3>1. j # NPos
      BY <1>1, <2>5, <2>7
    <3> QED BY <1>7, <2>7, <3>1
  <2>9. q \in 1..n
    <3>1. q # 0
      BY <1>1, <1>3, <2>5
    <3> QED BY <2>3, <3>1
  <2>10. /\ Len(PathOf(s)) = q
         /\ \A i \in 1..q : PathOf(s)[i] = s[i]
    <3>1. \A i \in 1..q : s[i] \in Seq(Byte)
      BY <2>4, ElementOfSeq DEF n
    <3> HIDE DEF q
    <3>2. /\ Len(SubSeq(s, 1, q)) = IF 1 <= q THEN q - 1 + 1 ELSE 0
          /\ \A i \in 1..q - 1 + 1 : SubSeq(s, 1, q)[i] = s[1 + i - 1]
      BY <2>3, <3>1, SubSeqProperties
    <3>3. 1 <= q /\ q - 1 + 1 = q /\ \A i \in 1..q : 1 + i - 1 = i
      BY <2>3, <2>9
    <3> QED BY <2>2, <3>2, <3>3
  <2> QED BY <2>4, <2>8, <2>9, <2>10 DEF PathEnds, n, mark
<1> QED BY <1>10, <1>11

(***************************************************************************)
(* The path is decoded to what its pieces stand for, one after the other.  *)
(***************************************************************************)
LEMMA DecodeMeant ==
  ASSUME NEW s \in Seq(Seq(Byte)), FlattenSeq(s) \in Paths, Len(FlattenSeq(s)) < NPos,
         PiecesOK(s)
  PROVE  LET path == PathOf(s)
         IN Decode(FlattenSeq(s))
              = FlattenSeq([i \in 1..Len(path) |-> PieceMeans(path[i])])
<1> DEFINE uri == FlattenSeq(s)
           n == Len(s)
           path == PathOf(s)
           m == [i \in 1..Len(path) |-> PieceMeans(path[i])]
<1>1. PICK o : Joined(s, uri, o)
  BY JoinedIs
<1>2. uri \in Paths /\ Len(uri) < NPos
  OBVIOUS
<1> HIDE DEF uri
<1> HIDE DEF path, n
<1>3. PICK q \in 1..n : /\ QueryAt(uri) = o[q] /\ Len(path) = q
                        /\ \A i \in 1..q : path[i] = s[i] /\ s[i] # <<"?">>
  <2>1. \E q \in 1..Len(s) : PathEnds(s, uri, o, q)
    BY <1>1, <1>2, PathOfIs
  <2> QED BY <2>1 DEF PathEnds, path, n
<1>4. n \in Nat /\ q \in Nat /\ q >= 1 /\ q <= n /\ Len(uri) \in Nat /\ NPos \in Nat
  <2>1. n \in Nat
    BY LenProperties DEF n
  <2>2. Len(uri) \in Nat
    BY <1>2, LenProperties DEF Paths
  <2>3. NPos \in Nat
    BY SizeAssumption DEF NPos
  <2> QED BY <2>1, <2>2, <2>3
<1>5. /\ o[0] = 0
      /\ \A k \in 1..q : /\ o[k - 1] \in Nat /\ o[k] \in Nat
                         /\ o[k] = o[k - 1] + Len(s[k]) /\ Part(s[k], uri, o[k - 1])
                         /\ o[k] <= QueryAt(uri) /\ Len(s[k]) < NPos
                         /\ PieceOK(s[k]) /\ s[k] # <<"?">>
  <2>1. /\ o[0] = 0 /\ o \in [0..n -> Nat]
        /\ \A i \in 1..n : o[i] = o[i - 1] + Len(s[i]) /\ Part(s[i], uri, o[i - 1])
    BY <1>1 DEF Joined, n
  <2>2. \A i \in 0..n : \A j \in i..n : o[i] <= o[j]
    BY <1>1, PiecesIs DEF n
  <2>3. ASSUME NEW k \in 1..q
        PROVE  /\ o[k - 1] \in Nat /\ o[k] \in Nat
               /\ o[k] = o[k - 1] + Len(s[k]) /\ Part(s[k], uri, o[k - 1])
               /\ o[k] <= QueryAt(uri) /\ Len(s[k]) < NPos
               /\ PieceOK(s[k]) /\ s[k] # <<"?">>
    <3>1. k \in 1..n /\ k - 1 \in 0..n /\ k \in 0..n /\ q \in k..n
      BY <1>4
    <3>2. o[k] <= o[q]
      BY <2>2, <3>1
    <3>3. o[k - 1] \in Nat /\ o[k] \in Nat
      BY <2>1, <3>1
    <3>4. o[k] = o[k - 1] + Len(s[k]) /\ Part(s[k], uri, o[k - 1])
      BY <2>1, <3>1
    <3>5. Len(s[k]) \in Nat /\ o[k - 1] + Len(s[k]) <= Len(uri)
      BY <3>4, LenProperties DEF Part
    <3>6. Len(s[k]) < NPos
      BY <1>2, <1>4, <3>3, <3>5
    <3> QED BY <1>3, <3>1, <3>2, <3>3, <3>4, <3>6 DEF n, PiecesOK
  <2> QED BY <2>1, <2>3
<1>6. Len(m) = q /\ \A k \in 1..q : m[k] = PieceMeans(s[k])
  <2>1. m \in [1..q -> {PieceMeans(s[i]) : i \in 1..q}]
    BY <1>3
  <2>2. \A k \in 1..q : m[k] = PieceMeans(s[k])
    BY <1>3
  <2> HIDE DEF m
  <2>3. Len(m) = q
    BY <1>4, <2>1, RowIs
  <2> QED BY <2>2, <2>3
<1> HIDE DEF m
<1>7. PICK j : Joins(m, q, j) /\ FlattenSeq(m) = j[q]
  <2>1. Len(m) \in Nat /\ Len(m) # 0
    BY <1>4, <1>6
  <2>2. \E j : Joins(m, Len(m), j) /\ FlattenSeq(m) = j[Len(m)]
    BY <2>1, FlattenIs
  <2> QED BY <1>6, <2>2
<1>8. \A i \in 1..q : j[i] = IF i = 1 THEN m[i] ELSE j[i - 1] \o m[i]
  BY <1>7 DEF Joins
<1> DEFINE a == Decoded(uri, 0, << >>)
           OK(k) == j[k] \in Seq(Byte) /\ a = Decoded(uri, o[k], j[k])
           Bad == {k \in 1..q : ~OK(k)}
<1>9. ASSUME NEW k \in 1..q, NEW dec \in Seq(Byte)
      PROVE  /\ m[k] \in Seq(Byte)
             /\ Decoded(uri, o[k - 1], dec) = Decoded(uri, o[k], dec \o m[k])
  <2> DEFINE i == o[k - 1]
             p == s[k]
  <2>1. /\ Part(p, uri, i) /\ o[k] = i + Len(p) /\ i + Len(p) <= QueryAt(uri)
        /\ Len(p) < NPos /\ PieceOK(p) /\ p # <<"?">> /\ m[k] = PieceMeans(p)
    BY <1>5, <1>6
  <2> HIDE DEF i, p
  <2>2. /\ PieceMeans(p) \in Seq(Byte)
        /\ Decoded(uri, i, dec) = Decoded(uri, i + Len(p), dec \o PieceMeans(p))
    BY <1>2, <2>1, PieceDecoded
  <2>3. m[k] \in Seq(Byte) /\ Decoded(uri, i, dec) = Decoded(uri, o[k], dec \o m[k])
    BY <2>1, <2>2
  <2> QED BY <2>3 DEF i
<1>10. << >> \in Seq(Byte)
  OBVIOUS
<1>11. OK(1)
  <2>1. 1 \in 1..q /\ 1 - 1 = 0
    BY <1>4
  <2>2. m[1] \in Seq(Byte) /\ Decoded(uri, o[0], << >>) = Decoded(uri, o[1], << >> \o m[1])
    BY <1>9, <1>10, <2>1
  <2>3. j[1] = m[1]
    BY <1>8, <2>1
  <2>4. << >> \o m[1] = m[1]
    BY <2>2, ConcatEmptySeq
  <2> QED BY <1>5, <2>2, <2>3, <2>4
<1>12. ASSUME NEW k \in 1..q, k # 1, OK(k - 1) PROVE OK(k)
  <2>1. /\ m[k] \in Seq(Byte)
        /\ Decoded(uri, o[k - 1], j[k - 1]) = Decoded(uri, o[k], j[k - 1] \o m[k])
    BY <1>9, <1>12
  <2>2. j[k] = j[k - 1] \o m[k]
    BY <1>8, <1>12
  <2>3. j[k] \in Seq(Byte)
    BY <1>12, <2>1, <2>2, ConcatProperties
  <2> HIDE DEF a
  <2> QED BY <1>12, <2>1, <2>2, <2>3
<1> HIDE DEF OK
<1>13. ASSUME Bad # {} PROVE FALSE
  <2>1. PICK k \in Bad : \A l \in Bad : k <= l
    <3>1. Bad \in SUBSET Nat
      OBVIOUS
    <3> HIDE DEF Bad
    <3> QED BY <1>13, <3>1, LeastNat
  <2>2. k \in 1..q /\ k # 1 /\ ~OK(k)
    BY <1>11
  <2>3. k - 1 \in 1..q /\ ~(k <= k - 1)
    BY <1>4, <2>2
  <2>4. OK(k - 1)
    BY <2>1, <2>3
  <2> QED BY <1>12, <2>2, <2>4
<1>14. OK(q)
  <2>1. q \in 1..q
    BY <1>4
  <2> QED BY <1>13, <2>1
<1>15. a = j[q]
  <2>1. Decoded(uri, o[q], j[q]) = j[q]
    <3>1. o[q] \in Nat /\ o[q] >= QueryAt(uri)
      <4>1. q \in 1..q
        BY <1>4
      <4> QED BY <1>3, <1>5, <4>1
    <3> QED BY <1>2, <1>14, <3>1, DecodedIs DEF OK
  <2> QED BY <1>14, <2>1 DEF OK
<1>16. Decode(uri) = a
  <2> DEFINE qv == QueryAt(uri)
  <2>1. uri \in Seq(Byte) /\ uri[0 + 1] = "/" /\ "/" # "%"
    BY <1>2 DEF Paths
  <2>2. qv \in 1..Len(uri)
    BY <1>2, QueryAtIs
  <2> HIDE DEF qv
  <2>3. ~(0 >= qv \/ (uri[0 + 1] = "%" /\ 0 >= qv - 2)) /\ 0 \in Nat
    BY <2>1, <2>2
  <2>4. a = DecodeFrom(uri, qv)[DecodeTurn(uri, 0, << >>)]
    BY <1>2, <1>10, <2>3, DecodedIs DEF qv
  <2>5. DecodeTurn(uri, 0, << >>) = <<0 + 1, Append(<< >>, uri[0 + 1])>>
    BY <2>1 DEF DecodeTurn
  <2>6. Append(<< >>, "/") = <<"/">> /\ 0 + 1 = 1
    OBVIOUS
  <2>7. a = DecodeFrom(uri, qv)[<<1, <<"/">>>>]
    BY <2>1, <2>4, <2>5, <2>6
  <2> QED BY <2>7 DEF Decode, qv
<1> QED BY <1>7, <1>15, <1>16 DEF m, uri, path

(***************************************************************************)
(* The resource of a request is what its uri stands for                    *)
(* (protocol.cpp:690-706, 939-988).                                        *)
(***************************************************************************)
LEMMA ResourceIs ==
  ASSUME NEW r, Regular(r), WellFormed(r), Len(FlattenSeq(r.uri)) < NPos
  PROVE  Resource(FlattenSeq(r.uri)) = ResourceOf(r)
<1> DEFINE uri == FlattenSeq(r.uri)
           d == Decode(uri)
           path == PathOf(r.uri)
<1>1. r.uri \in Seq(Seq(Byte))
  BY DEF Regular
<1>2. uri \in Paths
  <2>1. uri \in Seq(Byte) /\ Len(uri) >= 1 /\ uri[1] = "/"
    BY RegularIs
  <2> HIDE DEF uri
  <2> QED BY <2>1 DEF Paths
<1>3. PiecesOK(r.uri)
  BY DEF WellFormed, PiecesOK, PieceOK, Plain
<1>4. d = FlattenSeq([i \in 1..Len(path) |-> PieceMeans(path[i])])
  BY <1>1, <1>2, <1>3, DecodeMeant
<1>5. d \in Paths /\ Len(d) < NPos
  <2> HIDE DEF uri
  <2>1. d \in Paths /\ Len(d) <= Len(uri)
    BY <1>2, DecodeIs
  <2> HIDE DEF d
  <2>2. Len(d) \in Nat /\ Len(uri) \in Nat /\ NPos \in Nat
    BY <1>2, <2>1, SizeAssumption, LenProperties DEF Paths, NPos
  <2>3. Len(uri) < NPos
    BY DEF uri
  <2> QED BY <2>1, <2>2, <2>3
<1>6. ParseSegments(d) = RemoveDots(d)
  BY <1>5, SegmentsMeant
<1> QED BY <1>4, <1>6 DEF Resource, ResourceOf

(***************************************************************************)
(* The uri of a request is shorter than the request.                       *)
(***************************************************************************)
LEMMA UriShorter ==
  ASSUME NEW r, Regular(r), Len(Render(r)) < NPos
  PROVE  Len(FlattenSeq(r.uri)) < NPos
<1> DEFINE u == FlattenSeq(r.uri)
           n == Len(r.fields)
           t == Render(r)
<1>1. PICK e : Laid(r, t, e)
  BY RenderIs
<1>2. e[0] = Len(u) + 6 /\ Len(u) \in Nat /\ n \in Nat
  BY <1>1, RegularIs DEF Laid
<1>3. BrokenAt(t, e, n)
  BY <1>1, LaidBreaks
<1> HIDE DEF t, u, n
<1>4. Len(t) \in Nat /\ Len(t) = e[n] + 2 /\ e[n] \in Nat /\ e[0] <= e[n]
  <2>1. 0 \in 0..n /\ n \in 0..n /\ 0 <= n
    BY <1>2
  <2> QED BY <1>3, <2>1 DEF BrokenAt
<1>5. Len(t) < NPos /\ NPos \in Int
  BY SizeAssumption DEF NPos, t
<1>6. Len(u) < NPos
  BY <1>2, <1>4, <1>5
<1> QED BY <1>6 DEF u

(***************************************************************************)
(* The resource of an accepted request is what RFC 3986 makes of its uri:  *)
(* the query string cut off, the escapes decoded, and then the dot         *)
(* segments removed (protocol.cpp:690-706, 939-988).                       *)
(***************************************************************************)
THEOREM ResourceCorrect ==
  ASSUME RegularRequests
  PROVE  Spec => []ResourceMeant
<1>1. Init => TakenInv
  BY TakenInit
<1>2. TakenInv /\ [Next]_vars => TakenInv'
  BY TakenKept
<1>3. TakenInv => ResourceMeant
  <2> SUFFICES ASSUME TakenInv, NEW k \in 1..Len(taken),
                      taken[k].accepted = 200, WellFormed(asked[k])
               PROVE  taken[k].pci.resource = ResourceOf(asked[k])
    BY DEF ResourceMeant
  <2> DEFINE r == asked[k]
             t == taken[k]
  <2>1. Right(r, t)
    BY DEF TakenInv
  <2> HIDE DEF r, t
  <2>2. t.accepted = 200 /\ WellFormed(r)
    BY DEF r, t
  <2>3. /\ Regular(r) /\ t.pci.resource = Resource(FlattenSeq(r.uri))
        /\ Len(Render(r)) <= RequestLimit
    BY <2>1, <2>2 DEF Right
  <2>4. Len(Render(r)) < NPos
    <3>1. PICK e : Laid(r, Render(r), e)
      BY <2>3, RenderIs
    <3>2. Len(Render(r)) \in Nat
      BY <3>1, LenProperties DEF Laid
    <3>3. RequestLimit \in Nat /\ RequestLimit < NPos /\ NPos \in Int
      BY LimitAssumption, SizeAssumption DEF NPos
    <3> QED BY <2>3, <3>2, <3>3
  <2>5. Len(FlattenSeq(r.uri)) < NPos
    BY <2>3, <2>4, UriShorter
  <2>6. Resource(FlattenSeq(r.uri)) = ResourceOf(r)
    BY <2>2, <2>3, <2>5, ResourceIs
  <2> QED BY <2>3, <2>6 DEF r, t
<1> QED BY <1>1, <1>2, <1>3, PTL DEF Spec

=============================================================================
