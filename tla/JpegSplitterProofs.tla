------------------------ MODULE JpegSplitterProofs ------------------------
(***************************************************************************)
(* Theorems about JpegSplitter, for every number of frames and of          *)
(* processes.  The first part shows that the recursive function Cut        *)
(* satisfies the equation that defines it; the second what Cut returns on  *)
(* the bytes the processes write; the third that the invariant holds.      *)
(***************************************************************************)
EXTENDS JpegSplitter, WellFoundedInduction, TLAPS

(* A set of natural numbers that is not empty has a least element. *)
LEMMA LeastNatural ==
  ASSUME NEW T \in SUBSET Nat, T # {}
  PROVE  \E x \in T : \A y \in T : x <= y
<1> DEFINE R == {ss \in Nat \X Nat : ss[1] < ss[2]}
<1>1. IsWellFoundedOn(R, Nat)
  BY NatLessThanWellFounded DEF OpToRel
<1> HIDE DEF R
<1>2. PICK x \in T : \A y \in T : ~(<<y, x>> \in R)
  BY <1>1, WFMin
<1>3. ASSUME NEW y \in T
      PROVE  x <= y
  <2>1. x \in Nat /\ y \in Nat /\ <<y, x>> \notin R
    BY <1>2
  <2>2. ~(y < x)
    BY <2>1 DEF R
  <2> QED
    BY <2>1, <2>2
<1> QED
  BY <1>3

-----------------------------------------------------------------------------
(* The markers                                                             *)

(* A marker begins at position i. *)
Marker(buf, i, second) == buf[i].v = "FF" /\ buf[i + 1].v = second

(* The first marker of a kind, from a position on: there is none, or it is *)
(* in the buffer and none of the kind comes before it.                     *)
LEMMA IndexOfFirst ==
  ASSUME NEW buf \in Seq(Byte), NEW second, NEW from \in Nat, from >= 1
  PROVE  LET i == IndexOf(buf, second, from)
         IN \/ i = 0 /\ \A j \in from .. Len(buf) - 1 : ~Marker(buf, j, second)
            \/ /\ i \in Nat /\ from <= i /\ i + 1 <= Len(buf)
               /\ Marker(buf, i, second)
               /\ \A j \in from .. i - 1 : ~Marker(buf, j, second)
<1> DEFINE hits == {i \in from .. Len(buf) - 1 : Marker(buf, i, second)}
<1>1. IndexOf(buf, second, from) = IF hits = {} THEN 0 ELSE Min(hits)
  BY DEF IndexOf, Marker
<1>2. CASE hits = {}
  BY <1>1, <1>2
<1>3. CASE hits # {}
  <2>1. Len(buf) \in Nat
    OBVIOUS
  <2>2. hits \in SUBSET Nat
    BY <2>1
  <2>3. PICK x \in hits : \A y \in hits : x <= y
    BY <1>3, <2>2, LeastNatural
  <2>4. Min(hits) \in hits /\ \A y \in hits : Min(hits) <= y
    BY <2>3 DEF Min
  <2> HIDE DEF hits
  <2> DEFINE i == IndexOf(buf, second, from)
  <2>5. i \in hits /\ \A y \in hits : i <= y
    BY <1>1, <1>3, <2>4
  <2>6. i \in Nat /\ from <= i /\ i + 1 <= Len(buf) /\ Marker(buf, i, second)
    BY <2>1, <2>5 DEF hits
  <2>7. ASSUME NEW j \in from .. i - 1
        PROVE  ~Marker(buf, j, second)
    <3>1. j \in from .. Len(buf) - 1 /\ ~(i <= j)
      BY <2>1, <2>6, <2>7
    <3> QED
      BY <2>5, <3>1 DEF hits
  <2> QED
    BY <2>6, <2>7
<1> QED
  BY <1>2, <1>3

-----------------------------------------------------------------------------
(* The equation of Cut                                                     *)

(* One round of the loop, with g for the rounds that follow. *)
Round(g, buf) ==
  LET soi == IndexOf(buf, "D8", 1)
      eoi == EndOf(buf, soi)
      more == g[SubSeq(buf, eoi + 2, Len(buf))]
  IN IF soi = 0 THEN [data |-> <<>>, rest |-> <<>>]
     ELSE IF eoi = 0 THEN [data |-> <<>>, rest |-> buf]
     ELSE [data |-> <<SubSeq(buf, soi, eoi + 1)>> \o more.data, rest |-> more.rest]

(* A round that cuts a frame leaves a shorter buffer for the next one. *)
LEMMA RoundShortens ==
  ASSUME NEW buf \in Seq(Byte),
         IndexOf(buf, "D8", 1) # 0, EndOf(buf, IndexOf(buf, "D8", 1)) # 0
  PROVE  LET soi == IndexOf(buf, "D8", 1)
             eoi == EndOf(buf, soi)
             left == SubSeq(buf, eoi + 2, Len(buf))
         IN /\ soi \in Nat /\ 1 <= soi /\ soi + 1 <= Len(buf)
            /\ eoi \in Nat /\ soi + 2 <= eoi /\ eoi + 1 <= Len(buf)
            /\ left \in Seq(Byte) /\ Len(left) = Len(buf) - (eoi + 1)
            /\ Len(left) < Len(buf)
<1> DEFINE soi == IndexOf(buf, "D8", 1)
           eoi == EndOf(buf, soi)
           left == SubSeq(buf, eoi + 2, Len(buf))
<1>1. soi \in Nat /\ 1 <= soi /\ soi + 1 <= Len(buf)
  BY IndexOfFirst
<1>2. eoi = IndexOf(buf, "D9", soi + 2) /\ soi + 2 \in Nat /\ soi + 2 >= 1 /\ eoi # 0
  BY <1>1 DEF EndOf
<1>3. eoi \in Nat /\ soi + 2 <= eoi /\ eoi + 1 <= Len(buf)
  <2> HIDE DEF soi, eoi
  <2> QED
    BY <1>2, IndexOfFirst
<1> HIDE DEF soi, eoi
<1>4. Len(buf) \in Nat
  OBVIOUS
<1>5. left \in Seq(Byte) /\ Len(left) = Len(buf) - (eoi + 1)
  BY <1>1, <1>3, <1>4
<1>6. Len(left) < Len(buf)
  BY <1>3, <1>4, <1>5
<1> QED
  BY <1>1, <1>3, <1>5, <1>6 DEF soi, eoi

(* What a round returns depends on shorter buffers only. *)
LEMMA RoundUsesShorter ==
  ASSUME NEW buf \in Seq(Byte), NEW g, NEW h,
         \A s \in Seq(Byte) : Len(s) < Len(buf) => g[s] = h[s]
  PROVE  Round(g, buf) = Round(h, buf)
<1> DEFINE soi == IndexOf(buf, "D8", 1)
           eoi == EndOf(buf, soi)
           left == SubSeq(buf, eoi + 2, Len(buf))
<1>1. CASE soi = 0 \/ eoi = 0
  BY <1>1 DEF Round
<1>2. CASE soi # 0 /\ eoi # 0
  <2>1. left \in Seq(Byte) /\ Len(left) < Len(buf)
    BY <1>2, RoundShortens
  <2>2. g[left] = h[left]
    BY <2>1
  <2> QED
    BY <2>2 DEF Round
<1> QED
  BY <1>1, <1>2

(* The buffers shorter than n, and a function that obeys the equation on   *)
(* them.                                                                   *)
Shorter(n) == {b \in Seq(Byte) : Len(b) < n}

Obeys(g, n) == g = [b \in Shorter(n) |-> Round(g, b)]

(* Two functions that obey the equation agree where both are defined. *)
LEMMA ObeyingAgree ==
  ASSUME NEW n \in Nat, NEW m \in Nat, NEW g, NEW h, Obeys(g, n), Obeys(h, m)
  PROVE  \A b \in Shorter(n) \cap Shorter(m) : g[b] = h[b]
<1> DEFINE Differ == {Len(b) : b \in {c \in Shorter(n) \cap Shorter(m) : g[c] # h[c]}}
<1> SUFFICES ASSUME Differ # {}
             PROVE  FALSE
  OBVIOUS
<1>1. Differ \in SUBSET Nat
  BY DEF Shorter
<1>2. PICK l \in Differ : \A k \in Differ : l <= k
  BY <1>1, LeastNatural
<1>3. PICK b \in Shorter(n) \cap Shorter(m) : g[b] # h[b] /\ Len(b) = l
  BY <1>2
<1>4. b \in Seq(Byte) /\ Len(b) < n /\ Len(b) < m /\ Len(b) \in Nat
  BY <1>3 DEF Shorter
<1>5. ASSUME NEW s \in Seq(Byte), Len(s) < Len(b)
      PROVE  g[s] = h[s]
  <2>1. Len(s) \in Nat
    OBVIOUS
  <2>2. s \in Shorter(n) \cap Shorter(m)
    BY <1>4, <1>5, <2>1 DEF Shorter
  <2>3. ~(l <= Len(s))
    BY <1>3, <1>4, <1>5, <2>1
  <2> QED
    BY <1>2, <2>2, <2>3
<1>6. Round(g, b) = Round(h, b)
  BY <1>4, <1>5, RoundUsesShorter
<1>7. g[b] = Round(g, b) /\ h[b] = Round(h, b)
  BY <1>3 DEF Obeys
<1> QED
  BY <1>3, <1>6, <1>7

LEMMA ObeyingExists ==
  ASSUME NEW n \in Nat
  PROVE  \E g : Obeys(g, n)
<1> DEFINE None == {k \in Nat : ~ \E g : Obeys(g, k)}
<1> SUFFICES ASSUME None # {}
             PROVE  FALSE
  OBVIOUS
<1>1. PICK m \in None : \A k \in None : m <= k
  BY LeastNatural
<1>2. m # 0
  <2>1. Shorter(0) = {}
    <3>1. \A b \in Seq(Byte) : ~(Len(b) < 0)
      OBVIOUS
    <3> QED
      BY <3>1 DEF Shorter
  <2> DEFINE e == [b \in {} |-> 0]
  <2>2. e = [b \in {} |-> Round(e, b)]
    OBVIOUS
  <2>3. Obeys(e, 0)
    BY <2>1, <2>2 DEF Obeys
  <2> QED
    BY <2>3
<1>3. m - 1 \in Nat /\ ~(m <= m - 1)
  BY <1>2
<1>4. PICK g : Obeys(g, m - 1)
  BY <1>1, <1>3
<1> DEFINE h == [b \in Shorter(m) |-> Round(g, b)]
<1>5. ASSUME NEW b \in Shorter(m)
      PROVE  Round(g, b) = Round(h, b)
  <2>1. b \in Seq(Byte) /\ Len(b) < m /\ Len(b) \in Nat
    BY DEF Shorter
  <2>2. ASSUME NEW s \in Seq(Byte), Len(s) < Len(b)
        PROVE  g[s] = h[s]
    <3>1. Len(s) \in Nat
      OBVIOUS
    <3>2. Len(s) < m - 1 /\ Len(s) < m
      BY <2>1, <2>2, <3>1
    <3>3. s \in Shorter(m - 1) /\ s \in Shorter(m)
      BY <3>2 DEF Shorter
    <3>4. g[s] = Round(g, s)
      BY <1>4, <3>3 DEF Obeys
    <3>5. h[s] = Round(g, s)
      BY <3>3
    <3> QED
      BY <3>4, <3>5
  <2> HIDE DEF h
  <2> QED
    BY <2>1, <2>2, RoundUsesShorter
<1>6. Obeys(h, m)
  <2>1. h = [b \in Shorter(m) |-> Round(h, b)]
    <3>1. \A b \in Shorter(m) : Round(g, b) = Round(h, b)
      BY <1>5
    <3> DEFINE hh == h
    <3>2. \A b \in Shorter(m) : Round(g, b) = Round(hh, b)
      BY <3>1
    <3>3. hh = [b \in Shorter(m) |-> Round(g, b)]
      OBVIOUS
    <3> HIDE DEF hh
    <3>4. hh = [b \in Shorter(m) |-> Round(hh, b)]
      BY <3>2, <3>3
    <3> QED
      BY <3>4 DEF hh
  <2> HIDE DEF h
  <2> QED
    BY <2>1 DEF Obeys
<1>7. \E f : Obeys(f, m)
  BY <1>6
<1> QED
  BY <1>1, <1>7

(* Cut does what one round of the loop does, and then what Cut does. *)
LEMMA CutEquation ==
  ASSUME NEW buf \in Seq(Byte)
  PROVE  Cut[buf] = Round(Cut, buf)
<1> DEFINE G(b) == CHOOSE g : Obeys(g, Len(b) + 1)
           f == [b \in Seq(Byte) |-> G(b)[b]]
<1>1. ASSUME NEW b \in Seq(Byte)
      PROVE  Obeys(G(b), Len(b) + 1) /\ Len(b) + 1 \in Nat /\ b \in Shorter(Len(b) + 1)
  <2>1. Len(b) \in Nat /\ Len(b) + 1 \in Nat /\ Len(b) < Len(b) + 1
    OBVIOUS
  <2>2. \E g : Obeys(g, Len(b) + 1)
    BY <2>1, ObeyingExists
  <2> QED
    BY <2>1, <2>2 DEF Shorter
<1> HIDE DEF G
<1>2. ASSUME NEW b \in Seq(Byte)
      PROVE  f[b] = Round(f, b)
  <2>1. f[b] = Round(G(b), b)
    BY <1>1 DEF Obeys
  <2>2. ASSUME NEW s \in Seq(Byte), Len(s) < Len(b)
        PROVE  G(b)[s] = f[s]
    <3>1. Len(s) \in Nat /\ Len(b) \in Nat /\ Len(s) < Len(b) + 1
      BY <2>2
    <3>2. s \in Shorter(Len(s) + 1) \cap Shorter(Len(b) + 1)
      BY <1>1, <3>1 DEF Shorter
    <3>3. G(b)[s] = G(s)[s]
      BY <1>1, <3>2, ObeyingAgree
    <3> QED
      BY <3>3
  <2> HIDE DEF f
  <2>3. Round(G(b), b) = Round(f, b)
    BY <2>2, RoundUsesShorter
  <2> QED
    BY <2>1, <2>3
<1>3. f = [b \in Seq(Byte) |-> Round(f, b)]
  <2>1. \A b \in Seq(Byte) : G(b)[b] = Round(f, b)
    BY <1>2
  <2> DEFINE ff == f
  <2>2. \A b \in Seq(Byte) : G(b)[b] = Round(ff, b)
    BY <2>1
  <2>3. ff = [b \in Seq(Byte) |-> G(b)[b]]
    OBVIOUS
  <2> HIDE DEF ff
  <2>4. ff = [b \in Seq(Byte) |-> Round(ff, b)]
    BY <2>2, <2>3
  <2> QED
    BY <2>4 DEF ff
<1> HIDE DEF f
<1>4. Cut = CHOOSE g : g = [b \in Seq(Byte) |-> Round(g, b)]
  BY DEF Cut, Round
<1>5. \E g : g = [b \in Seq(Byte) |-> Round(g, b)]
  BY <1>3
<1>6. Cut = [b \in Seq(Byte) |-> Round(Cut, b)]
  BY <1>4, <1>5
<1> QED
  BY <1>6

-----------------------------------------------------------------------------
(* Sequences                                                               *)

(* A part of a sequence, and a part of that part. *)
LEMMA SubSeqFacts ==
  ASSUME NEW W \in Seq(Byte), NEW lo \in Nat, NEW m \in Nat, lo <= m, m <= Len(W)
  PROVE  LET buf == SubSeq(W, lo + 1, m)
         IN /\ buf \in Seq(Byte) /\ Len(buf) = m - lo
            /\ \A i \in 1 .. m - lo : buf[i] = W[lo + i]
OBVIOUS

LEMMA SubSeqOfPart ==
  ASSUME NEW W \in Seq(Byte), NEW lo \in Nat, NEW m \in Nat, lo <= m, m <= Len(W),
         NEW buf, buf = SubSeq(W, lo + 1, m),
         NEW i \in Nat, NEW j \in Nat, 1 <= i, i <= j + 1, j <= m - lo,
         NEW p, p = lo + i, NEW q, q = lo + j
  PROVE  SubSeq(buf, i, j) = SubSeq(W, p, q)
<1>1. buf \in Seq(Byte) /\ Len(buf) = m - lo /\ \A r \in 1 .. m - lo : buf[r] = W[lo + r]
  BY SubSeqFacts
<1>2. SubSeq(buf, i, j) = [r \in 1 .. j - i + 1 |-> buf[i + r - 1]]
  BY <1>1
<1>3. SubSeq(W, p, q) = [r \in 1 .. j - i + 1 |-> W[lo + i + r - 1]]
  <2>1. SubSeq(W, lo + i, lo + j) = [r \in 1 .. (lo + j) - (lo + i) + 1 |-> W[(lo + i) + r - 1]]
    OBVIOUS
  <2>2. (lo + j) - (lo + i) + 1 = j - i + 1
    OBVIOUS
  <2> QED
    BY <2>1, <2>2
<1>4. ASSUME NEW r \in 1 .. j - i + 1
      PROVE  buf[i + r - 1] = W[lo + i + r - 1]
  <2>1. i + r - 1 \in 1 .. m - lo /\ lo + (i + r - 1) = lo + i + r - 1
    OBVIOUS
  <2> QED
    BY <1>1, <2>1
<1> QED
  BY <1>2, <1>3, <1>4

LEMMA ConcatFacts ==
  ASSUME NEW S, NEW a \in Seq(S), NEW b \in Seq(S)
  PROVE  /\ a \o b \in Seq(S) /\ Len(a \o b) = Len(a) + Len(b)
         /\ \A i \in 1 .. Len(a) : (a \o b)[i] = a[i]
         /\ \A i \in Len(a) + 1 .. Len(a) + Len(b) : (a \o b)[i] = b[i - Len(a)]
OBVIOUS

(* A sequence between two pairs. *)
LEMMA BetweenPairs ==
  ASSUME NEW S, NEW a \in Seq(S), NEW b \in Seq(S), NEW z \in Seq(S), Len(a) = 2, Len(z) = 2
  PROVE  LET c == a \o b \o z
         IN /\ c \in Seq(S) /\ Len(c) = Len(b) + 4
            /\ \A i \in 1 .. 2 : c[i] = a[i]
            /\ \A i \in 3 .. Len(b) + 2 : c[i] = b[i - 2]
            /\ \A i \in Len(b) + 3 .. Len(b) + 4 : c[i] = z[i - (Len(b) + 2)]
<1>1. PICK d : d = a \o b
  OBVIOUS
<1>2. /\ d \in Seq(S) /\ Len(d) = Len(a) + Len(b)
      /\ \A i \in 1 .. Len(a) : d[i] = a[i]
      /\ \A i \in Len(a) + 1 .. Len(a) + Len(b) : d[i] = b[i - Len(a)]
  BY <1>1, ConcatFacts
<1>3. PICK c : c = d \o z
  OBVIOUS
<1>4. d \in Seq(S)
  BY <1>2
<1>5. /\ c \in Seq(S) /\ Len(c) = Len(d) + Len(z)
      /\ \A i \in 1 .. Len(d) : c[i] = d[i]
      /\ \A i \in Len(d) + 1 .. Len(d) + Len(z) : c[i] = z[i - Len(d)]
  BY <1>3, <1>4, ConcatFacts
<1>6. PICK n : n = Len(b) /\ n \in Nat
  OBVIOUS
<1>7. Len(d) = n + 2
  BY <1>2, <1>6
<1>8. c \in Seq(S) /\ Len(c) = n + 4
  BY <1>5, <1>6, <1>7
<1>9. \A i \in 1 .. 2 : c[i] = a[i]
  BY <1>2, <1>5, <1>6, <1>7
<1>10. \A i \in 3 .. n + 2 : c[i] = b[i - 2]
  BY <1>2, <1>5, <1>6, <1>7
<1>11. \A i \in n + 3 .. n + 4 : c[i] = z[i - (n + 2)]
  BY <1>5, <1>6, <1>7
<1> QED
  BY <1>1, <1>3, <1>6, <1>8, <1>9, <1>10, <1>11

(* A sequence that ends with another has it as a suffix. *)
LEMMA SuffixByBytes ==
  ASSUME NEW s \in Seq(Byte), NEW t \in Seq(Byte), Len(s) <= Len(t),
         \A p \in 1 .. Len(s) : t[Len(t) - Len(s) + p] = s[p]
  PROVE  IsSuffix(s, t)
<1> DEFINE rs == Reverse(s)
           rt == Reverse(t)
<1>1. Len(s) \in Nat /\ Len(t) \in Nat
  OBVIOUS
<1>2. rs \in Seq(Byte) /\ Len(rs) = Len(s) /\ rt \in Seq(Byte) /\ Len(rt) = Len(t)
  BY DEF Reverse
<1>3. \A p \in 1 .. Len(s) : rs[p] = s[(Len(s) - p) + 1]
  BY DEF Reverse
<1>4. \A p \in 1 .. Len(t) : rt[p] = t[(Len(t) - p) + 1]
  BY DEF Reverse
<1> HIDE DEF rs, rt
<1>5. ASSUME NEW p \in 1 .. Len(s)
      PROVE  rs[p] = rt[p]
  <2>1. (Len(s) - p) + 1 \in 1 .. Len(s) /\ p \in 1 .. Len(t)
    BY <1>1
  <2>2. Len(t) - Len(s) + ((Len(s) - p) + 1) = (Len(t) - p) + 1
    BY <1>1
  <2>3. t[Len(t) - Len(s) + ((Len(s) - p) + 1)] = s[(Len(s) - p) + 1]
    BY <2>1
  <2> QED
    BY <1>3, <1>4, <2>1, <2>2, <2>3
<1>6. SubSeq(rs, 1, Len(s)) = [p \in 1 .. Len(s) |-> rs[p]]
  BY <1>1, <1>2
<1>7. SubSeq(rt, 1, Len(s)) = [p \in 1 .. Len(s) |-> rt[p]]
  BY <1>1, <1>2
<1>8. SubSeq(rs, 1, Len(s)) = SubSeq(rt, 1, Len(s))
  BY <1>5, <1>6, <1>7
<1> QED
  BY <1>2, <1>8 DEF IsSuffix, IsPrefix, rs, rt

-----------------------------------------------------------------------------
(* The bytes of the processes                                              *)

(* A frame of the source: it has the one start marker at its beginning and *)
(* the one end marker at its end.                                          *)
IsJpeg(s, k) ==
  /\ s \in Seq(Byte) /\ Len(s) >= 5
  /\ \A p \in 1 .. Len(s) : s[p].of = k
  /\ Marker(s, 1, "D8") /\ Marker(s, Len(s) - 1, "D9")
  /\ \A p \in 1 .. Len(s) : /\ s[p].v = "D8" => p = 2
                            /\ s[p].v = "D9" => p = Len(s)

LEMMA JpegShape ==
  ASSUME NEW k \in Frame, NEW body \in Bodies
  PROVE  IsJpeg(Jpeg(k, body), k)
<1> DEFINE V == {"FF", "D8", "D9", "other"}
<1>1. PICK n : n = Len(body)
  OBVIOUS
<1>2. body \in Seq(V) /\ n \in {1, 2} /\ \A i \in 1 .. n : body[i] \in {"FF", "other"}
  <2>1. CASE body = <<"other">>
    BY <1>1, <2>1
  <2>2. CASE body = <<"FF", "other">>
    BY <1>1, <2>2
  <2> QED
    BY <2>1, <2>2 DEF Bodies
<1>3. PICK a : a = <<"FF", "D8">>
  OBVIOUS
<1>4. PICK z : z = <<"FF", "D9">>
  OBVIOUS
<1>5. a \in Seq(V) /\ Len(a) = 2 /\ a[1] = "FF" /\ a[2] = "D8"
  BY <1>3
<1>6. z \in Seq(V) /\ Len(z) = 2 /\ z[1] = "FF" /\ z[2] = "D9"
  BY <1>4
<1> HIDE DEF V
<1>7. PICK c : c = a \o body \o z
  OBVIOUS
<1>8. /\ c \in Seq(V) /\ Len(c) = Len(body) + 4
      /\ \A i \in 1 .. 2 : c[i] = a[i]
      /\ \A i \in 3 .. Len(body) + 2 : c[i] = body[i - 2]
      /\ \A i \in Len(body) + 3 .. Len(body) + 4 : c[i] = z[i - (Len(body) + 2)]
  BY <1>2, <1>5, <1>6, <1>7, BetweenPairs
<1>9. /\ c \in Seq(V) /\ Len(c) = n + 4
      /\ \A i \in 1 .. 2 : c[i] = a[i]
      /\ \A i \in 3 .. n + 2 : c[i] = body[i - 2]
      /\ \A i \in n + 3 .. n + 4 : c[i] = z[i - (n + 2)]
  BY <1>1, <1>8
<1>10. c[1] = "FF" /\ c[2] = "D8"
  BY <1>5, <1>9
<1>11. c[n + 3] = "FF" /\ c[n + 4] = "D9"
  <2>1. n + 3 \in n + 3 .. n + 4 /\ n + 4 \in n + 3 .. n + 4
        /\ (n + 3) - (n + 2) = 1 /\ (n + 4) - (n + 2) = 2
    BY <1>2
  <2>2. c[n + 3] = z[(n + 3) - (n + 2)] /\ c[n + 4] = z[(n + 4) - (n + 2)]
    BY <1>9, <2>1
  <2>3. c[n + 3] = z[1] /\ c[n + 4] = z[2]
    BY <2>1, <2>2
  <2> QED
    BY <1>6, <2>3
<1>12. ASSUME NEW i \in 3 .. n + 2
       PROVE  c[i] \in {"FF", "other"}
  <2>1. i - 2 \in 1 .. n
    BY <1>2
  <2>2. c[i] = body[i - 2]
    BY <1>9
  <2> QED
    BY <1>2, <2>1, <2>2
<1> DEFINE s == [i \in 1 .. n + 4 |-> [v |-> c[i], of |-> k]]
<1>13. \A i \in 1 .. n + 4 : s[i].of = k /\ s[i].v = c[i]
  OBVIOUS
<1>14. s \in Seq(Byte) /\ Len(s) = n + 4
  <2>1. \A i \in 1 .. n + 4 : c[i] \in V
    BY <1>9
  <2>2. \A i \in 1 .. n + 4 : [v |-> c[i], of |-> k] \in Byte
    BY <2>1 DEF Byte, V
  <2> QED
    BY <1>2, <2>2
<1>15. Jpeg(k, body) = s
  <2>1. DOMAIN c = 1 .. n + 4
    BY <1>2, <1>9
  <2>2. c = <<"FF", "D8">> \o body \o <<"FF", "D9">>
    BY <1>3, <1>4, <1>7
  <2> QED
    BY <2>1, <2>2 DEF Jpeg
<1> HIDE DEF s
<1>16. Marker(s, 1, "D8") /\ Marker(s, n + 3, "D9")
  <2>1. /\ 1 \in 1 .. n + 4 /\ 1 + 1 \in 1 .. n + 4 /\ n + 3 \in 1 .. n + 4
        /\ (n + 3) + 1 \in 1 .. n + 4 /\ 1 + 1 = 2 /\ (n + 3) + 1 = n + 4
    BY <1>2
  <2> QED
    BY <1>10, <1>11, <1>13, <2>1 DEF Marker
<1>17. ASSUME NEW i \in 1 .. n + 4
       PROVE  (s[i].v = "D8" => i = 2) /\ (s[i].v = "D9" => i = n + 4)
  <2>1. i = 1 \/ i = 2 \/ i \in 3 .. n + 2 \/ i = n + 3 \/ i = n + 4
    BY <1>2
  <2> QED
    BY <1>10, <1>11, <1>12, <1>13, <2>1
<1>18. n + 4 >= 5 /\ (n + 4) - 1 = n + 3
  BY <1>2
<1>19. IsJpeg(s, k)
  BY <1>13, <1>14, <1>16, <1>17, <1>18 DEF IsJpeg
<1> QED
  BY <1>15, <1>19

Sources ==
  /\ source \in Seq(Seq(Byte)) /\ Len(source) <= MaxFrames
  /\ \A k \in 1 .. Len(source) : IsJpeg(source[k], k)

(* W: everything that was written and not lost with a process, from the    *)
(* first byte on; at[k]: how many bytes come before frame k.  Every byte   *)
(* is where its frame has it.                                              *)
Placed(W, at) ==
  /\ W \in Seq(Byte)
  /\ at \in [Frame -> Nat]
  /\ \A i \in 1 .. Len(W) :
       /\ W[i].of \in 1 .. Len(source)
       /\ i - at[W[i].of] \in 1 .. Len(source[W[i].of])
       /\ W[i] = source[W[i].of][i - at[W[i].of]]

(* Frames follow each other, *)
Ordered(W) == \A i, j \in 1 .. Len(W) : i <= j => W[i].of <= W[j].of

(* what is there of a frame has its beginning *)
Begun(W, at) ==
  \A i, j \in 1 .. Len(W) : at[W[i].of] < j /\ j <= i => W[j].of = W[i].of

(* and is all of it, unless its process was replaced. *)
Complete(W, at) ==
  \A k \in 1 .. Len(source) : k \notin broken =>
    /\ at[k] + Len(source[k]) <= Len(W)
    /\ \A p \in 1 .. Len(source[k]) : W[at[k] + p] = source[k][p]

Stream(W, at) == Placed(W, at) /\ Ordered(W) /\ Begun(W, at) /\ Complete(W, at)

LEMMA SourceFacts ==
  ASSUME Sources, NEW k \in 1 .. Len(source)
  PROVE  /\ k \in Frame /\ IsJpeg(source[k], k)
         /\ source[k] \in Seq(Byte) /\ Len(source[k]) \in Nat /\ Len(source[k]) >= 5
<1>1. IsJpeg(source[k], k) /\ Len(source) <= MaxFrames /\ source \in Seq(Seq(Byte))
  BY DEF Sources
<1>2. Len(source) \in Nat /\ MaxFrames \in Nat
  BY <1>1, SplitterAssumption
<1>3. k \in Frame
  BY <1>1, <1>2 DEF Frame
<1>4. source[k] \in Seq(Byte) /\ Len(source[k]) >= 5
  BY <1>1 DEF IsJpeg
<1>5. Len(source[k]) \in Nat
  BY <1>4
<1> QED
  BY <1>1, <1>3, <1>4, <1>5

(* Where a byte of the stream belongs. *)
LEMMA ByteFacts ==
  ASSUME Sources, NEW W, NEW at, Stream(W, at), NEW i \in 1 .. Len(W)
  PROVE  LET k == W[i].of
         IN /\ k \in 1 .. Len(source) /\ k \in Nat /\ at[k] \in Nat
            /\ i - at[k] \in 1 .. Len(source[k]) /\ W[i] = source[k][i - at[k]]
<1> DEFINE k == W[i].of
<1>1. Placed(W, at)
  BY DEF Stream
<1>2. W \in Seq(Byte) /\ at \in [Frame -> Nat]
  BY <1>1 DEF Placed
<1>3. k \in 1 .. Len(source) /\ i - at[k] \in 1 .. Len(source[k]) /\ W[i] = source[k][i - at[k]]
  BY <1>1 DEF Placed
<1>4. k \in Frame
  BY <1>3, SourceFacts
<1>5. at[k] \in Nat
  BY <1>2, <1>4
<1>6. k \in Nat
  BY <1>4, SplitterAssumption DEF Frame
<1> QED
  BY <1>3, <1>5, <1>6

(* A start marker in the stream is where a frame begins. *)
LEMMA StartMarker ==
  ASSUME Sources, NEW W, NEW at, Stream(W, at),
         NEW i \in 1 .. Len(W) - 1, Marker(W, i, "D8")
  PROVE  LET k == W[i].of
         IN k \in 1 .. Len(source) /\ at[k] \in Nat /\ at[k] + 1 = i
<1> DEFINE h == W[i + 1].of
<1>1. W \in Seq(Byte)
  BY DEF Stream, Placed
<1>2. i \in 1 .. Len(W) /\ i + 1 \in 1 .. Len(W) /\ i \in Nat
  BY <1>1
<1>3. /\ h \in 1 .. Len(source) /\ at[h] \in Nat
      /\ (i + 1) - at[h] \in 1 .. Len(source[h]) /\ W[i + 1] = source[h][(i + 1) - at[h]]
  BY <1>2, ByteFacts
<1>4. IsJpeg(source[h], h)
  BY <1>3, SourceFacts
<1>5. source[h][(i + 1) - at[h]].v = "D8"
  BY <1>3 DEF Marker
<1>6. (i + 1) - at[h] = 2
  BY <1>3, <1>4, <1>5 DEF IsJpeg
<1>7. at[h] + 1 = i /\ at[h] < i /\ i <= i + 1
  BY <1>2, <1>3, <1>6
<1>8. W[i].of = h
  BY <1>2, <1>7 DEF Stream, Begun
<1> QED
  BY <1>3, <1>7, <1>8

(* An end marker in the stream is where a frame ends, and the frame is     *)
(* before it as it was written.                                            *)
LEMMA EndMarker ==
  ASSUME Sources, NEW W, NEW at, Stream(W, at),
         NEW i \in 1 .. Len(W) - 1, Marker(W, i, "D9")
  PROVE  LET k == W[i + 1].of
         IN /\ k \in 1 .. Len(source) /\ at[k] \in Nat
            /\ at[k] + Len(source[k]) = i + 1
            /\ \A j \in at[k] + 1 .. i + 1 : W[j].of = k
            /\ \A p \in 1 .. Len(source[k]) : W[at[k] + p] = source[k][p]
<1> DEFINE k == W[i + 1].of
<1>1. W \in Seq(Byte)
  BY DEF Stream, Placed
<1>2. i \in 1 .. Len(W) /\ i + 1 \in 1 .. Len(W) /\ i \in Nat /\ Len(W) \in Nat
  BY <1>1
<1>3. /\ k \in 1 .. Len(source) /\ at[k] \in Nat
      /\ (i + 1) - at[k] \in 1 .. Len(source[k]) /\ W[i + 1] = source[k][(i + 1) - at[k]]
  BY <1>2, ByteFacts
<1>4. IsJpeg(source[k], k) /\ Len(source[k]) \in Nat
  BY <1>3, SourceFacts
<1>5. source[k][(i + 1) - at[k]].v = "D9"
  BY <1>3 DEF Marker
<1>6. (i + 1) - at[k] = Len(source[k])
  BY <1>3, <1>4, <1>5 DEF IsJpeg
<1>7. PICK a : a = at[k] /\ a \in Nat
  BY <1>3
<1>8. PICK L : L = Len(source[k]) /\ L \in Nat
  BY <1>4
<1>9. a + L = i + 1
  BY <1>2, <1>6, <1>7, <1>8
<1>10. ASSUME NEW j \in a + 1 .. i + 1
       PROVE  W[j].of = k /\ j \in 1 .. Len(W)
  <2>1. j \in 1 .. Len(W) /\ a < j /\ j <= i + 1
    BY <1>2, <1>7
  <2>2. Begun(W, at)
    BY DEF Stream
  <2>3. W[j].of = W[i + 1].of
    BY <1>2, <1>7, <2>1, <2>2 DEF Begun
  <2> QED
    BY <2>1, <2>3
<1>11. ASSUME NEW p \in 1 .. L
       PROVE  W[a + p] = source[k][p]
  <2>1. a + p \in a + 1 .. i + 1 /\ (a + p) - a = p
    BY <1>7, <1>8, <1>9
  <2>2. W[a + p].of = k /\ a + p \in 1 .. Len(W)
    BY <1>10, <2>1
  <2>3. PICK q : q = a + p
    OBVIOUS
  <2>4. q \in 1 .. Len(W) /\ W[q].of = k
    BY <2>2, <2>3
  <2>5. W[q] = source[W[q].of][q - at[W[q].of]]
    BY <2>4, ByteFacts
  <2>6. W[q] = source[k][q - a]
    BY <1>7, <2>4, <2>5
  <2> QED
    BY <2>1, <2>3, <2>6
<1> QED
  BY <1>3, <1>7, <1>8, <1>9, <1>10, <1>11

(* Frame k, of L bytes, is in the stream behind the first a. *)
WrittenWhole(W, at, k, a, L) ==
  /\ a \in Nat /\ a = at[k]
  /\ L \in Nat /\ L = Len(source[k]) /\ L >= 5 /\ a + L <= Len(W)
  /\ Marker(W, a + 1, "D8") /\ Marker(W, a + L - 1, "D9")
  /\ W[a + 1].of = k /\ W[a + L].of = k

(* A frame whose process wrote it to the end is in the stream with both    *)
(* its markers.                                                            *)
LEMMA WholeHasMarkers ==
  ASSUME Sources, NEW W, NEW at, Stream(W, at), NEW k \in 1 .. Len(source), k \notin broken
  PROVE  \E a, L : WrittenWhole(W, at, k, a, L)
<1>1. k \in Frame /\ IsJpeg(source[k], k)
  BY SourceFacts
<1>2. at[k] \in Nat
  BY <1>1 DEF Stream, Placed
<1>3. PICK a : a = at[k] /\ a \in Nat
  BY <1>2
<1>4. PICK s : s = source[k]
  OBVIOUS
<1>5. PICK L : L = Len(s)
  OBVIOUS
<1>6. /\ L \in Nat /\ L >= 5
      /\ \A p \in 1 .. L : s[p].of = k
      /\ Marker(s, 1, "D8") /\ Marker(s, L - 1, "D9")
  BY <1>1, <1>4, <1>5 DEF IsJpeg
<1>7. a + L <= Len(W) /\ \A p \in 1 .. L : W[a + p] = s[p]
  BY <1>3, <1>4, <1>5 DEF Stream, Complete
<1>8. 1 \in 1 .. L /\ 2 \in 1 .. L /\ L - 1 \in 1 .. L /\ L \in 1 .. L
  BY <1>6
<1>9. W[a + 1] = s[1] /\ W[a + 2] = s[2] /\ W[a + (L - 1)] = s[L - 1] /\ W[a + L] = s[L]
  BY <1>7, <1>8
<1>10. /\ (a + 1) + 1 = a + 2 /\ a + (L - 1) = a + L - 1
       /\ (a + L - 1) + 1 = a + L /\ 1 + 1 = 2 /\ (L - 1) + 1 = L
  BY <1>3, <1>6
<1>11. Marker(W, a + 1, "D8") /\ Marker(W, a + L - 1, "D9")
  BY <1>6, <1>9, <1>10 DEF Marker
<1>12. W[a + 1].of = k /\ W[a + L].of = k
  BY <1>6, <1>8, <1>9
<1> QED
  BY <1>3, <1>4, <1>5, <1>6, <1>7, <1>11, <1>12 DEF WrittenWhole

-----------------------------------------------------------------------------
(* One frame is cut                                                        *)

(* What FramesWhole says of one event. *)
Whole(data) ==
  LET k == Last(data).of
  IN /\ k \in 1 .. Len(source)
     /\ IsSuffix(source[k], data)
     /\ \A j \in 1 .. Len(data) - Len(source[k]) : data[j].of \in broken
     /\ IndexOf(data, "D8", 1) = 1

(* x and e are where a frame is cut: a start marker and the first end      *)
(* marker that is not part of it.                                          *)
CutAt(W, x, e) ==
  /\ x \in Nat /\ e \in Nat /\ 1 <= x /\ x + 2 <= e /\ e + 1 <= Len(W)
  /\ Marker(W, x, "D8") /\ Marker(W, e, "D9")
  /\ \A z \in x + 2 .. e - 1 : ~Marker(W, z, "D9")

(* A frame that is in the stream to the end, and begins behind the start   *)
(* marker or at it, does not end before the end marker.                    *)
LEMMA NoFrameBetween ==
  ASSUME Sources, NEW W, NEW at, Stream(W, at), NEW x, NEW e, CutAt(W, x, e),
         NEW h \in 1 .. Len(source), h \notin broken,
         NEW a, a = at[h], x <= a + 1, a + 1 <= e + 1
  PROVE  h = W[e + 1].of
<1>1. PICK L \in Nat :
        /\ a \in Nat /\ L >= 5 /\ a + L <= Len(W)
        /\ Marker(W, a + 1, "D8") /\ Marker(W, a + L - 1, "D9")
        /\ W[a + 1].of = h /\ W[a + L].of = h
  <2>1. PICK c, L : WrittenWhole(W, at, h, c, L)
    BY WholeHasMarkers
  <2>2. c = a
    BY <2>1 DEF WrittenWhole
  <2> QED
    BY <2>1, <2>2 DEF WrittenWhole
<1>2. W \in Seq(Byte) /\ Ordered(W)
  BY DEF Stream, Placed
<1>3. PICK n \in Nat : n = Len(W)
  BY <1>2
<1>4. /\ x \in Nat /\ e \in Nat /\ e + 1 <= n /\ x <= a + 1 /\ a + 1 <= e + 1
      /\ x + 2 <= e /\ a \in Nat /\ L >= 5
  BY <1>1, <1>3 DEF CutAt
<1>5. a + L <= n
  BY <1>1, <1>3
<1>6. a + 1 \in 1 .. n /\ e + 1 \in 1 .. n /\ a + L \in 1 .. n
  BY <1>4, <1>5
<1>7. PICK k : k = W[e + 1].of
  OBVIOUS
<1>8. h <= k /\ (e + 1 <= a + L => k <= h)
  BY <1>1, <1>2, <1>3, <1>4, <1>6, <1>7 DEF Ordered
<1>9. k \in Nat
  BY <1>3, <1>6, <1>7, ByteFacts
<1>10. h \in Nat
  BY SourceFacts, SplitterAssumption DEF Frame
<1>11. CASE e + 1 <= a + L
  <2>1. h = k
    BY <1>8, <1>9, <1>10, <1>11
  <2> QED
    BY <1>7, <2>1
<1>12. CASE ~(e + 1 <= a + L)
  <2>1. a + L - 1 \in x + 2 .. e - 1
    BY <1>4, <1>12
  <2>2. \A z \in x + 2 .. e - 1 : ~Marker(W, z, "D9")
    BY DEF CutAt
  <2> QED
    BY <1>1, <2>1, <2>2
<1> QED
  BY <1>11, <1>12

(* What is cut is a whole frame behind what is left of broken ones. *)
LEMMA CutIsWhole ==
  ASSUME Sources, NEW W, NEW at, Stream(W, at), NEW x, NEW e, CutAt(W, x, e)
  PROVE  LET data == SubSeq(W, x, e + 1)
         IN data \in Seq(Byte) /\ Last(data) = W[e + 1] /\ Whole(data)
<1>1. W \in Seq(Byte) /\ Begun(W, at)
  BY DEF Stream, Placed
<1>2. PICK n \in Nat : n = Len(W)
  BY <1>1
<1>3. x \in Nat /\ e \in Nat /\ 1 <= x /\ x + 2 <= e /\ e + 1 <= n
      /\ Marker(W, x, "D8") /\ Marker(W, e, "D9")
  BY <1>2 DEF CutAt
<1>4. x \in 1 .. n - 1 /\ e \in 1 .. n - 1 /\ x \in 1 .. n /\ e + 1 \in 1 .. n
  BY <1>3
<1>5. PICK k : k = W[e + 1].of
  OBVIOUS
<1>6. /\ k \in 1 .. Len(source) /\ at[k] \in Nat
      /\ at[k] + Len(source[k]) = e + 1
      /\ \A j \in at[k] + 1 .. e + 1 : W[j].of = k
      /\ \A p \in 1 .. Len(source[k]) : W[at[k] + p] = source[k][p]
  <2>1. e \in 1 .. Len(W) - 1 /\ Marker(W, e, "D9")
    BY <1>2, <1>3, <1>4
  <2> QED
    BY <1>5, <2>1, EndMarker
<1>7. PICK s : s = source[k]
  OBVIOUS
<1>8. s \in Seq(Byte) /\ Len(s) \in Nat /\ Len(s) >= 5
  BY <1>6, <1>7, SourceFacts
<1>9. PICK a \in Nat : a = at[k]
  BY <1>6
<1>10. PICK L \in Nat : L = Len(s)
  BY <1>8
<1>11. a + L = e + 1 /\ (\A j \in a + 1 .. e + 1 : W[j].of = k)
       /\ \A p \in 1 .. L : W[a + p] = s[p]
  BY <1>6, <1>7, <1>9, <1>10
<1>12. PICK b : b = W[x].of
  OBVIOUS
<1>13. b \in 1 .. Len(source) /\ at[b] \in Nat /\ at[b] + 1 = x
  BY <1>2, <1>3, <1>4, <1>12, StartMarker
\* the start marker is not behind that of the frame that ends at e
<1>14. x <= a + 1
  <2>1. SUFFICES ASSUME a + 1 < x
                 PROVE  FALSE
    BY <1>3
  <2>2. x \in a + 1 .. e + 1
    BY <1>3, <2>1
  <2>3. b = k
    BY <1>11, <1>12, <2>2
  <2>4. a + 1 = x
    BY <1>9, <1>13, <2>3
  <2> QED
    BY <1>3, <2>1, <2>4
<1>15. PICK data : data = SubSeq(W, x, e + 1)
  OBVIOUS
<1>16. /\ data \in Seq(Byte) /\ Len(data) = e + 2 - x
       /\ \A p \in 1 .. e + 2 - x : data[p] = W[x + p - 1]
  <2>1. SubSeq(W, x, e + 1) = [p \in 1 .. (e + 1) - x + 1 |-> W[x + p - 1]]
    BY <1>1, <1>3
  <2>2. (e + 1) - x + 1 = e + 2 - x /\ e + 2 - x \in Nat
    BY <1>3
  <2>3. \A p \in 1 .. e + 2 - x : x + p - 1 \in 1 .. n
    BY <1>3
  <2>4. \A p \in 1 .. e + 2 - x : W[x + p - 1] \in Byte
    BY <1>1, <1>2, <2>3
  <2>5. data = [p \in 1 .. e + 2 - x |-> W[x + p - 1]]
    BY <1>15, <2>1, <2>2
  <2> QED
    BY <2>2, <2>4, <2>5
<1>17. Last(data) = W[e + 1]
  <2>1. e + 2 - x \in 1 .. e + 2 - x /\ x + (e + 2 - x) - 1 = e + 1
    BY <1>3
  <2> QED
    BY <1>16, <2>1 DEF Last
<1>18. IsSuffix(s, data)
  <2>1. L <= e + 2 - x
    BY <1>3, <1>11, <1>14
  <2>2. ASSUME NEW p \in 1 .. L
        PROVE  data[(e + 2 - x) - L + p] = s[p]
    <3>1. (e + 2 - x) - L + p \in 1 .. e + 2 - x
      BY <1>3, <1>11, <1>14, <2>1
    <3>2. x + ((e + 2 - x) - L + p) - 1 = a + p
      BY <1>3, <1>11
    <3> QED
      BY <1>11, <1>16, <3>1, <3>2
  <2> QED
    BY <1>8, <1>10, <1>16, <2>1, <2>2, SuffixByBytes
<1>19. ASSUME NEW j \in 1 .. Len(data) - Len(s)
       PROVE  data[j].of \in broken
  <2>1. PICK i : i = x + j - 1
    OBVIOUS
  <2>2. j \in 1 .. e + 2 - x /\ i \in x .. a /\ i \in 1 .. n /\ i < e + 1
    <3>1. Len(data) - Len(s) = (e + 2 - x) - L
      BY <1>10, <1>16
    <3>2. j \in 1 .. (e + 2 - x) - L
      BY <3>1
    <3>3. a + L = e + 1 /\ L >= 5
      BY <1>8, <1>10, <1>11
    <3>4. x \in Nat /\ e \in Nat /\ 1 <= x /\ e + 1 <= n
      BY <1>3
    <3> QED
      BY <1>14, <2>1, <3>2, <3>3, <3>4
  <2>3. PICK h : h = W[i].of
    OBVIOUS
  <2>4. data[j].of = h
    BY <1>16, <2>1, <2>2, <2>3
  <2>5. h \in 1 .. Len(source) /\ at[h] \in Nat /\ i - at[h] \in 1 .. Len(source[h])
    BY <1>2, <2>2, <2>3, ByteFacts
  <2>6. PICK c \in Nat : c = at[h]
    BY <2>5
  <2>7. c < i
    <3>1. i - c \in 1 .. Len(source[h])
      BY <2>5, <2>6
    <3>2. Len(source[h]) \in Nat
      BY <2>5, SourceFacts
    <3> QED
      BY <2>2, <3>1, <3>2
  <2>8. h # k
    <3>1. h = k => c = a
      BY <1>9, <2>6
    <3> QED
      BY <2>2, <2>7, <3>1
  <2>9. x <= c + 1
    <3>1. SUFFICES ASSUME c < x
                   PROVE  x = c + 1
      BY <1>3
    <3>2. b = h
      BY <1>1, <1>2, <1>4, <1>12, <2>2, <2>3, <2>6, <3>1 DEF Begun
    <3> QED
      BY <1>13, <2>6, <3>2
  <2>10. c + 1 <= e + 1
    BY <1>3, <2>2, <2>7
  <2>11. h \notin broken => h = W[e + 1].of
    BY <2>5, <2>6, <2>9, <2>10, NoFrameBetween
  <2> QED
    BY <1>5, <2>4, <2>8, <2>11
<1>20. IndexOf(data, "D8", 1) = 1
  <2>1. /\ 1 \in 1 .. e + 2 - x /\ 1 + 1 \in 1 .. e + 2 - x
        /\ x + 1 - 1 = x /\ x + (1 + 1) - 1 = x + 1
    BY <1>3
  <2>2. Marker(data, 1, "D8")
    <3>1. data[1] = W[x] /\ data[1 + 1] = W[x + 1]
      BY <1>16, <2>1
    <3> QED
      BY <1>3, <3>1 DEF Marker
  <2>3. PICK f : f = IndexOf(data, "D8", 1)
    OBVIOUS
  <2>4. \/ f = 0 /\ \A j \in 1 .. Len(data) - 1 : ~Marker(data, j, "D8")
        \/ /\ f \in Nat /\ 1 <= f /\ \A j \in 1 .. f - 1 : ~Marker(data, j, "D8")
    BY <1>16, <2>3, IndexOfFirst
  <2>5. 1 \in 1 .. Len(data) - 1
    BY <1>3, <1>16
  <2>6. f \in Nat /\ 1 <= f /\ ~(1 \in 1 .. f - 1)
    BY <2>2, <2>4, <2>5
  <2> QED
    BY <2>3, <2>6
<1>21. Whole(data)
  BY <1>5, <1>6, <1>7, <1>17, <1>18, <1>19, <1>20 DEF Whole
<1> QED
  BY <1>15, <1>16, <1>17, <1>21

(* Nothing that could be reported is before what is cut, and what follows  *)
(* it is later in the source.                                              *)
LEMMA CutIsNext ==
  ASSUME Sources, NEW W, NEW at, Stream(W, at), NEW x, NEW e, CutAt(W, x, e),
         NEW lo \in Nat, lo < x, \A y \in lo + 1 .. x - 1 : ~Marker(W, y, "D8")
  PROVE  /\ \A h \in 1 .. Len(source) : h \notin broken /\ at[h] >= lo =>
              h = W[e + 1].of \/ at[h] >= e + 1
         /\ \A i \in e + 2 .. Len(W) : W[e + 1].of < W[i].of
<1>1. W \in Seq(Byte) /\ Ordered(W)
  BY DEF Stream, Placed
<1>2. PICK n \in Nat : n = Len(W)
  BY <1>1
<1>3. x \in Nat /\ e \in Nat /\ 1 <= x /\ x + 2 <= e /\ e + 1 <= n /\ Marker(W, e, "D9")
  BY <1>2 DEF CutAt
<1>4. ASSUME NEW h \in 1 .. Len(source), h \notin broken, at[h] >= lo, h # W[e + 1].of
      PROVE  at[h] >= e + 1
  <2>1. PICK a \in Nat : a = at[h] /\ Marker(W, a + 1, "D8")
    BY <1>4, WholeHasMarkers DEF WrittenWhole
  <2>2. x <= a + 1
    <3>1. a + 1 >= lo + 1
      BY <1>4, <2>1
    <3>2. ~(a + 1 \in lo + 1 .. x - 1)
      BY <2>1
    <3> QED
      BY <1>3, <3>1, <3>2
  <2>3. ~(a + 1 <= e + 1)
    BY <1>4, <2>1, <2>2, NoFrameBetween
  <2>4. a >= e + 1
    BY <1>3, <2>3
  <2> QED
    BY <2>1, <2>4
<1>5. ASSUME NEW i \in e + 2 .. Len(W)
      PROVE  W[e + 1].of < W[i].of
  <2>1. i \in 1 .. n /\ e + 1 \in 1 .. n /\ e + 1 <= i /\ i > e + 1 /\ e \in 1 .. n - 1
    BY <1>2, <1>3
  <2>2. PICK k : k = W[e + 1].of
    OBVIOUS
  <2>3. PICK h : h = W[i].of
    OBVIOUS
  <2>4. k <= h
    BY <1>1, <1>2, <2>1, <2>2, <2>3 DEF Ordered
  <2>5. at[k] \in Nat /\ at[k] + Len(source[k]) = e + 1 /\ k \in 1 .. Len(source)
    BY <1>2, <1>3, <2>1, <2>2, EndMarker
  <2>6. /\ h \in Nat /\ at[h] \in Nat /\ i - at[h] \in 1 .. Len(source[h])
        /\ h \in 1 .. Len(source)
    BY <1>2, <2>1, <2>3, ByteFacts
  <2>7. k \in Nat
    BY <1>2, <2>1, <2>2, ByteFacts
  <2>8. h # k
    <3>1. SUFFICES ASSUME h = k
                   PROVE  FALSE
      OBVIOUS
    <3>2. PICK a \in Nat : a = at[k]
      BY <2>5
    <3>3. PICK L \in Nat : L = Len(source[k])
      BY <2>5, SourceFacts
    <3>4. a + L = e + 1
      BY <2>5, <3>2, <3>3
    <3>5. i - a \in 1 .. L
      BY <2>6, <3>1, <3>2, <3>3
    <3> QED
      BY <2>1, <3>4, <3>5
  <2>9. k < h
    BY <2>4, <2>6, <2>7, <2>8
  <2> QED
    BY <2>2, <2>3, <2>9
<1> QED
  BY <1>4, <1>5

-----------------------------------------------------------------------------
(* The loop                                                                *)

(* No start marker with an end marker behind it, between lo and m. *)
NoPair(W, lo, m) ==
  \A y, z \in lo + 1 .. m - 1 : Marker(W, y, "D8") /\ y + 2 <= z => ~Marker(W, z, "D9")

(* What was cut from the bytes behind lo up to left: whole frames, in      *)
(* order, and none that comes after left.                                  *)
CutInOrder(W, lo, left, data) ==
  /\ data \in Seq(Seq(Byte))
  /\ \A d \in 1 .. Len(data) :
       Whole(data[d]) /\ \E i \in lo + 1 .. left : Last(data[d]).of = W[i].of
  /\ \A c, d \in 1 .. Len(data) : c < d => Last(data[c]).of < Last(data[d]).of
  /\ \A d \in 1 .. Len(data), i \in left + 1 .. Len(W) : Last(data[d]).of < W[i].of

(* Every frame behind lo that its process finished was cut, or is behind   *)
(* left, or is there with its first byte only.                             *)
NoneMissed(at, lo, left, m, data) ==
  \A k \in 1 .. Len(source) : k \notin broken /\ at[k] >= lo =>
    \/ at[k] >= left
    \/ at[k] + 1 = m
    \/ \E d \in 1 .. Len(data) : Last(data[d]).of = k

(* What is found in the bytes behind lo up to m. *)
Scanned(W, at, lo, m, found) ==
  \E left \in lo .. m :
    /\ found.rest = SubSeq(W, left + 1, m)
    /\ NoPair(W, left, m)
    /\ CutInOrder(W, lo, left, found.data)
    /\ NoneMissed(at, lo, left, m, found.data)

(* IndexOf in a part of the stream. *)
LEMMA IndexOfInPart ==
  ASSUME NEW W \in Seq(Byte), NEW lo \in Nat, NEW m \in Nat, lo <= m, m <= Len(W),
         NEW second, NEW from \in Nat, from >= 1,
         NEW i, i = IndexOf(SubSeq(W, lo + 1, m), second, from)
  PROVE  \/ i = 0 /\ \A y \in lo + from .. m - 1 : ~Marker(W, y, second)
         \/ /\ i \in Nat /\ from <= i /\ lo + i + 1 <= m
            /\ Marker(W, lo + i, second)
            /\ \A y \in lo + from .. lo + i - 1 : ~Marker(W, y, second)
<1>1. PICK buf : buf = SubSeq(W, lo + 1, m)
  OBVIOUS
<1>2. buf \in Seq(Byte) /\ Len(buf) = m - lo /\ \A p \in 1 .. m - lo : buf[p] = W[lo + p]
  BY <1>1, SubSeqFacts
<1>3. ASSUME NEW p \in 1 .. m - lo - 1
      PROVE  Marker(buf, p, second) <=> Marker(W, lo + p, second)
  <2>1. p \in 1 .. m - lo /\ p + 1 \in 1 .. m - lo /\ lo + (p + 1) = (lo + p) + 1
    OBVIOUS
  <2> QED
    BY <1>2, <2>1 DEF Marker
<1>4. \/ i = 0 /\ \A j \in from .. Len(buf) - 1 : ~Marker(buf, j, second)
      \/ /\ i \in Nat /\ from <= i /\ i + 1 <= Len(buf)
         /\ Marker(buf, i, second)
         /\ \A j \in from .. i - 1 : ~Marker(buf, j, second)
  BY <1>1, <1>2, IndexOfFirst
<1>5. CASE i = 0 /\ \A j \in from .. Len(buf) - 1 : ~Marker(buf, j, second)
  <2>1. ASSUME NEW y \in lo + from .. m - 1
        PROVE  ~Marker(W, y, second)
    <3>1. PICK p : p = y - lo
      OBVIOUS
    <3>2. p \in from .. m - lo - 1 /\ p \in 1 .. m - lo - 1 /\ lo + p = y
      BY <3>1
    <3>3. p \in from .. Len(buf) - 1
      BY <1>2, <3>2
    <3> QED
      BY <1>3, <1>5, <3>2, <3>3
  <2> QED
    BY <1>5, <2>1
<1>6. CASE /\ i \in Nat /\ from <= i /\ i + 1 <= Len(buf)
           /\ Marker(buf, i, second)
           /\ \A j \in from .. i - 1 : ~Marker(buf, j, second)
  <2>1. i \in Nat /\ from <= i /\ i + 1 <= m - lo
    BY <1>2, <1>6
  <2>2. i \in 1 .. m - lo - 1 /\ lo + i + 1 <= m
    BY <2>1
  <2>3. Marker(W, lo + i, second)
    BY <1>3, <1>6, <2>2
  <2>4. ASSUME NEW y \in lo + from .. lo + i - 1
        PROVE  ~Marker(W, y, second)
    <3>1. PICK p : p = y - lo
      OBVIOUS
    <3>2. p \in from .. i - 1 /\ p \in 1 .. m - lo - 1 /\ lo + p = y
      BY <2>1, <3>1
    <3> QED
      BY <1>3, <1>6, <3>2
  <2> QED
    BY <2>1, <2>2, <2>3, <2>4
<1> QED
  BY <1>4, <1>5, <1>6

(* Without a start marker nothing stays. *)
LEMMA ScanNothing ==
  ASSUME Sources, NEW W, NEW at, Stream(W, at),
         NEW lo \in Nat, NEW m \in Nat, lo <= m, m <= Len(W),
         \A y \in lo + 1 .. m - 1 : ~Marker(W, y, "D8"),
         NEW found, found = [data |-> <<>>, rest |-> <<>>]
  PROVE  Scanned(W, at, lo, m, found)
<1>1. W \in Seq(Byte)
  BY DEF Stream, Placed
<1>2. found.data = <<>> /\ found.rest = <<>> /\ <<>> \in Seq(Seq(Byte)) /\ Len(<<>>) = 0
  OBVIOUS
<1>3. SubSeq(W, m + 1, m) = <<>>
  BY <1>1
<1>4. NoPair(W, m, m)
  BY DEF NoPair
<1>5. 1 .. Len(<<>>) = {}
  BY <1>2
<1>6. CutInOrder(W, lo, m, <<>>)
  BY <1>2, <1>5 DEF CutInOrder
<1>7. ASSUME NEW k \in 1 .. Len(source), k \notin broken, at[k] >= lo
      PROVE  at[k] >= m \/ at[k] + 1 = m
  <2>1. PICK a, L : WrittenWhole(W, at, k, a, L)
    BY <1>7, WholeHasMarkers
  <2>2. a \in Nat /\ a = at[k] /\ Marker(W, a + 1, "D8")
    BY <2>1 DEF WrittenWhole
  <2>3. a >= lo /\ ~(a + 1 \in lo + 1 .. m - 1)
    BY <1>7, <2>2
  <2>4. a \in Nat
    BY <2>2
  <2>5. a >= m \/ a + 1 = m
    BY <2>3, <2>4
  <2> QED
    BY <2>2, <2>5
<1>8. NoneMissed(at, lo, m, m, <<>>)
  BY <1>7 DEF NoneMissed
<1>9. m \in lo .. m
  OBVIOUS
<1> QED
  BY <1>2, <1>3, <1>4, <1>6, <1>8, <1>9 DEF Scanned

(* Without an end marker everything does. *)
LEMMA ScanOpen ==
  ASSUME Sources, NEW W, NEW at, Stream(W, at),
         NEW lo \in Nat, NEW m \in Nat, lo <= m, m <= Len(W),
         NEW x \in Nat, lo + 1 <= x,
         \A y \in lo + 1 .. x - 1 : ~Marker(W, y, "D8"),
         \A z \in x + 2 .. m - 1 : ~Marker(W, z, "D9"),
         NEW found, found = [data |-> <<>>, rest |-> SubSeq(W, lo + 1, m)]
  PROVE  Scanned(W, at, lo, m, found)
<1>1. found.data = <<>> /\ found.rest = SubSeq(W, lo + 1, m)
  OBVIOUS
<1>2. <<>> \in Seq(Seq(Byte)) /\ 1 .. Len(<<>>) = {}
  OBVIOUS
<1>3. ASSUME NEW y \in lo + 1 .. m - 1, NEW z \in lo + 1 .. m - 1,
             Marker(W, y, "D8"), y + 2 <= z
      PROVE  ~Marker(W, z, "D9")
  <2>1. ~(y \in lo + 1 .. x - 1)
    BY <1>3
  <2>2. x <= y
    BY <2>1
  <2>3. z \in x + 2 .. m - 1
    BY <1>3, <2>2
  <2> QED
    BY <2>3
<1>4. NoPair(W, lo, m)
  BY <1>3 DEF NoPair
<1>5. CutInOrder(W, lo, lo, <<>>)
  BY <1>2 DEF CutInOrder
<1>6. NoneMissed(at, lo, lo, m, <<>>)
  BY DEF NoneMissed
<1>7. lo \in lo .. m
  OBVIOUS
<1> QED
  BY <1>1, <1>4, <1>5, <1>6, <1>7 DEF Scanned

(* A sequence with an element before it. *)
LEMMA ConsFacts ==
  ASSUME NEW S, NEW a \in S, NEW s \in Seq(S)
  PROVE  /\ <<a>> \o s \in Seq(S) /\ Len(<<a>> \o s) = Len(s) + 1
         /\ (<<a>> \o s)[1] = a
         /\ \A i \in 2 .. Len(s) + 1 : (<<a>> \o s)[i] = s[i - 1]
<1>1. <<a>> \in Seq(S) /\ Len(<<a>>) = 1 /\ <<a>>[1] = a
  OBVIOUS
<1>2. PICK h : h = <<a>>
  OBVIOUS
<1>3. h \in Seq(S) /\ Len(h) = 1 /\ h[1] = a
  BY <1>1, <1>2
<1>4. PICK c : c = h \o s
  OBVIOUS
<1>5. h \in Seq(S)
  BY <1>3
<1>6. /\ c \in Seq(S) /\ Len(c) = Len(h) + Len(s)
      /\ \A i \in 1 .. Len(h) : c[i] = h[i]
      /\ \A i \in Len(h) + 1 .. Len(h) + Len(s) : c[i] = s[i - Len(h)]
  BY <1>4, <1>5, ConcatFacts
<1>7. PICK n \in Nat : n = Len(s)
  OBVIOUS
<1>8. Len(c) = n + 1 /\ c[1] = a
  BY <1>3, <1>6, <1>7
<1>9. \A i \in 2 .. n + 1 : c[i] = s[i - 1]
  BY <1>3, <1>6, <1>7
<1> QED
  BY <1>2, <1>4, <1>6, <1>7, <1>8, <1>9

(* A frame is cut, and the loop goes on behind it. *)
LEMMA ScanStep ==
  ASSUME Sources, NEW W, NEW at, Stream(W, at),
         NEW lo \in Nat, NEW m \in Nat, lo <= m, m <= Len(W),
         NEW x, NEW e, CutAt(W, x, e), lo + 1 <= x, e + 1 <= m,
         \A y \in lo + 1 .. x - 1 : ~Marker(W, y, "D8"),
         NEW more, Scanned(W, at, e + 1, m, more),
         NEW found,
         found = [data |-> <<SubSeq(W, x, e + 1)>> \o more.data, rest |-> more.rest]
  PROVE  Scanned(W, at, lo, m, found)
<1>1. x \in Nat /\ e \in Nat /\ x + 2 <= e
  BY DEF CutAt
<1>2. PICK left \in e + 1 .. m :
        /\ more.rest = SubSeq(W, left + 1, m)
        /\ NoPair(W, left, m)
        /\ CutInOrder(W, e + 1, left, more.data)
        /\ NoneMissed(at, e + 1, left, m, more.data)
  BY DEF Scanned
<1>3. left \in Nat /\ e + 1 <= left /\ left <= m /\ left \in lo .. m
  BY <1>1, <1>2
<1>4. PICK s : s = more.data
  OBVIOUS
<1>5. /\ s \in Seq(Seq(Byte))
      /\ \A d \in 1 .. Len(s) :
           Whole(s[d]) /\ \E i \in (e + 1) + 1 .. left : Last(s[d]).of = W[i].of
      /\ \A c, d \in 1 .. Len(s) : c < d => Last(s[c]).of < Last(s[d]).of
      /\ \A d \in 1 .. Len(s), i \in left + 1 .. Len(W) : Last(s[d]).of < W[i].of
  BY <1>2, <1>4 DEF CutInOrder
<1>6. PICK f : f = SubSeq(W, x, e + 1)
  OBVIOUS
<1>7. f \in Seq(Byte) /\ Last(f) = W[e + 1] /\ Whole(f)
  BY <1>6, CutIsWhole
<1>8. PICK data : data = <<f>> \o s
  OBVIOUS
<1>9. PICK n \in Nat : n = Len(s)
  <2>1. s \in Seq(Seq(Byte))
    BY <1>5
  <2>2. Len(s) \in Nat
    BY <2>1
  <2> QED
    BY <2>2
<1>10. /\ data \in Seq(Seq(Byte)) /\ Len(data) = n + 1 /\ data[1] = f
       /\ \A d \in 2 .. n + 1 : data[d] = s[d - 1]
  BY <1>5, <1>7, <1>8, <1>9, ConsFacts
<1>11. found.data = data /\ found.rest = SubSeq(W, left + 1, m)
  BY <1>2, <1>4, <1>6, <1>8
<1>12. /\ \A h \in 1 .. Len(source) : h \notin broken /\ at[h] >= lo =>
            h = W[e + 1].of \/ at[h] >= e + 1
       /\ \A i \in e + 2 .. Len(W) : W[e + 1].of < W[i].of
  <2>1. lo < x
    BY <1>1
  <2> QED
    BY <2>1, CutIsNext
<1>13. PICK l \in Nat : l = Len(W)
  BY DEF Stream, Placed
<1>14. m <= l
  BY <1>13
\* what is cut later comes from behind e + 1
<1>15. ASSUME NEW d \in 1 .. n
       PROVE  /\ Whole(s[d])
              /\ \E i \in lo + 1 .. left : Last(s[d]).of = W[i].of
              /\ W[e + 1].of < Last(s[d]).of
  <2>1. PICK i \in (e + 1) + 1 .. left : Last(s[d]).of = W[i].of
    BY <1>5, <1>9
  <2>2. i \in e + 2 .. l /\ i \in lo + 1 .. left
    BY <1>1, <1>3, <1>14
  <2> QED
    BY <1>5, <1>9, <1>12, <1>13, <2>1, <2>2
<1>16. CutInOrder(W, lo, left, data)
  <2>1. ASSUME NEW d \in 1 .. n + 1
        PROVE  /\ Whole(data[d])
               /\ \E i \in lo + 1 .. left : Last(data[d]).of = W[i].of
    <3>1. CASE d = 1
      <4>1. e + 1 \in lo + 1 .. left
        BY <1>1, <1>3
      <4> QED
        BY <1>7, <1>10, <3>1, <4>1
    <3>2. CASE d # 1
      <4>1. d \in 2 .. n + 1 /\ d - 1 \in 1 .. n
        BY <3>2
      <4>2. data[d] = s[d - 1]
        BY <1>10, <4>1
      <4> QED
        BY <1>15, <4>1, <4>2
    <3> QED
      BY <3>1, <3>2
  <2>2. ASSUME NEW c \in 1 .. n + 1, NEW d \in 1 .. n + 1, c < d
        PROVE  Last(data[c]).of < Last(data[d]).of
    <3>1. d \in 2 .. n + 1 /\ d - 1 \in 1 .. n
      BY <2>2
    <3>2. data[d] = s[d - 1]
      BY <1>10, <3>1
    <3>3. CASE c = 1
      BY <1>7, <1>10, <1>15, <3>1, <3>2, <3>3
    <3>4. CASE c # 1
      <4>1. c \in 2 .. n + 1 /\ c - 1 \in 1 .. n /\ c - 1 < d - 1
        BY <2>2, <3>4
      <4>2. data[c] = s[c - 1]
        BY <1>10, <4>1
      <4> QED
        BY <1>5, <1>9, <3>1, <3>2, <4>1, <4>2
    <3> QED
      BY <3>3, <3>4
  <2>3. ASSUME NEW d \in 1 .. n + 1, NEW i \in left + 1 .. l
        PROVE  Last(data[d]).of < W[i].of
    <3>1. CASE d = 1
      <4>1. i \in e + 2 .. l
        BY <1>1, <1>3
      <4> QED
        BY <1>7, <1>10, <1>12, <1>13, <3>1, <4>1
    <3>2. CASE d # 1
      <4>1. d \in 2 .. n + 1 /\ d - 1 \in 1 .. n
        BY <3>2
      <4>2. data[d] = s[d - 1]
        BY <1>10, <4>1
      <4> QED
        BY <1>5, <1>9, <1>13, <4>1, <4>2
    <3> QED
      BY <3>1, <3>2
  <2> QED
    BY <1>10, <1>13, <2>1, <2>2, <2>3 DEF CutInOrder
<1>17. NoneMissed(at, lo, left, m, data)
  <2>1. ASSUME NEW k \in 1 .. Len(source), k \notin broken, at[k] >= lo
        PROVE  \/ at[k] >= left
               \/ at[k] + 1 = m
               \/ \E d \in 1 .. n + 1 : Last(data[d]).of = k
    <3>1. k = W[e + 1].of \/ at[k] >= e + 1
      BY <1>12, <2>1
    <3>2. CASE k = W[e + 1].of
      <4>1. 1 \in 1 .. n + 1 /\ Last(data[1]).of = k
        BY <1>7, <1>10, <3>2
      <4> QED
        BY <4>1
    <3>3. CASE at[k] >= e + 1
      <4>1. \/ at[k] >= left
            \/ at[k] + 1 = m
            \/ \E d \in 1 .. n : Last(s[d]).of = k
        BY <1>2, <1>4, <1>9, <2>1, <3>3 DEF NoneMissed
      <4>2. ASSUME NEW d \in 1 .. n, Last(s[d]).of = k
            PROVE  \E c \in 1 .. n + 1 : Last(data[c]).of = k
        <5>1. d + 1 \in 2 .. n + 1 /\ d + 1 \in 1 .. n + 1 /\ (d + 1) - 1 = d
          OBVIOUS
        <5>2. data[d + 1] = s[d]
          BY <1>10, <5>1
        <5> QED
          BY <4>2, <5>1, <5>2
      <4> QED
        BY <4>1, <4>2
    <3> QED
      BY <3>1, <3>2, <3>3
  <2> QED
    BY <1>10, <2>1 DEF NoneMissed
<1> QED
  BY <1>2, <1>3, <1>11, <1>16, <1>17 DEF Scanned

(* One round, when what the next rounds return is known. *)
LEMMA ScanRound ==
  ASSUME Sources, NEW W, NEW at, Stream(W, at),
         NEW lo \in Nat, NEW m \in Nat, lo <= m, m <= Len(W),
         \A l \in lo + 1 .. m : Scanned(W, at, l, m, Cut[SubSeq(W, l + 1, m)])
  PROVE  Scanned(W, at, lo, m, Cut[SubSeq(W, lo + 1, m)])
<1>1. W \in Seq(Byte)
  BY DEF Stream, Placed
<1>2. PICK buf : buf = SubSeq(W, lo + 1, m)
  OBVIOUS
<1>3. buf \in Seq(Byte) /\ Len(buf) = m - lo
  BY <1>1, <1>2, SubSeqFacts
<1>4. PICK found : found = Cut[buf]
  OBVIOUS
<1>5. found = Round(Cut, buf)
  BY <1>3, <1>4, CutEquation
<1>6. PICK soi : soi = IndexOf(buf, "D8", 1)
  OBVIOUS
<1>7. \/ soi = 0 /\ \A y \in lo + 1 .. m - 1 : ~Marker(W, y, "D8")
      \/ /\ soi \in Nat /\ 1 <= soi /\ lo + soi + 1 <= m
         /\ Marker(W, lo + soi, "D8")
         /\ \A y \in lo + 1 .. lo + soi - 1 : ~Marker(W, y, "D8")
  BY <1>1, <1>2, <1>6, IndexOfInPart
<1>8. CASE soi = 0 /\ \A y \in lo + 1 .. m - 1 : ~Marker(W, y, "D8")
  <2>1. found = [data |-> <<>>, rest |-> <<>>]
    BY <1>5, <1>6, <1>8 DEF Round
  <2> QED
    BY <1>2, <1>4, <1>8, <2>1, ScanNothing
<1>9. CASE /\ soi \in Nat /\ 1 <= soi /\ lo + soi + 1 <= m
           /\ Marker(W, lo + soi, "D8")
           /\ \A y \in lo + 1 .. lo + soi - 1 : ~Marker(W, y, "D8")
  <2>1. PICK eoi : eoi = IndexOf(buf, "D9", soi + 2)
    OBVIOUS
  <2>2. PICK from \in Nat : from = soi + 2
    BY <1>9
  <2>3. from >= 1
    BY <1>9, <2>2
  <2>4. \/ eoi = 0 /\ \A z \in lo + from .. m - 1 : ~Marker(W, z, "D9")
        \/ /\ eoi \in Nat /\ from <= eoi /\ lo + eoi + 1 <= m
           /\ Marker(W, lo + eoi, "D9")
           /\ \A z \in lo + from .. lo + eoi - 1 : ~Marker(W, z, "D9")
    BY <1>1, <1>2, <2>1, <2>2, <2>3, IndexOfInPart
  <2>5. PICK x \in Nat : x = lo + soi
    BY <1>9
  <2>6. lo + from = x + 2 /\ lo + 1 <= x /\ x + 1 <= m /\ soi # 0
    BY <1>9, <2>2, <2>5
  <2>7. \A y \in lo + 1 .. x - 1 : ~Marker(W, y, "D8")
    BY <1>9, <2>5
  <2>8. CASE eoi = 0 /\ \A z \in lo + from .. m - 1 : ~Marker(W, z, "D9")
    <3>1. found = [data |-> <<>>, rest |-> buf]
      BY <1>5, <1>6, <2>1, <2>6, <2>8 DEF Round, EndOf
    <3>2. \A z \in x + 2 .. m - 1 : ~Marker(W, z, "D9")
      BY <2>6, <2>8
    <3>3. Scanned(W, at, lo, m, found)
      BY <1>2, <2>6, <2>7, <3>1, <3>2, ScanOpen
    <3> QED
      BY <1>2, <1>4, <3>3
  <2>9. CASE /\ eoi \in Nat /\ from <= eoi /\ lo + eoi + 1 <= m
             /\ Marker(W, lo + eoi, "D9")
             /\ \A z \in lo + from .. lo + eoi - 1 : ~Marker(W, z, "D9")
    <3>1. PICK e \in Nat : e = lo + eoi
      BY <2>9
    <3>2. eoi # 0 /\ x + 2 <= e /\ e + 1 <= m /\ 1 <= x /\ e + 1 <= Len(W)
      <4>1. Len(W) \in Nat
        BY <1>1
      <4>2. eoi \in Nat /\ from <= eoi /\ lo + eoi + 1 <= m
        BY <2>9
      <4>3. soi \in Nat
        BY <1>9
      <4> QED
        BY <2>2, <2>3, <2>5, <2>6, <3>1, <4>1, <4>2, <4>3
    <3>3. CutAt(W, x, e)
      BY <1>9, <2>5, <2>6, <2>9, <3>1, <3>2 DEF CutAt
    <3>4. PICK more : more = Cut[SubSeq(W, (e + 1) + 1, m)]
      OBVIOUS
    <3>5. e + 1 \in lo + 1 .. m
      BY <2>6, <3>1, <3>2
    <3>6. Scanned(W, at, e + 1, m, more)
      BY <3>4, <3>5
    <3>7. SubSeq(buf, soi, eoi + 1) = SubSeq(W, x, e + 1)
      <4>1. PICK j : j = eoi + 1
        OBVIOUS
      <4>2. soi \in Nat /\ eoi \in Nat /\ soi + 2 <= eoi /\ 1 <= soi /\ lo + eoi + 1 <= m
        BY <1>9, <2>2, <2>9
      <4>3. j \in Nat /\ soi <= j + 1 /\ j <= m - lo /\ e + 1 = lo + j
        BY <3>1, <4>1, <4>2
      <4>4. SubSeq(buf, soi, j) = SubSeq(W, x, e + 1)
        BY <1>1, <1>2, <2>5, <4>2, <4>3, SubSeqOfPart
      <4> QED
        BY <4>1, <4>4
    <3>8. SubSeq(buf, eoi + 2, Len(buf)) = SubSeq(W, (e + 1) + 1, m)
      <4>1. PICK i : i = eoi + 2
        OBVIOUS
      <4>2. PICK j : j = m - lo
        OBVIOUS
      <4>3. eoi \in Nat /\ lo + eoi + 1 <= m
        BY <2>9
      <4>4. /\ i \in Nat /\ j \in Nat /\ 1 <= i /\ i <= j + 1 /\ j <= m - lo
            /\ (e + 1) + 1 = lo + i /\ m = lo + j
        BY <3>1, <4>1, <4>2, <4>3
      <4>5. SubSeq(buf, i, j) = SubSeq(W, (e + 1) + 1, m)
        BY <1>1, <1>2, <4>4, SubSeqOfPart
      <4> QED
        BY <1>3, <4>1, <4>2, <4>5
    <3>9. found = [data |-> <<SubSeq(W, x, e + 1)>> \o more.data, rest |-> more.rest]
      BY <1>5, <1>6, <2>1, <2>6, <3>2, <3>4, <3>7, <3>8 DEF Round, EndOf
    <3>10. Scanned(W, at, lo, m, found)
      BY <2>6, <2>7, <3>2, <3>3, <3>6, <3>9, ScanStep
    <3> QED
      BY <1>2, <1>4, <3>10
  <2> QED
    BY <2>4, <2>8, <2>9
<1> QED
  BY <1>7, <1>8, <1>9

(* What _onData finds in a part of the stream. *)
LEMMA ScanPart ==
  ASSUME Sources, NEW W, NEW at, Stream(W, at),
         NEW m \in Nat, m <= Len(W), NEW lo \in Nat, lo <= m
  PROVE  Scanned(W, at, lo, m, Cut[SubSeq(W, lo + 1, m)])
<1> DEFINE Holds(l) == Scanned(W, at, l, m, Cut[SubSeq(W, l + 1, m)])
           Fails == {n \in Nat : \E l \in 0 .. m : n = m - l /\ ~Holds(l)}
<1>1. ASSUME NEW l \in 0 .. m, \A j \in l + 1 .. m : Holds(j)
      PROVE  Holds(l)
  <2>1. l \in Nat /\ l <= m
    OBVIOUS
  <2> QED
    BY <1>1, <2>1, ScanRound
<1> HIDE DEF Holds
<1>2. Fails = {}
  <2>1. SUFFICES ASSUME Fails # {}
                 PROVE  FALSE
    OBVIOUS
  <2>2. Fails \in SUBSET Nat
    OBVIOUS
  <2>3. PICK n \in Fails : \A k \in Fails : n <= k
    BY <2>1, <2>2, LeastNatural
  <2>4. PICK l \in 0 .. m : n = m - l /\ ~Holds(l)
    BY <2>3
  <2>5. ASSUME NEW j \in l + 1 .. m
        PROVE  Holds(j)
    <3>1. j \in 0 .. m /\ m - j \in Nat /\ ~(n <= m - j)
      BY <2>4
    <3>2. m - j \notin Fails
      BY <2>3, <3>1
    <3> QED
      BY <3>1, <3>2
  <2> QED
    BY <1>1, <2>4, <2>5
<1>3. lo \in 0 .. m /\ m - lo \in Nat
  OBVIOUS
<1>4. Holds(lo)
  BY <1>2, <1>3
<1> QED
  BY <1>4 DEF Holds

-----------------------------------------------------------------------------
(* The invariant                                                           *)

Event == [sequence : Nat, data : Seq(Byte)]

(* The events are numbered, each is a whole frame, and they are in order. *)
EventsInOrder ==
  /\ captured \in Seq(Event)
  /\ \A c \in 1 .. Len(captured) : captured[c].sequence = c /\ Whole(captured[c].data)
  /\ \A c, d \in 1 .. Len(captured) :
       c < d => Last(captured[c].data).of < Last(captured[d].data).of

Reported(k) == \E c \in 1 .. Len(captured) : Last(captured[c].data).of = k

(* lo bytes of the stream were taken from the buffer, and those up to mid  *)
(* delivered to it.  Events are about frames before those that are there,  *)
(* and a frame that was neither broken nor split is there or reported.     *)
Scanning(W, at, lo, mid) ==
  /\ lo \in Nat /\ mid \in Nat /\ lo <= mid /\ mid <= Len(W)
  /\ buffer = SubSeq(W, lo + 1, mid)
  /\ pipe = SubSeq(W, mid + 1, Len(W))
  /\ NoPair(W, lo, mid)
  /\ \A c \in 1 .. Len(captured), i \in lo + 1 .. Len(W) :
       Last(captured[c].data).of < W[i].of
  /\ \A k \in 1 .. Len(source) :
       k \notin broken /\ k \notin split => at[k] >= lo \/ Reported(k)

Counts == replaced \in 0 .. MaxReplaced /\ broken \subseteq Frame /\ split \subseteq Frame

Inv ==
  /\ Sources
  /\ EventsInOrder
  /\ Counts
  /\ \E W, at, lo, mid : Stream(W, at) /\ Scanning(W, at, lo, mid)

(* A sequence number is no greater than the number of the frame. *)
LEMMA NumberedByFrame ==
  ASSUME Sources, EventsInOrder
  PROVE  \A c \in 1 .. Len(captured) : c <= Last(captured[c].data).of
<1> DEFINE Of(c) == Last(captured[c].data).of
           Fails == {c \in Nat : c \in 1 .. Len(captured) /\ ~(c <= Of(c))}
<1>1. ASSUME NEW c \in 1 .. Len(captured)
      PROVE  Of(c) \in Nat /\ 1 <= Of(c)
  <2>1. Of(c) \in 1 .. Len(source)
    BY DEF EventsInOrder, Whole
  <2>2. Of(c) \in Frame
    BY <2>1, SourceFacts
  <2> QED
    BY <2>2, SplitterAssumption DEF Frame
<1>2. \A c, d \in 1 .. Len(captured) : c < d => Of(c) < Of(d)
  BY DEF EventsInOrder
<1>3. Len(captured) \in Nat
  BY DEF EventsInOrder
<1> HIDE DEF Of
<1>4. SUFFICES ASSUME Fails # {}
               PROVE  FALSE
  <2>1. 1 .. Len(captured) \subseteq Nat
    OBVIOUS
  <2> QED
    BY <2>1 DEF Of
<1>5. PICK c \in Fails : \A d \in Fails : c <= d
  BY <1>4, LeastNatural
<1>6. c \in Nat /\ c \in 1 .. Len(captured) /\ ~(c <= Of(c))
  BY <1>5
<1>7. PICK oc \in Nat : oc = Of(c) /\ 1 <= oc
  BY <1>1, <1>6
<1>8. c > 1 /\ c - 1 \in 1 .. Len(captured) /\ c - 1 < c /\ c - 1 \in Nat /\ ~(c <= c - 1)
  BY <1>3, <1>6, <1>7
<1>9. PICK od \in Nat : od = Of(c - 1)
  BY <1>1, <1>8
<1>10. c - 1 <= od
  BY <1>5, <1>8, <1>9
<1>11. od < oc
  BY <1>2, <1>6, <1>7, <1>8, <1>9
<1>12. c <= oc
  BY <1>6, <1>10, <1>11
<1> QED
  BY <1>6, <1>7, <1>12

(* What the invariant says of the properties. *)
LEMMA InvTypes == Inv => TypeOK
<1> SUFFICES ASSUME Inv
             PROVE  TypeOK
  OBVIOUS
<1>1. Sources /\ EventsInOrder /\ Counts
  BY DEF Inv
<1>2. PICK W, at, lo, mid : Stream(W, at) /\ Scanning(W, at, lo, mid)
  BY DEF Inv
<1>3. W \in Seq(Byte) /\ Len(W) \in Nat
  BY <1>2 DEF Stream, Placed
<1>4. /\ lo \in Nat /\ mid \in Nat /\ lo <= mid /\ mid <= Len(W)
      /\ buffer = SubSeq(W, lo + 1, mid) /\ pipe = SubSeq(W, mid + 1, Len(W))
  BY <1>2 DEF Scanning
<1>5. buffer \in Seq(Byte)
  BY <1>3, <1>4, SubSeqFacts
<1>6. pipe \in Seq(Byte)
  <2>1. Len(W) <= Len(W)
    BY <1>3
  <2> QED
    BY <1>3, <1>4, <2>1, SubSeqFacts
<1>7. ASSUME NEW i \in DOMAIN captured
      PROVE  captured[i].sequence \in Frame /\ captured[i].data \in Seq(Byte)
  <2>1. captured \in Seq(Event)
    BY <1>1 DEF EventsInOrder
  <2>2. i \in 1 .. Len(captured) /\ i \in Nat /\ 1 <= i
    BY <2>1
  <2>3. captured[i].sequence = i /\ Last(captured[i].data).of \in 1 .. Len(source)
    BY <1>1, <2>2 DEF EventsInOrder, Whole
  <2>4. PICK k : k = Last(captured[i].data).of
    OBVIOUS
  <2>5. k \in 1 .. MaxFrames
    BY <1>1, <2>3, <2>4, SourceFacts DEF Frame
  <2>6. i <= k
    BY <1>1, <2>2, <2>4, NumberedByFrame
  <2>7. i \in Frame
    BY <2>2, <2>5, <2>6, SplitterAssumption DEF Frame
  <2>8. captured[i] \in Event
    BY <2>1, <2>2
  <2>9. captured[i].data \in Seq(Byte)
    BY <2>8 DEF Event
  <2> QED
    BY <2>3, <2>7, <2>9
<1> QED
  BY <1>1, <1>5, <1>6, <1>7 DEF TypeOK, Sources, Counts

LEMMA InvWhole == Inv => FramesWhole
<1> SUFFICES ASSUME Inv
             PROVE  FramesWhole
  OBVIOUS
<1>1. Sources /\ EventsInOrder
  BY DEF Inv
<1>2. DOMAIN captured = 1 .. Len(captured) /\ Len(captured) \in Nat
  BY <1>1 DEF EventsInOrder
<1>3. DOMAIN source = 1 .. Len(source)
  BY <1>1 DEF Sources
<1>4. ASSUME NEW i \in DOMAIN captured, NEW data, data = captured[i].data
      PROVE  /\ \E k \in DOMAIN source :
                  /\ IsSuffix(source[k], data)
                  /\ \A j \in 1 .. Len(data) - Len(source[k]) : data[j].of \in broken
             /\ IndexOf(data, "D8", 1) = 1
  <2>1. Whole(data)
    BY <1>1, <1>2, <1>4 DEF EventsInOrder
  <2> QED
    BY <1>3, <2>1 DEF Whole
<1>5. ASSUME NEW i \in DOMAIN captured, NEW j \in 1 .. i - 1
      PROVE  Last(captured[j].data).of < Last(captured[i].data).of
  <2>1. i \in 1 .. Len(captured) /\ j \in 1 .. Len(captured) /\ j < i
    BY <1>2
  <2> QED
    BY <1>1, <2>1 DEF EventsInOrder
<1> QED
  BY <1>4, <1>5 DEF FramesWhole

LEMMA InvLost == Inv => LostOnlyWhenSplit
<1> SUFFICES ASSUME Inv
             PROVE  LostOnlyWhenSplit
  OBVIOUS
<1>1. Sources /\ EventsInOrder
  BY DEF Inv
<1>2. PICK W, at, lo, mid : Stream(W, at) /\ Scanning(W, at, lo, mid)
  BY DEF Inv
<1>3. W \in Seq(Byte)
  BY <1>2 DEF Stream, Placed
<1>4. PICK n \in Nat : n = Len(W)
  BY <1>3
<1>5. lo \in Nat /\ mid \in Nat /\ lo <= mid /\ mid <= n /\ NoPair(W, lo, mid)
  BY <1>2, <1>4 DEF Scanning
<1>6. pipe = SubSeq(W, mid + 1, n)
  BY <1>2, <1>4 DEF Scanning
<1>7. pipe \in Seq(Byte) /\ Len(pipe) = n - mid /\ \A i \in 1 .. n - mid : pipe[i] = W[mid + i]
  <2>1. n <= n
    OBVIOUS
  <2> QED
    BY <1>3, <1>4, <1>5, <1>6, <2>1, SubSeqFacts
<1>8. DOMAIN captured = 1 .. Len(captured) /\ DOMAIN source = 1 .. Len(source)
  BY <1>1 DEF EventsInOrder, Sources
<1>9. ASSUME NEW k \in 1 .. Len(source), k \notin broken, k \notin split
      PROVE  \/ \E i \in DOMAIN captured : IsSuffix(source[k], captured[i].data)
             \/ \E i \in DOMAIN pipe : pipe[i].of = k
  <2>1. at[k] >= lo \/ Reported(k)
    BY <1>2, <1>9 DEF Scanning
  <2>2. CASE Reported(k)
    <3>1. PICK c \in 1 .. Len(captured) : Last(captured[c].data).of = k
      BY <2>2 DEF Reported
    <3>2. Whole(captured[c].data)
      BY <1>1, <3>1 DEF EventsInOrder
    <3>3. IsSuffix(source[k], captured[c].data)
      BY <3>1, <3>2 DEF Whole
    <3> QED
      BY <1>8, <3>1, <3>3
  <2>3. CASE at[k] >= lo
    <3>1. PICK a, L : WrittenWhole(W, at, k, a, L)
      BY <1>1, <1>2, <1>9, WholeHasMarkers
    <3>2. /\ a \in Nat /\ L \in Nat /\ L >= 5 /\ a >= lo /\ a + L <= n
      BY <1>4, <2>3, <3>1 DEF WrittenWhole
    <3>3. /\ Marker(W, a + 1, "D8") /\ Marker(W, a + L - 1, "D9")
          /\ W[a + L].of = k
      BY <3>1 DEF WrittenWhole
    <3>4. ~(a + L <= mid)
      <4>1. SUFFICES ASSUME a + L <= mid
                     PROVE  FALSE
        OBVIOUS
      <4>2. /\ a + 1 \in lo + 1 .. mid - 1 /\ a + L - 1 \in lo + 1 .. mid - 1
            /\ (a + 1) + 2 <= a + L - 1
        BY <1>5, <3>2, <4>1
      <4> QED
        BY <1>5, <3>3, <4>2 DEF NoPair
    <3>5. PICK i : i = a + L - mid
      OBVIOUS
    <3>6. i \in 1 .. n - mid /\ mid + i = a + L
      BY <1>5, <3>2, <3>4, <3>5
    <3>7. i \in DOMAIN pipe /\ pipe[i].of = k
      <4>1. DOMAIN pipe = 1 .. n - mid
        BY <1>5, <1>7
      <4> QED
        BY <1>7, <3>3, <3>6, <4>1
    <3> QED
      BY <3>7
  <2> QED
    BY <2>1, <2>2, <2>3
<1> QED
  BY <1>8, <1>9 DEF LostOnlyWhenSplit

LEMMA InvInit == Init => Inv
<1> SUFFICES ASSUME Init
             PROVE  Inv
  OBVIOUS
<1>1. /\ source = <<>> /\ pipe = <<>> /\ buffer = <<>> /\ captured = <<>>
      /\ replaced = 0 /\ broken = {} /\ split = {}
  BY DEF Init
<1>2. \A S : <<>> \in Seq(S)
  OBVIOUS
<1>3. Len(<<>>) = 0 /\ 1 .. Len(<<>>) = {} /\ 1 .. 0 = {} /\ 0 + 1 .. 0 = {}
  OBVIOUS
<1>4. Sources
  BY <1>1, <1>2, <1>3, SplitterAssumption DEF Sources
<1>5. EventsInOrder
  BY <1>1, <1>2, <1>3 DEF EventsInOrder
<1>6. Counts
  BY <1>1, SplitterAssumption DEF Counts
<1> DEFINE at == [k \in Frame |-> 0]
<1>7. at \in [Frame -> Nat]
  OBVIOUS
<1> HIDE DEF at
<1>8. Stream(<<>>, at)
  BY <1>1, <1>2, <1>3, <1>7 DEF Stream, Placed, Ordered, Begun, Complete
<1>9. SubSeq(<<>>, 0 + 1, 0) = <<>>
  OBVIOUS
<1>10. NoPair(<<>>, 0, 0)
  BY DEF NoPair
<1>11. Scanning(<<>>, at, 0, 0)
  BY <1>1, <1>2, <1>3, <1>9, <1>10 DEF Scanning
<1> QED
  BY <1>4, <1>5, <1>6, <1>8, <1>11 DEF Inv

(* A whole frame remains one. *)
LEMMA WholeStays ==
  ASSUME \A k \in 1 .. Len(source) : k \in 1 .. Len(source)' /\ source'[k] = source[k],
         broken \subseteq broken',
         NEW data, Whole(data)
  PROVE  Whole(data)'
BY DEF Whole

(* cap has the N events there are and then one for each of the M frames. *)
Continued(cap, data, N, M) ==
  /\ N \in Nat /\ M \in Nat
  /\ cap \in Seq(Event) /\ Len(cap) = N + M
  /\ \A c \in 1 .. N : cap[c] = captured[c]
  /\ \A d \in 1 .. M : cap[N + d].sequence = N + d /\ cap[N + d].data = data[d]

LEMMA EventsAppended ==
  ASSUME captured \in Seq(Event), NEW data \in Seq(Seq(Byte)),
         NEW N, N = Len(captured), NEW M, M = Len(data),
         NEW cap, cap = captured \o Events(data)
  PROVE  Continued(cap, data, N, M)
<1>1. N \in Nat /\ M \in Nat
  OBVIOUS
<1>2. PICK events : events = Events(data)
  OBVIOUS
<1>3. events = [d \in 1 .. M |-> [sequence |-> N + d, data |-> data[d]]]
  BY <1>2 DEF Events
<1>4. ASSUME NEW d \in 1 .. M
      PROVE  [sequence |-> N + d, data |-> data[d]] \in Event
  <2>1. N + d \in Nat /\ data[d] \in Seq(Byte)
    BY <1>1
  <2> QED
    BY <2>1 DEF Event
<1>5. events \in Seq(Event)
  BY <1>1, <1>3, <1>4
<1>6. Len(events) = M
  BY <1>1, <1>3
<1>7. \A d \in 1 .. M : events[d].sequence = N + d /\ events[d].data = data[d]
  BY <1>3
<1>8. PICK old : old = captured
  OBVIOUS
<1>9. old \in Seq(Event)
  BY <1>8
<1>10. cap = old \o events
  BY <1>2, <1>8
<1>11. /\ cap \in Seq(Event) /\ Len(cap) = Len(old) + Len(events)
       /\ \A c \in 1 .. Len(old) : cap[c] = old[c]
       /\ \A c \in Len(old) + 1 .. Len(old) + Len(events) : cap[c] = events[c - Len(old)]
  BY <1>5, <1>9, <1>10, ConcatFacts
<1>12. Len(old) = N
  BY <1>8
<1>13. Len(cap) = N + M /\ (\A c \in 1 .. N : cap[c] = captured[c])
  BY <1>6, <1>8, <1>11, <1>12
<1>14. ASSUME NEW d \in 1 .. M
       PROVE  cap[N + d].sequence = N + d /\ cap[N + d].data = data[d]
  <2>1. N + d \in N + 1 .. N + M /\ (N + d) - N = d
    BY <1>1
  <2>2. cap[N + d] = events[d]
    BY <1>6, <1>11, <1>12, <2>1
  <2> QED
    BY <1>7, <2>2
<1> QED
  BY <1>1, <1>11, <1>13, <1>14 DEF Continued

(* Two parts of the stream, the second behind the first. *)
LEMMA PartsJoined ==
  ASSUME NEW W \in Seq(Byte), NEW lo \in Nat, NEW mid \in Nat, NEW m \in Nat,
         lo <= mid, mid <= m, m <= Len(W)
  PROVE  SubSeq(W, lo + 1, mid) \o SubSeq(W, mid + 1, m) = SubSeq(W, lo + 1, m)
<1>1. PICK a : a = SubSeq(W, lo + 1, mid)
  OBVIOUS
<1>2. PICK b : b = SubSeq(W, mid + 1, m)
  OBVIOUS
<1>3. mid <= Len(W)
  OBVIOUS
<1>4. a \in Seq(Byte) /\ Len(a) = mid - lo /\ \A i \in 1 .. mid - lo : a[i] = W[lo + i]
  BY <1>1, <1>3, SubSeqFacts
<1>5. b \in Seq(Byte) /\ Len(b) = m - mid /\ \A i \in 1 .. m - mid : b[i] = W[mid + i]
  BY <1>2, SubSeqFacts
<1>6. PICK c : c = a \o b
  OBVIOUS
<1>7. a \in Seq(Byte) /\ b \in Seq(Byte)
  BY <1>4, <1>5
<1>8. /\ c \in Seq(Byte) /\ Len(c) = Len(a) + Len(b)
      /\ \A i \in 1 .. Len(a) : c[i] = a[i]
      /\ \A i \in Len(a) + 1 .. Len(a) + Len(b) : c[i] = b[i - Len(a)]
  BY <1>6, <1>7, ConcatFacts
<1>9. Len(c) = m - lo
  BY <1>4, <1>5, <1>8
<1>10. ASSUME NEW i \in 1 .. m - lo
       PROVE  c[i] = W[lo + i]
  <2>1. CASE i <= mid - lo
    <3>1. i \in 1 .. mid - lo
      BY <2>1
    <3> QED
      BY <1>4, <1>8, <3>1
  <2>2. CASE ~(i <= mid - lo)
    <3>1. /\ i \in (mid - lo) + 1 .. (mid - lo) + (m - mid)
          /\ i - (mid - lo) \in 1 .. m - mid
          /\ mid + (i - (mid - lo)) = lo + i
      BY <2>2
    <3>2. c[i] = b[i - (mid - lo)]
      BY <1>4, <1>5, <1>8, <3>1
    <3> QED
      BY <1>5, <3>1, <3>2
  <2> QED
    BY <2>1, <2>2
<1>11. PICK d : d = SubSeq(W, lo + 1, m)
  OBVIOUS
<1>12. lo <= m
  OBVIOUS
<1>13. d \in Seq(Byte) /\ Len(d) = m - lo /\ \A i \in 1 .. m - lo : d[i] = W[lo + i]
  BY <1>11, <1>12, SubSeqFacts
<1>14. c = [i \in 1 .. m - lo |-> c[i]] /\ d = [i \in 1 .. m - lo |-> d[i]]
  BY <1>8, <1>9, <1>13
<1>15. c = d
  BY <1>10, <1>13, <1>14
<1> QED
  BY <1>1, <1>2, <1>6, <1>11, <1>15

(* The frames a chunk completes are reported after the others. *)
LEMMA EventsContinue ==
  ASSUME Sources, EventsInOrder, NEW W, NEW at, Stream(W, at),
         NEW lo \in Nat, NEW left \in Nat, lo <= left, left <= Len(W),
         \A c \in 1 .. Len(captured), i \in lo + 1 .. Len(W) :
            Last(captured[c].data).of < W[i].of,
         NEW data, CutInOrder(W, lo, left, data),
         captured' = captured \o Events(data), source' = source, broken' = broken
  PROVE  /\ EventsInOrder'
         /\ \A c \in 1 .. Len(captured'), i \in left + 1 .. Len(W) :
              Last(captured'[c].data).of < W[i].of
         /\ \A k : Reported(k) => Reported(k)'
         /\ \A k : (\E d \in 1 .. Len(data) : Last(data[d]).of = k) => Reported(k)'
<1>1. /\ captured \in Seq(Event)
      /\ \A c \in 1 .. Len(captured) : captured[c].sequence = c /\ Whole(captured[c].data)
      /\ \A c, d \in 1 .. Len(captured) :
           c < d => Last(captured[c].data).of < Last(captured[d].data).of
  BY DEF EventsInOrder
<1>2. /\ data \in Seq(Seq(Byte))
      /\ \A d \in 1 .. Len(data) :
           Whole(data[d]) /\ \E i \in lo + 1 .. left : Last(data[d]).of = W[i].of
      /\ \A c, d \in 1 .. Len(data) : c < d => Last(data[c]).of < Last(data[d]).of
      /\ \A d \in 1 .. Len(data), i \in left + 1 .. Len(W) : Last(data[d]).of < W[i].of
  BY DEF CutInOrder
<1>3. PICK N : N = Len(captured)
  OBVIOUS
<1>4. PICK M : M = Len(data)
  OBVIOUS
<1>5. PICK cap : cap = captured'
  OBVIOUS
<1>6. /\ N \in Nat /\ M \in Nat
      /\ cap \in Seq(Event) /\ Len(cap) = N + M
      /\ \A c \in 1 .. N : cap[c] = captured[c]
      /\ \A d \in 1 .. M : cap[N + d].sequence = N + d /\ cap[N + d].data = data[d]
  <2>1. cap = captured \o Events(data)
    BY <1>5
  <2>2. captured \in Seq(Event)
    BY <1>1
  <2>3. data \in Seq(Seq(Byte))
    BY <1>2
  <2>4. Continued(cap, data, N, M)
    BY <1>3, <1>4, <2>1, <2>2, <2>3, EventsAppended
  <2> QED
    BY <2>4 DEF Continued
<1>7. N \in Nat /\ M \in Nat
  BY <1>6
<1>8. PICK l \in Nat : l = Len(W)
  BY DEF Stream, Placed
<1>9. lo <= left /\ left <= l
  BY <1>8
\* every event is an old one or one of a frame cut now
<1>10. ASSUME NEW c \in 1 .. N + M
       PROVE  \/ c \in 1 .. N /\ cap[c] = captured[c]
              \/ \E d \in 1 .. M : c = N + d /\ cap[c].sequence = c /\ cap[c].data = data[d]
  <2>1. CASE c <= N
    <3>1. c \in 1 .. N
      BY <1>7, <2>1
    <3> QED
      BY <1>6, <3>1
  <2>2. CASE ~(c <= N)
    <3>1. PICK d : d = c - N
      OBVIOUS
    <3>2. d \in 1 .. M /\ c = N + d
      BY <1>7, <2>2, <3>1
    <3> QED
      BY <1>6, <3>2
  <2> QED
    BY <2>1, <2>2
<1>11. ASSUME NEW f, Whole(f)
       PROVE  Whole(f)'
  BY <1>11, WholeStays
<1>12. ASSUME NEW c \in 1 .. N + M
       PROVE  cap[c].sequence = c /\ Whole(cap[c].data)'
  BY <1>1, <1>2, <1>3, <1>4, <1>10, <1>11
<1>13. ASSUME NEW c \in 1 .. N + M, NEW d \in 1 .. N + M, c < d
       PROVE  Last(cap[c].data).of < Last(cap[d].data).of
  <2>1. CASE d \in 1 .. N /\ cap[d] = captured[d]
    <3>1. c \in 1 .. N
      BY <1>7, <1>13, <2>1
    <3>2. cap[c] = captured[c]
      BY <1>6, <3>1
    <3> QED
      BY <1>1, <1>3, <1>13, <2>1, <3>1, <3>2
  <2>2. ASSUME NEW q \in 1 .. M, d = N + q, cap[d].data = data[q]
        PROVE  Last(cap[c].data).of < Last(cap[d].data).of
    <3>1. CASE c \in 1 .. N /\ cap[c] = captured[c]
      <4>1. PICK i \in lo + 1 .. left : Last(data[q]).of = W[i].of
        BY <1>2, <1>4
      <4>2. i \in lo + 1 .. l
        BY <1>9
      <4> QED
        BY <1>3, <1>8, <2>2, <3>1, <4>1, <4>2
    <3>2. ASSUME NEW p \in 1 .. M, c = N + p, cap[c].data = data[p]
          PROVE  Last(cap[c].data).of < Last(cap[d].data).of
      <4>1. p < q
        BY <1>7, <1>13, <2>2, <3>2
      <4> QED
        BY <1>2, <1>4, <2>2, <3>2, <4>1
    <3> QED
      BY <1>10, <3>1, <3>2
  <2> QED
    BY <1>10, <2>1, <2>2
<1>14. ASSUME NEW c \in 1 .. N + M, NEW i \in left + 1 .. l
       PROVE  Last(cap[c].data).of < W[i].of
  <2>1. i \in lo + 1 .. l
    BY <1>9
  <2> QED
    BY <1>2, <1>3, <1>4, <1>8, <1>10, <2>1
<1>15. EventsInOrder'
  BY <1>5, <1>6, <1>12, <1>13 DEF EventsInOrder, Event
<1>16. ASSUME NEW k, Reported(k)
       PROVE  Reported(k)'
  <2>1. PICK c \in 1 .. N : Last(captured[c].data).of = k
    BY <1>3, <1>16 DEF Reported
  <2>2. c \in 1 .. N + M /\ cap[c] = captured[c]
    BY <1>6, <1>7
  <2> QED
    BY <1>5, <1>6, <2>1, <2>2 DEF Reported
<1>17. ASSUME NEW k, NEW d \in 1 .. M, Last(data[d]).of = k
       PROVE  Reported(k)'
  <2>1. N + d \in 1 .. N + M
    BY <1>7
  <2>2. Last(cap[N + d].data).of = k
    BY <1>6, <1>17
  <2> QED
    BY <1>5, <1>6, <2>1, <2>2 DEF Reported
<1> QED
  BY <1>4, <1>5, <1>6, <1>8, <1>14, <1>15, <1>16, <1>17

LEMMA OnDataStep ==
  ASSUME Inv, NEW n \in 1 .. Len(pipe), OnData(n)
  PROVE  Inv'
<1>1. Sources /\ EventsInOrder /\ Counts
  BY DEF Inv
<1>2. PICK W, at, lo, mid : Stream(W, at) /\ Scanning(W, at, lo, mid)
  BY DEF Inv
<1>3. W \in Seq(Byte)
  BY <1>2 DEF Stream, Placed
<1>4. PICK l \in Nat : l = Len(W)
  BY <1>3
<1>5. /\ lo \in Nat /\ mid \in Nat /\ lo <= mid /\ mid <= l
      /\ buffer = SubSeq(W, lo + 1, mid) /\ pipe = SubSeq(W, mid + 1, l)
      /\ \A c \in 1 .. Len(captured), i \in lo + 1 .. Len(W) :
           Last(captured[c].data).of < W[i].of
      /\ \A k \in 1 .. Len(source) :
           k \notin broken /\ k \notin split => at[k] >= lo \/ Reported(k)
  BY <1>2, <1>4 DEF Scanning
<1>6. lo \in Nat /\ mid \in Nat /\ lo <= mid /\ mid <= l /\ l <= l
  BY <1>5
<1>7. pipe \in Seq(Byte) /\ Len(pipe) = l - mid /\ \A i \in 1 .. l - mid : pipe[i] = W[mid + i]
  BY <1>3, <1>4, <1>5, <1>6, SubSeqFacts
<1>8. n \in Nat /\ 1 <= n /\ n <= l - mid
  BY <1>6, <1>7
<1>9. PICK m \in Nat : m = mid + n
  BY <1>6, <1>8
<1>10. lo <= m /\ mid <= m /\ m <= l
  BY <1>6, <1>8, <1>9
\* the buffer and the chunk are a part of the stream
<1>11. buffer \o SubSeq(pipe, 1, n) = SubSeq(W, lo + 1, m)
  <2>1. /\ 1 \in Nat /\ 1 <= n + 1 /\ mid + 1 = mid + 1 /\ m = mid + n
    BY <1>8, <1>9
  <2>2. SubSeq(pipe, 1, n) = SubSeq(W, mid + 1, m)
    BY <1>3, <1>4, <1>5, <1>6, <1>8, <2>1, SubSeqOfPart
  <2>3. SubSeq(W, lo + 1, mid) \o SubSeq(W, mid + 1, m) = SubSeq(W, lo + 1, m)
    BY <1>3, <1>4, <1>6, <1>10, PartsJoined
  <2> QED
    BY <1>5, <2>2, <2>3
<1>12. pipe' = SubSeq(W, m + 1, l)
  <2>1. PICK i \in Nat : i = n + 1
    BY <1>8
  <2>2. PICK j \in Nat : j = l - mid
    BY <1>6
  <2>3. 1 <= i /\ i <= j + 1 /\ j <= l - mid /\ m + 1 = mid + i /\ l = mid + j
    BY <1>6, <1>8, <1>9, <2>1, <2>2
  <2>4. SubSeq(pipe, i, j) = SubSeq(W, m + 1, l)
    <3>1. pipe = SubSeq(W, mid + 1, l) /\ l <= Len(W) /\ mid \in Nat /\ mid <= l
      BY <1>4, <1>5, <1>6
    <3> QED
      BY <1>3, <2>3, <3>1, SubSeqOfPart
  <2>5. pipe' = SubSeq(pipe, n + 1, Len(pipe))
    BY DEF OnData
  <2> QED
    BY <1>7, <2>1, <2>2, <2>4, <2>5
<1>13. PICK found : found = Cut[SubSeq(W, lo + 1, m)]
  OBVIOUS
<1>14. buffer' = found.rest /\ captured' = captured \o Events(found.data)
  BY <1>11, <1>13 DEF OnData, Frames
<1>15. source' = source /\ broken' = broken /\ replaced' = replaced
  BY DEF OnData
<1>16. split' = IF n < Len(pipe) /\ pipe[n].v = "FF" /\ pipe[n + 1].v = "D8"
                THEN split \cup {pipe[n].of} ELSE split
  BY DEF OnData
<1>17. Scanned(W, at, lo, m, found)
  BY <1>1, <1>2, <1>4, <1>6, <1>10, <1>13, ScanPart
<1>18. PICK left \in lo .. m :
         /\ found.rest = SubSeq(W, left + 1, m)
         /\ NoPair(W, left, m)
         /\ CutInOrder(W, lo, left, found.data)
         /\ NoneMissed(at, lo, left, m, found.data)
  BY <1>17 DEF Scanned
<1>19. left \in Nat /\ lo <= left /\ left <= m /\ left <= l
  BY <1>6, <1>10
<1>20. /\ EventsInOrder'
       /\ \A c \in 1 .. Len(captured'), i \in left + 1 .. Len(W) :
            Last(captured'[c].data).of < W[i].of
       /\ \A k : Reported(k) => Reported(k)'
       /\ \A k : (\E d \in 1 .. Len(found.data) : Last(found.data[d]).of = k) => Reported(k)'
  <2>1. left <= Len(W)
    BY <1>4, <1>19
  <2>2. \A c \in 1 .. Len(captured), i \in lo + 1 .. Len(W) :
          Last(captured[c].data).of < W[i].of
    BY <1>5
  <2>3. CutInOrder(W, lo, left, found.data)
    BY <1>18
  <2>4. captured' = captured \o Events(found.data)
    BY <1>14
  <2> QED
    BY <1>1, <1>2, <1>6, <1>15, <1>19, <2>1, <2>2, <2>3, <2>4, EventsContinue
\* a frame is behind what was taken, or reported, or split by this chunk
<1>21. ASSUME NEW k \in 1 .. Len(source), k \notin broken, k \notin split'
       PROVE  at[k] >= left \/ Reported(k)'
  <2>1. k \notin split
    BY <1>16, <1>21
  <2>2. at[k] >= lo \/ Reported(k)
    BY <1>5, <1>21, <2>1
  <2>3. CASE Reported(k)
    BY <1>20, <2>3
  <2>4. CASE at[k] >= lo
    <3>1. \/ at[k] >= left
          \/ at[k] + 1 = m
          \/ \E d \in 1 .. Len(found.data) : Last(found.data[d]).of = k
      BY <1>18, <1>21, <2>4 DEF NoneMissed
    <3>2. ~(at[k] + 1 = m)
      <4>1. PICK a, L : WrittenWhole(W, at, k, a, L)
        BY <1>1, <1>2, <1>21, WholeHasMarkers
      <4>2. a \in Nat /\ a = at[k] /\ L \in Nat /\ L >= 5 /\ a + L <= l
        BY <1>4, <4>1 DEF WrittenWhole
      <4>3. Marker(W, a + 1, "D8") /\ W[a + 1].of = k
        BY <4>1 DEF WrittenWhole
      <4>4. SUFFICES ASSUME a + 1 = m
                     PROVE  FALSE
        BY <4>2
      <4>5. n < l - mid /\ n \in 1 .. l - mid /\ n + 1 \in 1 .. l - mid
            /\ mid + n = m /\ mid + (n + 1) = m + 1
        BY <1>6, <1>8, <1>9, <4>2, <4>4
      <4>6. pipe[n] = W[m] /\ pipe[n + 1] = W[m + 1]
        BY <1>7, <4>5
      <4>7. W[m].v = "FF" /\ W[m + 1].v = "D8" /\ W[m].of = k
        BY <4>3, <4>4 DEF Marker
      <4>8. n < Len(pipe)
        BY <1>7, <4>5
      <4>9. k \in split'
        BY <1>16, <4>6, <4>7, <4>8
      <4> QED
        BY <1>21, <4>9
    <3> QED
      BY <1>20, <3>1, <3>2
  <2> QED
    BY <2>2, <2>3, <2>4
<1>22. Stream(W, at)'
  BY <1>2, <1>15 DEF Stream, Placed, Ordered, Begun, Complete
<1>23. Scanning(W, at, left, m)'
  <2>1. buffer' = SubSeq(W, left + 1, m) /\ pipe' = SubSeq(W, m + 1, Len(W))
    BY <1>4, <1>12, <1>14, <1>18
  <2>2. m <= Len(W)
    BY <1>4, <1>10
  <2> QED
    BY <1>15, <1>18, <1>19, <1>20, <1>21, <2>1, <2>2 DEF Scanning
<1>24. Counts'
  <2>1. n \in 1 .. l - mid
    BY <1>8, <1>6
  <2>2. pipe[n].of \in Frame
    <3>1. pipe[n] \in Byte
      BY <1>7, <2>1
    <3> QED
      BY <3>1 DEF Byte
  <2> QED
    BY <1>1, <1>15, <1>16, <2>2 DEF Counts
<1>25. Sources'
  BY <1>1, <1>15 DEF Sources
<1> QED
  BY <1>20, <1>22, <1>23, <1>24, <1>25 DEF Inv

(* The stream V is W with frame k behind it, and so is the source. *)
Extended(W, at, V, bt, l, k) ==
  /\ l \in Nat /\ l <= Len(V)
  /\ \A i \in 1 .. l : V[i] = W[i]
  /\ \A i \in l + 1 .. Len(V) : V[i].of = k
  /\ bt[k] = l /\ \A h \in 1 .. Len(source) : bt[h] = at[h]
  /\ Len(source)' = Len(source) + 1
  /\ \A h \in 1 .. Len(source) : h \in 1 .. Len(source)' /\ source'[h] = source[h]

LEMMA StreamExtended ==
  ASSUME Sources, NEW W, NEW at, Stream(W, at),
         NEW k \in Frame, k = Len(source) + 1,
         NEW jpeg, IsJpeg(jpeg, k), source' = Append(source, jpeg), broken' = broken,
         NEW l, l = Len(W),
         NEW V, V = W \o jpeg, NEW bt, bt = [at EXCEPT ![k] = l]
  PROVE  Sources' /\ Stream(V, bt)' /\ Extended(W, at, V, bt, l, k)
<1>1. W \in Seq(Byte) /\ at \in [Frame -> Nat]
  BY DEF Stream, Placed
<1>2. PICK s : s = Len(source)
  OBVIOUS
<1>3. s \in Nat /\ k = s + 1 /\ k \in Nat /\ k <= MaxFrames /\ l \in Nat
  BY <1>1, <1>2, SplitterAssumption DEF Sources, Frame
<1>4. PICK j : j = Len(jpeg)
  OBVIOUS
<1>5. jpeg \in Seq(Byte) /\ j \in Nat /\ j >= 5 /\ \A p \in 1 .. j : jpeg[p].of = k
  BY <1>4 DEF IsJpeg
<1>6. jpeg \in Seq(Byte)
  BY <1>5
<1>7. /\ V \in Seq(Byte) /\ Len(V) = Len(W) + Len(jpeg)
      /\ \A i \in 1 .. Len(W) : V[i] = W[i]
      /\ \A i \in Len(W) + 1 .. Len(W) + Len(jpeg) : V[i] = jpeg[i - Len(W)]
  BY <1>1, <1>6, ConcatFacts
<1>8. /\ V \in Seq(Byte) /\ Len(V) = l + j
      /\ \A i \in 1 .. l : V[i] = W[i]
      /\ \A i \in l + 1 .. l + j : V[i] = jpeg[i - l]
  BY <1>4, <1>7
<1>9. ASSUME NEW i \in l + 1 .. l + j
      PROVE  V[i].of = k
  <2>1. i - l \in 1 .. j
    BY <1>3, <1>5
  <2> QED
    BY <1>5, <1>8, <2>1
<1>10. bt \in [Frame -> Nat] /\ bt[k] = l /\ \A h \in Frame : h # k => bt[h] = at[h]
  BY <1>1, <1>3
<1>11. PICK src : src = source'
  OBVIOUS
<1>12. /\ src \in Seq(Seq(Byte)) /\ Len(src) = s + 1 /\ src[k] = jpeg
       /\ \A h \in 1 .. s : src[h] = source[h]
  <2>1. source \in Seq(Seq(Byte))
    BY DEF Sources
  <2>2. src = Append(source, jpeg)
    BY <1>11
  <2> QED
    BY <1>2, <1>3, <1>6, <2>1, <2>2
<1>13. \A h \in 1 .. s : h \in Frame /\ h # k /\ h \in 1 .. s + 1 /\ h < k
  BY <1>3, SplitterAssumption DEF Frame
<1>14. \A h \in 1 .. s + 1 : h \in 1 .. s \/ h = k
  BY <1>3
<1>15. Sources'
  <2>1. \A h \in 1 .. s + 1 : IsJpeg(src[h], h)
    BY <1>2, <1>12, <1>14 DEF Sources
  <2>2. s + 1 <= MaxFrames
    BY <1>3
  <2> QED
    BY <1>11, <1>12, <2>1, <2>2 DEF Sources
\* the old bytes are of old frames
<1>16. ASSUME NEW i \in 1 .. l
       PROVE  /\ V[i] = W[i] /\ V[i].of \in 1 .. s
              /\ V[i].of \in 1 .. s + 1
              /\ i - bt[V[i].of] \in 1 .. Len(src[V[i].of])
              /\ V[i] = src[V[i].of][i - bt[V[i].of]]
  <2>1. PICK h : h = W[i].of
    OBVIOUS
  <2>2. /\ h \in 1 .. s /\ i - at[h] \in 1 .. Len(source[h])
        /\ W[i] = source[h][i - at[h]]
    BY <1>2, <2>1, ByteFacts
  <2>3. bt[h] = at[h] /\ src[h] = source[h] /\ h \in 1 .. s + 1
    BY <1>10, <1>12, <1>13, <2>2
  <2> QED
    BY <1>8, <2>1, <2>2, <2>3
<1>17. ASSUME NEW i \in l + 1 .. l + j
       PROVE  /\ V[i].of \in 1 .. s + 1
              /\ i - bt[V[i].of] \in 1 .. Len(src[V[i].of])
              /\ V[i] = src[V[i].of][i - bt[V[i].of]]
  <2>1. k \in 1 .. s + 1
    BY <1>3
  <2>2. V[i].of = k /\ k \in 1 .. s + 1
    BY <1>9, <2>1
  <2>3. i - l \in 1 .. j
    BY <1>3, <1>5
  <2> QED
    BY <1>4, <1>8, <1>10, <1>12, <2>2, <2>3
<1>18. \A i \in 1 .. l + j : i \in 1 .. l \/ i \in l + 1 .. l + j
  BY <1>3, <1>5
<1>19. Placed(V, bt)'
  <2>1. \A i \in 1 .. l + j :
          /\ V[i].of \in 1 .. s + 1
          /\ i - bt[V[i].of] \in 1 .. Len(src[V[i].of])
          /\ V[i] = src[V[i].of][i - bt[V[i].of]]
    BY <1>16, <1>17, <1>18
  <2> QED
    BY <1>8, <1>10, <1>11, <1>12, <2>1 DEF Placed
<1>20. Ordered(V)
  <2>1. ASSUME NEW i \in 1 .. l + j, NEW p \in 1 .. l + j, i <= p
        PROVE  V[i].of <= V[p].of
    <3>1. CASE p \in 1 .. l
      <4>1. i \in 1 .. l
        BY <2>1, <3>1, <1>3, <1>5
      <4>2. W[i].of <= W[p].of
        BY <2>1, <3>1, <4>1 DEF Stream, Ordered
      <4> QED
        BY <1>8, <3>1, <4>1, <4>2
    <3>2. CASE p \in l + 1 .. l + j
      <4>1. V[p].of = k
        BY <1>9, <3>2
      <4>2. V[i].of \in 1 .. s \/ V[i].of = k
        BY <1>9, <1>16, <1>18
      <4>3. PICK h : h = V[i].of
        OBVIOUS
      <4>4. h \in 1 .. s \/ h = k
        BY <4>2, <4>3
      <4>5. h <= k
        BY <1>3, <4>4
      <4> QED
        BY <4>1, <4>3, <4>5
    <3> QED
      BY <1>18, <3>1, <3>2
  <2> QED
    BY <1>8, <2>1 DEF Ordered
<1>21. Begun(V, bt)
  <2>1. ASSUME NEW i \in 1 .. l + j, NEW p \in 1 .. l + j, bt[V[i].of] < p, p <= i
        PROVE  V[p].of = V[i].of
    <3>1. CASE i \in 1 .. l
      <4>1. p \in 1 .. l
        BY <2>1, <3>1, <1>3, <1>5
      <4>2. V[i] = W[i] /\ V[p] = W[p] /\ V[i].of \in 1 .. s
        BY <1>8, <1>16, <3>1, <4>1
      <4>3. at[W[i].of] < p
        BY <1>10, <1>13, <2>1, <4>2
      <4>4. W[p].of = W[i].of
        BY <2>1, <3>1, <4>1, <4>3 DEF Stream, Begun
      <4> QED
        BY <4>2, <4>4
    <3>2. CASE i \in l + 1 .. l + j
      <4>1. V[i].of = k
        BY <1>9, <3>2
      <4>2. l < p
        BY <1>10, <2>1, <4>1
      <4>3. p \in l + 1 .. l + j
        BY <1>3, <1>5, <4>2
      <4> QED
        BY <1>9, <4>1, <4>3
    <3> QED
      BY <1>18, <3>1, <3>2
  <2> QED
    BY <1>8, <2>1 DEF Begun
<1>22. Complete(V, bt)'
  <2>1. ASSUME NEW h \in 1 .. s, h \notin broken
        PROVE  /\ bt[h] + Len(src[h]) <= l + j
               /\ \A p \in 1 .. Len(src[h]) : V[bt[h] + p] = src[h][p]
    <3>1. PICK a \in Nat : a = at[h]
      BY <1>1, <1>13
    <3>2. h \in 1 .. Len(source)
      BY <1>2
    <3>3. PICK L \in Nat : L = Len(source[h])
      BY <3>2, SourceFacts
    <3>4. a + L <= l /\ \A p \in 1 .. L : W[a + p] = source[h][p]
      BY <2>1, <3>1, <3>2, <3>3 DEF Stream, Complete
    <3>5. bt[h] = a /\ src[h] = source[h]
      BY <1>10, <1>12, <1>13, <3>1
    <3>6. a + L <= l + j
      BY <1>3, <1>5, <3>4
    <3>7. ASSUME NEW p \in 1 .. L
          PROVE  V[a + p] = source[h][p]
      <4>1. a + p \in 1 .. l
        BY <1>3, <3>4
      <4> QED
        BY <1>8, <3>4, <4>1
    <3> QED
      BY <3>3, <3>5, <3>6, <3>7
  <2>2. /\ bt[k] + Len(src[k]) <= l + j
        /\ \A p \in 1 .. Len(src[k]) : V[bt[k] + p] = src[k][p]
    <3>1. bt[k] = l /\ src[k] = jpeg /\ Len(src[k]) = j /\ l + j <= l + j
      BY <1>3, <1>4, <1>5, <1>10, <1>12
    <3>2. ASSUME NEW p \in 1 .. j
          PROVE  V[l + p] = jpeg[p]
      <4>1. l + p \in l + 1 .. l + j /\ (l + p) - l = p
        BY <1>3, <1>5
      <4> QED
        BY <1>8, <4>1
    <3> QED
      BY <3>1, <3>2
  <2>3. \A h \in 1 .. s + 1 : h \notin broken =>
          /\ bt[h] + Len(src[h]) <= l + j
          /\ \A p \in 1 .. Len(src[h]) : V[bt[h] + p] = src[h][p]
    BY <1>14, <2>1, <2>2
  <2>4. Len(V) = l + j /\ Len(src) = s + 1
    BY <1>8, <1>12
  <2>5. \A h \in 1 .. Len(src) : h \notin broken =>
          /\ bt[h] + Len(src[h]) <= Len(V)
          /\ \A p \in 1 .. Len(src[h]) : V[bt[h] + p] = src[h][p]
    BY <2>3, <2>4
  <2>6. ASSUME NEW h \in 1 .. Len(source'), h \notin broken'
        PROVE  /\ bt[h] + Len(source'[h]) <= Len(V)
               /\ \A p \in 1 .. Len(source'[h]) : V[bt[h] + p] = source'[h][p]
    <3>1. h \in 1 .. Len(src) /\ h \notin broken
      BY <1>11, <2>6
    <3>2. PICK f : f = src[h]
      OBVIOUS
    <3>3. bt[h] + Len(f) <= Len(V) /\ \A p \in 1 .. Len(f) : V[bt[h] + p] = f[p]
      BY <2>5, <3>1, <3>2
    <3>4. f = source'[h]
      BY <1>11, <3>2
    <3> QED
      BY <3>3, <3>4
  <2> QED
    BY <2>6 DEF Complete
<1>23. Stream(V, bt)'
  BY <1>19, <1>20, <1>21, <1>22 DEF Stream, Ordered, Begun
<1>24. l <= l + j
  BY <1>3, <1>5
<1> QED
  BY <1>2, <1>3, <1>8, <1>9, <1>10, <1>11, <1>12, <1>13, <1>15, <1>23, <1>24 DEF Extended

(* What was delivered is the same in two streams that begin alike. *)
LEMMA SamePart ==
  ASSUME NEW W \in Seq(Byte), NEW V \in Seq(Byte),
         NEW lo \in Nat, NEW m \in Nat, NEW l \in Nat,
         lo <= m, m <= l, l <= Len(W), l <= Len(V), \A i \in 1 .. l : V[i] = W[i]
  PROVE  /\ SubSeq(V, lo + 1, m) = SubSeq(W, lo + 1, m)
         /\ NoPair(W, lo, m) => NoPair(V, lo, m)
<1>1. m <= Len(W) /\ m <= Len(V)
  OBVIOUS
<1>2. PICK a : a = SubSeq(W, lo + 1, m)
  OBVIOUS
<1>3. PICK b : b = SubSeq(V, lo + 1, m)
  OBVIOUS
<1>4. a \in Seq(Byte) /\ Len(a) = m - lo /\ \A i \in 1 .. m - lo : a[i] = W[lo + i]
  BY <1>1, <1>2, SubSeqFacts
<1>5. b \in Seq(Byte) /\ Len(b) = m - lo /\ \A i \in 1 .. m - lo : b[i] = V[lo + i]
  BY <1>1, <1>3, SubSeqFacts
<1>6. \A i \in 1 .. m - lo : lo + i \in 1 .. l
  OBVIOUS
<1>7. \A i \in 1 .. m - lo : a[i] = b[i]
  BY <1>4, <1>5, <1>6
<1>8. a = [i \in 1 .. m - lo |-> a[i]] /\ b = [i \in 1 .. m - lo |-> b[i]]
  BY <1>4, <1>5
<1>9. a = b
  BY <1>7, <1>8
<1>10. ASSUME NEW y \in lo + 1 .. m - 1, NEW second
       PROVE  Marker(V, y, second) <=> Marker(W, y, second)
  <2>1. y \in 1 .. l /\ y + 1 \in 1 .. l
    OBVIOUS
  <2> QED
    BY <2>1 DEF Marker
<1>11. NoPair(W, lo, m) => NoPair(V, lo, m)
  BY <1>10 DEF NoPair
<1> QED
  BY <1>2, <1>3, <1>9, <1>11

(* Events remain in order while the source grows and frames break. *)
LEMMA EventsStay ==
  ASSUME EventsInOrder, captured' = captured, broken \subseteq broken',
         \A k \in 1 .. Len(source) : k \in 1 .. Len(source)' /\ source'[k] = source[k]
  PROVE  EventsInOrder' /\ \A k : Reported(k) => Reported(k)'
<1>1. ASSUME NEW data, Whole(data)
      PROVE  Whole(data)'
  BY <1>1, WholeStays
<1>2. EventsInOrder'
  BY <1>1 DEF EventsInOrder, Event
<1>3. \A k : Reported(k) => Reported(k)'
  BY DEF Reported
<1> QED
  BY <1>2, <1>3

LEMMA WriteFrameStep ==
  ASSUME Inv, WriteFrame
  PROVE  Inv'
<1>1. Sources /\ EventsInOrder /\ Counts
  BY DEF Inv
<1>2. PICK W, at, lo, mid : Stream(W, at) /\ Scanning(W, at, lo, mid)
  BY DEF Inv
<1>3. W \in Seq(Byte)
  BY <1>2 DEF Stream, Placed
<1>4. PICK l \in Nat : l = Len(W)
  BY <1>3
<1>5. /\ lo \in Nat /\ mid \in Nat /\ lo <= mid /\ mid <= l
      /\ buffer = SubSeq(W, lo + 1, mid) /\ pipe = SubSeq(W, mid + 1, l)
      /\ NoPair(W, lo, mid)
      /\ \A c \in 1 .. Len(captured), i \in lo + 1 .. l :
           Last(captured[c].data).of < W[i].of
      /\ \A k \in 1 .. Len(source) :
           k \notin broken /\ k \notin split => at[k] >= lo \/ Reported(k)
  BY <1>2, <1>4 DEF Scanning
<1>6. lo \in Nat /\ mid \in Nat /\ lo <= mid /\ mid <= l
  BY <1>5
<1>7. PICK k : k = Len(source) + 1
  OBVIOUS
<1>8. PICK s \in Nat : s = Len(source)
  BY <1>1 DEF Sources
<1>9. k = s + 1 /\ k \in Frame
  <2>1. s < MaxFrames
    BY <1>8 DEF WriteFrame
  <2> QED
    BY <1>7, <1>8, <2>1, SplitterAssumption DEF Frame
<1>10. PICK body \in Bodies :
         /\ source' = Append(source, Jpeg(k, body))
         /\ pipe' = pipe \o Jpeg(k, body)
  BY <1>7 DEF WriteFrame
<1>11. PICK jpeg : jpeg = Jpeg(k, body)
  OBVIOUS
<1>12. IsJpeg(jpeg, k)
  BY <1>9, <1>11, JpegShape
<1>13. /\ source' = Append(source, jpeg) /\ pipe' = pipe \o jpeg /\ broken' = broken
       /\ buffer' = buffer /\ captured' = captured /\ split' = split /\ replaced' = replaced
  BY <1>10, <1>11 DEF WriteFrame
<1>14. PICK V : V = W \o jpeg
  OBVIOUS
<1>15. PICK bt : bt = [at EXCEPT ![k] = l]
  OBVIOUS
<1>16. /\ Sources' /\ Stream(V, bt)'
       /\ l <= Len(V)
       /\ \A i \in 1 .. l : V[i] = W[i]
       /\ \A i \in l + 1 .. Len(V) : V[i].of = k
       /\ bt[k] = l /\ \A h \in 1 .. Len(source) : bt[h] = at[h]
       /\ Len(source)' = Len(source) + 1
       /\ \A h \in 1 .. Len(source) : h \in 1 .. Len(source)' /\ source'[h] = source[h]
  <2>1. source' = Append(source, jpeg) /\ broken' = broken
    BY <1>13
  <2>2. k \in Frame
    BY <1>9
  <2>3. Sources' /\ Stream(V, bt)' /\ Extended(W, at, V, bt, l, k)
    BY <1>1, <1>2, <1>4, <1>7, <1>12, <1>14, <1>15, <2>1, <2>2, StreamExtended
  <2> QED
    BY <2>3 DEF Extended
<1>17. V \in Seq(Byte)
  BY <1>16 DEF Stream, Placed
<1>18. PICK n \in Nat : n = Len(V)
  BY <1>17
<1>19. l <= n /\ l <= Len(W) /\ l <= Len(V) /\ n <= n
  BY <1>4, <1>16, <1>18
<1>20. \A i \in 1 .. l : V[i] = W[i]
  BY <1>16
<1>21. buffer' = SubSeq(V, lo + 1, mid) /\ NoPair(V, lo, mid)
  <2>1. /\ SubSeq(V, lo + 1, mid) = SubSeq(W, lo + 1, mid)
        /\ NoPair(W, lo, mid) => NoPair(V, lo, mid)
    BY <1>3, <1>6, <1>17, <1>19, <1>20, SamePart
  <2> QED
    BY <1>5, <1>13, <2>1
<1>22. pipe' = SubSeq(V, mid + 1, n)
  <2>1. SubSeq(V, mid + 1, l) = pipe
    <3>1. SubSeq(V, mid + 1, l) = SubSeq(W, mid + 1, l)
      <4>1. l <= l
        OBVIOUS
      <4> QED
        BY <1>3, <1>6, <1>17, <1>19, <1>20, <4>1, SamePart
    <3> QED
      BY <1>5, <3>1
  <2>2. SubSeq(V, l + 1, n) = jpeg
    <3>1. PICK b : b = SubSeq(V, l + 1, n)
      OBVIOUS
    <3>2. b \in Seq(Byte) /\ Len(b) = n - l /\ \A i \in 1 .. n - l : b[i] = V[l + i]
      <4>1. n <= Len(V)
        BY <1>18
      <4> QED
        BY <1>17, <1>19, <3>1, <4>1, SubSeqFacts
    <3>3. PICK j \in Nat : j = Len(jpeg)
      BY <1>12 DEF IsJpeg
    <3>4. jpeg \in Seq(Byte)
      BY <1>12 DEF IsJpeg
    <3>5. /\ Len(V) = Len(W) + Len(jpeg)
          /\ \A i \in Len(W) + 1 .. Len(W) + Len(jpeg) : V[i] = jpeg[i - Len(W)]
      BY <1>3, <1>14, <3>4, ConcatFacts
    <3>6. n = l + j /\ \A i \in l + 1 .. l + j : V[i] = jpeg[i - l]
      BY <1>4, <1>18, <3>3, <3>5
    <3>7. ASSUME NEW i \in 1 .. j
          PROVE  b[i] = jpeg[i]
      <4>1. l + i \in l + 1 .. l + j /\ (l + i) - l = i /\ i \in 1 .. n - l
        BY <3>6
      <4> QED
        BY <3>2, <3>6, <4>1
    <3>8. n - l = j
      BY <3>6
    <3>9. b = [i \in 1 .. j |-> b[i]] /\ jpeg = [i \in 1 .. j |-> jpeg[i]]
      BY <3>2, <3>3, <3>4, <3>8
    <3> QED
      BY <3>1, <3>7, <3>9
  <2>3. SubSeq(V, mid + 1, l) \o SubSeq(V, l + 1, n) = SubSeq(V, mid + 1, n)
    <3>1. n <= Len(V)
      BY <1>18
    <3> QED
      BY <1>6, <1>17, <1>19, <3>1, PartsJoined
  <2> QED
    BY <1>13, <2>1, <2>2, <2>3
<1>23. EventsInOrder' /\ \A h : Reported(h) => Reported(h)'
  <2>1. broken \subseteq broken' /\ captured' = captured
    BY <1>13
  <2>2. \A h \in 1 .. Len(source) : h \in 1 .. Len(source)' /\ source'[h] = source[h]
    BY <1>16
  <2> QED
    BY <1>1, <2>1, <2>2, EventsStay
<1>24. ASSUME NEW c \in 1 .. Len(captured), NEW i \in lo + 1 .. n
       PROVE  Last(captured[c].data).of < V[i].of
  <2>1. CASE i <= l
    <3>1. i \in lo + 1 .. l /\ i \in 1 .. l
      BY <1>6, <2>1
    <3> QED
      BY <1>5, <1>20, <3>1
  <2>2. CASE ~(i <= l)
    <3>1. i \in l + 1 .. n
      BY <1>6, <2>2
    <3>2. V[i].of = k
      BY <1>16, <1>18, <3>1
    <3>3. PICK h : h = Last(captured[c].data).of
      OBVIOUS
    <3>4. h \in 1 .. s
      BY <1>1, <1>8, <3>3 DEF EventsInOrder, Whole
    <3>5. h < k
      BY <1>9, <3>4
    <3> QED
      BY <3>2, <3>3, <3>5
  <2> QED
    BY <2>1, <2>2
<1>25. ASSUME NEW h \in 1 .. s + 1, h \notin broken, h \notin split
       PROVE  bt[h] >= lo \/ Reported(h)'
  <2>1. CASE h \in 1 .. s
    BY <1>5, <1>8, <1>16, <1>23, <1>25, <2>1
  <2>2. CASE h = k
    BY <1>6, <1>16, <2>2
  <2>3. h \in 1 .. s \/ h = k
    BY <1>9
  <2> QED
    BY <2>1, <2>2, <2>3
<1>26. Scanning(V, bt, lo, mid)'
  <2>1. mid <= Len(V) /\ pipe' = SubSeq(V, mid + 1, Len(V))
    BY <1>6, <1>18, <1>19, <1>22
  <2>2. \A c \in 1 .. Len(captured'), i \in lo + 1 .. Len(V) :
          Last(captured'[c].data).of < V[i].of
    BY <1>13, <1>18, <1>24
  <2>3. Len(source') = s + 1
    BY <1>8, <1>16
  <2>4. \A h \in 1 .. Len(source') :
          h \notin broken' /\ h \notin split' => bt[h] >= lo \/ Reported(h)'
    BY <1>13, <1>25, <2>3
  <2> QED
    BY <1>6, <1>21, <2>1, <2>2, <2>4 DEF Scanning
<1>27. Counts'
  BY <1>1, <1>13 DEF Counts
<1> QED
  BY <1>16, <1>23, <1>26, <1>27 DEF Inv

LEMMA ProcessReplacedStep ==
  ASSUME Inv, ProcessReplaced
  PROVE  Inv'
<1>1. Sources /\ EventsInOrder /\ Counts
  BY DEF Inv
<1>2. PICK W, at, lo, mid : Stream(W, at) /\ Scanning(W, at, lo, mid)
  BY DEF Inv
<1>3. W \in Seq(Byte) /\ at \in [Frame -> Nat]
  BY <1>2 DEF Stream, Placed
<1>4. PICK l \in Nat : l = Len(W)
  BY <1>3
<1>5. /\ lo \in Nat /\ mid \in Nat /\ lo <= mid /\ mid <= l
      /\ buffer = SubSeq(W, lo + 1, mid) /\ pipe = SubSeq(W, mid + 1, l)
      /\ NoPair(W, lo, mid)
      /\ \A c \in 1 .. Len(captured), i \in lo + 1 .. l :
           Last(captured[c].data).of < W[i].of
      /\ \A k \in 1 .. Len(source) :
           k \notin broken /\ k \notin split => at[k] >= lo \/ Reported(k)
  BY <1>2, <1>4 DEF Scanning
<1>6. lo \in Nat /\ mid \in Nat /\ lo <= mid /\ mid <= l /\ l <= l /\ l <= Len(W)
  BY <1>4, <1>5
<1>7. pipe \in Seq(Byte) /\ Len(pipe) = l - mid /\ \A i \in 1 .. l - mid : pipe[i] = W[mid + i]
  BY <1>3, <1>5, <1>6, SubSeqFacts
<1>8. PICK n \in 0 .. Len(pipe) :
        /\ pipe' = SubSeq(pipe, 1, n)
        /\ broken' = broken \cup {pipe[i].of : i \in n + 1 .. Len(pipe)}
  BY DEF ProcessReplaced
<1>9. /\ source' = source /\ buffer' = buffer /\ captured' = captured /\ split' = split
      /\ replaced < MaxReplaced /\ replaced' = replaced + 1
  BY DEF ProcessReplaced
<1>10. n \in Nat /\ n <= l - mid
  BY <1>6, <1>7
<1>11. PICK m \in Nat : m = mid + n
  BY <1>6, <1>10
<1>12. mid <= m /\ m <= l /\ 0 <= m
  BY <1>6, <1>10, <1>11
<1>13. PICK V : V = SubSeq(W, 1, m)
  OBVIOUS
<1>14. V \in Seq(Byte) /\ Len(V) = m /\ \A i \in 1 .. m : V[i] = W[i]
  <2>1. m <= Len(W) /\ 0 \in Nat /\ 0 + 1 = 1 /\ m - 0 = m /\ \A i \in 1 .. m : 0 + i = i
    BY <1>6, <1>12
  <2>2. PICK zero \in Nat : zero = 0
    BY <2>1
  <2>3. V = SubSeq(W, zero + 1, m) /\ zero <= m
    BY <1>12, <1>13, <2>2
  <2>4. V \in Seq(Byte) /\ Len(V) = m - zero /\ \A i \in 1 .. m - zero : V[i] = W[zero + i]
    BY <1>3, <2>1, <2>3, SubSeqFacts
  <2> QED
    BY <2>1, <2>2, <2>4
<1>15. V \in Seq(Byte) /\ m <= Len(W) /\ m <= Len(V) /\ m <= m
  BY <1>6, <1>12, <1>14
<1>16. \A i \in 1 .. m : V[i] = W[i]
  BY <1>14
\* a byte that was lost was of a frame that is broken now
<1>17. ASSUME NEW i \in m + 1 .. l
       PROVE  W[i].of \in broken'
  <2>1. PICK j : j = i - mid
    OBVIOUS
  <2>2. j \in n + 1 .. l - mid /\ j \in 1 .. l - mid /\ mid + j = i
    BY <1>6, <1>10, <1>11, <2>1
  <2>3. pipe[j] = W[i] /\ j \in n + 1 .. Len(pipe)
    BY <1>7, <2>2
  <2> QED
    BY <1>8, <2>3
<1>18. broken \subseteq broken' /\ broken' \subseteq Frame
  <2>1. ASSUME NEW i \in n + 1 .. Len(pipe)
        PROVE  pipe[i].of \in Frame
    <3>1. i \in 1 .. Len(pipe)
      BY <1>6, <1>7, <1>10
    <3>2. pipe[i] \in Byte
      BY <1>7, <3>1
    <3> QED
      BY <3>2 DEF Byte
  <2>2. broken \subseteq Frame
    BY <1>1 DEF Counts
  <2> QED
    BY <1>8, <2>1, <2>2
<1>19. \A i \in 1 .. m : i \in 1 .. Len(W)
  BY <1>4, <1>12
<1>20. Placed(V, at)'
  <2>1. Placed(W, at)
    BY <1>2 DEF Stream
  <2>2. \A i \in 1 .. m :
          /\ V[i].of \in 1 .. Len(source)
          /\ i - at[V[i].of] \in 1 .. Len(source[V[i].of])
          /\ V[i] = source[V[i].of][i - at[V[i].of]]
    BY <1>16, <1>19, <2>1 DEF Placed
  <2> QED
    BY <1>3, <1>9, <1>14, <2>2 DEF Placed
<1>21. Ordered(V)
  <2>1. Ordered(W)
    BY <1>2 DEF Stream
  <2>2. \A i, j \in 1 .. m : i <= j => V[i].of <= V[j].of
    BY <1>16, <1>19, <2>1 DEF Ordered
  <2> QED
    BY <1>14, <2>2 DEF Ordered
<1>22. Begun(V, at)
  <2>1. Begun(W, at)
    BY <1>2 DEF Stream
  <2>2. \A i, j \in 1 .. m : at[V[i].of] < j /\ j <= i => V[j].of = V[i].of
    BY <1>16, <1>19, <2>1 DEF Begun
  <2> QED
    BY <1>14, <2>2 DEF Begun
<1>23. Complete(V, at)'
  <2>1. ASSUME NEW k \in 1 .. Len(source), k \notin broken'
        PROVE  /\ at[k] + Len(source[k]) <= m
               /\ \A p \in 1 .. Len(source[k]) : V[at[k] + p] = source[k][p]
    <3>1. k \notin broken
      BY <1>18, <2>1
    <3>2. PICK a, L : WrittenWhole(W, at, k, a, L)
      BY <1>1, <1>2, <3>1, WholeHasMarkers
    <3>3. a \in Nat /\ L \in Nat /\ L >= 5 /\ a = at[k] /\ L = Len(source[k])
      BY <3>2 DEF WrittenWhole
    <3>4. W[a + L].of = k
      BY <3>2 DEF WrittenWhole
    <3>5. a + L <= l /\ \A p \in 1 .. L : W[a + p] = source[k][p]
      BY <1>2, <1>4, <3>1, <3>3 DEF Stream, Complete
    <3>6. a + L <= m
      <4>1. SUFFICES ASSUME ~(a + L <= m)
                     PROVE  FALSE
        OBVIOUS
      <4>2. a + L \in m + 1 .. l
        BY <3>3, <3>5, <4>1
      <4>3. W[a + L].of \in broken'
        BY <1>17, <4>2
      <4> QED
        BY <2>1, <3>4, <4>3
    <3>7. ASSUME NEW p \in 1 .. L
          PROVE  V[a + p] = source[k][p]
      <4>1. a + p \in 1 .. m
        BY <3>3, <3>6
      <4> QED
        BY <1>16, <3>5, <4>1
    <3> QED
      BY <3>3, <3>6, <3>7
  <2>2. \A k \in 1 .. Len(source) : k \notin broken' =>
          /\ at[k] + Len(source[k]) <= Len(V)
          /\ \A p \in 1 .. Len(source[k]) : V[at[k] + p] = source[k][p]
    BY <1>14, <2>1
  <2> QED
    BY <1>9, <2>2 DEF Complete
<1>24. Stream(V, at)'
  BY <1>20, <1>21, <1>22, <1>23 DEF Stream, Ordered, Begun
<1>25. buffer' = SubSeq(V, lo + 1, mid) /\ NoPair(V, lo, mid)
  <2>1. /\ SubSeq(V, lo + 1, mid) = SubSeq(W, lo + 1, mid)
        /\ NoPair(W, lo, mid) => NoPair(V, lo, mid)
    BY <1>3, <1>6, <1>12, <1>15, <1>16, SamePart
  <2> QED
    BY <1>5, <1>9, <2>1
<1>26. pipe' = SubSeq(V, mid + 1, m)
  <2>1. 1 \in Nat /\ 1 <= n + 1 /\ mid + 1 = mid + 1
    BY <1>10
  <2>2. pipe = SubSeq(W, mid + 1, l)
    BY <1>5
  <2>3. SubSeq(pipe, 1, n) = SubSeq(W, mid + 1, m)
    BY <1>3, <1>6, <1>10, <1>11, <2>1, <2>2, SubSeqOfPart
  <2>4. SubSeq(V, mid + 1, m) = SubSeq(W, mid + 1, m)
    BY <1>3, <1>6, <1>12, <1>15, <1>16, SamePart
  <2> QED
    BY <1>8, <2>3, <2>4
<1>27. EventsInOrder' /\ \A k : Reported(k) => Reported(k)'
  <2>1. \A k \in 1 .. Len(source) : k \in 1 .. Len(source)' /\ source'[k] = source[k]
    BY <1>9
  <2>2. captured' = captured
    BY <1>9
  <2> QED
    BY <1>1, <1>18, <2>1, <2>2, EventsStay
<1>28. Scanning(V, at, lo, mid)'
  <2>1. mid <= Len(V) /\ pipe' = SubSeq(V, mid + 1, Len(V))
    BY <1>12, <1>14, <1>26
  <2>2. \A i \in lo + 1 .. m : i \in lo + 1 .. l /\ i \in 1 .. m
    BY <1>6, <1>12
  <2>3. \A c \in 1 .. Len(captured'), i \in lo + 1 .. Len(V) :
          Last(captured'[c].data).of < V[i].of
    BY <1>5, <1>9, <1>14, <2>2
  <2>4. \A k \in 1 .. Len(source') :
          k \notin broken' /\ k \notin split' => at[k] >= lo \/ Reported(k)'
    BY <1>5, <1>9, <1>18, <1>27
  <2> QED
    BY <1>6, <1>25, <2>1, <2>3, <2>4 DEF Scanning
<1>29. Counts'
  <2>1. replaced \in 0 .. MaxReplaced /\ split \subseteq Frame
    BY <1>1 DEF Counts
  <2>2. replaced' \in 0 .. MaxReplaced
    BY <1>9, <2>1, SplitterAssumption
  <2> QED
    BY <1>9, <1>18, <2>1, <2>2 DEF Counts
<1>30. Sources'
  BY <1>1, <1>9 DEF Sources
<1> QED
  BY <1>24, <1>27, <1>28, <1>29, <1>30 DEF Inv

LEMMA StutterStep ==
  ASSUME Inv, UNCHANGED vars
  PROVE  Inv'
<1>1. /\ source' = source /\ pipe' = pipe /\ buffer' = buffer /\ captured' = captured
      /\ replaced' = replaced /\ broken' = broken /\ split' = split
  BY DEF vars
<1>2. Sources' /\ Counts'
  BY <1>1 DEF Inv, Sources, Counts
<1>3. EventsInOrder' /\ \A k : Reported(k) => Reported(k)'
  <2>1. EventsInOrder
    BY DEF Inv
  <2>2. \A k \in 1 .. Len(source) : k \in 1 .. Len(source)' /\ source'[k] = source[k]
    BY <1>1
  <2>3. broken \subseteq broken' /\ captured' = captured
    BY <1>1
  <2> QED
    BY <2>1, <2>2, <2>3, EventsStay
<1>4. PICK W, at, lo, mid : Stream(W, at) /\ Scanning(W, at, lo, mid)
  BY DEF Inv
<1>5. Stream(W, at)'
  BY <1>1, <1>4 DEF Stream, Placed, Ordered, Begun, Complete
<1>6. Scanning(W, at, lo, mid)'
  BY <1>1, <1>3, <1>4 DEF Scanning
<1> QED
  BY <1>2, <1>3, <1>5, <1>6 DEF Inv

-----------------------------------------------------------------------------
(* The theorems                                                            *)

(* What was written lies one frame after the other, what is left of it is  *)
(* scanned from a place behind everything reported, and what was reported  *)
(* is whole and in order: in every reachable state.                        *)
THEOREM InvariantHolds == Spec => []Inv
<1>1. Init => Inv
  BY InvInit
<1>2. Inv /\ [Next]_vars => Inv'
  <2>1. SUFFICES ASSUME Inv, [Next]_vars
                 PROVE  Inv'
    OBVIOUS
  <2>2. ASSUME NEW n \in 1 .. Len(pipe), OnData(n)
        PROVE  Inv'
    BY <2>1, <2>2, OnDataStep
  <2>3. CASE WriteFrame
    BY <2>1, <2>3, WriteFrameStep
  <2>4. CASE ProcessReplaced
    BY <2>1, <2>4, ProcessReplacedStep
  <2>5. CASE UNCHANGED vars
    BY <2>1, <2>5, StutterStep
  <2> QED
    BY <2>1, <2>2, <2>3, <2>4, <2>5 DEF Next
<1> QED
  BY <1>1, <1>2, PTL DEF Spec

(* The state of the scanner has its types; no event has a number greater   *)
(* than the number of frames written.                                      *)
THEOREM TypeCorrect == Spec => []TypeOK
BY InvariantHolds, InvTypes, PTL

(* Only whole frames are reported, behind no more than what is left of     *)
(* broken ones, in order and once.                                         *)
THEOREM OnlyWholeFrames == Spec => []FramesWhole
BY InvariantHolds, InvWhole, PTL

(* A frame that was delivered to the last byte was reported, unless its    *)
(* start marker was divided between two chunks.                            *)
THEOREM NoOtherLoss == Spec => []LostOnlyWhenSplit
BY InvariantHolds, InvLost, PTL
=============================================================================
