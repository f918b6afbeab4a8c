--------------------------- MODULE RedactionProofs ---------------------------
(***************************************************************************)
(* Proofs about Redaction: what a redactor lists, redacts and restores in  *)
(* a text of any length, and what that means for the prompts, the row of   *)
(* saved_cvs, the pages and the downloads.                                 *)
(*                                                                         *)
(* Three facts about sequences carry it: Listing holds every word of its   *)
(* kind exactly once, Each keeps a text whose words it keeps, and a word   *)
(* of Each(Op, text) comes from Op of a word of text.  The invariants are  *)
(* BaseInv, SentInv, RowInv, CompleteInv and PageInv, each with a section. *)
(***************************************************************************)
EXTENDS Redaction, WellFoundedInduction, TLAPS

-----------------------------------------------------------------------------
(* Induction over the numbers, as a fact about a set of them.              *)

LEMMA LeastElement ==
  ASSUME NEW T, T \subseteq Nat, T # {}
  PROVE  \E x \in T : \A y \in T : x <= y
<1>1. IsWellFoundedOn(OpToRel(<, Nat), Nat)
  BY NatLessThanWellFounded
<1>2. PICK x \in T : \A y \in T : ~(<<y, x>> \in OpToRel(<, Nat))
  BY <1>1, WFMin
<1>3. \A y \in T : ~(y < x)
  BY <1>2 DEF OpToRel
<1> QED
  BY <1>3

LEMMA Induction ==
  ASSUME NEW T, 0 \in T, \A n \in Nat : n \in T => n + 1 \in T
  PROVE  Nat \subseteq T
<1> DEFINE B == {n \in Nat : n \notin T}
<1>1. SUFFICES ASSUME B # {} PROVE FALSE
  OBVIOUS
<1>2. PICK x \in B : \A y \in B : x <= y
  BY <1>1, LeastElement
<1>3. x # 0 /\ x - 1 \in Nat /\ (x - 1) + 1 = x
  BY <1>2
<1>4. x - 1 \in T
  BY <1>2, <1>3
<1> QED
  BY <1>2, <1>3, <1>4


LEMMA SameSequence ==
  ASSUME NEW W, NEW a \in Seq(W), NEW b \in Seq(W), Len(a) = Len(b),
         \A i \in 1 .. Len(a) : a[i] = b[i]
  PROVE  a = b
OBVIOUS

(* The running concatenations of the first n texts of ss. *)
Running(W, ss, n) ==
  {g \in [1 .. n -> Seq(W)] :
     /\ n # 0 => g[1] = ss[1]
     /\ \A i \in 1 .. n : i # 1 => g[i] = g[i - 1] \o ss[i]}

LEMMA RunningExists ==
  ASSUME NEW W, NEW ss \in Seq(Seq(W))
  PROVE  \A n \in Nat : n <= Len(ss) => Running(W, ss, n) # {}
<1> DEFINE T == {n \in Nat : n <= Len(ss) => Running(W, ss, n) # {}}
<1>1. 0 \in T
  <2> DEFINE e == [i \in 1 .. 0 |-> ss[1]]
  <2>1. 1 .. 0 = {} /\ e \in [1 .. 0 -> Seq(W)]
    OBVIOUS
  <2> HIDE DEF e
  <2> QED
    BY <2>1 DEF Running
<1>2. ASSUME NEW n \in Nat, n \in T PROVE n + 1 \in T
  <2> SUFFICES ASSUME n + 1 <= Len(ss) PROVE Running(W, ss, n + 1) # {}
    OBVIOUS
  <2>1. PICK g \in Running(W, ss, n) : TRUE
    <3>1. n <= Len(ss)
      OBVIOUS
    <3> QED
      BY <1>2, <3>1
  <2>2. /\ g \in [1 .. n -> Seq(W)]
        /\ n # 0 => g[1] = ss[1]
        /\ \A i \in 1 .. n : i # 1 => g[i] = g[i - 1] \o ss[i]
    BY <2>1 DEF Running
  <2> DEFINE new == IF n = 0 THEN ss[1] ELSE g[n] \o ss[n + 1]
             h == [i \in 1 .. n + 1 |-> IF i = n + 1 THEN new ELSE g[i]]
  <2>3. new \in Seq(W)
    <3>1. n + 1 \in 1 .. Len(ss) /\ ss[n + 1] \in Seq(W)
      OBVIOUS
    <3>2. n # 0 => g[n] \in Seq(W)
      BY <2>2
    <3> QED
      BY <3>1, <3>2
  <2>4. h \in [1 .. n + 1 -> Seq(W)]
    BY <2>2, <2>3
  <2>5. ASSUME NEW i \in 1 .. n + 1, i # 1
        PROVE  h[i] = h[i - 1] \o ss[i]
    <3>1. CASE i = n + 1
      <4>1. n # 0 /\ i - 1 = n /\ n \in 1 .. n + 1 /\ n # n + 1
        BY <3>1, <2>5
      <4>2. h[i] = new /\ h[i - 1] = g[n]
        BY <3>1, <4>1
      <4>3. new = g[n] \o ss[i]
        BY <3>1, <4>1
      <4> HIDE DEF new, h
      <4> QED
        BY <4>2, <4>3
    <3>2. CASE i # n + 1
      <4>1. i \in 1 .. n /\ h[i] = g[i]
        BY <3>2
      <4>2. i - 1 \in 1 .. n /\ h[i - 1] = g[i - 1]
        BY <4>1, <2>5
      <4> QED
        BY <2>2, <2>5, <4>1, <4>2
    <3> QED
      BY <3>1, <3>2
  <2>6. h[1] = ss[1]
    <3>1. CASE n = 0
      BY <3>1
    <3>2. CASE n # 0
      BY <2>2, <3>2
    <3> QED
      BY <3>1, <3>2
  <2> HIDE DEF h
  <2> QED
    BY <2>4, <2>5, <2>6 DEF Running
<1>3. Nat \subseteq T
  <2> HIDE DEF T
  <2> QED
    BY <1>1, <1>2, Induction
<1> QED
  BY <1>3

LEMMA FlattenIsRunning ==
  ASSUME NEW W, NEW ss \in Seq(Seq(W)), Len(ss) # 0
  PROVE  \E g \in Running(W, ss, Len(ss)) : FlattenSeq(ss) = g[Len(ss)]
<1> DEFINE Rec(f) == [i \in 1 .. Len(ss) |-> IF i = 1 THEN ss[i] ELSE f[i - 1] \o ss[i]]
           g == CHOOSE f : f = Rec(f)
<1>1. \E f : f = Rec(f)
  <2>1. Len(ss) \in Nat /\ Len(ss) <= Len(ss)
    OBVIOUS
  <2>2. PICK h \in Running(W, ss, Len(ss)) : TRUE
    <3> HIDE DEF Rec, g
    <3> QED
      BY <2>1, RunningExists
  <2>3. h = Rec(h)
    BY <2>2 DEF Running
  <2> QED
    BY <2>3
<1>2. g = Rec(g)
  BY <1>1
<1>3. FlattenSeq(ss) = g[Len(ss)]
  BY DEF FlattenSeq
<1>4. g = [i \in 1 .. Len(ss) |-> g[i]]
  BY <1>2, ZenonT(30)
<1>5. /\ g[1] = ss[1]
      /\ \A i \in 1 .. Len(ss) : i # 1 => g[i] = g[i - 1] \o ss[i]
  <2> HIDE DEF g
  <2>1. 1 \in 1 .. Len(ss)
    OBVIOUS
  <2> QED
    BY <1>2, <2>1
<1> HIDE DEF g, Rec
<1>6. \A i \in Nat : i \in 1 .. Len(ss) => g[i] \in Seq(W)
  <2> DEFINE T == {i \in Nat : i \in 1 .. Len(ss) => g[i] \in Seq(W)}
  <2>1. 0 \in T
    OBVIOUS
  <2>2. ASSUME NEW i \in Nat, i \in T PROVE i + 1 \in T
    <3> SUFFICES ASSUME i + 1 \in 1 .. Len(ss) PROVE g[i + 1] \in Seq(W)
      OBVIOUS
    <3>1. ss[i + 1] \in Seq(W)
      OBVIOUS
    <3>2. CASE i = 0
      BY <1>5, <3>1, <3>2
    <3>3. CASE i # 0
      <4>1. i \in 1 .. Len(ss) /\ (i + 1) - 1 = i /\ i + 1 # 1
        BY <3>3
      <4>2. g[i] \in Seq(W)
        BY <2>2, <4>1
      <4>3. g[i + 1] = g[i] \o ss[i + 1]
        BY <1>5, <4>1
      <4> QED
        BY <3>1, <4>2, <4>3
    <3> QED
      BY <3>2, <3>3
  <2>3. Nat \subseteq T
    <3> HIDE DEF T
    <3> QED
      BY <2>1, <2>2, Induction
  <2> QED
    BY <2>3
<1>7. g \in [1 .. Len(ss) -> Seq(W)]
  BY <1>4, <1>6
<1> QED
  BY <1>3, <1>5, <1>7 DEF Running

LEMMA FlattenTyped ==
  ASSUME NEW W, NEW ss \in Seq(Seq(W))
  PROVE  FlattenSeq(ss) \in Seq(W)
<1>1. CASE Len(ss) = 0
  BY <1>1 DEF FlattenSeq
<1>2. CASE Len(ss) # 0
  <2>1. Len(ss) \in 1 .. Len(ss)
    BY <1>2
  <2>2. PICK g \in Running(W, ss, Len(ss)) : FlattenSeq(ss) = g[Len(ss)]
    BY <1>2, FlattenIsRunning
  <2>3. g \in [1 .. Len(ss) -> Seq(W)]
    BY <2>2 DEF Running
  <2> QED
    BY <2>1, <2>2, <2>3
<1> QED
  BY <1>1, <1>2

LEMMA FlattenOne ==
  ASSUME NEW W, NEW s \in Seq(W)
  PROVE  FlattenSeq(<<s>>) = s
<1> DEFINE ss == <<s>>
<1>1. ss \in Seq(Seq(W)) /\ Len(ss) = 1 /\ Len(ss) # 0 /\ ss[1] = s
  OBVIOUS
<1> HIDE DEF ss
<1>2. PICK g \in Running(W, ss, Len(ss)) : FlattenSeq(ss) = g[Len(ss)]
  BY <1>1, FlattenIsRunning
<1>3. g[1] = ss[1]
  BY <1>1, <1>2 DEF Running
<1>4. FlattenSeq(ss) = s
  BY <1>1, <1>2, <1>3
<1> QED
  BY <1>4 DEF ss

LEMMA FlattenSingletons ==
  ASSUME NEW W, NEW s \in Seq(W), NEW ss, ss = [i \in DOMAIN s |-> <<s[i]>>]
  PROVE  FlattenSeq(ss) = s
<1>1. DOMAIN s = 1 .. Len(s) /\ Len(s) \in Nat /\ \A i \in 1 .. Len(s) : s[i] \in W
  OBVIOUS
<1>2. \A i \in 1 .. Len(s) : ss[i] = <<s[i]>> /\ ss[i] \in Seq(W)
  BY <1>1
<1>3. ss \in Seq(Seq(W)) /\ Len(ss) = Len(s)
  <2>1. ss = [i \in 1 .. Len(s) |-> ss[i]]
    BY <1>1
  <2>2. ss \in [1 .. Len(s) -> Seq(W)]
    BY <1>2, <2>1
  <2> QED
    BY <1>1, <2>1, <2>2
<1>4. CASE Len(s) = 0
  BY <1>3, <1>4 DEF FlattenSeq
<1>5. CASE Len(s) # 0
  <2>1. PICK g \in Running(W, ss, Len(s)) : FlattenSeq(ss) = g[Len(s)]
    BY <1>3, <1>5, FlattenIsRunning
  <2>2. /\ g \in [1 .. Len(s) -> Seq(W)]
        /\ g[1] = ss[1]
        /\ \A i \in 1 .. Len(s) : i # 1 => g[i] = g[i - 1] \o ss[i]
    BY <1>5, <2>1 DEF Running
  <2> DEFINE Copies(i) == Len(g[i]) = i /\ \A j \in 1 .. i : g[i][j] = s[j]
             T == {i \in Nat : i \in 1 .. Len(s) => Copies(i)}
  <2>3. 0 \in T
    OBVIOUS
  <2>4. ASSUME NEW i \in Nat, i \in T PROVE i + 1 \in T
    <3> SUFFICES ASSUME i + 1 \in 1 .. Len(s) PROVE Copies(i + 1)
      OBVIOUS
    <3>1. ss[i + 1] = <<s[i + 1]>> /\ s[i + 1] \in W
      BY <1>1, <1>2
    <3>2. CASE i = 0
      BY <1>1, <2>2, <3>1, <3>2
    <3>3. CASE i # 0
      <4>1. i \in 1 .. Len(s) /\ (i + 1) - 1 = i /\ i + 1 # 1
        BY <3>3
      <4>2. g[i] \in Seq(W) /\ Copies(i)
        BY <2>2, <2>4, <4>1
      <4>3. g[i + 1] = g[i] \o <<s[i + 1]>>
        BY <2>2, <3>1, <4>1
      <4> QED
        BY <3>1, <4>2, <4>3
    <3> QED
      BY <3>2, <3>3
  <2>5. Nat \subseteq T
    <3> HIDE DEF T
    <3> QED
      BY <2>3, <2>4, Induction
  <2>6. Len(s) \in 1 .. Len(s)
    BY <1>1, <1>5
  <2>7. Copies(Len(s)) /\ g[Len(s)] \in Seq(W)
    BY <2>2, <2>5, <2>6
  <2>8. g[Len(s)] = s
    BY <2>7, SameSequence
  <2> QED
    BY <2>1, <2>8
<1> QED
  BY <1>4, <1>5

LEMMA FlattenStarts ==
  ASSUME NEW W, NEW ss \in Seq(Seq(W)), Len(ss) # 0
  PROVE  \E rest \in Seq(W) : FlattenSeq(ss) = ss[1] \o rest
<1>1. PICK g \in Running(W, ss, Len(ss)) : FlattenSeq(ss) = g[Len(ss)]
  BY FlattenIsRunning
<1>2. /\ g[1] = ss[1]
      /\ \A i \in 1 .. Len(ss) : i # 1 => g[i] = g[i - 1] \o ss[i]
  BY <1>1 DEF Running
<1>3. 1 \in 1 .. Len(ss) /\ ss[1] \in Seq(W)
  OBVIOUS
<1> DEFINE Starts(i) == \E rest \in Seq(W) : g[i] = ss[1] \o rest
           T == {i \in Nat : i \in 1 .. Len(ss) => Starts(i)}
<1>4. 0 \in T
  OBVIOUS
<1>a. \A i \in Nat : i \in T <=> (i \in 1 .. Len(ss) => Starts(i))
  OBVIOUS
<1>5. ASSUME NEW i \in Nat, i \in T PROVE i + 1 \in T
  <2> SUFFICES ASSUME i + 1 \in 1 .. Len(ss) PROVE Starts(i + 1)
    <3> HIDE DEF T, Starts
    <3> QED
      BY <1>a
  <2>1. CASE i = 0
    <3>1. <<>> \in Seq(W) /\ ss[1] = ss[1] \o <<>>
      BY <1>3
    <3>2. i + 1 = 1
      BY <2>1
    <3>3. g[1] = ss[1] \o <<>>
      BY <1>2, <3>1
    <3> QED
      BY <3>1, <3>2, <3>3
  <2>2. CASE i # 0
    <3>1. i \in 1 .. Len(ss) /\ (i + 1) - 1 = i /\ i + 1 # 1
      BY <2>2
    <3>2. PICK rest \in Seq(W) : g[i] = ss[1] \o rest
      BY <1>5, <3>1
    <3>3. ss[i + 1] \in Seq(W)
      OBVIOUS
    <3>4. g[i + 1] = g[i] \o ss[i + 1]
      BY <1>2, <3>1
    <3>5. rest \o ss[i + 1] \in Seq(W)
      BY <3>2, <3>3
    <3>6. (ss[1] \o rest) \o ss[i + 1] = ss[1] \o (rest \o ss[i + 1])
      <4> DEFINE a == ss[1]
                 c == ss[i + 1]
      <4>1. a \in Seq(W) /\ rest \in Seq(W) /\ c \in Seq(W)
        BY <1>3, <3>2, <3>3
      <4> HIDE DEF a, c, Starts, T
      <4>2. (a \o rest) \o c = a \o (rest \o c)
        <5> DEFINE l == (a \o rest) \o c
                   r == a \o (rest \o c)
        <5>1. l \in Seq(W) /\ r \in Seq(W) /\ Len(l) = Len(r)
          BY <4>1
        <5>2. \A k \in 1 .. Len(l) : l[k] = r[k]
          BY <4>1
        <5> HIDE DEF l, r
        <5>3. l = r
          BY <5>1, <5>2, SameSequence
        <5> QED
          BY <5>3 DEF l, r
      <4> QED
        BY <4>2 DEF a, c
    <3>7. g[i + 1] = ss[1] \o (rest \o ss[i + 1])
      <4>1. g[i + 1] = (ss[1] \o rest) \o ss[i + 1]
        BY <3>2, <3>4
      <4> QED
        BY <3>6, <4>1, Zenon
    <3> QED
      BY <3>5, <3>7
  <2> QED
    BY <2>1, <2>2
<1>6. Nat \subseteq T
  <2> HIDE DEF T
  <2> QED
    BY <1>4, <1>5, Induction
<1>7. Len(ss) \in 1 .. Len(ss)
  OBVIOUS
<1> HIDE DEF Starts
<1>8. Starts(Len(ss))
  BY <1>6, <1>7
<1> QED
  BY <1>1, <1>8 DEF Starts

(* The listing after the first i words of the text, for every i up to n.   *)
Listings(W, kind, known, text, n) ==
  {g \in [0 .. n -> Seq(W)] :
     /\ g[0] = known
     /\ \A i \in 1 .. n :
          IF text[i][1] = kind /\ ~Contains(g[i - 1], text[i])
          THEN g[i] = Append(g[i - 1], text[i]) ELSE g[i] = g[i - 1]}

LEMMA ListingsExist ==
  ASSUME NEW W, NEW kind, NEW known \in Seq(W), NEW text \in Seq(W)
  PROVE  \A n \in Nat : n <= Len(text) => Listings(W, kind, known, text, n) # {}
<1> DEFINE T == {n \in Nat : n <= Len(text) => Listings(W, kind, known, text, n) # {}}
<1>1. 0 \in T
  <2> DEFINE e == [i \in 0 .. 0 |-> known]
  <2>1. e \in [0 .. 0 -> Seq(W)] /\ e[0] = known /\ 1 .. 0 = {}
    OBVIOUS
  <2> HIDE DEF e
  <2> QED
    BY <2>1 DEF Listings
<1>2. ASSUME NEW n \in Nat, n \in T PROVE n + 1 \in T
  <2> SUFFICES ASSUME n + 1 <= Len(text)
               PROVE  Listings(W, kind, known, text, n + 1) # {}
    OBVIOUS
  <2>1. PICK g \in Listings(W, kind, known, text, n) : TRUE
    <3>1. n <= Len(text)
      OBVIOUS
    <3> QED
      BY <1>2, <3>1
  <2>2. /\ g \in [0 .. n -> Seq(W)]
        /\ g[0] = known
        /\ \A i \in 1 .. n :
             IF text[i][1] = kind /\ ~Contains(g[i - 1], text[i])
             THEN g[i] = Append(g[i - 1], text[i]) ELSE g[i] = g[i - 1]
    BY <2>1 DEF Listings
  <2> DEFINE w == text[n + 1]
             new == IF w[1] = kind /\ ~Contains(g[n], w) THEN Append(g[n], w) ELSE g[n]
             h == [i \in 0 .. n + 1 |-> IF i = n + 1 THEN new ELSE g[i]]
  <2>3. w \in W /\ n \in 0 .. n /\ g[n] \in Seq(W)
    BY <2>2
  <2>4. new \in Seq(W)
    BY <2>3
  <2>5. h \in [0 .. n + 1 -> Seq(W)]
    BY <2>2, <2>4
  <2>6. h[n + 1] = new /\ \A i \in 0 .. n : h[i] = g[i]
    OBVIOUS
  <2> HIDE DEF h
  <2>7. h[0] = known
    BY <2>2, <2>3, <2>6
  <2>8. ASSUME NEW i \in 1 .. n + 1
        PROVE  IF text[i][1] = kind /\ ~Contains(h[i - 1], text[i])
               THEN h[i] = Append(h[i - 1], text[i]) ELSE h[i] = h[i - 1]
    <3>1. CASE i = n + 1
      <4>1. i - 1 = n /\ text[i] = w /\ h[i - 1] = g[n] /\ h[i] = new
        BY <2>6, <3>1
      <4> QED
        BY <4>1
    <3>2. CASE i # n + 1
      <4>1. i \in 1 .. n /\ i \in 0 .. n /\ i - 1 \in 0 .. n
        BY <3>2
      <4>2. h[i] = g[i] /\ h[i - 1] = g[i - 1]
        BY <2>6, <4>1
      <4> QED
        BY <2>2, <4>1, <4>2
    <3> QED
      BY <3>1, <3>2
  <2> QED
    BY <2>5, <2>7, <2>8 DEF Listings
<1>3. Nat \subseteq T
  <2> HIDE DEF T
  <2> QED
    BY <1>1, <1>2, Induction
<1> QED
  BY <1>3

LEMMA ListingIsOne ==
  ASSUME NEW W, NEW kind, NEW known \in Seq(W), NEW text \in Seq(W)
  PROVE  \E g \in Listings(W, kind, known, text, Len(text)) :
            Listing(kind, known, text) = g[Len(text)]
<1> DEFINE n == Len(text)
           Rec(f) == [i \in 0 .. n |->
                        IF i = 0 THEN known
                        ELSE IF text[i][1] = kind /\ ~Contains(f[i - 1], text[i])
                        THEN Append(f[i - 1], text[i]) ELSE f[i - 1]]
           g == CHOOSE f : f = Rec(f)
<1>1. n \in Nat /\ n <= Len(text) /\ 0 \in 0 .. n
  OBVIOUS
<1>2. \E f : f = Rec(f)
  <2>1. PICK h \in Listings(W, kind, known, text, n) : TRUE
    <3> HIDE DEF Rec, g, n
    <3> QED
      BY <1>1, ListingsExist
  <2>2. h = Rec(h)
    BY <2>1 DEF Listings
  <2> QED
    BY <2>2
<1>3. g = Rec(g)
  BY <1>2
<1>4. Listing(kind, known, text) = g[n]
  BY DEF Listing
<1>5. g = [i \in 0 .. n |-> g[i]]
  BY <1>3
<1>6. /\ g[0] = known
      /\ \A i \in 1 .. n :
           IF text[i][1] = kind /\ ~Contains(g[i - 1], text[i])
           THEN g[i] = Append(g[i - 1], text[i]) ELSE g[i] = g[i - 1]
  <2> HIDE DEF g
  <2>1. \A i \in 1 .. n : i \in 0 .. n /\ i # 0
    BY <1>1
  <2> QED
    BY <1>1, <1>3, <2>1
<1> HIDE DEF g, Rec
<1>7. \A i \in Nat : i \in 0 .. n => g[i] \in Seq(W)
  <2> DEFINE T == {i \in Nat : i \in 0 .. n => g[i] \in Seq(W)}
  <2>1. 0 \in T
    BY <1>6
  <2>2. ASSUME NEW i \in Nat, i \in T PROVE i + 1 \in T
    <3> SUFFICES ASSUME i + 1 \in 0 .. n PROVE g[i + 1] \in Seq(W)
      OBVIOUS
    <3>1. i + 1 \in 1 .. n /\ i \in 0 .. n /\ (i + 1) - 1 = i /\ text[i + 1] \in W
      BY <1>1
    <3>2. g[i] \in Seq(W)
      BY <2>2, <3>1
    <3>3. g[i + 1] = Append(g[i], text[i + 1]) \/ g[i + 1] = g[i]
      BY <1>6, <3>1
    <3>4. Append(g[i], text[i + 1]) \in Seq(W)
      BY <3>1, <3>2
    <3> QED
      BY <3>2, <3>3, <3>4, Zenon
  <2>3. Nat \subseteq T
    <3> HIDE DEF T
    <3> QED
      BY <2>1, <2>2, Induction
  <2> QED
    BY <2>3
<1>8. g \in [0 .. n -> Seq(W)]
  <2>1. \A i \in 0 .. n : g[i] \in Seq(W)
    BY <1>7
  <2> QED
    BY <1>5, <2>1
<1> QED
  BY <1>4, <1>6, <1>8 DEF Listings

(* What a listing holds: what was known comes first, then every word of    *)
(* the kind that the text has.                                             *)
Lists(W, kind, known, text, l) ==
  /\ l \in Seq(W)
  /\ Len(known) <= Len(l)
  /\ \A k \in 1 .. Len(known) : l[k] = known[k]
  /\ \A k \in 1 .. Len(text) : text[k][1] = kind => \E m \in 1 .. Len(l) : l[m] = text[k]
  /\ \A m \in 1 .. Len(l) :
        \/ \E k \in 1 .. Len(known) : l[m] = known[k]
        \/ \E k \in 1 .. Len(text) : text[k][1] = kind /\ l[m] = text[k]

LEMMA ListingLists ==
  ASSUME NEW W, NEW kind, NEW known \in Seq(W), NEW text \in Seq(W)
  PROVE  Lists(W, kind, known, text, Listing(kind, known, text))
<1> DEFINE n == Len(text)
<1>1. PICK g \in Listings(W, kind, known, text, n) : Listing(kind, known, text) = g[n]
  BY ListingIsOne
<1>2. /\ g \in [0 .. n -> Seq(W)]
      /\ g[0] = known
      /\ \A i \in 1 .. n :
           IF text[i][1] = kind /\ ~Contains(g[i - 1], text[i])
           THEN g[i] = Append(g[i - 1], text[i]) ELSE g[i] = g[i - 1]
  BY <1>1 DEF Listings
<1>3. n \in Nat /\ n \in 0 .. n
  OBVIOUS
<1> HIDE DEF n
<1> DEFINE Begins(i) == /\ Len(known) <= Len(g[i])
                        /\ \A k \in 1 .. Len(known) : g[i][k] = known[k]
           Covers(i) == \A k \in 1 .. i : text[k][1] = kind =>
                          \E m \in 1 .. Len(g[i]) : g[i][m] = text[k]
           Comes(i) == \A m \in 1 .. Len(g[i]) :
                          \/ \E k \in 1 .. Len(known) : g[i][m] = known[k]
                          \/ \E k \in 1 .. i : text[k][1] = kind /\ g[i][m] = text[k]
           T == {i \in Nat : i \in 0 .. n => Begins(i) /\ Covers(i) /\ Comes(i)}
<1>4. 0 \in T
  BY <1>2
<1>5. ASSUME NEW i \in Nat, i \in T PROVE i + 1 \in T
  <2> SUFFICES ASSUME i + 1 \in 0 .. n
               PROVE  Begins(i + 1) /\ Covers(i + 1) /\ Comes(i + 1)
    <3> HIDE DEF Begins, Covers, Comes
    <3> QED
      OBVIOUS
  <2>1. i + 1 \in 1 .. n /\ i \in 0 .. n /\ (i + 1) - 1 = i
    BY <1>3
  <2> DEFINE a == g[i]
             b == g[i + 1]
             w == text[i + 1]
  <2>2. a \in Seq(W) /\ w \in W
    <3>1. a \in Seq(W)
      BY <1>2, <2>1
    <3>2. w \in W
      BY <2>1 DEF n
    <3> QED
      BY <3>1, <3>2
  <2>3. Begins(i) /\ Covers(i) /\ Comes(i)
    BY <1>5, <2>1
  <2>4. IF w[1] = kind /\ ~Contains(a, w) THEN b = Append(a, w) ELSE b = a
    BY <1>2, <2>1
  <2>5. CASE w[1] = kind /\ ~Contains(a, w)
    <3>1. b = Append(a, w)
      BY <2>4, <2>5
    <3> HIDE DEF b
    <3>2. /\ Len(b) = Len(a) + 1 /\ b[Len(a) + 1] = w
          /\ \A k \in 1 .. Len(a) : b[k] = a[k]
      BY <2>2, <3>1
    <3>3. Len(a) \in Nat /\ Len(known) \in Nat
      BY <2>2
    <3>4. Begins(i + 1)
      BY <2>3, <3>2, <3>3 DEF b
    <3>5. Covers(i + 1)
      <4> SUFFICES ASSUME NEW k \in 1 .. i + 1, text[k][1] = kind
                   PROVE  \E m \in 1 .. Len(b) : b[m] = text[k]
        BY DEF b
      <4>1. CASE k = i + 1
        BY <3>2, <3>3, <4>1
      <4>2. CASE k # i + 1
        <5>1. PICK m \in 1 .. Len(a) : a[m] = text[k]
          BY <2>3, <4>2
        <5> QED
          BY <3>2, <3>3, <5>1
      <4> QED
        BY <4>1, <4>2
    <3>6. Comes(i + 1)
      <4> SUFFICES ASSUME NEW m \in 1 .. Len(b)
                   PROVE  \/ \E k \in 1 .. Len(known) : b[m] = known[k]
                          \/ \E k \in 1 .. i + 1 : text[k][1] = kind /\ b[m] = text[k]
        BY DEF b
      <4>1. CASE m = Len(a) + 1
        BY <2>5, <3>2, <4>1
      <4>2. CASE m # Len(a) + 1
        <5>1. m \in 1 .. Len(a) /\ b[m] = a[m]
          BY <3>2, <3>3, <4>2
        <5>2. \A k \in 1 .. i : k \in 1 .. i + 1
          OBVIOUS
        <5> QED
          BY <2>3, <5>1, <5>2
      <4> QED
        BY <4>1, <4>2
    <3> QED
      BY <3>4, <3>5, <3>6
  <2>6. CASE ~(w[1] = kind /\ ~Contains(a, w))
    <3>1. b = a
      BY <2>4, <2>6
    <3>2. Begins(i + 1)
      BY <2>3, <3>1
    <3>3. Covers(i + 1)
      <4> SUFFICES ASSUME NEW k \in 1 .. i + 1, text[k][1] = kind
                   PROVE  \E m \in 1 .. Len(a) : a[m] = text[k]
        BY <3>1
      <4>1. CASE k = i + 1
        BY <2>6, <4>1 DEF Contains
      <4>2. CASE k # i + 1
        <5>1. k \in 1 .. i
          BY <4>2
        <5> QED
          BY <2>3, <5>1
      <4> QED
        BY <4>1, <4>2
    <3>4. Comes(i + 1)
      <4>1. \A k \in 1 .. i : k \in 1 .. i + 1
        OBVIOUS
      <4> QED
        BY <2>3, <3>1, <4>1
    <3> QED
      BY <3>2, <3>3, <3>4
  <2> QED
    BY <2>5, <2>6
<1>6. Nat \subseteq T
  <2> HIDE DEF T
  <2> QED
    BY <1>4, <1>5, Induction
<1>7. Begins(n) /\ Covers(n) /\ Comes(n)
  BY <1>3, <1>6
<1>8. g[n] \in Seq(W)
  BY <1>2, <1>3
<1> QED
  BY <1>1, <1>7, <1>8 DEF n, Lists

LEMMA CanonicalForms ==
  ASSUME NEW w \in Word
  PROVE  /\ w[1] \in {"name", "variant"} => Canonical(w) = <<"name", w[2]>>
         /\ w[1] \in {"slug", "handle"} => Canonical(w) = <<"slug", w[2]>>
         /\ w[1] \notin NameKinds => Canonical(w) = w
         /\ w = <<w[1], w[2]>>
  BY DEF Canonical, NameKinds, Word

LEMMA RedactWordEffect ==
  ASSUME NEW q, NEW w \in Word
  PROVE  LET v == RedactWord(q, w)
         IN \/ IsToken(v)
            \/ v = w /\ w[1] \notin Personal /\ q.name # <<w>> /\ ~Names(q, w)
<1>1. /\ w[1] \in {"name", "variant"} => Canonical(w) = <<"name", w[2]>>
      /\ w = <<w[1], w[2]>>
  BY CanonicalForms
<1> QED
  BY <1>1 DEF RedactWord, Patterns, IsToken, TokenKinds, Personal, MailToken, Names, NameKinds

LEMMA ScanWordEffect ==
  ASSUME NEW q, NEW w \in Word
  PROVE  LET v == ScanWord(q, w)
         IN \/ IsToken(v)
            \/ v = w /\ w[1] \notin Personal /\ q.name # <<w>> /\ ~Names(q, w)
  BY RedactWordEffect DEF ScanWord, IsToken, TokenKinds, Personal, Names, NameKinds

LEMMA Updated ==
  ASSUME NEW d \in Doc, NEW t \in Text
  PROVE  [d EXCEPT !.name = t] \in Doc
  BY DEF Doc

LEMMA Walked ==
  ASSUME NEW d \in Doc, NEW r
  PROVE  /\ DOMAIN Restore(r, d) = DOMAIN NoCv
         /\ \A f \in Scalars : Restore(r, d)[f] = RestoreText(r, d[f])
         /\ Restore(r, d).refs =
              [i \in DOMAIN d.refs |-> [g \in RefFields |-> RestoreText(r, d.refs[i][g])]]
  BY DEF Restore, Walk, Doc, NoCv, Scalars

-----------------------------------------------------------------------------
(* The types of what the redactor makes.                                   *)

Kinds == ValueKinds \cup TokenKinds
Redactors == [name : Text, dob : Text, linkedin : Text, refs : Seq(RefTexts),
              location : Text, emails : Text, phones : Text]
(* A redactor that has numbered every address and number among these words. *)
Numbers(q, S) ==
  \A w \in S : /\ w[1] = "email" => \E i \in DOMAIN q.emails : q.emails[i] = w
               /\ w[1] = "phone" => \E i \in DOMAIN q.phones : q.phones[i] = w

LEMMA ValuesAreTexts ==
  ASSUME NEW kind \in ValueKinds
  PROVE  Values(kind) \subseteq Text
<1>1. {kind} \X Nat \subseteq Word
  BY DEF Word, ValueKinds
<1>2. ASSUME NEW text \in Seq({kind} \X Nat) PROVE text \in Seq(Word)
  <2> DEFINE K == {kind} \X Nat
  <2> HIDE DEF K
  <2>1. K \subseteq Word /\ text \in Seq(K)
    BY <1>1, <1>2 DEF K
  <2> QED
    BY <2>1
<1> QED
  BY <1>2 DEF Values, Text

LEMMA RefValuesAreTexts == Seq(RefValues) \subseteq Seq(RefTexts)
<1>1. RefValues \subseteq RefTexts
  <2>1. Values("name") \subseteq Text
    BY ValuesAreTexts DEF ValueKinds
  <2>2. Values("email") \subseteq Text
    BY ValuesAreTexts DEF ValueKinds
  <2>3. Values("phone") \subseteq Text
    BY ValuesAreTexts DEF ValueKinds
  <2> QED
    BY <2>1, <2>2, <2>3 DEF RefValues, RefTexts
<1> QED
  BY <1>1

LEMMA VaultTyped ==
  ASSUME NEW v \in Vaults
  PROVE  /\ v \in [held : BOOLEAN, name : Text, email : Text, phone : Text, dob : Text,
                   linkedin : Text, location : Text, refs : Seq(RefTexts)]
         /\ v.held \in BOOLEAN
         /\ ~v.held => v.refs = <<>>
<1>1. v \in Vault /\ (~v.held => \A f \in DOMAIN v \ {"held"} : v[f] = <<>>)
  BY RedactionAssumption
<1>2. /\ Values("name") \subseteq Text
      /\ Values("email") \subseteq Text
      /\ Values("phone") \subseteq Text
      /\ Values("date") \subseteq Text
      /\ Values("linkedin") \subseteq Text
      /\ Values("city") \subseteq Text
  <2>1. \A kind \in ValueKinds : Values(kind) \subseteq Text
    BY ValuesAreTexts DEF ValueKinds
  <2> QED
    BY <2>1 DEF ValueKinds
<1>3. v.refs \in Seq(RefTexts)
  BY <1>1, RefValuesAreTexts DEF Vault
<1> QED
  BY <1>1, <1>2, <1>3 DEF Vault

LEMMA AttemptTyped ==
  ASSUME NEW a \in Attempts
  PROVE  /\ a \in [named : BOOLEAN, refs : Seq(RefValues), told : Text, rights : Text,
                   featured : Text]
         /\ a.refs \in Seq(RefTexts)
BY RedactionAssumption, RefValuesAreTexts

LEMMA PlaceTyped ==
  ASSUME NEW list \in Text, NEW w, \E i \in DOMAIN list : list[i] = w
  PROVE  Place(list, w) \in DOMAIN list /\ list[Place(list, w)] = w /\ Place(list, w) \in Nat
BY DEF Place, Text

LEMMA FirstOfNamed ==
  ASSUME NEW q, q.refs \in Seq(RefTexts), NEW w, RefNamed(q, w) # {}
  PROVE  LET i == FirstNamed(q, w)
         IN i \in DOMAIN q.refs /\ i \in Nat /\ q.refs[i].name = <<w>>
<1>1. RefNamed(q, w) \subseteq Nat
  BY DEF RefNamed
<1>2. \E i \in RefNamed(q, w) : \A j \in RefNamed(q, w) : i <= j
  BY <1>1, LeastElement
<1> QED
  BY <1>1, <1>2 DEF FirstNamed, RefNamed

LEMMA RedactWordTyped ==
  ASSUME NEW q \in Redactors, NEW w \in Word, Numbers(q, {w})
  PROVE  RedactWord(q, w) \in Word
<1>1. w[1] \in Kinds /\ w[2] \in Nat
  BY DEF Word, Kinds
<1>2. \A t \in Kinds, n \in Nat : <<t, n>> \in Word
  BY DEF Word, Kinds
<1>3. w[1] = "email" => Place(q.emails, w) \in Nat
  BY PlaceTyped DEF Numbers, Redactors
<1>4. w[1] = "phone" => Place(q.phones, w) \in Nat
  BY PlaceTyped DEF Numbers, Redactors
<1>5. RefNamed(q, Canonical(w)) # {} => FirstNamed(q, Canonical(w)) \in Nat
  BY FirstOfNamed DEF Redactors
<1> HIDE DEF Word
<1>6. \A n \in Nat : MailToken(q, n) \in Word
  BY <1>2 DEF MailToken, Kinds, TokenKinds
<1> QED
  BY <1>1, <1>2, <1>3, <1>4, <1>5, <1>6 DEF RedactWord, Patterns, Kinds, TokenKinds

LEMMA ScanWordTyped ==
  ASSUME NEW q \in Redactors, NEW w \in Word, Numbers(q, {w})
  PROVE  ScanWord(q, w) \in Word
<1>1. w[1] = "email" => Place(q.emails, w) \in Nat
  BY PlaceTyped DEF Numbers, Redactors
<1>2. \A t \in Kinds, n \in Nat : <<t, n>> \in Word
  BY DEF Word, Kinds
<1>3. RedactWord(q, w) \in Word
  BY RedactWordTyped
<1> QED
  BY <1>1, <1>2, <1>3 DEF ScanWord, Kinds, TokenKinds

LEMMA RestoreWordTyped ==
  ASSUME NEW q \in Redactors, NEW w \in Word
  PROVE  RestoreWord(q, w) \in Text
<1>1. w[1] \in Kinds /\ w[2] \in Nat /\ <<w>> \in Text /\ <<>> \in Text
  BY DEF Word, Text, Kinds
<1>2. Slug(q.name) \in Text
  <2>1. q.name \in Text
    BY DEF Redactors
  <2>2. CASE q.name # <<>>
    <3>1. q.name[1] \in Word
      BY <2>1, <2>2 DEF Text
    <3>2. <<"slug", q.name[1][2]>> \in Word
      BY <3>1 DEF Word, ValueKinds
    <3>3. <<<<"slug", q.name[1][2]>>>> \in Text
      BY <3>2 DEF Text
    <3> QED
      BY <2>2, <3>3 DEF Slug
  <2> QED
    BY <1>1, <2>2 DEF Slug
<1>3. \A text \in Text : Listed(text, w) \in Text /\ Known(text, w) \in Text
  BY <1>1 DEF Listed, Known, Text
<1>4. \A f \in RefFields : OfRef(q, f, w) \in Text
  <2> SUFFICES ASSUME NEW f \in RefFields, w[2] \in DOMAIN q.refs
               PROVE  Known(q.refs[w[2]][f], w) \in Text
    BY <1>1 DEF OfRef
  <2>1. q.refs \in Seq(RefTexts)
    BY DEF Redactors
  <2>2. q.refs[w[2]] \in RefTexts
    BY <2>1
  <2>3. q.refs[w[2]][f] \in Text
    BY <2>2 DEF RefTexts, RefFields
  <2> QED
    BY <1>3, <2>3
<1> QED
  BY <1>1, <1>2, <1>3, <1>4 DEF RestoreWord, Redactors, RefFields

LEMMA RestoreTextTyped ==
  ASSUME NEW q \in Redactors, NEW text \in Text
  PROVE  RestoreText(q, text) \in Text
<1> DEFINE ss == [i \in DOMAIN text |-> RestoreWord(q, text[i])]
<1>1. \A i \in DOMAIN text : RestoreWord(q, text[i]) \in Text
  BY RestoreWordTyped DEF Text
<1>2. ss \in Seq(Text)
  BY <1>1 DEF Text
<1>3. FlattenSeq(ss) \in Text
  BY <1>2, FlattenTyped DEF Text
<1> QED
  BY <1>3 DEF RestoreText, Each

LEMMA RefTextsHold ==
  ASSUME NEW refs \in Seq(RefTexts), NEW i \in DOMAIN refs, NEW g \in RefFields
  PROVE  refs[i] \in RefTexts /\ refs[i][g] \in Text
<1>1. refs[i] \in RefTexts
  OBVIOUS
<1> QED
  BY <1>1 DEF RefTexts, RefFields

LEMMA SameShape ==
  ASSUME NEW S, NEW T, NEW s \in Seq(S), NEW t, t = [i \in DOMAIN s |-> t[i]],
         \A i \in DOMAIN s : t[i] \in T
  PROVE  t \in Seq(T) /\ Len(t) = Len(s) /\ DOMAIN t = DOMAIN s
<1>1. DOMAIN s = 1 .. Len(s) /\ Len(s) \in Nat
  OBVIOUS
<1>2. t \in [1 .. Len(s) -> T]
  BY <1>1
<1> QED
  BY <1>1, <1>2

LEMMA RestoreTyped ==
  ASSUME NEW q \in Redactors, NEW d \in Doc
  PROVE  Restore(q, d) \in Doc
<1> DEFINE e == Restore(q, d)
<1>1. \A f \in Scalars : RestoreText(q, d[f]) \in Text
  BY RestoreTextTyped DEF Doc, NoCv, Scalars
<1>2. /\ DOMAIN e = DOMAIN NoCv
      /\ \A f \in Scalars : e[f] \in Text
      /\ e.refs = [i \in DOMAIN d.refs |-> [g \in RefFields |-> RestoreText(q, d.refs[i][g])]]
      /\ e = [f \in DOMAIN NoCv |-> e[f]]
  BY <1>1 DEF Restore, Walk, Doc, NoCv, Scalars
<1>3. d.refs \in Seq(RefTexts)
  BY DEF Doc
<1>4. \A i \in DOMAIN d.refs, g \in RefFields : d.refs[i][g] \in Text
  BY <1>3, RefTextsHold
<1>5. \A i \in DOMAIN d.refs, g \in RefFields : RestoreText(q, d.refs[i][g]) \in Text
  BY <1>4, RestoreTextTyped
<1>6. \A i \in DOMAIN d.refs : [g \in RefFields |-> RestoreText(q, d.refs[i][g])] \in RefTexts
  BY <1>5 DEF RefFields, RefTexts
<1> HIDE DEF e
<1>7. e.refs \in Seq(RefTexts)
  <2>1. \A i \in DOMAIN d.refs : e.refs[i] \in RefTexts
    BY <1>2, <1>6
  <2>2. e.refs = [i \in DOMAIN d.refs |-> e.refs[i]]
    BY <1>2
  <2> QED
    BY <1>3, <2>1, <2>2, SameShape
<1> QED
  BY <1>2, <1>7 DEF e, Doc, NoCv, Scalars

-----------------------------------------------------------------------------
(* The words of a CV.                                                      *)

LEMMA JoinWords ==
  ASSUME NEW W, NEW a \in Seq(W), NEW b \in Seq(W)
  PROVE  a \o b \in Seq(W) /\ ToSet(a \o b) = ToSet(a) \cup ToSet(b)
<1> DEFINE c == a \o b
<1>1. /\ c \in Seq(W) /\ Len(c) = Len(a) + Len(b) /\ Len(a) \in Nat /\ Len(b) \in Nat
      /\ \A i \in 1 .. Len(a) : c[i] = a[i]
      /\ \A i \in 1 .. Len(b) : c[Len(a) + i] = b[i]
  OBVIOUS
<1> HIDE DEF c
<1>2. /\ DOMAIN a = 1 .. Len(a) /\ DOMAIN b = 1 .. Len(b) /\ DOMAIN c = 1 .. Len(c)
  BY <1>1
<1>3. ASSUME NEW w \in ToSet(c) PROVE w \in ToSet(a) \cup ToSet(b)
  <2>1. PICK i \in 1 .. Len(c) : c[i] = w
    BY <1>2, <1>3 DEF ToSet
  <2>2. CASE i <= Len(a)
    BY <1>1, <1>2, <2>1, <2>2 DEF ToSet
  <2>3. CASE ~(i <= Len(a))
    <3>1. i - Len(a) \in 1 .. Len(b) /\ Len(a) + (i - Len(a)) = i
      BY <1>1, <2>1, <2>3
    <3>2. b[i - Len(a)] = w
      BY <1>1, <2>1, <3>1
    <3> QED
      BY <1>2, <3>1, <3>2 DEF ToSet
  <2> QED
    BY <2>2, <2>3
<1>4. ToSet(a) \subseteq ToSet(c)
  BY <1>1, <1>2 DEF ToSet
<1>5. ASSUME NEW w \in ToSet(b) PROVE w \in ToSet(c)
  <2>1. PICK i \in 1 .. Len(b) : b[i] = w
    BY <1>2, <1>5 DEF ToSet
  <2>2. Len(a) + i \in 1 .. Len(c) /\ c[Len(a) + i] = w
    BY <1>1, <2>1
  <2> QED
    BY <1>2, <2>2 DEF ToSet
<1>6. ToSet(c) = ToSet(a) \cup ToSet(b)
  BY <1>3, <1>4, <1>5
<1> QED
  BY <1>1, <1>6 DEF c

LEMMA FlattenCovers ==
  ASSUME NEW W, NEW ss \in Seq(Seq(W)), NEW k \in DOMAIN ss
  PROVE  ToSet(ss[k]) \subseteq ToSet(FlattenSeq(ss))
<1>1. /\ DOMAIN ss = 1 .. Len(ss) /\ Len(ss) \in Nat /\ Len(ss) # 0 /\ k \in Nat
      /\ Len(ss) \in 1 .. Len(ss)
  OBVIOUS
<1>2. PICK g \in Running(W, ss, Len(ss)) : FlattenSeq(ss) = g[Len(ss)]
  BY <1>1, FlattenIsRunning
<1>3. /\ g \in [1 .. Len(ss) -> Seq(W)]
      /\ g[1] = ss[1]
      /\ \A i \in 1 .. Len(ss) : i # 1 => g[i] = g[i - 1] \o ss[i]
  BY <1>1, <1>2 DEF Running
<1> DEFINE T == {i \in Nat : i \in k .. Len(ss) => ToSet(ss[k]) \subseteq ToSet(g[i])}
<1>4. 0 \in T
  BY <1>1
<1>5. ASSUME NEW i \in Nat, i \in T PROVE i + 1 \in T
  <2> SUFFICES ASSUME i + 1 \in k .. Len(ss) PROVE ToSet(ss[k]) \subseteq ToSet(g[i + 1])
    OBVIOUS
  <2>1. i + 1 \in 1 .. Len(ss) /\ (i + 1) - 1 = i /\ ss[i + 1] \in Seq(W)
    BY <1>1
  <2>2. CASE i = 0
    <3>1. k = 1 /\ i + 1 = 1
      BY <1>1, <2>2
    <3> QED
      BY <1>3, <3>1
  <2>3. CASE i # 0
    <3>0. i \in 1 .. Len(ss) /\ i + 1 # 1
      BY <1>1, <2>3
    <3>1. g[i] \in Seq(W) /\ g[i + 1] = g[i] \o ss[i + 1]
      BY <1>3, <2>1, <3>0
    <3>2. ToSet(g[i + 1]) = ToSet(g[i]) \cup ToSet(ss[i + 1])
      BY <2>1, <3>1, JoinWords
    <3>3. CASE i + 1 = k
      BY <3>2, <3>3
    <3>4. CASE i + 1 # k
      <4>1. i \in k .. Len(ss)
        BY <1>1, <3>4
      <4> QED
        BY <1>5, <3>2, <4>1
    <3> QED
      BY <3>3, <3>4
  <2> QED
    BY <2>2, <2>3
<1>6. Nat \subseteq T
  <2> HIDE DEF T
  <2> QED
    BY <1>4, <1>5, Induction
<1>7. Len(ss) \in k .. Len(ss)
  BY <1>1
<1> QED
  BY <1>1, <1>2, <1>6, <1>7

LEMMA RefTextWords ==
  ASSUME NEW refs \in Seq(RefTexts)
  PROVE  /\ RefText(refs) \in Text
         /\ \A i \in DOMAIN refs, g \in RefFields : ToSet(refs[i][g]) \subseteq ToSet(RefText(refs))
         /\ \A w \in ToSet(RefText(refs)) :
              \E i \in DOMAIN refs, g \in RefFields : w \in ToSet(refs[i][g])
<1> DEFINE one(i) == refs[i].name \o refs[i].email \o refs[i].phone
           ss == [i \in DOMAIN refs |-> one(i)]
           S == {w \in Word : \E i \in DOMAIN refs, g \in RefFields : w \in ToSet(refs[i][g])}
<1>1. \A i \in DOMAIN refs :
        /\ refs[i].name \in Text /\ refs[i].email \in Text /\ refs[i].phone \in Text
  BY RefTextsHold DEF RefFields
<1>2. \A i \in DOMAIN refs :
        /\ one(i) \in Text
        /\ ToSet(one(i)) = ToSet(refs[i].name) \cup ToSet(refs[i].email) \cup ToSet(refs[i].phone)
  <2> SUFFICES ASSUME NEW i \in DOMAIN refs
               PROVE  /\ one(i) \in Text
                      /\ ToSet(one(i)) = ToSet(refs[i].name) \cup ToSet(refs[i].email)
                                           \cup ToSet(refs[i].phone)
    OBVIOUS
  <2> DEFINE a == refs[i].name
             b == refs[i].email
             c == refs[i].phone
  <2>1. a \in Seq(Word) /\ b \in Seq(Word) /\ c \in Seq(Word)
    BY <1>1 DEF Text
  <2> HIDE DEF a, b, c
  <2> DEFINE ab == a \o b
  <2>2. ab \in Seq(Word) /\ ToSet(ab) = ToSet(a) \cup ToSet(b)
    BY <2>1, JoinWords
  <2> HIDE DEF ab
  <2>3. ab \o c \in Seq(Word) /\ ToSet(ab \o c) = ToSet(ab) \cup ToSet(c)
    BY <2>1, <2>2, JoinWords
  <2> QED
    BY <2>2, <2>3 DEF a, b, c, ab, Text
<1>3. ss \in Seq(Text) /\ DOMAIN ss = DOMAIN refs /\ \A i \in DOMAIN refs : ss[i] = one(i)
  <2>1. \A i \in DOMAIN refs : ss[i] = one(i)
    OBVIOUS
  <2>2. ss = [i \in DOMAIN refs |-> ss[i]]
    OBVIOUS
  <2> HIDE DEF ss, one
  <2>3. \A i \in DOMAIN refs : ss[i] \in Text
    BY <1>2, <2>1
  <2> QED
    BY <2>1, <2>2, <2>3, SameShape
<1>4. RefText(refs) = FlattenSeq(ss)
  BY DEF RefText
<1>5. FlattenSeq(ss) \in Text
  BY <1>3, FlattenTyped DEF Text
<1>6. \A i \in DOMAIN refs : ToSet(one(i)) \subseteq ToSet(FlattenSeq(ss))
  <2> HIDE DEF ss, one
  <2> QED
    BY <1>3, FlattenCovers DEF Text
<1>7. \A i \in DOMAIN refs, g \in RefFields : ToSet(refs[i][g]) \subseteq ToSet(one(i))
  BY <1>2 DEF RefFields
<1>8. FlattenSeq(ss) \in Seq(S)
  <2>1. ASSUME NEW i \in DOMAIN refs PROVE ToSet(one(i)) \subseteq S
    <3>1. ASSUME NEW g \in RefFields PROVE ToSet(refs[i][g]) \subseteq S
      <4>1. refs[i][g] \in Text
        BY RefTextsHold
      <4>2. ToSet(refs[i][g]) \subseteq Word
        BY <4>1 DEF Text, ToSet
      <4> QED
        BY <4>2
    <3> HIDE DEF S
    <3> QED
      BY <1>2, <3>1 DEF RefFields
  <2>2. ASSUME NEW i \in DOMAIN refs PROVE one(i) \in Seq(S)
    <3>1. one(i) \in Text /\ ToSet(one(i)) \subseteq S
      BY <1>2, <2>1
    <3> HIDE DEF one, S
    <3> QED
      BY <3>1 DEF Text, ToSet
  <2>3. ss \in Seq(Seq(S))
    <3> HIDE DEF one, S
    <3> QED
      BY <2>2
  <2> HIDE DEF ss, S
  <2> QED
    BY <2>3, FlattenTyped
<1>9. ASSUME NEW w \in ToSet(FlattenSeq(ss))
      PROVE  \E i \in DOMAIN refs, g \in RefFields : w \in ToSet(refs[i][g])
  <2>1. w \in S
    <3> HIDE DEF ss, S
    <3> QED
      BY <1>8, <1>9 DEF ToSet
  <2> QED
    BY <2>1
<1> QED
  <2> HIDE DEF ss, one
  <2> QED
    BY <1>4, <1>5, <1>6, <1>7, <1>9

LEMMA DumpedWords ==
  ASSUME NEW d \in Doc
  PROVE  /\ Dumped(d) \in Text
         /\ WordsOf(d) \subseteq Word
         /\ WordsOf(d) = (UNION {ToSet(d[f]) : f \in Scalars}) \cup ToSet(RefText(d.refs))
<1> DEFINE refs == RefText(d.refs)
           c1 == d.name
           c2 == c1 \o d.email
           c3 == c2 \o d.phone
           c4 == c3 \o d.location
           c5 == c4 \o d.linkedin
           c6 == c5 \o d.summary
           c7 == c6 \o refs
           c8 == c7 \o d.dob
<1>1. /\ d.name \in Seq(Word) /\ d.email \in Seq(Word) /\ d.phone \in Seq(Word)
      /\ d.location \in Seq(Word) /\ d.linkedin \in Seq(Word) /\ d.summary \in Seq(Word)
      /\ d.dob \in Seq(Word)
  BY DEF Doc, Text
<1>2. refs \in Seq(Word)
  <2>1. d.refs \in Seq(RefTexts)
    BY DEF Doc
  <2> QED
    BY <2>1, RefTextWords DEF Text
<1> HIDE DEF refs
<1>3. c2 \in Seq(Word) /\ ToSet(c2) = ToSet(c1) \cup ToSet(d.email)
  BY <1>1, JoinWords
<1> HIDE DEF c2
<1>4. c3 \in Seq(Word) /\ ToSet(c3) = ToSet(c2) \cup ToSet(d.phone)
  BY <1>1, <1>3, JoinWords
<1> HIDE DEF c3
<1>5. c4 \in Seq(Word) /\ ToSet(c4) = ToSet(c3) \cup ToSet(d.location)
  BY <1>1, <1>4, JoinWords
<1> HIDE DEF c4
<1>6. c5 \in Seq(Word) /\ ToSet(c5) = ToSet(c4) \cup ToSet(d.linkedin)
  BY <1>1, <1>5, JoinWords
<1> HIDE DEF c5
<1>7. c6 \in Seq(Word) /\ ToSet(c6) = ToSet(c5) \cup ToSet(d.summary)
  BY <1>1, <1>6, JoinWords
<1> HIDE DEF c6
<1>8. c7 \in Seq(Word) /\ ToSet(c7) = ToSet(c6) \cup ToSet(refs)
  BY <1>2, <1>7, JoinWords
<1> HIDE DEF c7
<1>9. c8 \in Seq(Word) /\ ToSet(c8) = ToSet(c7) \cup ToSet(d.dob)
  BY <1>1, <1>8, JoinWords
<1> HIDE DEF c8
<1>10. Dumped(d) = c8
  BY DEF Dumped, c8, c7, c6, c5, c4, c3, c2, refs
<1>11. (UNION {ToSet(d[f]) : f \in Scalars}) =
         ToSet(d.name) \cup ToSet(d.email) \cup ToSet(d.phone) \cup ToSet(d.location)
           \cup ToSet(d.linkedin) \cup ToSet(d.summary) \cup ToSet(d.dob)
  <2>1. Scalars = {"name", "email", "phone", "location", "linkedin", "summary", "dob"}
    BY DEF Scalars, NoCv
  <2> QED
    BY <2>1
<1>12. WordsOf(d) = (UNION {ToSet(d[f]) : f \in Scalars}) \cup ToSet(refs)
  BY <1>3, <1>4, <1>5, <1>6, <1>7, <1>8, <1>9, <1>10, <1>11 DEF WordsOf
<1>13. WordsOf(d) \subseteq Word
  BY <1>9, <1>10 DEF WordsOf, ToSet
<1> QED
  BY <1>9, <1>10, <1>12, <1>13 DEF refs, Text

LEMMA DocWords ==
  ASSUME NEW d \in Doc
  PROVE  /\ \A f \in Scalars : d[f] \in Text /\ ToSet(d[f]) \subseteq WordsOf(d)
         /\ \A i \in DOMAIN d.refs, g \in RefFields : ToSet(d.refs[i][g]) \subseteq WordsOf(d)
         /\ \A w \in WordsOf(d) :
              \/ \E f \in Scalars : w \in ToSet(d[f])
              \/ \E i \in DOMAIN d.refs, g \in RefFields : w \in ToSet(d.refs[i][g])
<1>1. d.refs \in Seq(RefTexts)
  BY DEF Doc
<1>2. \A f \in Scalars : d[f] \in Text
  BY DEF Doc, Scalars, NoCv
<1>3. WordsOf(d) = (UNION {ToSet(d[f]) : f \in Scalars}) \cup ToSet(RefText(d.refs))
  BY DumpedWords
<1> QED
  BY <1>1, <1>2, <1>3, RefTextWords

-----------------------------------------------------------------------------
(* What redaction makes of a CV.                                           *)

LEMMA NumberedTyped ==
  ASSUME NEW r \in Redactors, NEW text \in Text
  PROVE  LET q == Numbered(r, text)
         IN /\ q \in Redactors /\ Numbers(q, ToSet(text))
            /\ q.name = r.name /\ q.dob = r.dob /\ q.linkedin = r.linkedin
            /\ q.location = r.location /\ q.refs = r.refs
            /\ q.emails = Listing("email", <<>>, text)
            /\ q.phones = Listing("phone", <<>>, text)
<1> DEFINE e == Listing("email", <<>>, text)
           p == Listing("phone", <<>>, text)
           q == Numbered(r, text)
<1>1. <<>> \in Seq(Word) /\ text \in Seq(Word)
  BY DEF Text
<1>2. /\ e \in Seq(Word)
      /\ \A k \in 1 .. Len(text) : text[k][1] = "email" => \E m \in 1 .. Len(e) : e[m] = text[k]
  <2>1. Lists(Word, "email", <<>>, text, e)
    BY <1>1, ListingLists
  <2> HIDE DEF e
  <2> QED
    BY <2>1 DEF Lists
<1>3. /\ p \in Seq(Word)
      /\ \A k \in 1 .. Len(text) : text[k][1] = "phone" => \E m \in 1 .. Len(p) : p[m] = text[k]
  <2>1. Lists(Word, "phone", <<>>, text, p)
    BY <1>1, ListingLists
  <2> HIDE DEF p
  <2> QED
    BY <2>1 DEF Lists
<1> HIDE DEF e, p
<1>4. /\ q.emails = e /\ q.phones = p /\ q \in Redactors
      /\ q.name = r.name /\ q.dob = r.dob /\ q.linkedin = r.linkedin
      /\ q.location = r.location /\ q.refs = r.refs
  BY <1>2, <1>3 DEF Numbered, Redactors, e, p, Text
<1> HIDE DEF q
<1>5. Numbers(q, ToSet(text))
  <2>1. DOMAIN text = 1 .. Len(text) /\ DOMAIN e = 1 .. Len(e) /\ DOMAIN p = 1 .. Len(p)
    BY <1>1, <1>2, <1>3
  <2>2. \A k \in DOMAIN text : text[k][1] = "email" => \E i \in DOMAIN q.emails : q.emails[i] = text[k]
    BY <1>2, <1>4, <2>1
  <2>3. \A k \in DOMAIN text : text[k][1] = "phone" => \E i \in DOMAIN q.phones : q.phones[i] = text[k]
    BY <1>3, <1>4, <2>1
  <2>4. \A w \in ToSet(text) : \E k \in DOMAIN text : text[k] = w
    BY DEF ToSet
  <2> QED
    BY <2>2, <2>3, <2>4 DEF Numbers
<1> QED
  BY <1>4, <1>5 DEF q, e, p

LEMMA RedactedTyped ==
  ASSUME NEW q \in Redactors, NEW text \in Text, Numbers(q, ToSet(text))
  PROVE  Redacted(q, text) \in Text
<1>1. \A i \in DOMAIN text : text[i] \in Word /\ text[i] \in ToSet(text)
  BY DEF Text, ToSet
<1>2. \A i \in DOMAIN text : RedactWord(q, text[i]) \in Word
  BY <1>1, RedactWordTyped DEF Numbers
<1> QED
  BY <1>2 DEF Redacted, Text

LEMMA RedactJsonTyped ==
  ASSUME NEW r \in Redactors, NEW d \in Doc, ~Breaks(d)
  PROVE  LET q == Numbered(r, Dumped(d))
             e == RedactJson(r, d)
         IN /\ e \in Doc
            /\ \A f \in Scalars : e[f] = Redacted(q, d[f])
            /\ e.refs = [i \in DOMAIN d.refs |-> [g \in RefFields |-> Redacted(q, d.refs[i][g])]]
<1> DEFINE q == Numbered(r, Dumped(d))
           e == RedactJson(r, d)
<1>1. q \in Redactors /\ Numbers(q, WordsOf(d))
  BY DumpedWords, NumberedTyped DEF WordsOf
<1> HIDE DEF q
<1>2. \A f \in Scalars : Redacted(q, d[f]) \in Text
  BY <1>1, DocWords, RedactedTyped DEF Numbers
<1>3. \A i \in DOMAIN d.refs, g \in RefFields : Redacted(q, d.refs[i][g]) \in Text
  <2>1. d.refs \in Seq(RefTexts)
    BY DEF Doc
  <2>2. \A i \in DOMAIN d.refs, g \in RefFields :
           d.refs[i][g] \in Text /\ Numbers(q, ToSet(d.refs[i][g]))
    BY <1>1, <2>1, DocWords, RefTextsHold DEF Numbers
  <2> QED
    BY <1>1, <2>2, RedactedTyped
<1>4. /\ DOMAIN e = DOMAIN NoCv
      /\ \A f \in Scalars : e[f] = Redacted(q, d[f])
      /\ e.refs = [i \in DOMAIN d.refs |-> [g \in RefFields |-> Redacted(q, d.refs[i][g])]]
      /\ e = [f \in DOMAIN NoCv |-> e[f]]
  BY DEF RedactJson, Walk, Doc, NoCv, Scalars, q
<1> HIDE DEF e
<1>5. e.refs \in Seq(RefTexts)
  <2>1. d.refs \in Seq(RefTexts)
    BY DEF Doc
  <2>2. \A i \in DOMAIN d.refs : [g \in RefFields |-> Redacted(q, d.refs[i][g])] \in RefTexts
    BY <1>3 DEF RefFields, RefTexts
  <2>3. \A i \in DOMAIN d.refs : e.refs[i] \in RefTexts
    BY <1>4, <2>2
  <2>4. e.refs = [i \in DOMAIN d.refs |-> e.refs[i]]
    BY <1>4
  <2> QED
    BY <2>1, <2>3, <2>4, SameShape
<1>6. e \in Doc
  <2>1. \A f \in Scalars : e[f] \in Text
    BY <1>2, <1>4
  <2> QED
    BY <1>4, <1>5, <2>1 DEF Doc, NoCv, Scalars
<1> QED
  BY <1>4, <1>6 DEF e, q

LEMMA ListsCover ==
  ASSUME NEW W, NEW kind, NEW known, NEW text \in Seq(W), NEW l,
         Lists(W, kind, known, text, l)
  PROVE  \A w \in ToSet(text) : w[1] = kind => \E i \in DOMAIN l : l[i] = w
<1>1. DOMAIN text = 1 .. Len(text) /\ DOMAIN l = 1 .. Len(l)
  BY DEF Lists
<1>2. \A k \in DOMAIN text : text[k][1] = kind => \E i \in DOMAIN l : l[i] = text[k]
  BY <1>1 DEF Lists
<1> QED
  BY <1>2 DEF ToSet

LEMMA FromCvTyped ==
  ASSUME NEW d \in Doc
  PROVE  /\ FromCv(d) \in Redactors
         /\ FromCv(d).name = d.name /\ FromCv(d).dob = d.dob /\ FromCv(d).linkedin = d.linkedin
         /\ FromCv(d).refs = d.refs /\ FromCv(d).location = d.location
<1>1. <<>> \in Text
  BY DEF Text
<1> QED
  BY <1>1 DEF FromCv, Redactor, Redactors, Doc

Token(text, t) == IF text = <<>> THEN <<>> ELSE <<t>>

(* What redact_cv_dict leaves of a CV: the redactor q and the document e.   *)
ScannedDoc(r, d, q, e) ==
  /\ q \in Redactors /\ Numbers(q, ToSet(d.summary))
  /\ q.name = r.name /\ q.dob = r.dob /\ q.linkedin = r.linkedin
  /\ q.location = r.location /\ q.refs = r.refs
  /\ Lists(Word, "email", d.email, d.summary, q.emails)
  /\ Lists(Word, "phone", d.phone, d.summary, q.phones)
  /\ e \in Doc
  /\ e.name = Token(d.name, <<"NAME", 0>>)
  /\ e.email = Token(d.email, <<"EMAIL", 1>>)
  /\ e.phone = Token(d.phone, <<"PHONE", 1>>)
  /\ e.location = Token(d.location, <<"LOCATION", 0>>)
  /\ e.linkedin = Token(d.linkedin, <<"LINKEDIN", 0>>)
  /\ e.dob = Token(d.dob, <<"DOB", 0>>)
  /\ e.summary = [i \in DOMAIN d.summary |-> ScanWord(q, d.summary[i])]
  /\ DOMAIN e.refs = DOMAIN d.refs /\ Len(e.refs) = Len(d.refs)
  /\ \A i \in DOMAIN d.refs :
       /\ e.refs[i].name = Token(d.refs[i].name, <<"REF_NAME", i>>)
       /\ e.refs[i].email = Token(d.refs[i].email, <<"REF_EMAIL", i>>)
       /\ e.refs[i].phone = Token(d.refs[i].phone, <<"REF_PHONE", i>>)

LEMMA RedactDictTyped ==
  ASSUME NEW r \in Redactors, NEW d \in Doc
  PROVE  ScannedDoc(r, d, RedactDict(r, d).redactor, RedactDict(r, d).doc)
<1> DEFINE q == RedactDict(r, d).redactor
           e == RedactDict(r, d).doc
           em == Listing("email", d.email, d.summary)
           ph == Listing("phone", d.phone, d.summary)
<1>1. d.email \in Seq(Word) /\ d.phone \in Seq(Word) /\ d.summary \in Seq(Word)
  BY DEF Doc, Text
<1>2. Lists(Word, "email", d.email, d.summary, em)
  BY <1>1, ListingLists
<1>3. Lists(Word, "phone", d.phone, d.summary, ph)
  BY <1>1, ListingLists
<1>4. q = [r EXCEPT !.emails = em, !.phones = ph]
  BY DEF RedactDict
<1> HIDE DEF em, ph
<1>5. /\ q \in Redactors /\ q.emails = em /\ q.phones = ph
      /\ q.name = r.name /\ q.dob = r.dob /\ q.linkedin = r.linkedin
      /\ q.location = r.location /\ q.refs = r.refs
  <2>1. em \in Text /\ ph \in Text
    BY <1>2, <1>3 DEF Lists, Text
  <2> QED
    BY <1>4, <2>1 DEF Redactors
<1>6. Numbers(q, ToSet(d.summary))
  <2>1. \A w \in ToSet(d.summary) : w[1] = "email" => \E i \in DOMAIN em : em[i] = w
    BY <1>1, <1>2, ListsCover
  <2>2. \A w \in ToSet(d.summary) : w[1] = "phone" => \E i \in DOMAIN ph : ph[i] = w
    BY <1>1, <1>3, ListsCover
  <2> QED
    BY <1>5, <2>1, <2>2 DEF Numbers
<1>7. /\ e.name = Token(d.name, <<"NAME", 0>>)
      /\ e.email = Token(d.email, <<"EMAIL", 1>>)
      /\ e.phone = Token(d.phone, <<"PHONE", 1>>)
      /\ e.location = Token(d.location, <<"LOCATION", 0>>)
      /\ e.linkedin = Token(d.linkedin, <<"LINKEDIN", 0>>)
      /\ e.dob = Token(d.dob, <<"DOB", 0>>)
  BY DEF RedactDict, Token
<1>8. e.summary = [i \in DOMAIN d.summary |-> ScanWord(q, d.summary[i])]
  BY <1>4 DEF RedactDict, em, ph
<1>9. e.refs = [i \in DOMAIN d.refs |->
                  [name |-> Token(d.refs[i].name, <<"REF_NAME", i>>),
                   email |-> Token(d.refs[i].email, <<"REF_EMAIL", i>>),
                   phone |-> Token(d.refs[i].phone, <<"REF_PHONE", i>>)]]
  BY DEF RedactDict, Token
<1>10. d.refs \in Seq(RefTexts)
  BY DEF Doc
<1>11. ASSUME NEW t \in TokenKinds, NEW n \in Nat, NEW text
       PROVE  Token(text, <<t, n>>) \in Text
  <2>1. <<>> \in Text
    BY DEF Text
  <2>2. <<t, n>> \in Word
    BY DEF Word
  <2>3. <<<<t, n>>>> \in Text
    BY <2>2 DEF Text
  <2> QED
    BY <2>1, <2>3 DEF Token
<1>12. DOMAIN e.refs = DOMAIN d.refs /\ Len(e.refs) = Len(d.refs) /\ e.refs \in Seq(RefTexts)
  <2>1. \A i \in DOMAIN d.refs : i \in Nat
    BY <1>10
  <2>2. \A i \in DOMAIN d.refs : e.refs[i] \in RefTexts
    BY <1>9, <1>11, <2>1 DEF RefTexts, TokenKinds
  <2>3. e.refs = [i \in DOMAIN d.refs |-> e.refs[i]]
    BY <1>9
  <2> DEFINE s == d.refs
             t == e.refs
  <2>4. s \in Seq(RefTexts) /\ t = [i \in DOMAIN s |-> t[i]] /\ \A i \in DOMAIN s : t[i] \in RefTexts
    BY <1>10, <2>2, <2>3
  <2> HIDE DEF s, t
  <2>5. t \in Seq(RefTexts) /\ Len(t) = Len(s) /\ DOMAIN t = DOMAIN s
    BY <2>4, SameShape
  <2> QED
    BY <2>5 DEF s, t
<1>13. e.summary \in Text
  <2>1. \A i \in DOMAIN d.summary : d.summary[i] \in Word /\ d.summary[i] \in ToSet(d.summary)
    BY <1>1 DEF ToSet
  <2>2. \A i \in DOMAIN d.summary : ScanWord(q, d.summary[i]) \in Word
    BY <1>5, <1>6, <2>1, ScanWordTyped DEF Numbers
  <2>3. \A i \in DOMAIN d.summary : e.summary[i] \in Word
    BY <1>8, <2>2
  <2>4. e.summary = [i \in DOMAIN d.summary |-> e.summary[i]]
    BY <1>8
  <2> QED
    BY <1>1, <2>3, <2>4, SameShape DEF Text
<1>14. e \in Doc
  <2>1. /\ e.name \in Text /\ e.email \in Text /\ e.phone \in Text /\ e.location \in Text
        /\ e.linkedin \in Text /\ e.dob \in Text
    BY <1>7, <1>11 DEF TokenKinds
  <2>2. e = [name |-> e.name, email |-> e.email, phone |-> e.phone, location |-> e.location,
             linkedin |-> e.linkedin, dob |-> e.dob, summary |-> e.summary, refs |-> e.refs]
    BY DEF RedactDict
  <2> QED
    BY <1>12, <1>13, <2>1, <2>2 DEF Doc
<1> HIDE DEF q, e
<1>15. \A i \in DOMAIN d.refs :
         /\ e.refs[i].name = Token(d.refs[i].name, <<"REF_NAME", i>>)
         /\ e.refs[i].email = Token(d.refs[i].email, <<"REF_EMAIL", i>>)
         /\ e.refs[i].phone = Token(d.refs[i].phone, <<"REF_PHONE", i>>)
  BY <1>9
<1> QED
  BY <1>2, <1>3, <1>5, <1>6, <1>7, <1>8, <1>12, <1>14, <1>15 DEF ScannedDoc, q, e

-----------------------------------------------------------------------------
(* Values of at most one word stay such when they are restored.            *)

Small(text) == text \in Text /\ Len(text) <= 1
SmallRedactor(q) ==
  /\ q \in Redactors
  /\ Small(q.name) /\ Small(q.dob) /\ Small(q.linkedin) /\ Small(q.location)
  /\ \A i \in DOMAIN q.refs, g \in RefFields : Small(q.refs[i][g])

LEMMA SmallOnes ==
  /\ Small(<<>>)
  /\ \A w \in Word : Small(<<w>>)
  /\ \A text : Small(text) => text = <<>> \/ \E w \in Word : text = <<w>>
<1>1. <<>> \in Text /\ Len(<<>>) = 0
  BY DEF Text
<1>2. \A w \in Word : <<w>> \in Text /\ Len(<<w>>) = 1
  BY DEF Text
<1>3. ASSUME NEW text, Small(text) PROVE text = <<>> \/ \E w \in Word : text = <<w>>
  <2>0. text \in Seq(Word) /\ Len(text) <= 1
    BY <1>3 DEF Small, Text
  <2>1. text \in Seq(Word) /\ (Len(text) = 0 \/ Len(text) = 1)
    <3>1. Len(text) \in Nat
      BY <2>0
    <3>2. \A n \in Nat : n <= 1 => n = 0 \/ n = 1
      OBVIOUS
    <3> QED
      BY <2>0, <3>1, <3>2, Zenon
  <2>2. CASE Len(text) = 0
    BY <2>1, <2>2
  <2>3. CASE Len(text) = 1
    <3>1. text[1] \in Word
      BY <2>1, <2>3
    <3>2. text = <<text[1]>>
      BY <2>1, <2>3
    <3> QED
      BY <3>1, <3>2
  <2> QED
    BY <2>1, <2>2, <2>3
<1> QED
  BY <1>1, <1>2, <1>3 DEF Small

LEMMA RestoreOne ==
  ASSUME NEW q \in Redactors
  PROVE  /\ RestoreText(q, <<>>) = <<>>
         /\ \A w \in Word : RestoreText(q, <<w>>) = RestoreWord(q, w)
<1>1. RestoreText(q, <<>>) = <<>>
  <2> DEFINE ss == [i \in DOMAIN <<>> |-> RestoreWord(q, <<>>[i])]
  <2>1. Len(ss) = 0 /\ ss = <<>>
    OBVIOUS
  <2> HIDE DEF ss
  <2>2. FlattenSeq(ss) = <<>>
    BY <2>1 DEF FlattenSeq
  <2> QED
    BY <2>2 DEF RestoreText, Each, ss
<1>2. ASSUME NEW w \in Word PROVE RestoreText(q, <<w>>) = RestoreWord(q, w)
  <2> DEFINE text == <<w>>
             x == RestoreWord(q, w)
             ss == [i \in DOMAIN text |-> RestoreWord(q, text[i])]
  <2>1. x \in Seq(Word)
    BY <1>2, RestoreWordTyped DEF Text
  <2>2. DOMAIN text = {1} /\ text[1] = w
    OBVIOUS
  <2>3. ss = <<x>>
    <3>1. DOMAIN ss = 1 .. 1 /\ ss[1] = x
      BY <2>2
    <3> QED
      BY <3>1
  <2> HIDE DEF x
  <2>4. FlattenSeq(<<x>>) = x
    BY <2>1, FlattenOne
  <2>5. RestoreText(q, text) = FlattenSeq(ss)
    BY DEF RestoreText, Each
  <2> QED
    BY <2>3, <2>4, <2>5 DEF x
<1> QED
  BY <1>1, <1>2

LEMMA RestoreWordSmall ==
  ASSUME NEW q, SmallRedactor(q), NEW w \in Word
  PROVE  Small(RestoreWord(q, w))
<1>1. Small(<<w>>) /\ Small(<<>>)
  BY SmallOnes
<1>2. RestoreWord(q, w) \in Text
  BY RestoreWordTyped DEF SmallRedactor
<1>3. \A list : Len(Listed(list, w)) <= 1
  <2> SUFFICES ASSUME NEW list PROVE Len(Listed(list, w)) <= 1
    OBVIOUS
  <2>1. Len(<<list[w[2]]>>) <= 1 /\ Len(<<w>>) <= 1
    OBVIOUS
  <2> QED
    BY <2>1, Zenon DEF Listed
<1>4. \A text : Small(text) => Small(Known(text, w))
  BY <1>1 DEF Known
<1>5. \A g \in RefFields : Small(OfRef(q, g, w))
  BY <1>1, <1>4 DEF OfRef, SmallRedactor
<1>6. Len(Slug(q.name)) <= 1
  BY DEF Slug
<1>7. Len(RestoreWord(q, w)) <= 1
  BY <1>1, <1>3, <1>4, <1>5, <1>6 DEF RestoreWord, SmallRedactor, Small, RefFields
<1> QED
  BY <1>2, <1>7 DEF Small

LEMMA RestoreTextSmall ==
  ASSUME NEW q, SmallRedactor(q), NEW text, Small(text)
  PROVE  Small(RestoreText(q, text))
<1>1. q \in Redactors
  BY DEF SmallRedactor
<1>2. CASE text = <<>>
  BY <1>1, <1>2, RestoreOne
<1>3. CASE text # <<>>
  <2>1. PICK w \in Word : text = <<w>>
    BY <1>3, SmallOnes
  <2>2. RestoreText(q, text) = RestoreWord(q, w)
    BY <1>1, <2>1, RestoreOne
  <2> QED
    BY <2>1, <2>2, RestoreWordSmall
<1> QED
  BY <1>2, <1>3

LEMMA FirstOfText ==
  ASSUME NEW kinds, NEW text \in Text
  PROVE  LET t == FirstOf(kinds, text)
         IN t = <<>> \/ \E w \in ToSet(text) : t = <<w>> /\ w[1] \in kinds
<1> DEFINE found == {i \in DOMAIN text : text[i][1] \in kinds}
<1>1. CASE found = {}
  BY <1>1 DEF FirstOf
<1>2. CASE found # {}
  <2>1. found \subseteq Nat
    BY DEF Text
  <2>2. \E x \in found : \A y \in found : x <= y
    <3> HIDE DEF found
    <3> QED
      BY <1>2, <2>1, LeastElement
  <2>3. Min(found) \in found
    <3> HIDE DEF found
    <3> QED
      BY <2>2 DEF Min
  <2>4. FirstOf(kinds, text) = <<text[Min(found)]>>
    BY <1>2 DEF FirstOf
  <2>5. text[Min(found)] \in ToSet(text) /\ text[Min(found)][1] \in kinds
    <3> DEFINE m == Min(found)
    <3>1. m \in DOMAIN text /\ text[m][1] \in kinds
      BY <2>3
    <3> HIDE DEF m
    <3> QED
      BY <3>1 DEF ToSet, m
  <2> HIDE DEF found
  <2> QED
    BY <2>4, <2>5
<1> QED
  BY <1>1, <1>2

LEMMA ValuesSmall ==
  ASSUME NEW kind \in ValueKinds, NEW text \in Values(kind)
  PROVE  /\ Small(text)
         /\ \A w : text = <<w>> => w \in Word /\ w[1] = kind
<1>1. Small(text)
  BY ValuesAreTexts DEF Values, Small
<1>2. ASSUME NEW w, text = <<w>> PROVE w \in Word /\ w[1] = kind
  <2> DEFINE K == {kind} \X Nat
  <2>1. text \in Seq(K)
    BY DEF Values
  <2> HIDE DEF K
  <2>2. text[1] \in K /\ text[1] = w
    BY <1>2, <2>1
  <2> QED
    BY <2>2 DEF K, Word
<1> QED
  BY <1>1, <1>2

LEMMA RefValuesSmall ==
  ASSUME NEW refs \in Seq(RefValues)
  PROVE  /\ refs \in Seq(RefTexts)
         /\ \A i \in DOMAIN refs, g \in RefFields : Small(refs[i][g])
         /\ \A w : \A i \in DOMAIN refs : refs[i].name = <<w>> => w[1] = "name"
         /\ \A w : \A i \in DOMAIN refs : refs[i].email = <<w>> => w[1] = "email"
         /\ \A w : \A i \in DOMAIN refs : refs[i].phone = <<w>> => w[1] = "phone"
<1>1. \A i \in DOMAIN refs : refs[i] \in RefValues
  OBVIOUS
<1>2. \A i \in DOMAIN refs : /\ refs[i].name \in Values("name")
                             /\ refs[i].email \in Values("email")
                             /\ refs[i].phone \in Values("phone")
  BY <1>1 DEF RefValues
<1>3. "name" \in ValueKinds /\ "email" \in ValueKinds /\ "phone" \in ValueKinds
  BY DEF ValueKinds
<1> QED
  BY <1>2, <1>3, ValuesSmall, RefValuesAreTexts DEF RefFields

LEMMA VaultSmall ==
  ASSUME NEW v \in Vaults
  PROVE  /\ SmallRedactor(FromVault(v))
         /\ FromVault(v).refs \in Seq(RefValues)
         /\ FromVault(v).refs = v.refs
         /\ \A f \in {"name", "email", "phone", "dob", "linkedin", "location"} : Small(v[f])
<1>1. v \in Vault /\ (~v.held => \A f \in DOMAIN v \ {"held"} : v[f] = <<>>)
  BY RedactionAssumption
<1>2. v.refs \in Seq(RefValues) /\ (~v.held => v.refs = <<>>)
  BY <1>1 DEF Vault
<1>3. /\ v.name \in Values("name") /\ v.email \in Values("email") /\ v.phone \in Values("phone")
      /\ v.dob \in Values("date") /\ v.linkedin \in Values("linkedin")
      /\ v.location \in Values("city")
  BY <1>1 DEF Vault
<1>4. /\ "name" \in ValueKinds /\ "email" \in ValueKinds /\ "phone" \in ValueKinds
      /\ "date" \in ValueKinds /\ "linkedin" \in ValueKinds /\ "city" \in ValueKinds
  BY DEF ValueKinds
<1>5. /\ Small(v.name) /\ Small(v.email) /\ Small(v.phone) /\ Small(v.dob)
      /\ Small(v.linkedin) /\ Small(v.location)
  BY <1>3, <1>4, ValuesSmall
<1>6. Small(<<>>) /\ <<>> \in Text /\ <<>> \in Seq(RefTexts) /\ <<>> \in Seq(RefValues)
  BY SmallOnes DEF Small
<1>7. v.refs \in Seq(RefTexts) /\ \A i \in DOMAIN v.refs, g \in RefFields : Small(v.refs[i][g])
  BY <1>2, RefValuesSmall
<1>8. SmallRedactor(FromVault(v)) /\ FromVault(v).refs = v.refs
  <2>1. CASE v.held
    <3>1. /\ FromVault(v) = [name |-> v.name, dob |-> v.dob, linkedin |-> v.linkedin,
                             refs |-> v.refs, location |-> <<>>, emails |-> <<>>, phones |-> <<>>]
      BY <2>1 DEF FromVault, Redactor
    <3> QED
      BY <1>5, <1>6, <1>7, <3>1 DEF SmallRedactor, Redactors, Small
  <2>2. CASE ~v.held
    <3>1. /\ FromVault(v) = [name |-> <<>>, dob |-> <<>>, linkedin |-> <<>>,
                             refs |-> <<>>, location |-> <<>>, emails |-> <<>>, phones |-> <<>>]
      BY <2>2 DEF FromVault, Redactor
    <3> QED
      BY <1>2, <1>6, <2>2, <3>1 DEF SmallRedactor, Redactors, Small
  <2> QED
    BY <2>1, <2>2
<1> QED
  BY <1>2, <1>5, <1>8

LEMMA MyName == Own("name") \in Word /\ Bracket \in Word
BY DEF Own, Me, Bracket, Word, ValueKinds

LEMMA FullNameTyped == Small(FullName)
BY SmallOnes, MyName DEF FullName

LEMMA PipelineTyped ==
  ASSUME TypeOK
  PROVE  /\ SmallRedactor(PipelineText.redactor)
         /\ PipelineText.text \in Text
         /\ PipelineText.redactor.refs = vault.refs
         /\ attempt.named => /\ PipelineText.redactor.name = FullName
                             /\ Numbers(PipelineText.redactor, ToSet(upload))
                             /\ PipelineText.text = Redacted(PipelineText.redactor, upload)
                             /\ PipelineText.redactor.dob = FromVault(vault).dob
                             /\ PipelineText.redactor.linkedin = FromVault(vault).linkedin
         /\ ~attempt.named => PipelineText.text = upload
<1> DEFINE r == [FromVault(vault) EXCEPT !.name = FullName]
           q == Numbered(r, upload)
<1>1. upload \in Text /\ vault \in Vaults
  BY RedactionAssumption DEF TypeOK
<1>2. SmallRedactor(FromVault(vault)) /\ FromVault(vault).refs = vault.refs
  BY <1>1, VaultSmall
<1>3. CASE ~attempt.named
  BY <1>1, <1>2, <1>3 DEF PipelineText
<1>4. CASE attempt.named
  <2>1. /\ SmallRedactor(r) /\ r.name = FullName /\ r.refs = vault.refs
        /\ r.dob = FromVault(vault).dob /\ r.linkedin = FromVault(vault).linkedin
    BY <1>2, FullNameTyped DEF SmallRedactor, Redactors, Small
  <2> HIDE DEF r
  <2>2. /\ q \in Redactors /\ Numbers(q, ToSet(upload))
        /\ q.name = r.name /\ q.dob = r.dob /\ q.linkedin = r.linkedin
        /\ q.location = r.location /\ q.refs = r.refs
    BY <1>1, <2>1, NumberedTyped DEF SmallRedactor
  <2> HIDE DEF q
  <2>3. SmallRedactor(q)
    BY <2>1, <2>2 DEF SmallRedactor
  <2>4. Redacted(q, upload) \in Text
    BY <1>1, <2>2, RedactedTyped
  <2>5. PipelineText.redactor = q /\ PipelineText.text = Redacted(q, upload)
    BY <1>4 DEF PipelineText, RedactText, q, r
  <2> QED
    BY <1>4, <2>1, <2>2, <2>3, <2>4, <2>5
<1> QED
  BY <1>3, <1>4

-----------------------------------------------------------------------------
(* What the model answers, and what the pipeline makes of it.              *)

Modes == {"echo", "omit", "bracket"}

LEMMA AttemptSmall ==
  ASSUME TypeOK
  PROVE  /\ attempt.refs \in Seq(RefValues) /\ attempt.refs \in Seq(RefTexts)
         /\ attempt.named \in BOOLEAN
         /\ SmallRedactor(RefRedactor)
         /\ RefRedactor.name = <<>>
<1>1. attempt.refs \in Seq(RefValues) /\ attempt.refs \in Seq(RefTexts) /\ attempt.named \in BOOLEAN
  BY AttemptTyped DEF TypeOK
<1>2. \A i \in DOMAIN attempt.refs, g \in RefFields : Small(attempt.refs[i][g])
  BY <1>1, RefValuesSmall
<1>3. Small(<<>>) /\ <<>> \in Text
  BY SmallOnes DEF Small
<1> QED
  BY <1>1, <1>2, <1>3 DEF RefRedactor, Redactor, SmallRedactor, Redactors

LEMMA ContextTyped ==
  ASSUME TypeOK
  PROVE  /\ PersonalContext \in Seq(RefTexts)
         /\ \A i \in DOMAIN PersonalContext, g \in RefFields :
              \A w \in ToSet(PersonalContext[i][g]) :
                 w[1] \in {"REF_NAME", "REF_EMAIL", "REF_PHONE"}
         /\ attempt.refs = <<>> => PersonalContext = <<>>
<1>1. attempt.refs \in Seq(RefTexts)
  BY AttemptSmall
<1>2. \A i \in DOMAIN attempt.refs : i \in Nat
  BY <1>1
<1> DEFINE token(i, f) == <<CASE f = "name" -> "REF_NAME" [] f = "email" -> "REF_EMAIL"
                              [] OTHER -> "REF_PHONE", i>>
           p == PersonalContext
<1>3. p = [i \in DOMAIN attempt.refs |->
             [f \in RefFields |-> IF attempt.refs[i][f] = <<>> THEN <<>> ELSE <<token(i, f)>>]]
  BY DEF PersonalContext
<1>4. ASSUME NEW i \in DOMAIN attempt.refs, NEW f \in RefFields
      PROVE  /\ token(i, f)[1] \in {"REF_NAME", "REF_EMAIL", "REF_PHONE"}
             /\ token(i, f) \in Word
  BY <1>2 DEF Word, TokenKinds
<1> HIDE DEF token, p
<1>5. <<>> \in Text /\ \A w \in Word : <<w>> \in Text
  BY SmallOnes DEF Small
<1>6. \A i \in DOMAIN attempt.refs, f \in RefFields :
        /\ p[i][f] = <<>> \/ p[i][f] = <<token(i, f)>>
        /\ p[i][f] \in Text
  BY <1>3, <1>4, <1>5
<1>7. \A i \in DOMAIN attempt.refs : p[i] = [f \in RefFields |-> p[i][f]]
  BY <1>3
<1>8. \A i \in DOMAIN attempt.refs : p[i] \in RefTexts
  BY <1>6, <1>7 DEF RefTexts, RefFields
<1>9. p \in Seq(RefTexts) /\ DOMAIN p = DOMAIN attempt.refs
  <2>1. p = [i \in DOMAIN attempt.refs |-> p[i]]
    BY <1>3
  <2> DEFINE s == attempt.refs
  <2>2. s \in Seq(RefTexts) /\ p = [i \in DOMAIN s |-> p[i]] /\ \A i \in DOMAIN s : p[i] \in RefTexts
    BY <1>1, <1>8, <2>1
  <2> HIDE DEF s
  <2>3. p \in Seq(RefTexts) /\ Len(p) = Len(s) /\ DOMAIN p = DOMAIN s
    BY <2>2, SameShape
  <2> QED
    BY <2>3 DEF s
<1>10. \A w, u : u \in ToSet(<<w>>) => u = w
  BY DEF ToSet
<1>11. ToSet(<<>>) = {}
  BY DEF ToSet
<1>12. \A i \in DOMAIN p, g \in RefFields : \A w \in ToSet(p[i][g]) :
          w[1] \in {"REF_NAME", "REF_EMAIL", "REF_PHONE"}
  <2> SUFFICES ASSUME NEW i \in DOMAIN p, NEW g \in RefFields, NEW w \in ToSet(p[i][g])
               PROVE  w[1] \in {"REF_NAME", "REF_EMAIL", "REF_PHONE"}
    OBVIOUS
  <2>1. i \in DOMAIN attempt.refs
    BY <1>9
  <2>2. p[i][g] = <<>> \/ p[i][g] = <<token(i, g)>>
    BY <1>6, <2>1
  <2>3. w = token(i, g)
    BY <1>10, <1>11, <2>2
  <2> QED
    BY <1>4, <2>1, <2>3
<1>13. attempt.refs = <<>> => p = <<>>
  BY <1>3
<1> QED
  BY <1>9, <1>12, <1>13 DEF p

LEMMA AnswerTyped ==
  ASSUME TypeOK, NEW mode \in Modes, NEW text \in Text, NEW a, a = Answer(mode, text)
  PROVE  /\ a \in Doc
         /\ Small(a.name) /\ Small(a.email) /\ Small(a.phone)
         /\ \/ a.name \in {<<>>, <<Bracket>>, <<Own("name")>>}
            \/ \E w \in Word : a.name = <<w>> /\ w[1] = "NAME"
         /\ a.summary = text /\ a.dob = <<>> /\ a.location = <<>>
         /\ a.refs = <<>> \/ a.refs = PersonalContext
<1> DEFINE field(kinds) == CASE mode = "echo" -> FirstOf(kinds, text)
                             [] mode = "omit" -> <<>>
                             [] mode = "bracket" -> <<Bracket>>
           name == IF mode = "echo" /\ ~Contains(text, <<"NAME", 0>>)
                   THEN IF Contains(text, Own("name")) THEN <<Own("name")>> ELSE <<>>
                   ELSE field({"NAME"})
           refs == IF mode = "echo" THEN PersonalContext ELSE <<>>
<1>1. \A w \in ToSet(text) : w \in Word
  BY DEF Text, ToSet
<1>2. ASSUME NEW kinds
      PROVE  \/ field(kinds) \in {<<>>, <<Bracket>>}
             \/ \E w \in Word : field(kinds) = <<w>> /\ w[1] \in kinds
  BY <1>1, FirstOfText DEF Modes
<1>3. a = [NoCv EXCEPT !.name = name, !.email = field({"EMAIL", "REF_EMAIL", "email"}),
                       !.phone = field({"PHONE", "phone"}),
                       !.linkedin = field({"LINKEDIN", "linkedin"}),
                       !.summary = text, !.refs = refs]
  BY DEF Answer
<1>4. \/ name \in {<<>>, <<Bracket>>, <<Own("name")>>}
      \/ \E w \in Word : name = <<w>> /\ w[1] = "NAME"
  <2>1. \/ field({"NAME"}) \in {<<>>, <<Bracket>>}
        \/ \E w \in Word : field({"NAME"}) = <<w>> /\ w[1] \in {"NAME"}
    BY <1>2
  <2> HIDE DEF field
  <2> QED
    BY <2>1
<1>5. \A kinds : Small(field(kinds))
  <2> HIDE DEF field
  <2> QED
    BY <1>2, SmallOnes, MyName
<1>6. Small(name)
  BY <1>4, SmallOnes, MyName
<1>7. refs \in Seq(RefTexts) /\ (refs = <<>> \/ refs = PersonalContext)
  BY ContextTyped
<1> HIDE DEF field, name, refs
<1>8. a \in Doc
  <2>1. <<>> \in Text
    BY DEF Text
  <2> QED
    <3>1. \A kinds : field(kinds) \in Text
      BY <1>5 DEF Small
    <3>2. name \in Text
      BY <1>6 DEF Small
    <3>3. a = [name |-> name, email |-> field({"EMAIL", "REF_EMAIL", "email"}),
               phone |-> field({"PHONE", "phone"}), location |-> <<>>,
               linkedin |-> field({"LINKEDIN", "linkedin"}), dob |-> <<>>,
               summary |-> text, refs |-> refs]
      BY <1>3 DEF NoCv
    <3>4. /\ field({"EMAIL", "REF_EMAIL", "email"}) \in Text /\ field({"PHONE", "phone"}) \in Text
          /\ field({"LINKEDIN", "linkedin"}) \in Text
      BY <3>1
    <3> QED
      BY <1>7, <2>1, <3>2, <3>3, <3>4 DEF Doc
<1>9. /\ a.name = name /\ a.email = field({"EMAIL", "REF_EMAIL", "email"})
      /\ a.phone = field({"PHONE", "phone"})
      /\ a.summary = text /\ a.dob = <<>> /\ a.location = <<>> /\ a.refs = refs
  BY <1>3 DEF NoCv
<1> QED
  BY <1>4, <1>5, <1>6, <1>7, <1>8, <1>9

LEMMA RestoredDoc ==
  ASSUME NEW q, SmallRedactor(q), NEW d \in Doc
  PROVE  /\ Restore(q, d) \in Doc
         /\ \A f \in Scalars : Restore(q, d)[f] = RestoreText(q, d[f])
         /\ \A f \in Scalars : Small(d[f]) => Small(Restore(q, d)[f])
         /\ DOMAIN Restore(q, d).refs = DOMAIN d.refs
         /\ d.refs = <<>> => Restore(q, d).refs = <<>>
<1>1. q \in Redactors
  BY DEF SmallRedactor
<1>2. Restore(q, d) \in Doc
  BY <1>1, RestoreTyped
<1>3. /\ \A f \in Scalars : Restore(q, d)[f] = RestoreText(q, d[f])
      /\ Restore(q, d).refs =
           [i \in DOMAIN d.refs |-> [g \in RefFields |-> RestoreText(q, d.refs[i][g])]]
  BY Walked
<1>4. \A f \in Scalars : Small(d[f]) => Small(Restore(q, d)[f])
  BY <1>3, RestoreTextSmall
<1>5. d.refs = <<>> => Restore(q, d).refs = <<>>
  BY <1>3
<1> QED
  BY <1>2, <1>3, <1>4, <1>5

LEMMA RestoredName ==
  ASSUME NEW q \in Redactors, NEW t \in Text,
         \/ t \in {<<>>, <<Bracket>>, <<Own("name")>>}
         \/ \E w \in Word : t = <<w>> /\ w[1] = "NAME"
  PROVE  \/ RestoreText(q, t) = t /\ t \in {<<>>, <<Bracket>>, <<Own("name")>>}
         \/ RestoreText(q, t) = q.name
<1>1. RestoreWord(q, Bracket) = <<Bracket>> /\ RestoreWord(q, Own("name")) = <<Own("name")>>
  BY DEF RestoreWord, Bracket, Own
<1>2. \A w \in Word : w[1] = "NAME" => RestoreWord(q, w) = q.name
  BY DEF RestoreWord
<1> QED
  BY <1>1, <1>2, RestoreOne, MyName

LEMMA PrefilledTyped ==
  ASSUME TypeOK, NEW d \in Doc, NEW p, p = Prefilled(d)
  PROVE  /\ p \in Doc /\ p.refs = d.refs /\ p.summary = d.summary /\ p.dob = d.dob
         /\ \A f \in {"name", "email", "phone"} : Small(d[f]) => Small(p[f])
         /\ attempt.named /\ IsOpen(d.name) => p.name = FullName
         /\ p.name = d.name \/ p.name = Source("name")
<1>1. vault \in Vaults
  BY DEF TypeOK
<1>2. \A f \in {"name", "email", "phone", "linkedin", "location"} : Small(vault[f])
  BY <1>1, VaultSmall
<1>3. \A f \in {"name", "email", "phone", "linkedin", "location"} : Small(Source(f))
  BY <1>2, FullNameTyped, SmallOnes DEF Source
<1>4. p = [f \in DOMAIN NoCv |->
             IF /\ f \in {"name", "email", "phone", "linkedin", "location"}
                /\ Source(f) # <<>> /\ IsOpen(d[f])
             THEN Source(f) ELSE d[f]]
  BY DEF Prefilled, Doc, NoCv
<1>5. /\ \A f \in DOMAIN NoCv : p[f] = d[f] \/ p[f] = Source(f)
      /\ p.refs = d.refs /\ p.summary = d.summary /\ p.dob = d.dob
      /\ \A f \in {"name", "email", "phone", "linkedin", "location"} :
           Small(d[f]) => Small(p[f])
  <2> HIDE DEF Prefilled
  <2>1. \A f \in {"name", "email", "phone", "linkedin", "location", "summary", "dob", "refs"} :
           f \in DOMAIN NoCv
    BY DEF NoCv
  <2> QED
    BY <1>3, <1>4, <2>1
<1>6. attempt.named /\ IsOpen(d.name) => p.name = FullName
  <2>1. attempt.named => Source("name") = FullName /\ FullName # <<>>
    BY DEF Source, FullName
  <2>2. "name" \in DOMAIN NoCv
    BY DEF NoCv
  <2> QED
    BY <1>4, <2>1, <2>2
<1>7. \A f \in Scalars : p[f] \in Text
  <2>1. \A f \in {"name", "email", "phone", "linkedin", "location"} : d[f] \in Text /\ Source(f) \in Text
    BY <1>3 DEF Doc, Small
  <2>2. d.summary \in Text /\ d.dob \in Text
    BY DEF Doc
  <2> QED
    BY <1>5, <2>1, <2>2 DEF Scalars, NoCv
<1>8. p \in Doc
  <2>1. d.refs \in Seq(RefTexts)
    BY DEF Doc
  <2>2. DOMAIN p = DOMAIN NoCv /\ p = [f \in DOMAIN NoCv |-> p[f]]
    BY <1>4
  <2> QED
    BY <1>5, <1>7, <2>1, <2>2 DEF Doc, NoCv, Scalars
<1>9. p.name = d.name \/ p.name = Source("name")
  BY <1>5 DEF NoCv
<1> QED
  BY <1>5, <1>6, <1>8, <1>9

LEMMA DraftedTyped ==
  ASSUME TypeOK, NEW mode \in Modes, NEW c, c = Drafted(mode)
  PROVE  /\ c \in Doc /\ c.refs = attempt.refs
         /\ Small(c.name) /\ Small(c.email) /\ Small(c.phone)
         /\ attempt.named => c.name = FullName
<1> DEFINE q == PipelineText.redactor
           a == Answer(mode, PipelineText.text)
           t == Tailored(mode, PipelineText.text)
           r == IF attempt.named THEN Restore(q, t) ELSE t
           p == Prefilled(r)
<1>1. /\ SmallRedactor(q) /\ q \in Redactors
      /\ attempt.named => q.name = FullName
  BY PipelineTyped DEF SmallRedactor
<1>2. /\ a \in Doc
      /\ Small(a.name) /\ Small(a.email) /\ Small(a.phone)
      /\ \/ a.name \in {<<>>, <<Bracket>>, <<Own("name")>>}
         \/ \E w \in Word : a.name = <<w>> /\ w[1] = "NAME"
      /\ a.refs = <<>> \/ a.refs = PersonalContext
  BY PipelineTyped, AnswerTyped
<1>3. /\ SmallRedactor(RefRedactor) /\ RefRedactor \in Redactors /\ RefRedactor.name = <<>>
      /\ attempt.refs \in Seq(RefTexts)
  BY AttemptSmall DEF SmallRedactor
<1>4. t = IF attempt.refs = <<>> THEN a ELSE Restore(RefRedactor, a)
  BY DEF Tailored
<1>5. c = IF attempt.refs = <<>> THEN p ELSE [p EXCEPT !.refs = attempt.refs]
  BY DEF Drafted
<1>6. attempt.refs = <<>> => a.refs = <<>>
  BY <1>2, ContextTyped
<1>a. "name" \in Scalars /\ "email" \in Scalars /\ "phone" \in Scalars
  BY DEF Scalars, NoCv
<1> HIDE DEF q, a, t, r, p
<1>7. /\ t \in Doc /\ Small(t.name) /\ Small(t.email) /\ Small(t.phone)
      /\ attempt.refs = <<>> => t.refs = <<>>
      /\ \/ t.name \in {<<>>, <<Bracket>>, <<Own("name")>>}
         \/ \E w \in Word : t.name = <<w>> /\ w[1] = "NAME"
  <2>1. CASE attempt.refs = <<>>
    BY <1>2, <1>4, <1>6, <2>1
  <2>2. CASE attempt.refs # <<>>
    <3>1. /\ t \in Doc /\ t.name = RestoreText(RefRedactor, a.name)
          /\ Small(t.name) /\ Small(t.email) /\ Small(t.phone)
      BY <1>2, <1>3, <1>4, <1>a, <2>2, RestoredDoc
    <3>2. a.name \in Text
      BY <1>2 DEF Small
    <3>3. t.name \in {<<>>, <<Bracket>>, <<Own("name")>>}
      BY <1>2, <1>3, <3>1, <3>2, RestoredName
    <3> QED
      BY <2>2, <3>1, <3>3
  <2> QED
    BY <2>1, <2>2
<1>8. /\ r \in Doc /\ Small(r.name) /\ Small(r.email) /\ Small(r.phone)
      /\ attempt.refs = <<>> => r.refs = <<>>
      /\ attempt.named => r.name \in {<<>>, <<Bracket>>, FullName}
  <2>1. CASE ~attempt.named
    BY <1>7, <2>1 DEF r
  <2>2. CASE attempt.named
    <3>1. /\ r \in Doc /\ r.name = RestoreText(q, t.name)
          /\ Small(r.name) /\ Small(r.email) /\ Small(r.phone)
          /\ attempt.refs = <<>> => r.refs = <<>>
      BY <1>1, <1>7, <1>a, <2>2, RestoredDoc DEF r
    <3>2. t.name \in Text
      BY <1>7 DEF Small
    <3>3. r.name \in {<<>>, <<Bracket>>, FullName}
      BY <1>1, <1>7, <2>2, <3>1, <3>2, RestoredName DEF FullName
    <3> QED
      BY <3>1, <3>3
  <2> QED
    BY <2>1, <2>2
<1>9. /\ p \in Doc /\ p.refs = r.refs
      /\ Small(p.name) /\ Small(p.email) /\ Small(p.phone)
      /\ attempt.named /\ IsOpen(r.name) => p.name = FullName
      /\ p.name = r.name \/ p.name = Source("name")
  BY <1>8, PrefilledTyped DEF p
<1>10. attempt.named => p.name = FullName
  <2>1. IsOpen(<<>>) /\ IsOpen(<<Bracket>>)
    BY DEF IsOpen
  <2>2. attempt.named => Source("name") = FullName
    BY DEF Source
  <2> QED
    BY <1>8, <1>9, <2>1, <2>2
<1>11. c \in Doc /\ c.refs = attempt.refs /\ c.name = p.name /\ c.email = p.email /\ c.phone = p.phone
  BY <1>3, <1>5, <1>8, <1>9 DEF Doc
<1> QED
  BY <1>9, <1>10, <1>11

-----------------------------------------------------------------------------
(* The round trip of a CV through redact_cv_dict and restore.              *)

LEMMA TokenRestored ==
  ASSUME NEW q \in Redactors, NEW text, NEW w \in Word
  PROVE  RestoreText(q, Token(text, w)) = IF text = <<>> THEN <<>> ELSE RestoreWord(q, w)
BY RestoreOne DEF Token

LEMMA TokenWords ==
  /\ \A n \in Nat, t \in TokenKinds : <<t, n>> \in Word
  /\ \A text, w : \A v \in ToSet(Token(text, w)) : v = w
BY DEF Word, Token, ToSet

LEMMA RefinedRefs ==
  ASSUME NEW d \in Doc, NEW q \in Redactors, q.refs = d.refs,
         NEW e \in Doc, DOMAIN e.refs = DOMAIN d.refs,
         \A i \in DOMAIN d.refs :
           /\ e.refs[i].name = Token(d.refs[i].name, <<"REF_NAME", i>>)
           /\ e.refs[i].email = Token(d.refs[i].email, <<"REF_EMAIL", i>>)
           /\ e.refs[i].phone = Token(d.refs[i].phone, <<"REF_PHONE", i>>)
  PROVE  Restore(q, e).refs = d.refs
<1>1. d.refs \in Seq(RefTexts)
  BY DEF Doc
<1>2. \A i \in DOMAIN d.refs :
        i \in Nat /\ <<"REF_NAME", i>> \in Word /\ <<"REF_EMAIL", i>> \in Word
          /\ <<"REF_PHONE", i>> \in Word
  <2>1. \A i \in DOMAIN d.refs : i \in Nat
    BY <1>1
  <2>2. \A i \in Nat : <<"REF_NAME", i>> \in Word /\ <<"REF_EMAIL", i>> \in Word
                         /\ <<"REF_PHONE", i>> \in Word
    BY DEF Word, TokenKinds
  <2> QED
    BY <2>1, <2>2
<1>3. \A i \in DOMAIN d.refs :
        /\ RestoreWord(q, <<"REF_NAME", i>>) = OfRef(q, "name", <<"REF_NAME", i>>)
        /\ RestoreWord(q, <<"REF_EMAIL", i>>) = OfRef(q, "email", <<"REF_EMAIL", i>>)
        /\ RestoreWord(q, <<"REF_PHONE", i>>) = OfRef(q, "phone", <<"REF_PHONE", i>>)
  BY DEF RestoreWord
<1>4. \A t : \A i \in DOMAIN d.refs, g \in RefFields :
        d.refs[i][g] # <<>> => OfRef(q, g, <<t, i>>) = d.refs[i][g]
  BY DEF OfRef, Known
<1>5. \A i \in DOMAIN d.refs :
        /\ RestoreText(q, e.refs[i].name) = d.refs[i].name
        /\ RestoreText(q, e.refs[i].email) = d.refs[i].email
        /\ RestoreText(q, e.refs[i].phone) = d.refs[i].phone
  <2> SUFFICES ASSUME NEW i \in DOMAIN d.refs
               PROVE  /\ RestoreText(q, e.refs[i].name) = d.refs[i].name
                      /\ RestoreText(q, e.refs[i].email) = d.refs[i].email
                      /\ RestoreText(q, e.refs[i].phone) = d.refs[i].phone
    OBVIOUS
  <2>1. ASSUME NEW t, NEW g \in RefFields, <<t, i>> \in Word,
               RestoreWord(q, <<t, i>>) = OfRef(q, g, <<t, i>>),
               e.refs[i][g] = Token(d.refs[i][g], <<t, i>>)
        PROVE  RestoreText(q, e.refs[i][g]) = d.refs[i][g]
    BY <1>4, <2>1, TokenRestored
  <2>2. RestoreText(q, e.refs[i]["name"]) = d.refs[i]["name"]
    BY <1>2, <1>3, <2>1 DEF RefFields
  <2>3. RestoreText(q, e.refs[i]["email"]) = d.refs[i]["email"]
    BY <1>2, <1>3, <2>1 DEF RefFields
  <2>4. RestoreText(q, e.refs[i]["phone"]) = d.refs[i]["phone"]
    BY <1>2, <1>3, <2>1 DEF RefFields
  <2> QED
    BY <2>2, <2>3, <2>4
<1>6. \A i \in DOMAIN d.refs : [g \in RefFields |-> RestoreText(q, e.refs[i][g])] = d.refs[i]
  <2> SUFFICES ASSUME NEW i \in DOMAIN d.refs
               PROVE  [g \in RefFields |-> RestoreText(q, e.refs[i][g])] = d.refs[i]
    OBVIOUS
  <2>1. d.refs[i] \in RefTexts
    BY <1>1
  <2>2. \A g \in RefFields : RestoreText(q, e.refs[i][g]) = d.refs[i][g]
    BY <1>5 DEF RefFields
  <2>3. DOMAIN d.refs[i] = RefFields /\ d.refs[i] = [g \in RefFields |-> d.refs[i][g]]
    BY <2>1 DEF RefTexts, RefFields
  <2> QED
    BY <2>2, <2>3
<1>7. Restore(q, e).refs = [i \in DOMAIN e.refs |-> [g \in RefFields |-> RestoreText(q, e.refs[i][g])]]
  BY Walked
<1> DEFINE s == d.refs
           t == Restore(q, e).refs
<1>8. /\ s \in Seq(RefTexts) /\ DOMAIN t = DOMAIN s /\ \A i \in DOMAIN s : t[i] = s[i]
      /\ t = [i \in DOMAIN s |-> t[i]]
  BY <1>1, <1>6, <1>7
<1> HIDE DEF s, t
<1>9. t = s
  BY <1>8
<1> QED
  BY <1>9 DEF s, t

(* The redactor of a CV knows its fields by position: each comes back.     *)
LEMMA RefinedFields ==
  ASSUME NEW d \in Doc, Small(d.email), Small(d.phone), NEW keep \in BOOLEAN,
         NEW c, c = Refined(d, keep)
  PROVE  /\ c \in Doc /\ c.refs = d.refs
         /\ \A f \in Scalars \ {"summary"} : c[f] = d[f]
         /\ c.summary = IF keep THEN RestoreText(RedactDict(FromCv(d), d).redactor,
                                                 RedactDict(FromCv(d), d).doc.summary)
                        ELSE <<>>
<1> DEFINE q == RedactDict(FromCv(d), d).redactor
           e == RedactDict(FromCv(d), d).doc
           k == IF keep THEN e ELSE [e EXCEPT !.summary = <<>>]
<1>1. FromCv(d) \in Redactors
  BY FromCvTyped
<1>2. ScannedDoc(FromCv(d), d, q, e)
  BY <1>1, RedactDictTyped
<1>3. c = Restore(q, k)
  BY DEF Refined
<1> HIDE DEF q, e
<1>4. q \in Redactors /\ e \in Doc
  BY <1>2 DEF ScannedDoc
<1>5. /\ k \in Doc /\ k.refs = e.refs
      /\ \A f \in Scalars \ {"summary"} : k[f] = e[f]
      /\ k.summary = IF keep THEN e.summary ELSE <<>>
  <2>1. <<>> \in Text
    BY DEF Text
  <2> QED
    BY <1>4, <2>1 DEF Doc, Scalars, NoCv
<1> HIDE DEF k
<1>6. c \in Doc
  BY <1>3, <1>4, <1>5, RestoreTyped
<1>7. \A f \in Scalars : c[f] = RestoreText(q, k[f])
  <2>1. \A f \in Scalars : Restore(q, k)[f] = RestoreText(q, k[f])
    BY <1>5, Walked
  <2> QED
    BY <1>3, <2>1
<1>8. \A t \in TokenKinds, n \in Nat : <<t, n>> \in Word
  BY TokenWords
<1>9. c.name = d.name
  <2>1. RestoreWord(q, <<"NAME", 0>>) = d.name
    BY <1>2, FromCvTyped DEF RestoreWord, ScannedDoc
  <2>2. k["name"] = Token(d.name, <<"NAME", 0>>)
    BY <1>2, <1>5 DEF ScannedDoc, Scalars, NoCv
  <2>3. <<"NAME", 0>> \in Word
    BY <1>8 DEF TokenKinds
  <2>4. c["name"] = RestoreText(q, k["name"])
    BY <1>7 DEF Scalars, NoCv
  <2>5. RestoreText(q, Token(d.name, <<"NAME", 0>>)) =
          IF d.name = <<>> THEN <<>> ELSE RestoreWord(q, <<"NAME", 0>>)
    BY <1>4, <2>3, TokenRestored
  <2> QED
    BY <2>1, <2>2, <2>4, <2>5
<1>10. \A f \in {"linkedin", "location", "dob"} : c[f] = d[f]
  <2>1. /\ q.linkedin = d.linkedin /\ q.location = d.location /\ q.dob = d.dob
    BY <1>2, FromCvTyped DEF ScannedDoc
  <2>2. /\ RestoreWord(q, <<"LINKEDIN", 0>>) = Known(q.linkedin, <<"LINKEDIN", 0>>)
        /\ RestoreWord(q, <<"LOCATION", 0>>) = Known(q.location, <<"LOCATION", 0>>)
        /\ RestoreWord(q, <<"DOB", 0>>) = Known(q.dob, <<"DOB", 0>>)
    BY DEF RestoreWord
  <2>3. /\ k["linkedin"] = Token(d.linkedin, <<"LINKEDIN", 0>>)
        /\ k["location"] = Token(d.location, <<"LOCATION", 0>>)
        /\ k["dob"] = Token(d.dob, <<"DOB", 0>>)
    BY <1>2, <1>5 DEF ScannedDoc, Scalars, NoCv
  <2>4. /\ c["linkedin"] = RestoreText(q, k["linkedin"])
        /\ c["location"] = RestoreText(q, k["location"])
        /\ c["dob"] = RestoreText(q, k["dob"])
    BY <1>7 DEF Scalars, NoCv
  <2>5. <<"LINKEDIN", 0>> \in Word /\ <<"LOCATION", 0>> \in Word /\ <<"DOB", 0>> \in Word
    BY <1>8 DEF TokenKinds
  <2>6. \A text, w : text # <<>> => Known(text, w) = text
    BY DEF Known
  <2>7. ASSUME NEW text, NEW w \in Word, RestoreWord(q, w) = Known(text, w)
        PROVE  RestoreText(q, Token(text, w)) = text
    BY <1>4, <2>6, <2>7, TokenRestored
  <2> QED
    BY <2>1, <2>2, <2>3, <2>4, <2>5, <2>7
<1>12. c.email = d.email
  <2>1. /\ RestoreWord(q, <<"EMAIL", 1>>) = Listed(q.emails, <<"EMAIL", 1>>)
        /\ k["email"] = Token(d.email, <<"EMAIL", 1>>)
        /\ c["email"] = RestoreText(q, k["email"])
        /\ <<"EMAIL", 1>> \in Word
    BY <1>2, <1>5, <1>7, <1>8 DEF ScannedDoc, Scalars, NoCv, RestoreWord, TokenKinds
  <2>2. CASE d.email = <<>>
    BY <1>4, <2>1, <2>2, TokenRestored
  <2>3. CASE d.email # <<>>
    <3>1. PICK v \in Word : d.email = <<v>>
      BY <2>3, SmallOnes
    <3>2. Lists(Word, "email", <<v>>, d.summary, q.emails)
      BY <1>2, <3>1 DEF ScannedDoc
    <3>3. 1 \in DOMAIN q.emails /\ q.emails[1] = v
      <4>1. Len(<<v>>) = 1 /\ <<v>>[1] = v
        OBVIOUS
      <4>2. q.emails \in Seq(Word) /\ 1 <= Len(q.emails) /\ q.emails[1] = v
        BY <3>2, <4>1 DEF Lists
      <4> QED
        BY <4>2
    <3>4. Listed(q.emails, <<"EMAIL", 1>>) = <<v>>
      BY <3>3 DEF Listed
    <3> QED
      BY <1>4, <2>1, <2>3, <3>1, <3>4, TokenRestored
  <2> QED
    BY <2>2, <2>3
<1>13. c.phone = d.phone
  <2>1. /\ RestoreWord(q, <<"PHONE", 1>>) = Listed(q.phones, <<"PHONE", 1>>)
        /\ k["phone"] = Token(d.phone, <<"PHONE", 1>>)
        /\ c["phone"] = RestoreText(q, k["phone"])
        /\ <<"PHONE", 1>> \in Word
    BY <1>2, <1>5, <1>7, <1>8 DEF ScannedDoc, Scalars, NoCv, RestoreWord, TokenKinds
  <2>2. CASE d.phone = <<>>
    BY <1>4, <2>1, <2>2, TokenRestored
  <2>3. CASE d.phone # <<>>
    <3>1. PICK v \in Word : d.phone = <<v>>
      BY <2>3, SmallOnes
    <3>2. Lists(Word, "phone", <<v>>, d.summary, q.phones)
      BY <1>2, <3>1 DEF ScannedDoc
    <3>3. 1 \in DOMAIN q.phones /\ q.phones[1] = v
      <4>1. Len(<<v>>) = 1 /\ <<v>>[1] = v
        OBVIOUS
      <4>2. q.phones \in Seq(Word) /\ 1 <= Len(q.phones) /\ q.phones[1] = v
        BY <3>2, <4>1 DEF Lists
      <4> QED
        BY <4>2
    <3>4. Listed(q.phones, <<"PHONE", 1>>) = <<v>>
      BY <3>3 DEF Listed
    <3> QED
      BY <1>4, <2>1, <2>3, <3>1, <3>4, TokenRestored
  <2> QED
    BY <2>2, <2>3
<1>14. \A f \in Scalars \ {"summary"} : c[f] = d[f]
  BY <1>9, <1>10, <1>12, <1>13 DEF Scalars, NoCv
<1>15. c.refs = d.refs
  <2>1. /\ DOMAIN k.refs = DOMAIN d.refs
        /\ \A i \in DOMAIN d.refs :
           /\ k.refs[i].name = Token(d.refs[i].name, <<"REF_NAME", i>>)
           /\ k.refs[i].email = Token(d.refs[i].email, <<"REF_EMAIL", i>>)
           /\ k.refs[i].phone = Token(d.refs[i].phone, <<"REF_PHONE", i>>)
        /\ q.refs = d.refs
    BY <1>2, <1>5, FromCvTyped DEF ScannedDoc
  <2> QED
    BY <1>3, <1>4, <1>5, <2>1, RefinedRefs
<1>16. c.summary = IF keep THEN RestoreText(q, e.summary) ELSE <<>>
  <2>1. c["summary"] = RestoreText(q, k["summary"])
    BY <1>7 DEF Scalars, NoCv
  <2>2. RestoreText(q, <<>>) = <<>>
    BY <1>4, RestoreOne
  <2> QED
    BY <1>5, <2>1, <2>2
<1> QED
  BY <1>6, <1>14, <1>15, <1>16 DEF q, e

LEMMA RefinedTyped ==
  ASSUME NEW d \in Doc, Small(d.email), Small(d.phone), NEW keep \in BOOLEAN,
         NEW c, c = Refined(d, keep)
  PROVE  /\ c \in Doc /\ c.name = d.name /\ c.refs = d.refs
         /\ Small(c.email) /\ Small(c.phone)
<1>1. c \in Doc /\ c.refs = d.refs /\ \A f \in Scalars \ {"summary"} : c[f] = d[f]
  BY RefinedFields
<1>2. c["name"] = d["name"] /\ c["email"] = d["email"] /\ c["phone"] = d["phone"]
  BY <1>1 DEF Scalars, NoCv
<1> QED
  BY <1>1, <1>2

(* The words of a redacted CV: tokens, and what no redactor changes.       *)
Harmless(d, w) ==
  \/ IsToken(w)
  \/ w[1] \notin Personal /\ d.name # <<w>> /\ ~Names(d, w)

LEMMA ScannedHarmless ==
  ASSUME NEW d \in Doc, NEW e, e = RedactDict(FromCv(d), d).doc
  PROVE  /\ e \in Doc
         /\ \A w \in WordsOf(e) : w \in Word /\ Harmless(d, w)
<1> DEFINE q == RedactDict(FromCv(d), d).redactor
<1>1. /\ FromCv(d) \in Redactors /\ FromCv(d).name = d.name /\ FromCv(d).refs = d.refs
  BY FromCvTyped
<1>2. /\ q.name = d.name /\ q.refs = d.refs
      /\ e \in Doc
      /\ e.name = Token(d.name, <<"NAME", 0>>)
      /\ e.email = Token(d.email, <<"EMAIL", 1>>)
      /\ e.phone = Token(d.phone, <<"PHONE", 1>>)
      /\ e.location = Token(d.location, <<"LOCATION", 0>>)
      /\ e.linkedin = Token(d.linkedin, <<"LINKEDIN", 0>>)
      /\ e.dob = Token(d.dob, <<"DOB", 0>>)
      /\ e.summary = [i \in DOMAIN d.summary |-> ScanWord(q, d.summary[i])]
      /\ DOMAIN e.refs = DOMAIN d.refs
      /\ \A i \in DOMAIN d.refs :
           /\ e.refs[i].name = Token(d.refs[i].name, <<"REF_NAME", i>>)
           /\ e.refs[i].email = Token(d.refs[i].email, <<"REF_EMAIL", i>>)
           /\ e.refs[i].phone = Token(d.refs[i].phone, <<"REF_PHONE", i>>)
  <2>1. ScannedDoc(FromCv(d), d, q, e)
    BY <1>1, RedactDictTyped
  <2> HIDE DEF q
  <2> QED
    BY <1>1, <2>1 DEF ScannedDoc
<1> HIDE DEF q
<1>3. ASSUME NEW f \in Scalars, NEW w \in ToSet(e[f]) PROVE Harmless(d, w)
  <2>1. CASE f = "summary"
    <3>1. PICK i \in DOMAIN d.summary : w = ScanWord(q, d.summary[i])
      BY <1>2, <1>3, <2>1 DEF ToSet
    <3>2. d.summary[i] \in Word
      BY DEF Doc, Text
    <3>3. Names(q, w) = Names(d, w)
      BY <1>2 DEF Names, RefNamed
    <3>4. \/ IsToken(w)
          \/ w[1] \notin Personal /\ q.name # <<w>> /\ ~Names(q, w)
      BY <3>1, <3>2, ScanWordEffect
    <3> QED
      BY <1>2, <3>3, <3>4 DEF Harmless
  <2>2. CASE f # "summary"
    <3>1. f \in {"name", "email", "phone", "location", "linkedin", "dob"}
      BY <2>2 DEF Scalars, NoCv
    <3>2. w \in {<<"NAME", 0>>, <<"EMAIL", 1>>, <<"PHONE", 1>>, <<"LOCATION", 0>>,
                 <<"LINKEDIN", 0>>, <<"DOB", 0>>}
      BY <1>2, <1>3, <3>1, TokenWords
    <3>3. IsToken(w)
      BY <3>2 DEF IsToken, TokenKinds
    <3> QED
      BY <3>3 DEF Harmless
  <2> QED
    BY <2>1, <2>2
<1>4. ASSUME NEW i \in DOMAIN e.refs, NEW g \in RefFields, NEW w \in ToSet(e.refs[i][g])
      PROVE  Harmless(d, w)
  <2>0. \/ e.refs[i][g] = Token(d.refs[i].name, <<"REF_NAME", i>>)
        \/ e.refs[i][g] = Token(d.refs[i].email, <<"REF_EMAIL", i>>)
        \/ e.refs[i][g] = Token(d.refs[i].phone, <<"REF_PHONE", i>>)
    BY <1>2 DEF RefFields
  <2>1. w \in {<<"REF_NAME", i>>, <<"REF_EMAIL", i>>, <<"REF_PHONE", i>>}
    BY <1>4, <2>0, TokenWords
  <2>2. IsToken(w)
    BY <2>1 DEF IsToken, TokenKinds
  <2> QED
    BY <2>2 DEF Harmless
<1>5. \A w \in WordsOf(e) : Harmless(d, w)
  BY <1>2, <1>3, <1>4, DocWords
<1> QED
  BY <1>2, <1>5, DumpedWords

-----------------------------------------------------------------------------
(* The cover letter.                                                       *)

LEMMA RestoreStarts ==
  ASSUME NEW q \in Redactors, NEW text \in Text, text # <<>>, NEW v,
         RestoreWord(q, text[1]) = <<v>>
  PROVE  RestoreText(q, text) # <<>> /\ RestoreText(q, text)[1] = v
<1> DEFINE ss == [i \in DOMAIN text |-> RestoreWord(q, text[i])]
<1>1. \A i \in DOMAIN text : RestoreWord(q, text[i]) \in Text
  BY RestoreWordTyped DEF Text
<1>2. ss \in Seq(Seq(Word)) /\ Len(ss) = Len(text)
  BY <1>1 DEF Text
<1>3. Len(text) # 0 /\ 1 \in DOMAIN text
  BY DEF Text
<1>4. ss[1] = <<v>>
  BY <1>3
<1>5. RestoreText(q, text) = FlattenSeq(ss)
  BY DEF RestoreText, Each
<1> HIDE DEF ss
<1>6. PICK rest \in Seq(Word) : FlattenSeq(ss) = ss[1] \o rest
  BY <1>2, <1>3, FlattenStarts
<1>7. v \in Word
  <2>1. ss[1] \in Seq(Word)
    BY <1>2, <1>3
  <2> QED
    BY <1>4, <2>1
<1>8. <<v>> \o rest # <<>> /\ (<<v>> \o rest)[1] = v
  <2>1. Len(<<v>> \o rest) = 1 + Len(rest) /\ Len(rest) \in Nat
    BY <1>7
  <2>2. (<<v>> \o rest)[1] = v
    BY <1>7
  <2>3. <<v>> \o rest # <<>>
    BY <2>1
  <2> QED
    BY <2>2, <2>3
<1> QED
  BY <1>4, <1>5, <1>6, <1>8

LEMMA LetterTyped ==
  ASSUME TypeOK, NEW d \in Doc
  PROVE  /\ Letter(d).prompt \in Text
         /\ \A w \in ToSet(Letter(d).prompt) : w \in Word /\ Harmless(d, w)
         /\ Letter(d).text \in Text
         /\ attempt.named /\ d.name = FullName =>
              Letter(d).text # <<>> /\ Letter(d).text[1] = Own("name")
<1> DEFINE q == RedactDict(FromCv(d), d).redactor
           e == RedactDict(FromCv(d), d).doc
           p == PipelineText.redactor
           prompt == LetterContext(e)
           text == RestoreText(q, prompt)
<1>1. FromCv(d) \in Redactors /\ FromCv(d).name = d.name
  BY FromCvTyped
<1>2. q \in Redactors /\ q.name = d.name /\ e \in Doc /\ e.name = Token(d.name, <<"NAME", 0>>)
  <2>1. ScannedDoc(FromCv(d), d, q, e)
    BY <1>1, RedactDictTyped
  <2> HIDE DEF q, e
  <2> QED
    BY <1>1, <2>1 DEF ScannedDoc
<1>3. \A w \in WordsOf(e) : w \in Word /\ Harmless(d, w)
  BY ScannedHarmless
<1>4. p \in Redactors
  BY PipelineTyped DEF SmallRedactor
<1>5. /\ Letter(d).prompt = prompt
      /\ Letter(d).text = IF attempt.named THEN RestoreText(p, text) ELSE text
  BY DEF Letter
<1> HIDE DEF q, e, p
<1>6. prompt \in Text /\ ToSet(prompt) = ToSet(e.name) \cup ToSet(e.summary)
  <2> DEFINE a == e.name
             b == e.summary
  <2>1. a \in Seq(Word) /\ b \in Seq(Word)
    BY <1>2 DEF Doc, Text
  <2> HIDE DEF a, b
  <2>2. a \o b \in Seq(Word) /\ ToSet(a \o b) = ToSet(a) \cup ToSet(b)
    BY <2>1, JoinWords
  <2> QED
    BY <2>2 DEF LetterContext, Text, a, b
<1>7. ToSet(prompt) \subseteq WordsOf(e)
  <2>1. "name" \in Scalars /\ "summary" \in Scalars
    BY DEF Scalars, NoCv
  <2>2. ToSet(e["name"]) \subseteq WordsOf(e) /\ ToSet(e["summary"]) \subseteq WordsOf(e)
    BY <1>2, <2>1, DocWords
  <2> QED
    BY <1>6, <2>2
<1>8. ASSUME attempt.named, d.name = FullName
      PROVE  prompt # <<>> /\ RestoreWord(q, prompt[1]) = <<Own("name")>>
  <2>1. d.name = <<Own("name")>>
    BY <1>8 DEF FullName
  <2>2. e.name = <<<<"NAME", 0>>>>
    BY <1>2, <2>1 DEF Token
  <2>3. e.name \in Seq(Word) /\ e.summary \in Seq(Word)
    BY <1>2 DEF Doc, Text
  <2>5. Len(e.name) = 1 /\ e.name[1] = <<"NAME", 0>>
    BY <2>2
  <2>4. prompt # <<>> /\ prompt[1] = <<"NAME", 0>>
    <3> DEFINE a == e.name
               b == e.summary
    <3>1. a \in Seq(Word) /\ b \in Seq(Word) /\ Len(a) = 1 /\ a[1] = <<"NAME", 0>>
      BY <2>3, <2>5
    <3> HIDE DEF a, b
    <3>2. a \in Seq(Word) /\ b \in Seq(Word)
      BY <3>1
    <3>6. Len(a) = 1
      BY <3>1
    <3>7. a \o b # <<>>
      <4>1. Len(a \o b) = Len(a) + Len(b) /\ Len(b) \in Nat
        BY <3>2
      <4> QED
        BY <3>6, <4>1
    <3>4. (a \o b)[1] = a[1]
      BY <3>1, SMTT(20)
    <3> QED
      BY <3>1, <3>7, <3>4 DEF LetterContext, a, b
  <2>6. RestoreWord(q, <<"NAME", 0>>) = q.name
    BY DEF RestoreWord
  <2> QED
    BY <1>2, <2>1, <2>4, <2>6
<1> HIDE DEF prompt
<1>9. text \in Text
  BY <1>2, <1>6, RestoreTextTyped
<1>10. ASSUME attempt.named, d.name = FullName
       PROVE  text # <<>> /\ text[1] = Own("name")
  BY <1>2, <1>6, <1>8, <1>10, RestoreStarts
<1> HIDE DEF text
<1>11. attempt.named => RestoreText(p, text) \in Text
  BY <1>4, <1>9, RestoreTextTyped
<1>12. ASSUME attempt.named, d.name = FullName
       PROVE  RestoreText(p, text) # <<>> /\ RestoreText(p, text)[1] = Own("name")
  <2>1. RestoreWord(p, Own("name")) = <<Own("name")>>
    BY DEF RestoreWord, Own
  <2>2. text # <<>> /\ RestoreWord(p, text[1]) = <<Own("name")>>
    BY <1>10, <1>12, <2>1
  <2> QED
    BY <1>4, <1>9, <2>2, RestoreStarts
<1> QED
  BY <1>3, <1>5, <1>6, <1>7, <1>9, <1>11, <1>12

-----------------------------------------------------------------------------
(* What the pages make of a row.                                           *)

LEMMA EachTyped ==
  ASSUME NEW text \in Text, NEW ss, ss = [i \in DOMAIN text |-> ss[i]],
         \A i \in DOMAIN text : ss[i] \in Text
  PROVE  FlattenSeq(ss) \in Text
<1>1. text \in Seq(Word)
  BY DEF Text
<1>2. ss \in Seq(Text)
  BY <1>1, SameShape
<1> QED
  BY <1>2, FlattenTyped DEF Text

LEMMA StrippedTyped ==
  ASSUME NEW text \in Text
  PROVE  Stripped(text) \in Text
<1> DEFINE ss == [i \in DOMAIN text |-> IF text[i][1] \in {"LINKEDIN", "SLUG"} THEN <<>> ELSE <<text[i]>>]
<1>1. \A i \in DOMAIN text : ss[i] \in Text
  <2>1. \A i \in DOMAIN text : text[i] \in Word
    BY DEF Text
  <2> QED
    BY <2>1, SmallOnes DEF Small
<1>2. ss = [i \in DOMAIN text |-> ss[i]]
  OBVIOUS
<1>3. Stripped(text) = FlattenSeq(ss)
  BY DEF Stripped, Each
<1> HIDE DEF ss
<1> QED
  BY <1>1, <1>2, <1>3, EachTyped

LEMMA FilledTyped ==
  ASSUME TypeOK, NEW kinds, NEW text \in Text
  PROVE  Filled(kinds, text) \in Text
<1> DEFINE ss == [i \in DOMAIN text |-> IF text[i][1] \in kinds THEN FillWord(text[i]) ELSE <<text[i]>>]
<1>1. ASSUME NEW w \in Word PROVE FillWord(w) \in Text /\ <<w>> \in Text
  <2>1. \A f \in {"name", "email", "phone", "dob", "linkedin", "location"} : vault[f] \in Text
    BY VaultSmall DEF TypeOK, Small
  <2>2. \A t \in Text : Known(t, w) \in Text
    BY SmallOnes DEF Known, Small
  <2>3. Slug(vault.name) \in Text
    <3>1. CASE vault.name = <<>>
      BY <3>1, SmallOnes DEF Slug, Small
    <3>2. CASE vault.name # <<>>
      <4>1. vault.name[1] \in Word
        BY <2>1, <3>2 DEF Text
      <4>2. <<"slug", vault.name[1][2]>> \in Word
        BY <4>1 DEF Word, ValueKinds
      <4> QED
        BY <3>2, <4>2, SmallOnes DEF Slug, Small
    <3> QED
      BY <3>1, <3>2
  <2>4. <<w>> \in Text
    BY SmallOnes DEF Small
  <2> QED
    BY <2>1, <2>2, <2>3, <2>4 DEF FillWord
<1>2. \A i \in DOMAIN text : ss[i] \in Text
  <2>1. \A i \in DOMAIN text : text[i] \in Word
    BY DEF Text
  <2> QED
    BY <1>1, <2>1
<1>3. ss = [i \in DOMAIN text |-> ss[i]]
  OBVIOUS
<1>4. Filled(kinds, text) = FlattenSeq(ss)
  BY DEF Filled, Each
<1> HIDE DEF ss
<1> QED
  BY <1>2, <1>3, <1>4, EachTyped

(* What a walk over a CV makes is a CV, when each of its strings is a text. *)
WalkOf(d, e) ==
  /\ e = [f \in DOMAIN NoCv |-> e[f]]
  /\ \A f \in Scalars : e[f] \in Text
  /\ e.refs = [i \in DOMAIN d.refs |-> [g \in RefFields |-> e.refs[i][g]]]
  /\ \A i \in DOMAIN d.refs, g \in RefFields : e.refs[i][g] \in Text

LEMMA WalkTyped ==
  ASSUME NEW d \in Doc, NEW e, WalkOf(d, e)
  PROVE  e \in Doc
<1> USE DEF WalkOf
<1>1. d.refs \in Seq(RefTexts)
  BY DEF Doc
<1>2. \A i \in DOMAIN d.refs : e.refs[i] = [g \in RefFields |-> e.refs[i][g]]
  BY Zenon
<1>3. \A i \in DOMAIN d.refs : [g \in RefFields |-> e.refs[i][g]] \in RefTexts
  BY DEF RefFields, RefTexts
<1>4. \A i \in DOMAIN d.refs : e.refs[i] \in RefTexts
  BY <1>2, <1>3
<1>5. e.refs = [i \in DOMAIN d.refs |-> e.refs[i]]
  BY Zenon
<1>6. e.refs \in Seq(RefTexts)
  BY <1>1, <1>4, <1>5, SameShape
<1> QED
  BY <1>6 DEF Doc, NoCv, Scalars

LEMMA TextsOf ==
  ASSUME NEW d \in Doc
  PROVE  /\ DOMAIN d = DOMAIN NoCv
         /\ \A f \in Scalars : d[f] \in Text
         /\ d.refs \in Seq(RefTexts)
         /\ \A i \in DOMAIN d.refs, g \in RefFields : d.refs[i][g] \in Text
<1>1. d.refs \in Seq(RefTexts)
  BY DEF Doc
<1>2. \A i \in DOMAIN d.refs, g \in RefFields : d.refs[i][g] \in Text
  BY <1>1, RefTextsHold
<1> QED
  BY <1>1, <1>2 DEF Doc, NoCv, Scalars

StrippedCv(d) == Walk(Stripped, d)
FilledCv(kinds, d) == Walk(LAMBDA text : Filled(kinds, text), d)

LEMMA StrippedCvTyped ==
  ASSUME NEW d \in Doc, NEW e, e = StrippedCv(d)
  PROVE  /\ e \in Doc
         /\ \A f \in Scalars : e[f] = Stripped(d[f])
         /\ e.refs = [i \in DOMAIN d.refs |-> [g \in RefFields |-> Stripped(d.refs[i][g])]]
<1>1. /\ e = [f \in DOMAIN NoCv |-> e[f]]
      /\ \A f \in Scalars : e[f] = Stripped(d[f])
      /\ e.refs = [i \in DOMAIN d.refs |-> [g \in RefFields |-> Stripped(d.refs[i][g])]]
  BY TextsOf DEF StrippedCv, Walk, NoCv, Scalars
<1>2. \A f \in Scalars : e[f] \in Text
  BY <1>1, TextsOf, StrippedTyped
<1>3. \A i \in DOMAIN d.refs, g \in RefFields : Stripped(d.refs[i][g]) \in Text
  BY TextsOf, StrippedTyped
<1>4. \A i \in DOMAIN d.refs, g \in RefFields : e.refs[i][g] = Stripped(d.refs[i][g])
  BY <1>1
<1>5. e.refs = [i \in DOMAIN d.refs |-> [g \in RefFields |-> e.refs[i][g]]]
  BY <1>1
<1>6. \A i \in DOMAIN d.refs, g \in RefFields : e.refs[i][g] \in Text
  BY <1>3, <1>4
<1>7. e = [f \in DOMAIN NoCv |-> e[f]]
  BY <1>1
<1>8. e \in Doc
  <2>1. WalkOf(d, e)
    BY <1>2, <1>5, <1>6, <1>7 DEF WalkOf
  <2> QED
    BY <2>1, WalkTyped
<1> QED
  BY <1>1, <1>8

LEMMA FilledCvTyped ==
  ASSUME TypeOK, NEW kinds, NEW d \in Doc, NEW e, e = FilledCv(kinds, d)
  PROVE  /\ e \in Doc
         /\ \A f \in Scalars : e[f] = Filled(kinds, d[f])
         /\ e.refs = [i \in DOMAIN d.refs |-> [g \in RefFields |-> Filled(kinds, d.refs[i][g])]]
<1>1. /\ e = [f \in DOMAIN NoCv |-> e[f]]
      /\ \A f \in Scalars : e[f] = Filled(kinds, d[f])
      /\ e.refs = [i \in DOMAIN d.refs |-> [g \in RefFields |-> Filled(kinds, d.refs[i][g])]]
  BY TextsOf DEF FilledCv, Walk, NoCv, Scalars
<1>2. \A f \in Scalars : e[f] \in Text
  <2>1. \A f \in Scalars : d[f] \in Text
    BY TextsOf
  <2>2. \A f \in Scalars : Filled(kinds, d[f]) \in Text
    BY <2>1, FilledTyped
  <2> QED
    BY <1>1, <2>2
<1>3. \A i \in DOMAIN d.refs, g \in RefFields : Filled(kinds, d.refs[i][g]) \in Text
  BY TextsOf, FilledTyped
<1>4. \A i \in DOMAIN d.refs, g \in RefFields : e.refs[i][g] = Filled(kinds, d.refs[i][g])
  BY <1>1
<1>5. e.refs = [i \in DOMAIN d.refs |-> [g \in RefFields |-> e.refs[i][g]]]
  BY <1>1
<1>6. \A i \in DOMAIN d.refs, g \in RefFields : e.refs[i][g] \in Text
  BY <1>3, <1>4
<1>7. e = [f \in DOMAIN NoCv |-> e[f]]
  BY <1>1
<1>8. e \in Doc
  <2>1. WalkOf(d, e)
    BY <1>2, <1>5, <1>6, <1>7 DEF WalkOf
  <2> QED
    BY <2>1, WalkTyped
<1> QED
  BY <1>1, <1>8

(* The redactor restore_cv_pii makes from the vault. *)
VaultRedactor == [FromVault(vault) EXCEPT !.emails = vault.email, !.phones = vault.phone]

LEMMA VaultRedactorTyped ==
  ASSUME TypeOK
  PROVE  /\ VaultRedactor \in Redactors
         /\ VaultRedactor.emails = vault.email /\ VaultRedactor.phones = vault.phone
         /\ VaultRedactor.refs = FromVault(vault).refs
         /\ vault.held => /\ VaultRedactor.name = vault.name /\ VaultRedactor.dob = vault.dob
                          /\ VaultRedactor.linkedin = vault.linkedin
                          /\ VaultRedactor.refs = vault.refs /\ VaultRedactor.location = <<>>
<1>1. vault \in Vaults
  BY DEF TypeOK
<1>2. FromVault(vault) \in Redactors /\ Small(vault.email) /\ Small(vault.phone)
  BY <1>1, VaultSmall DEF SmallRedactor
<1>3. VaultRedactor \in Redactors
  BY <1>2 DEF VaultRedactor, Redactors, Small
<1> QED
  BY <1>2, <1>3 DEF VaultRedactor, Redactors, FromVault, Redactor

LEMMA RestoreRowTyped ==
  ASSUME TypeOK
  PROVE  /\ RestoreRow \in Doc
         /\ RestoreRow = IF ~vault.held THEN row.json
                         ELSE IF row.refs = <<>> THEN Restore(VaultRedactor, row.json)
                         ELSE [Restore(VaultRedactor, row.json) EXCEPT !.refs = row.refs]
<1> DEFINE d == Restore(VaultRedactor, row.json)
<1>1. row.json \in Doc /\ row.refs \in Seq(RefTexts)
  BY DEF TypeOK
<1>2. d \in Doc
  BY <1>1, VaultRedactorTyped, RestoreTyped
<1>3. RestoreRow = IF ~vault.held THEN row.json
                   ELSE IF row.refs = <<>> THEN d ELSE [d EXCEPT !.refs = row.refs]
  BY DEF RestoreRow, VaultRedactor
<1> HIDE DEF d
<1>4. [d EXCEPT !.refs = row.refs] \in Doc
  BY <1>1, <1>2 DEF Doc
<1>5. RestoreRow \in Doc
  BY <1>1, <1>2, <1>3, <1>4
<1> QED
  BY <1>3, <1>5 DEF d

LEMMA PagesTyped ==
  ASSUME TypeOK, NEW d \in Doc
  PROVE  Resolved(d) \in Doc /\ Reopened(d) \in Doc
<1>1. Resolved(d) = StrippedCv(IF vault.held THEN FilledCv(VaultTokens, d) ELSE d)
  BY DEF Resolved, StrippedCv, FilledCv
<1>2. FilledCv(VaultTokens, d) \in Doc
  BY FilledCvTyped
<1>3. Resolved(d) \in Doc
  BY <1>1, <1>2, StrippedCvTyped
<1> DEFINE e == FilledCv(VaultTokens \cup {"LOCATION"}, d)
<1>4. e \in Doc
  BY FilledCvTyped
<1>5. Reopened(d) = IF ~vault.held THEN d
                    ELSE [f \in DOMAIN d |->
                            IF /\ f \in {"name", "email", "phone", "location", "linkedin"}
                               /\ e[f] = <<>>
                            THEN vault[f] ELSE e[f]]
  BY DEF Reopened, FilledCv
<1>6. \A f \in {"name", "email", "phone", "location", "linkedin"} : vault[f] \in Text
  BY VaultSmall DEF TypeOK, Small
<1> HIDE DEF e
<1>7. Reopened(d) \in Doc
  BY <1>4, <1>5, <1>6 DEF Doc
<1> QED
  BY <1>3, <1>7

-----------------------------------------------------------------------------
(* What every reachable state has in common.                               *)

(* Nothing is kept before the pipeline has answered.  From then on the CV  *)
(* has the wizard's references, one name, address and number at most, and  *)
(* the name of the attempt where it has one.                               *)
DraftInv ==
  /\ stage = "uploaded" => sent = {}
  /\ stage \in {"uploaded", "drafted"} => letter = <<>>
  /\ stage # "uploaded" =>
       /\ cv.refs = attempt.refs
       /\ Small(cv.name) /\ Small(cv.email) /\ Small(cv.phone)
       /\ attempt.named => cv.name = FullName

BaseInv == TypeOK /\ DraftInv

LEMMA NothingTyped == NoCv \in Doc /\ NoFile \in [cv : Doc, letter : Text]
<1>1. <<>> \in Text /\ <<>> \in Seq(RefTexts)
  BY DEF Text
<1>2. NoCv \in Doc
  BY <1>1 DEF NoCv, Doc
<1> QED
  BY <1>1, <1>2 DEF NoFile

LEMMA TextWords == \A text \in Text : ToSet(text) \subseteq Word
BY DEF Text, ToSet

LEMMA BaseInit == Init => BaseInv
<1> SUFFICES ASSUME Init PROVE BaseInv
  OBVIOUS
<1>1. <<>> \in Text /\ <<>> \in Seq(RefTexts)
  BY DEF Text
<1>2. TypeOK
  BY <1>1, NothingTyped DEF Init, TypeOK
<1>3. DraftInv
  BY DEF Init, DraftInv
<1> QED
  BY <1>2, <1>3 DEF BaseInv

LEMMA BaseGenerate ==
  ASSUME BaseInv, NEW mode \in Modes, Generate(mode)
  PROVE  BaseInv'
<1> USE DEF Modes
<1>1. TypeOK /\ stage = "uploaded" /\ DraftInv
  BY DEF BaseInv, Generate
<1>2. /\ cv' \in Doc /\ cv'.refs = attempt.refs
      /\ Small(cv'.name) /\ Small(cv'.email) /\ Small(cv'.phone)
      /\ attempt.named => cv'.name = FullName
  BY <1>1, DraftedTyped DEF Generate
<1>3. sent' \subseteq Word
  <2>1. PipelineText.text \in Text
    BY <1>1, PipelineTyped
  <2>2. RefText(PersonalContext) \in Text
    BY <1>1, ContextTyped, RefTextWords
  <2>3. attempt.told \in Text /\ attempt.rights \in Text
    BY <1>1, AttemptTyped DEF TypeOK
  <2> QED
    BY <1>1, <2>1, <2>2, <2>3, TextWords DEF Generate, TypeOK
<1>4. FullName' = FullName
  BY DEF FullName, Generate
<1>5. TypeOK'
  BY <1>1, <1>2, <1>3 DEF TypeOK, Generate
<1>6. DraftInv'
  BY <1>1, <1>2, <1>4 DEF DraftInv, Generate
<1> QED
  BY <1>5, <1>6 DEF BaseInv

LEMMA BaseFinish ==
  ASSUME BaseInv, NEW answered \in BOOLEAN, Finish(answered)
  PROVE  BaseInv'
<1>1. TypeOK /\ stage = "drafted" /\ DraftInv /\ cv \in Doc
  BY DEF BaseInv, Finish, TypeOK
<1>2. /\ Letter(cv).prompt \in Text
      /\ \A w \in ToSet(Letter(cv).prompt) : w \in Word
      /\ Letter(cv).text \in Text
  BY <1>1, LetterTyped
<1>3. /\ <<>> \in Text
      /\ ToSet(attempt.told) \subseteq Word /\ ToSet(attempt.featured) \subseteq Word
  <2>1. attempt.told \in Text /\ attempt.featured \in Text
    BY <1>1, AttemptTyped DEF TypeOK
  <2> QED
    BY <2>1, TextWords DEF Text
<1>4. FullName' = FullName
  BY DEF FullName, Finish
<1>5. TypeOK'
  BY <1>1, <1>2, <1>3 DEF TypeOK, Finish
<1>6. DraftInv'
  BY <1>1, <1>4 DEF DraftInv, Finish
<1> QED
  BY <1>5, <1>6 DEF BaseInv

LEMMA BaseRefine ==
  ASSUME BaseInv, NEW keep \in BOOLEAN, NEW note \in Notes, Refine(keep, note)
  PROVE  BaseInv'
<1>1. TypeOK /\ stage = "generated" /\ DraftInv /\ cv \in Doc
  BY DEF BaseInv, Refine, TypeOK
<1>2. cv' = Refined(cv, keep)
  BY DEF Refine
<1>3. Small(cv.email) /\ Small(cv.phone) /\ Small(cv.name)
  BY <1>1 DEF DraftInv
<1>4. /\ cv' \in Doc /\ cv'.name = cv.name /\ cv'.refs = cv.refs
      /\ Small(cv'.email) /\ Small(cv'.phone)
  BY <1>1, <1>2, <1>3, RefinedTyped
<1>5. /\ \A w \in WordsOf(RedactDict(FromCv(cv), cv).doc) : w \in Word
      /\ ToSet(note) \subseteq Word
  BY <1>1, ScannedHarmless, RedactionAssumption, TextWords
<1>6. FullName' = FullName
  BY DEF FullName, Refine
<1>7. TypeOK'
  BY <1>1, <1>4, <1>5 DEF TypeOK, Refine
<1>8. DraftInv'
  BY <1>1, <1>3, <1>4, <1>6 DEF DraftInv, Refine
<1> QED
  BY <1>7, <1>8 DEF BaseInv

LEMMA BaseSave ==
  ASSUME BaseInv, Save
  PROVE  BaseInv'
<1>1. TypeOK /\ stage = "generated" /\ DraftInv /\ cv \in Doc
  BY DEF BaseInv, Save, TypeOK
<1> DEFINE d == [cv EXCEPT !.location = <<>>]
<1>2. d \in Doc
  <2>1. <<>> \in Text
    BY DEF Text
  <2> QED
    BY <1>1, <2>1 DEF Doc
<1>3. FromCv(d) \in Redactors
  BY <1>2, FromCvTyped
<1>4. RedactJson(FromCv(d), cv) \in Doc
  <2>1. CASE Breaks(cv)
    BY <1>1, <2>1 DEF RedactJson
  <2>2. CASE ~Breaks(cv)
    BY <1>1, <1>3, <2>2, RedactJsonTyped
  <2> QED
    BY <2>1, <2>2
<1>5. cv.refs \in Seq(RefTexts) /\ attempt.refs \in Seq(RefTexts)
  BY <1>1, AttemptSmall DEF Doc
<1>6. <<>> \in Text
  BY DEF Text
<1>7. row' \in [json : Doc, refs : Seq(RefTexts)]
  BY <1>4, <1>5 DEF Save
<1>8. FullName' = FullName
  BY DEF FullName, Save
<1>9. TypeOK'
  BY <1>1, <1>6, <1>7 DEF TypeOK, Save
<1>10. DraftInv'
  BY <1>1, <1>8 DEF DraftInv, Save
<1> QED
  BY <1>9, <1>10 DEF BaseInv

LEMMA BaseChangeVault ==
  ASSUME BaseInv, ChangeVault
  PROVE  BaseInv'
<1>1. TypeOK'
  BY NothingTyped DEF BaseInv, TypeOK, ChangeVault
<1>2. FullName' = FullName
  BY DEF FullName, ChangeVault
<1>3. DraftInv'
  BY <1>2 DEF BaseInv, DraftInv, ChangeVault
<1> QED
  BY <1>1, <1>3 DEF BaseInv

LEMMA BaseShow ==
  ASSUME BaseInv, Show
  PROVE  BaseInv'
<1>1. TypeOK
  BY DEF BaseInv
<1>2. RestoreRow \in Doc
  BY <1>1, RestoreRowTyped
<1>3. Resolved(RestoreRow) \in Doc /\ Reopened(RestoreRow) \in Doc
  BY <1>1, <1>2, PagesTyped
<1>4. shown' \in Doc
  BY <1>3 DEF Show
<1>5. TypeOK'
  BY <1>1, <1>4 DEF TypeOK, Show
<1>6. FullName' = FullName
  BY DEF FullName, Show
<1>7. DraftInv'
  BY <1>6 DEF BaseInv, DraftInv, Show
<1> QED
  BY <1>5, <1>7 DEF BaseInv

LEMMA BaseGive ==
  ASSUME BaseInv, NEW d \in Doc, NEW text \in Text, Give(d, text)
  PROVE  BaseInv'
<1>1. TypeOK'
  BY DEF BaseInv, TypeOK, Give
<1>2. FullName' = FullName
  BY DEF FullName, Give
<1>3. DraftInv'
  BY <1>2 DEF BaseInv, DraftInv, Give
<1> QED
  BY <1>1, <1>3 DEF BaseInv

LEMMA Downloads ==
  ASSUME TypeOK, DownloadSaved \/ DownloadLetter \/ DownloadAll
  PROVE  \E d \in {NoCv, Resolved(RestoreRow)}, text \in {<<>>, letter} :
            d \in Doc /\ text \in Text /\ Give(d, text)
<1>1. Resolved(RestoreRow) \in Doc /\ NoCv \in Doc /\ <<>> \in Text /\ letter \in Text
  BY RestoreRowTyped, PagesTyped, NothingTyped DEF TypeOK, Text
<1> QED
  BY <1>1 DEF DownloadSaved, DownloadLetter, DownloadAll

LEMMA BaseStep == BaseInv /\ [Next]_vars => BaseInv'
<1> SUFFICES ASSUME BaseInv, [Next]_vars PROVE BaseInv'
  OBVIOUS
<1>1. CASE \E mode \in {"echo", "omit", "bracket"} : Generate(mode)
  BY <1>1, BaseGenerate DEF Modes
<1>2. CASE \E answered \in BOOLEAN : Finish(answered)
  BY <1>2, BaseFinish
<1>3. CASE \E keep \in BOOLEAN, note \in Notes : Refine(keep, note)
  BY <1>3, BaseRefine
<1>4. CASE Save
  BY <1>4, BaseSave
<1>5. CASE ChangeVault
  BY <1>5, BaseChangeVault
<1>6. CASE Show
  BY <1>6, BaseShow
<1>7. CASE DownloadSaved \/ DownloadLetter \/ DownloadAll
  <2>1. TypeOK
    BY DEF BaseInv
  <2>2. PICK d \in {NoCv, Resolved(RestoreRow)}, text \in {<<>>, letter} :
               d \in Doc /\ text \in Text /\ Give(d, text)
    BY <1>7, <2>1, Downloads
  <2> QED
    BY <2>2, BaseGive
<1>8. CASE UNCHANGED vars
  <2>1. TypeOK'
    BY <1>8 DEF BaseInv, TypeOK, vars
  <2>2. FullName' = FullName
    BY <1>8 DEF FullName, vars
  <2>3. DraftInv'
    BY <1>8, <2>2 DEF BaseInv, DraftInv, vars
  <2> QED
    BY <2>1, <2>3 DEF BaseInv
<1> QED
  BY <1>1, <1>2, <1>3, <1>4, <1>5, <1>6, <1>7, <1>8 DEF Next

LEMMA BaseHolds == Spec => []BaseInv
<1>1. Init => BaseInv
  BY BaseInit
<1>2. BaseInv /\ [Next]_vars => BaseInv'
  BY BaseStep
<1> QED
  BY <1>1, <1>2, PTL DEF Spec

(* Redaction, restore and the pages' replacements never leave the kinds of *)
(* words a CV, a row, a letter or a download may hold, and the wizard's    *)
(* references and the attempt's name stay those of the CV from the         *)
(* pipeline to the last download (run_pipeline, apply_review_fixes,        *)
(* save_cv, restore_cv_pii).                                               *)
THEOREM TypeCorrect == Spec => []TypeOK
<1>1. BaseInv => TypeOK
  BY DEF BaseInv
<1> QED
  BY <1>1, BaseHolds, PTL

-----------------------------------------------------------------------------
(* The prompts.                                                            *)

Anonymous(w) == w[1] \notin Personal /\ ~Names(Candidate, w)
SentInv ==
  attempt.named /\ stage \in {"drafted", "generated"} =>
    \A w \in sent \ Typed : Anonymous(w)

LEMMA HarmlessIsAnonymous ==
  ASSUME TypeOK, attempt.named, NEW d, d.name = FullName,
         vault.refs = attempt.refs => d.refs = attempt.refs,
         NEW w \in Word, Harmless(d, w)
  PROVE  Anonymous(w)
<1>1. w[1] \notin Personal
  BY DEF Harmless, IsToken, TokenKinds, Personal
<1>2. CASE IsToken(w)
  BY <1>1, <1>2 DEF IsToken, TokenKinds, Anonymous, Names, NameKinds
<1>3. CASE ~IsToken(w)
  <2>1. ~Names(d, w)
    BY <1>3 DEF Harmless
  <2>2. Candidate.name = d.name
    BY DEF Candidate
  <2>3. \A v : RefNamed(Candidate, v) \subseteq RefNamed(d, v)
    BY DEF Candidate, RefNamed
  <2> QED
    BY <1>1, <2>1, <2>2, <2>3 DEF Anonymous, Names
<1> QED
  BY <1>2, <1>3

LEMMA UploadIsAnonymous ==
  ASSUME TypeOK, attempt.named, NEW w \in ToSet(PipelineText.text)
  PROVE  w \in Word /\ Anonymous(w)
<1> DEFINE q == PipelineText.redactor
<1>1. /\ q.refs = vault.refs /\ q.name = FullName /\ PipelineText.text \in Text
      /\ PipelineText.text = Redacted(q, upload)
  BY PipelineTyped
<1>2. upload \in Seq(Word)
  BY RedactionAssumption DEF TypeOK, Text
<1> HIDE DEF q
<1>3. PICK i \in DOMAIN PipelineText.text : PipelineText.text[i] = w
  BY DEF ToSet
<1>4. w \in Word
  BY <1>1, <1>3 DEF Text
<1>5. i \in DOMAIN upload /\ w = RedactWord(q, upload[i])
  BY <1>1, <1>3 DEF Redacted
<1>6. upload[i] \in Word
  BY <1>2, <1>5
<1>7. Harmless(q, w)
  BY <1>5, <1>6, RedactWordEffect DEF Harmless
<1> QED
  BY <1>1, <1>4, <1>7, HarmlessIsAnonymous

LEMMA ContextIsAnonymous ==
  ASSUME TypeOK, attempt.named, NEW w \in ToSet(RefText(PersonalContext))
  PROVE  Anonymous(w)
<1>1. PersonalContext \in Seq(RefTexts)
  BY ContextTyped
<1>2. PICK i \in DOMAIN PersonalContext, g \in RefFields : w \in ToSet(PersonalContext[i][g])
  BY <1>1, RefTextWords
<1>3. w[1] \in {"REF_NAME", "REF_EMAIL", "REF_PHONE"}
  BY <1>2, ContextTyped
<1>4. RefText(PersonalContext) \in Text
  BY <1>1, RefTextWords
<1>5. w \in Word
  BY <1>4 DEF Text, ToSet
<1>6. \A d : Harmless(d, w)
  BY <1>3 DEF Harmless, IsToken, TokenKinds
<1> DEFINE d == [name |-> FullName, refs |-> attempt.refs]
<1>7. d.name = FullName /\ d.refs = attempt.refs
  OBVIOUS
<1> HIDE DEF d
<1> QED
  BY <1>5, <1>6, <1>7, HarmlessIsAnonymous

LEMMA AnonymousStays ==
  ASSUME UNCHANGED <<vault, attempt>>, NEW w, Anonymous(w)
  PROVE  Anonymous(w)'
BY DEF Anonymous, Names, Candidate, FullName, RefNamed

(* What was typed stays so, and what goes out as it is was typed.          *)
LEMMA TypedGrows ==
  ASSUME UNCHANGED attempt, noted \subseteq noted'
  PROVE  /\ Typed \subseteq Typed' /\ noted' \subseteq Typed'
         /\ ToSet(attempt.told) \subseteq Typed'
         /\ ToSet(attempt.rights) \subseteq Typed'
         /\ ToSet(attempt.featured) \subseteq Typed'
BY DEF Typed

LEMMA SentStep == BaseInv /\ SentInv /\ [Next]_vars => SentInv'
<1> SUFFICES ASSUME BaseInv, SentInv, [Next]_vars PROVE SentInv'
  OBVIOUS
<1>1. TypeOK /\ DraftInv
  BY DEF BaseInv
<1>2. ASSUME NEW mode \in {"echo", "omit", "bracket"}, Generate(mode)
      PROVE  SentInv'
  <2> SUFFICES ASSUME attempt.named PROVE \A w \in sent' \ Typed' : Anonymous(w)'
    BY <1>2 DEF SentInv, Generate
  <2>1. sent' \ Typed' \subseteq ToSet(PipelineText.text) \cup ToSet(RefText(PersonalContext))
    BY <1>1, <1>2, TypedGrows DEF DraftInv, Generate
  <2>2. \A w \in sent' \ Typed' : Anonymous(w)
    BY <1>1, <2>1, UploadIsAnonymous, ContextIsAnonymous
  <2> QED
    BY <1>2, <2>2, AnonymousStays DEF Generate
<1>3. ASSUME NEW S, attempt.named, stage \in {"drafted", "generated"},
             \A w \in S : w \in Word /\ Harmless(cv, w)
      PROVE  \A w \in S : Anonymous(w)
  <2>1. cv.name = FullName /\ cv.refs = attempt.refs
    BY <1>1, <1>3 DEF DraftInv
  <2> QED
    BY <1>1, <1>3, <2>1, HarmlessIsAnonymous
<1>4. ASSUME NEW answered \in BOOLEAN, Finish(answered)
      PROVE  SentInv'
  <2> SUFFICES ASSUME attempt.named PROVE \A w \in sent' \ Typed' : Anonymous(w)'
    BY <1>4 DEF SentInv, Finish
  <2>1. cv \in Doc
    BY <1>1 DEF TypeOK
  <2>2. \A w \in ToSet(Letter(cv).prompt) : w \in Word /\ Harmless(cv, w)
    BY <1>1, <2>1, LetterTyped
  <2>3. \A w \in ToSet(Letter(cv).prompt) : Anonymous(w)
    BY <1>3, <1>4, <2>2 DEF Finish
  <2>5. sent' \ Typed' \subseteq (sent \ Typed) \cup ToSet(Letter(cv).prompt)
    BY <1>4, TypedGrows DEF Finish
  <2>4. \A w \in sent' \ Typed' : Anonymous(w)
    BY <1>4, <2>3, <2>5 DEF SentInv, Finish
  <2> QED
    BY <1>4, <2>4, AnonymousStays DEF Finish
<1>5. ASSUME NEW keep \in BOOLEAN, NEW note \in Notes, Refine(keep, note)
      PROVE  SentInv'
  <2> SUFFICES ASSUME attempt.named PROVE \A w \in sent' \ Typed' : Anonymous(w)'
    BY <1>5 DEF SentInv, Refine
  <2>1. cv \in Doc
    BY <1>1 DEF TypeOK
  <2>2. \A w \in WordsOf(RedactDict(FromCv(cv), cv).doc) : w \in Word /\ Harmless(cv, w)
    BY <2>1, ScannedHarmless
  <2>3. \A w \in WordsOf(RedactDict(FromCv(cv), cv).doc) : Anonymous(w)
    BY <1>3, <1>5, <2>2 DEF Refine
  <2>5. sent' \ Typed' \subseteq
          (sent \ Typed) \cup WordsOf(RedactDict(FromCv(cv), cv).doc)
    <3>1. ToSet(note) \subseteq noted' /\ noted \subseteq noted' /\ UNCHANGED attempt
      BY <1>5 DEF Refine
    <3>2. Typed \subseteq Typed' /\ ToSet(note) \subseteq Typed'
      BY <3>1, TypedGrows
    <3> QED
      BY <1>5, <3>2 DEF Refine
  <2>4. \A w \in sent' \ Typed' : Anonymous(w)
    BY <1>5, <2>3, <2>5 DEF SentInv, Refine
  <2> QED
    BY <1>5, <2>4, AnonymousStays DEF Refine
<1>6. CASE Save \/ ChangeVault \/ Show \/ DownloadSaved \/ DownloadLetter \/ DownloadAll
  BY <1>6 DEF SentInv, Save, ChangeVault, Show, DownloadSaved, DownloadLetter, DownloadAll, Give
<1>7. CASE UNCHANGED vars
  <2>1. UNCHANGED <<vault, attempt, stage, sent, noted>>
    BY <1>7 DEF vars
  <2>2. UNCHANGED Typed
    BY <2>1 DEF Typed
  <2> QED
    BY <2>1, <2>2, AnonymousStays DEF SentInv
<1> QED
  BY <1>2, <1>4, <1>5, <1>6, <1>7 DEF Next

(* For every upload, vault, attempt and note: but for what was typed into  *)
(* a field that no redactor sees, what the pipeline, the refiner and the   *)
(* writer of the letter send to the model for a candidate whose name is    *)
(* known holds no address, number or profile of anybody, and in no         *)
(* spelling the redactor knows the candidate's name or slug or, while the  *)
(* vault agrees with the wizard, a name of a reference (redact,            *)
(* redact_cv_dict, _build_personal_context).                               *)
THEOREM PromptsAreAnonymous == Spec => []PromptIsAnonymous
<1>1. Init => SentInv
  BY DEF Init, SentInv
<1>2. BaseInv /\ SentInv /\ [Next]_vars => SentInv'
  BY SentStep
<1>3. SentInv => PromptIsAnonymous
  BY DEF SentInv, PromptIsAnonymous, Anonymous
<1> QED
  BY <1>1, <1>2, <1>3, BaseHolds, PTL DEF Spec

-----------------------------------------------------------------------------
(* The row.                                                                *)

NoLocation(d) == [d EXCEPT !.location = <<>>]
RowInv ==
  stage \in {"saved", "shown"} =>
    row = [json |-> RedactJson(FromCv(NoLocation(cv)), cv), refs |-> cv.refs]

LEMMA NoLocationTyped ==
  ASSUME NEW d \in Doc
  PROVE  /\ FromCv(NoLocation(d)) \in Redactors
         /\ FromCv(NoLocation(d)).name = d.name /\ FromCv(NoLocation(d)).dob = d.dob
         /\ FromCv(NoLocation(d)).linkedin = d.linkedin
         /\ FromCv(NoLocation(d)).refs = d.refs
<1> DEFINE e == NoLocation(d)
<1>1. <<>> \in Text
  BY DEF Text
<1>2. /\ e \in Doc /\ e.name = d.name /\ e.dob = d.dob /\ e.linkedin = d.linkedin
      /\ e.refs = d.refs
  BY <1>1 DEF NoLocation, Doc
<1> HIDE DEF e
<1>3. /\ FromCv(e) \in Redactors /\ FromCv(e).name = e.name /\ FromCv(e).dob = e.dob
      /\ FromCv(e).linkedin = e.linkedin /\ FromCv(e).refs = e.refs
  BY <1>2, FromCvTyped
<1> QED
  BY <1>2, <1>3 DEF e

LEMMA RowStep == BaseInv /\ RowInv /\ [Next]_vars => RowInv'
<1> SUFFICES ASSUME BaseInv, RowInv, [Next]_vars PROVE RowInv'
  OBVIOUS
<1>1. CASE Save
  <2>1. cv.refs = attempt.refs
    BY <1>1 DEF Save, BaseInv, DraftInv
  <2>2. row' = [json |-> RedactJson(FromCv(NoLocation(cv)), cv), refs |-> cv.refs]
    BY <1>1, <2>1 DEF Save, NoLocation
  <2>3. cv' = cv
    BY <1>1 DEF Save
  <2> QED
    BY <2>2, <2>3 DEF RowInv
<1>2. CASE \/ \E mode \in {"echo", "omit", "bracket"} : Generate(mode)
           \/ \E answered \in BOOLEAN : Finish(answered)
           \/ \E keep \in BOOLEAN, note \in Notes : Refine(keep, note)
  BY <1>2 DEF RowInv, Generate, Finish, Refine
<1>3. CASE ChangeVault \/ Show \/ DownloadSaved \/ DownloadLetter \/ DownloadAll
  <2>1. /\ UNCHANGED <<cv, row>>
        /\ stage' \in {"saved", "shown"} => stage \in {"saved", "shown"}
    BY <1>3 DEF ChangeVault, Show, DownloadSaved, DownloadLetter, DownloadAll, Give
  <2> QED
    BY <2>1 DEF RowInv
<1>4. CASE UNCHANGED vars
  <2>1. UNCHANGED <<cv, row, stage>>
    BY <1>4 DEF vars
  <2> QED
    BY <2>1 DEF RowInv
<1> QED
  BY <1>1, <1>2, <1>3, <1>4 DEF Next

LEMMA RowHolds == Spec => []RowInv
<1>1. Init => RowInv
  BY DEF Init, RowInv
<1> QED
  BY <1>1, RowStep, BaseHolds, PTL DEF Spec

(* Every word of a redacted CV comes from one word of the CV. *)
LEMMA RedactedWords ==
  ASSUME NEW r \in Redactors, NEW d \in Doc, ~Breaks(d),
         NEW w \in WordsOf(RedactJson(r, d))
  PROVE  \E v \in WordsOf(d) : w = RedactWord(Numbered(r, Dumped(d)), v)
<1> DEFINE q == Numbered(r, Dumped(d))
           e == RedactJson(r, d)
<1>1. /\ e \in Doc
      /\ \A f \in Scalars : e[f] = Redacted(q, d[f])
      /\ e.refs = [i \in DOMAIN d.refs |-> [g \in RefFields |-> Redacted(q, d.refs[i][g])]]
  BY RedactJsonTyped
<1>2. w \in WordsOf(e)
  OBVIOUS
<1> HIDE DEF q, e
<1>3. \/ \E f \in Scalars : w \in ToSet(e[f])
      \/ \E i \in DOMAIN e.refs, g \in RefFields : w \in ToSet(e.refs[i][g])
  BY <1>1, <1>2, DocWords
<1>4. PICK text : /\ w \in ToSet(Redacted(q, text))
                  /\ \/ \E f \in Scalars : text = d[f]
                     \/ \E i \in DOMAIN d.refs, g \in RefFields : text = d.refs[i][g]
  BY <1>1, <1>3
<1>5. PICK i \in DOMAIN text : w = RedactWord(q, text[i])
  BY <1>4 DEF Redacted, ToSet
<1>6. text[i] \in ToSet(text)
  BY <1>5 DEF ToSet
<1>7. ToSet(text) \subseteq WordsOf(d)
  BY <1>4, DocWords
<1> QED
  BY <1>5, <1>6, <1>7 DEF q

LEMMA RowIsRedacted ==
  ASSUME BaseInv, RowInv, stage \in {"saved", "shown"}, ~Breaks(cv),
         NEW w \in WordsOf(row.json), ~IsToken(w)
  PROVE  w[1] \notin Personal /\ <<w>> # cv.name /\ ~Names(cv, w)
<1>1. TypeOK /\ cv \in Doc /\ cv.refs = attempt.refs
  BY DEF BaseInv, TypeOK, DraftInv
<1> DEFINE r == FromCv(NoLocation(cv))
           q == Numbered(r, Dumped(cv))
<1>2. r \in Redactors /\ r.name = cv.name /\ r.refs = cv.refs
  BY <1>1, NoLocationTyped
<1>3. w \in WordsOf(RedactJson(r, cv))
  BY DEF RowInv
<1> HIDE DEF r
<1>4. PICK v \in WordsOf(cv) : w = RedactWord(q, v)
  BY <1>1, <1>2, <1>3, RedactedWords
<1>5. Dumped(cv) \in Text /\ v \in Word
  BY <1>1, DumpedWords
<1>6. q.name = r.name /\ q.refs = r.refs
  BY <1>2, <1>5, NumberedTyped
<1> HIDE DEF q
<1>7. w[1] \notin Personal /\ q.name # <<w>> /\ ~Names(q, w)
  BY <1>4, <1>5, RedactWordEffect
<1>8. Names(q, w) = Names(cv, w)
  BY <1>2, <1>6 DEF Names, RefNamed
<1> QED
  BY <1>2, <1>6, <1>7, <1>8

(* For every upload, vault and attempt: unless the redacted text of the CV *)
(* is no JSON any more, the row of saved_cvs keeps beside tokens no        *)
(* address, number or profile, and neither the name the CV was made for    *)
(* nor a name of its references, in any spelling the redactor knows        *)
(* (save_cv, _redact_cv_data).                                             *)
THEOREM RowsAreAnonymous == Spec => []RowIsAnonymous
<1>1. BaseInv /\ RowInv => RowIsAnonymous
  BY RowIsRedacted DEF RowIsAnonymous
<1> QED
  BY <1>1, BaseHolds, RowHolds, PTL

-----------------------------------------------------------------------------
(* There and back.                                                         *)

(* Spelling a word twice changes nothing more, and neither makes nor takes *)
(* a token, a profile or a bracket.                                        *)
LEMMA RespelledWord ==
  ASSUME NEW d, NEW w \in Word, ~IsToken(w)
  PROVE  LET v == Respelled(d, w)
         IN /\ v \in Word /\ ~IsToken(v) /\ Respelled(d, v) = v
            /\ v = w \/ (w[1] \in {"variant", "handle"} /\ v[1] \in {"name", "slug"})
            /\ w[1] \notin NameKinds => v = w
<1>1. w[1] \in ValueKinds /\ w[2] \in Nat /\ w = <<w[1], w[2]>>
  BY DEF Word, IsToken
<1>2. CASE w[1] \in {"variant", "handle"} /\ Names(d, w) /\ d.name # <<w>>
  <2>1. PICK k \in {"name", "slug"} : Respelled(d, w) = <<k, w[2]>>
    BY <1>2 DEF Respelled, Canonical
  <2>2. <<k, w[2]>> \in Word /\ ~IsToken(<<k, w[2]>>)
    BY <1>1 DEF Word, ValueKinds, IsToken, TokenKinds
  <2>3. Respelled(d, <<k, w[2]>>) = <<k, w[2]>>
    BY DEF Respelled, Canonical
  <2>4. <<k, w[2]>>[1] = k
    OBVIOUS
  <2> QED
    BY <1>2, <2>1, <2>2, <2>3, <2>4 DEF NameKinds
<1>3. CASE ~(w[1] \in {"variant", "handle"} /\ Names(d, w) /\ d.name # <<w>>)
  <2>1. Respelled(d, w) = w
    BY <1>3, CanonicalForms DEF Respelled, Names, NameKinds, Canonical
  <2> QED
    BY <2>1
<1> QED
  BY <1>2, <1>3

LEMMA SpelledTyped ==
  ASSUME NEW d \in Doc
  PROVE  /\ Spelled(d) = [d EXCEPT !.summary = Spelled(d).summary]
         /\ Spelled(d).summary = [i \in DOMAIN d.summary |-> Respelled(d, d.summary[i])]
         /\ Spelled(d).name = d.name
BY DEF Spelled, Doc

(* What comes back for a word: the word itself, in its canonical spelling  *)
(* if it is a name that is redacted - unless it was a token already or     *)
(* another profile than the CV's.                                          *)
LEMMA WordComesBack ==
  ASSUME NEW q \in Redactors, NEW w \in Word, Numbers(q, {w}), ~IsToken(w),
         w[1] = "linkedin" => <<w>> = q.linkedin
  PROVE  RestoreWord(q, ScanWord(q, w)) = <<Respelled(q, w)>>
<1>1. w[1] \in ValueKinds /\ w[2] \in Nat /\ w = <<w[1], w[2]>>
  BY DEF Word, IsToken
<1>0. w[1] \notin NameKinds \/ q.name = <<w>> => Respelled(q, w) = w
  BY DEF Respelled, Names, NameKinds
<1>2. CASE w[1] = "email"
  <2>1. Place(q.emails, w) \in DOMAIN q.emails /\ q.emails[Place(q.emails, w)] = w
    BY <1>2, PlaceTyped DEF Numbers, Redactors
  <2>2. ScanWord(q, w) = <<"EMAIL", Place(q.emails, w)>>
    BY <1>2 DEF ScanWord
  <2> DEFINE v == ScanWord(q, w)
  <2>3. v[1] = "EMAIL" /\ v[2] = Place(q.emails, w)
    BY <2>2
  <2> HIDE DEF v
  <2>4. RestoreWord(q, v) = <<w>>
    BY <2>1, <2>3 DEF RestoreWord, Listed
  <2> QED
    BY <1>0, <1>2, <2>4 DEF v, NameKinds
<1>3. CASE w[1] = "phone"
  <2>1. Place(q.phones, w) \in DOMAIN q.phones /\ q.phones[Place(q.phones, w)] = w
    BY <1>3, PlaceTyped DEF Numbers, Redactors
  <2>2. ScanWord(q, w) = <<"PHONE", Place(q.phones, w)>>
    BY <1>3 DEF ScanWord, RedactWord, Patterns
  <2> DEFINE v == ScanWord(q, w)
  <2>3. v[1] = "PHONE" /\ v[2] = Place(q.phones, w)
    BY <2>2
  <2> HIDE DEF v
  <2>4. RestoreWord(q, v) = <<w>>
    BY <2>1, <2>3 DEF RestoreWord, Listed
  <2> QED
    BY <1>0, <1>3, <2>4 DEF v, NameKinds
<1>4. CASE w[1] = "linkedin"
  <2>1. ScanWord(q, w) = <<"LINKEDIN", 0>>
    BY <1>4 DEF ScanWord, RedactWord, Patterns
  <2>2. RestoreWord(q, <<"LINKEDIN", 0>>) = Known(q.linkedin, <<"LINKEDIN", 0>>)
    BY DEF RestoreWord
  <2>3. q.linkedin = <<w>> /\ q.linkedin # <<>>
    BY <1>4
  <2> QED
    BY <1>0, <1>4, <2>1, <2>2, <2>3 DEF Known, NameKinds
<1>5. CASE w[1] \in {"slug", "handle"} /\ q.name = <<<<"name", w[2]>>>>
  <2>1. ScanWord(q, w) = <<"SLUG", 0>>
    BY <1>5 DEF ScanWord, RedactWord, Patterns, NameKinds
  <2>2. RestoreWord(q, <<"SLUG", 0>>) = Slug(q.name)
    BY DEF RestoreWord
  <2>3. Slug(q.name) = <<<<"slug", w[2]>>>>
    BY <1>5 DEF Slug
  <2>4. Names(q, w) /\ q.name # <<w>> /\ Canonical(w) = <<"slug", w[2]>>
    BY <1>1, <1>5, CanonicalForms DEF Names, NameKinds
  <2> QED
    BY <2>1, <2>2, <2>3, <2>4 DEF Respelled
<1> DEFINE special == \/ w[1] \in {"email", "phone", "linkedin"}
                      \/ w[1] \in {"slug", "handle"} /\ q.name = <<<<"name", w[2]>>>>
<1>6. CASE ~special /\ q.name = <<w>>
  <2>1. ScanWord(q, w) = <<"NAME", 0>>
    BY <1>1, <1>6 DEF ScanWord, RedactWord, Patterns, ValueKinds, NameKinds
  <2>2. RestoreWord(q, <<"NAME", 0>>) = q.name
    BY DEF RestoreWord
  <2> QED
    BY <1>0, <1>6, <2>1, <2>2
<1>9. CASE w[1] = "variant" /\ q.name = <<<<"name", w[2]>>>>
  <2>1. q.name # <<w>> /\ Names(q, w) /\ Canonical(w) = <<"name", w[2]>>
    BY <1>9, CanonicalForms DEF Names, NameKinds
  <2>2. ScanWord(q, w) = <<"NAME", 0>>
    BY <1>9, <2>1 DEF ScanWord, RedactWord, Patterns, NameKinds
  <2>3. RestoreWord(q, <<"NAME", 0>>) = q.name
    BY DEF RestoreWord
  <2> QED
    BY <1>9, <2>1, <2>2, <2>3 DEF Respelled
<1>7. CASE /\ w[1] \in {"name", "variant"} /\ q.name \notin {<<w>>, <<Canonical(w)>>}
           /\ RefNamed(q, Canonical(w)) # {}
  <2> DEFINE i == FirstNamed(q, Canonical(w))
  <2>1. i \in DOMAIN q.refs /\ q.refs[i].name = <<Canonical(w)>>
    BY <1>7, FirstOfNamed DEF Redactors
  <2>0. Canonical(w) = <<"name", w[2]>> /\ q.name # <<<<"name", w[2]>>>> /\ q.name # <<w>>
    BY <1>7, CanonicalForms
  <2>2. ScanWord(q, w) = <<"REF_NAME", i>>
    BY <1>7, <2>0 DEF ScanWord, RedactWord, Patterns, NameKinds
  <2>7. Respelled(q, w) = Canonical(w)
    BY <1>7, <2>0 DEF Respelled, Names
  <2> HIDE DEF i
  <2> DEFINE v == ScanWord(q, w)
  <2>3. v[1] = "REF_NAME" /\ v[2] = i
    BY <2>2
  <2> HIDE DEF v
  <2>4. RestoreWord(q, v) = OfRef(q, "name", v)
    BY <2>3 DEF RestoreWord
  <2>5. OfRef(q, "name", v) = Known(q.refs[i].name, v)
    BY <2>1, <2>3 DEF OfRef
  <2>6. <<Canonical(w)>> # <<>>
    OBVIOUS
  <2> QED
    BY <2>1, <2>4, <2>5, <2>6, <2>7 DEF Known, v
<1>8. CASE /\ ~special /\ q.name # <<w>>
           /\ ~(w[1] = "variant" /\ q.name = <<<<"name", w[2]>>>>)
           /\ ~(/\ w[1] \in {"name", "variant"} /\ q.name \notin {<<w>>, <<Canonical(w)>>}
                /\ RefNamed(q, Canonical(w)) # {})
  <2>1. CASE w[1] \in NameKinds
    <3>0. w[1] \in {"name", "variant"} => Canonical(w) = <<"name", w[2]>>
      BY CanonicalForms
    <3>1. ScanWord(q, w) = w
      BY <1>1, <1>8, <2>1, <3>0 DEF ScanWord, RedactWord, Patterns, NameKinds
    <3>2. ~Names(q, w)
      BY <1>1, <1>8, <2>1, <3>0 DEF Names, NameKinds
    <3> QED
      BY <2>1, <3>1, <3>2 DEF RestoreWord, Respelled, NameKinds
  <2>2. CASE w[1] \notin NameKinds /\ q.location = <<w>>
    <3>1. ScanWord(q, w) = <<"LOCATION", 0>>
      BY <1>8, <2>2 DEF ScanWord
    <3>2. RestoreWord(q, <<"LOCATION", 0>>) = Known(q.location, <<"LOCATION", 0>>)
      BY DEF RestoreWord
    <3>3. q.location # <<>>
      BY <2>2
    <3> QED
      BY <1>0, <2>2, <3>1, <3>2, <3>3 DEF Known
  <2>3. CASE w[1] \notin NameKinds /\ q.location # <<w>> /\ q.dob = <<w>>
    <3>1. ScanWord(q, w) = <<"DOB", 0>>
      BY <1>8, <2>3 DEF ScanWord
    <3>2. RestoreWord(q, <<"DOB", 0>>) = Known(q.dob, <<"DOB", 0>>)
      BY DEF RestoreWord
    <3>3. q.dob # <<>>
      BY <2>3
    <3> QED
      BY <1>0, <2>3, <3>1, <3>2, <3>3 DEF Known
  <2>4. CASE w[1] \notin NameKinds /\ q.location # <<w>> /\ q.dob # <<w>>
    <3>1. ScanWord(q, w) = w
      BY <1>8, <2>4 DEF ScanWord
    <3> QED
      BY <1>0, <1>1, <2>4, <3>1 DEF RestoreWord, ValueKinds
  <2> QED
    BY <2>1, <2>2, <2>3, <2>4
<1> QED
  BY <1>2, <1>3, <1>4, <1>5, <1>6, <1>7, <1>8, <1>9

(* A text without tokens is left alone. *)
LEMMA NothingToRestore ==
  ASSUME NEW q, NEW text \in Text, \A w \in ToSet(text) : ~IsToken(w)
  PROVE  RestoreText(q, text) = text
<1> DEFINE ss == [i \in DOMAIN text |-> RestoreWord(q, text[i])]
<1>1. text \in Seq(Word)
  BY DEF Text
<1>2. \A i \in DOMAIN text : RestoreWord(q, text[i]) = <<text[i]>>
  <2>1. \A i \in DOMAIN text : ~IsToken(text[i])
    BY DEF ToSet
  <2> QED
    BY <2>1 DEF RestoreWord, IsToken, TokenKinds
<1>3. ss = [i \in DOMAIN text |-> <<text[i]>>]
  BY <1>2
<1>4. RestoreText(q, text) = FlattenSeq(ss)
  BY DEF RestoreText, Each
<1> HIDE DEF ss
<1> QED
  BY <1>1, <1>3, <1>4, FlattenSingletons

(* A text of which every word comes back comes back. *)
LEMMA TextComesBack ==
  ASSUME NEW q, NEW text \in Text, NEW e \in Text, DOMAIN e = DOMAIN text,
         \A i \in DOMAIN text : RestoreWord(q, e[i]) = <<text[i]>>
  PROVE  RestoreText(q, e) = text
<1> DEFINE ss == [i \in DOMAIN e |-> RestoreWord(q, e[i])]
<1>1. text \in Seq(Word)
  BY DEF Text
<1>2. ss = [i \in DOMAIN text |-> <<text[i]>>]
  OBVIOUS
<1>3. RestoreText(q, e) = FlattenSeq(ss)
  BY DEF RestoreText, Each
<1> HIDE DEF ss
<1> QED
  BY <1>1, <1>2, <1>3, FlattenSingletons

(* The words a round trip does not change. *)
Returns(d) ==
  \A w \in WordsOf(d) : ~IsToken(w) /\ (w[1] = "linkedin" => <<w>> = d.linkedin)

LEMMA SummaryComesBack ==
  ASSUME NEW d \in Doc, Returns(d), NEW q, NEW e, ScannedDoc(FromCv(d), d, q, e),
         NEW s, s = Spelled(d).summary
  PROVE  /\ s \in Text /\ DOMAIN s = DOMAIN d.summary /\ \A w \in ToSet(s) : ~IsToken(w)
         /\ \A i \in DOMAIN s : RestoreWord(q, e.summary[i]) = <<s[i]>>
         /\ RestoreText(q, e.summary) = s
<1>1. /\ q \in Redactors /\ Numbers(q, ToSet(d.summary)) /\ q.linkedin = d.linkedin
      /\ q.name = d.name /\ q.refs = d.refs
      /\ e.summary = [i \in DOMAIN d.summary |-> ScanWord(q, d.summary[i])]
      /\ e.summary \in Text /\ d.summary \in Text
  BY FromCvTyped DEF ScannedDoc, Doc
<1>2. ToSet(d.summary) \subseteq WordsOf(d)
  <2>1. ToSet(d["summary"]) \subseteq WordsOf(d)
    BY DocWords DEF Scalars, NoCv
  <2> QED
    BY <2>1
<1>6. s = [i \in DOMAIN d.summary |-> Respelled(d, d.summary[i])]
  BY SpelledTyped
<1>3. ASSUME NEW i \in DOMAIN d.summary
      PROVE  /\ RestoreWord(q, e.summary[i]) = <<s[i]>>
             /\ s[i] \in Word /\ ~IsToken(s[i])
  <2> DEFINE w == d.summary[i]
  <2>1. w \in Word /\ w \in ToSet(d.summary)
    BY <1>1 DEF Text, ToSet
  <2>2. e.summary[i] = ScanWord(q, w)
    BY <1>1
  <2> HIDE DEF w
  <2>3. Numbers(q, {w})
    BY <1>1, <2>1 DEF Numbers
  <2>4. ~IsToken(w) /\ (w[1] = "linkedin" => <<w>> = q.linkedin)
    BY <1>1, <1>2, <2>1 DEF Returns
  <2>5. RestoreWord(q, ScanWord(q, w)) = <<Respelled(q, w)>>
    BY <1>1, <2>1, <2>3, <2>4, WordComesBack
  <2>6. Respelled(q, w) = Respelled(d, w)
    BY <1>1 DEF Respelled, Names, RefNamed
  <2>7. Respelled(d, w) \in Word /\ ~IsToken(Respelled(d, w))
    BY <2>1, <2>4, RespelledWord
  <2>8. s[i] = Respelled(d, w)
    BY <1>6 DEF w
  <2> QED
    BY <2>2, <2>5, <2>6, <2>7, <2>8
<1>4. DOMAIN e.summary = DOMAIN d.summary /\ DOMAIN s = DOMAIN d.summary
  BY <1>1, <1>6
<1>7. s \in Text
  <2> DEFINE t == d.summary
  <2>1. /\ t \in Seq(Word) /\ s = [i \in DOMAIN t |-> s[i]]
        /\ \A i \in DOMAIN t : s[i] \in Word
    BY <1>1, <1>3, <1>6 DEF Text
  <2> HIDE DEF t
  <2> QED
    BY <2>1, SameShape DEF Text
<1>5. RestoreText(q, e.summary) = s
  BY <1>1, <1>3, <1>4, <1>7, TextComesBack
<1>8. \A w \in ToSet(s) : ~IsToken(w)
  BY <1>3, <1>4 DEF ToSet
<1> QED
  BY <1>3, <1>4, <1>5, <1>7, <1>8

LEMMA RefinedSame ==
  ASSUME NEW d \in Doc, Small(d.email), Small(d.phone), Returns(d)
  PROVE  Refined(d, TRUE) = Spelled(d)
<1> DEFINE c == Refined(d, TRUE)
           q == RedactDict(FromCv(d), d).redactor
           e == RedactDict(FromCv(d), d).doc
<1>1. /\ c \in Doc /\ c.refs = d.refs
      /\ \A f \in Scalars \ {"summary"} : c[f] = d[f]
      /\ c.summary = RestoreText(q, e.summary)
  BY RefinedFields
<1>2. ScannedDoc(FromCv(d), d, q, e)
  BY FromCvTyped, RedactDictTyped
<1> HIDE DEF c, q, e
<1> DEFINE s == Spelled(d)
<1>3. c.summary = s.summary
  BY <1>1, <1>2, SummaryComesBack
<1>6. s = [d EXCEPT !.summary = s.summary]
  BY SpelledTyped
<1> HIDE DEF s
<1>4. \A f \in DOMAIN NoCv : c[f] = s[f]
  BY <1>1, <1>3, <1>6 DEF Scalars, NoCv, Doc
<1>5. c = s
  BY <1>1, <1>4, <1>6 DEF Doc, NoCv
<1> QED
  BY <1>5 DEF c, s

LEMMA LetterSame ==
  ASSUME NEW d \in Doc, Small(d.name), Returns(d)
  PROVE  Letter(d).text = LetterContext(Spelled(d))
<1> DEFINE q == RedactDict(FromCv(d), d).redactor
           e == RedactDict(FromCv(d), d).doc
           p == PipelineText.redactor
           prompt == LetterContext(e)
           text == RestoreText(q, prompt)
           s == Spelled(d).summary
           plain == LetterContext(Spelled(d))
<1>1. ScannedDoc(FromCv(d), d, q, e)
  BY FromCvTyped, RedactDictTyped
<1>2. Letter(d).text = IF attempt.named THEN RestoreText(p, text) ELSE text
  BY DEF Letter
<1> HIDE DEF q, e, p
<1>3. /\ s \in Text /\ DOMAIN s = DOMAIN d.summary /\ \A w \in ToSet(s) : ~IsToken(w)
      /\ \A i \in DOMAIN s : RestoreWord(q, e.summary[i]) = <<s[i]>>
      /\ RestoreText(q, e.summary) = s
  BY <1>1, SummaryComesBack
<1>9. plain = d.name \o s
  BY SpelledTyped DEF LetterContext
<1> HIDE DEF s, plain
<1>4. /\ e.name = Token(d.name, <<"NAME", 0>>) /\ q.name = d.name /\ q \in Redactors
      /\ e.summary \in Seq(Word) /\ s \in Seq(Word) /\ d.name \in Seq(Word)
      /\ e.summary = [i \in DOMAIN d.summary |-> ScanWord(q, d.summary[i])]
  BY <1>1, <1>3, FromCvTyped DEF ScannedDoc, Doc, Text
<1>5. Len(e.summary) = Len(s)
  BY <1>3, <1>4
<1>6. text = plain
  <2>1. CASE d.name = <<>>
    <3>1. e.name = <<>>
      BY <1>4, <2>1 DEF Token
    <3>2. <<>> \o e.summary = e.summary /\ <<>> \o s = s
      BY <1>4
    <3>3. prompt = e.summary /\ plain = s
      BY <1>9, <2>1, <3>1, <3>2 DEF LetterContext
    <3> QED
      BY <1>3, <3>3
  <2>2. CASE d.name # <<>>
    <3>1. PICK n \in Word : d.name = <<n>>
      BY <2>2, SmallOnes
    <3>2. e.name = <<<<"NAME", 0>>>> /\ <<"NAME", 0>> \in Word
      BY <1>4, <2>2, TokenWords DEF Token, TokenKinds
    <3>3. RestoreWord(q, <<"NAME", 0>>) = <<n>>
      BY <1>4, <3>1 DEF RestoreWord
    <3> DEFINE t == <<"NAME", 0>>
               a == e.summary
               b == s
    <3>4. prompt = <<t>> \o a /\ plain = <<n>> \o b
      BY <1>9, <3>1, <3>2 DEF LetterContext
    <3>5. t \in Word /\ n \in Word /\ a \in Seq(Word) /\ b \in Seq(Word) /\ Len(a) = Len(b)
      BY <1>4, <1>5, <3>2
    <3>6. RestoreWord(q, t) = <<n>> /\ \A i \in DOMAIN b : RestoreWord(q, a[i]) = <<b[i]>>
      BY <1>3, <3>3
    <3> HIDE DEF prompt, t, a, b
    <3>7. /\ prompt \in Seq(Word) /\ Len(prompt) = 1 + Len(a) /\ prompt[1] = t
          /\ \A i \in 1 .. Len(a) : prompt[1 + i] = a[i]
      BY <3>4, <3>5
    <3>8. /\ plain \in Seq(Word) /\ Len(plain) = 1 + Len(b) /\ plain[1] = n
          /\ \A i \in 1 .. Len(b) : plain[1 + i] = b[i]
      BY <3>4, <3>5
    <3>9. ASSUME NEW i \in DOMAIN plain PROVE RestoreWord(q, prompt[i]) = <<plain[i]>>
      <4>1. i \in 1 .. (1 + Len(b)) /\ Len(b) \in Nat /\ DOMAIN b = 1 .. Len(b)
        BY <3>5, <3>8, <3>9
      <4>2. CASE i = 1
        BY <3>6, <3>7, <3>8, <4>2
      <4>3. CASE i # 1
        <5> DEFINE j == i - 1
        <5>1. j \in 1 .. Len(b) /\ i = 1 + j
          BY <4>1, <4>3
        <5> HIDE DEF j
        <5>2. prompt[i] = a[j] /\ plain[i] = b[j]
          BY <3>5, <3>7, <3>8, <5>1
        <5> QED
          BY <3>6, <4>1, <5>1, <5>2
      <4> QED
        BY <4>2, <4>3
    <3>10. DOMAIN prompt = DOMAIN plain /\ prompt \in Text /\ plain \in Text
      BY <3>5, <3>7, <3>8 DEF Text
    <3> QED
      BY <3>9, <3>10, TextComesBack DEF prompt, text
  <2> QED
    BY <2>1, <2>2
<1>7. plain \in Text /\ \A w \in ToSet(plain) : ~IsToken(w)
  <2>1. plain \in Seq(Word) /\ ToSet(plain) = ToSet(d.name) \cup ToSet(s)
    BY <1>4, <1>9, JoinWords
  <2>2. ToSet(d["name"]) \subseteq WordsOf(d)
    BY DocWords DEF Scalars, NoCv
  <2> QED
    BY <1>3, <2>1, <2>2 DEF Returns, Text
<1> HIDE DEF text
<1>8. RestoreText(p, plain) = plain
  BY <1>7, NothingToRestore
<1> QED
  BY <1>2, <1>6, <1>8 DEF plain

(* For every CV the pipeline can have made: what a round through the       *)
(* refiner, or through the writer of the letter and the pipeline's own     *)
(* redactor after it, leaves alone comes back as it was, names in their    *)
(* canonical spelling, unless it held a token before or mentions the       *)
(* profile of somebody else (redact_cv_dict, restore, _safe_cover_letter). *)
THEOREM RoundTripsAreLossless == Spec => []RoundTripIsLossless
<1>1. BaseInv => RoundTripIsLossless
  <2> SUFFICES ASSUME BaseInv, stage \in {"drafted", "generated"}, Returns(cv)
               PROVE  /\ Refined(cv, TRUE) = Spelled(cv)
                      /\ Letter(cv).text = LetterContext(Spelled(cv))
    BY DEF RoundTripIsLossless, Returns
  <2>1. cv \in Doc /\ Small(cv.name) /\ Small(cv.email) /\ Small(cv.phone)
    BY DEF BaseInv, TypeOK, DraftInv
  <2> QED
    BY <2>1, RefinedSame, LetterSame
<1> QED
  BY <1>1, BaseHolds, PTL

-----------------------------------------------------------------------------
(* What becomes of a text without placeholders when the vault is complete. *)

Given == Each(LAMBDA w : IF w[1] = "linkedin" THEN vault.linkedin
                         ELSE <<Respelled(Candidate, w)>>, upload)
PlainUpload ==
  /\ attempt.named /\ vault.held /\ Complete
  /\ attempt.refs = <<>> /\ vault.refs = <<>>
  /\ \A w \in ToSet(upload) : ~IsToken(w) /\ w # Bracket
(* A word that is neither a placeholder nor the profile of somebody else,  *)
(* nor a spelling of the candidate's name that a redactor would change.    *)
CleanWord ==
  {w \in Word : /\ ~IsToken(w) /\ w # Bracket
                /\ w[1] = "linkedin" => <<w>> = vault.linkedin
                /\ Respelled(Candidate, w) = w}

LEMMA CleanOnes ==
  /\ <<>> \in Seq(CleanWord)
  /\ \A w \in CleanWord : <<w>> \in Seq(CleanWord)
OBVIOUS

LEMMA VaultClean ==
  ASSUME TypeOK
  PROVE  /\ \A f \in {"name", "email", "phone", "dob", "linkedin", "location"} :
               vault[f] \in Seq(CleanWord)
         /\ \A w : vault.email = <<w>> => w[1] = "email"
<1>1. vault \in Vault
  BY RedactionAssumption DEF TypeOK
<1>0. ASSUME NEW w \in Word, w[1] \notin {"variant", "handle"}
      PROVE  Respelled(Candidate, w) = w
  BY <1>0, CanonicalForms DEF Respelled, Names, NameKinds
<1>2. ASSUME NEW kind \in ValueKinds \ {"linkedin", "bracket", "variant", "handle"},
             NEW text \in Values(kind)
      PROVE  text \in Seq(CleanWord)
  <2>1. Small(text) /\ \A w : text = <<w>> => w \in Word /\ w[1] = kind
    BY <1>2, ValuesSmall
  <2>2. CASE text = <<>>
    BY <2>2, CleanOnes
  <2>3. CASE text # <<>>
    <3>1. PICK w \in Word : text = <<w>>
      BY <2>1, <2>3, SmallOnes
    <3>2. w[1] = kind
      BY <2>1, <3>1
    <3>3. w \in CleanWord
      BY <1>0, <1>2, <3>2 DEF CleanWord, IsToken, TokenKinds, ValueKinds, Bracket
    <3> QED
      BY <3>1, <3>3, CleanOnes
  <2> QED
    BY <2>2, <2>3
<1>3. /\ vault.name \in Values("name") /\ vault.email \in Values("email")
      /\ vault.phone \in Values("phone") /\ vault.dob \in Values("date")
      /\ vault.linkedin \in Values("linkedin") /\ vault.location \in Values("city")
  BY <1>1 DEF Vault
<1>4. /\ vault.name \in Seq(CleanWord) /\ vault.email \in Seq(CleanWord)
      /\ vault.phone \in Seq(CleanWord) /\ vault.dob \in Seq(CleanWord)
      /\ vault.location \in Seq(CleanWord)
  BY <1>2, <1>3 DEF ValueKinds
<1>5. vault.linkedin \in Seq(CleanWord)
  <2>1. Small(vault.linkedin) /\ \A w : vault.linkedin = <<w>> => w[1] = "linkedin"
    <3>1. "linkedin" \in ValueKinds /\ vault.linkedin \in Values("linkedin")
      BY <1>3 DEF ValueKinds
    <3> QED
      BY <3>1, ValuesSmall
  <2>2. CASE vault.linkedin = <<>>
    BY <2>2, CleanOnes
  <2>3. CASE vault.linkedin # <<>>
    <3>1. PICK w \in Word : vault.linkedin = <<w>>
      BY <2>1, <2>3, SmallOnes
    <3>2. w[1] = "linkedin"
      BY <2>1, <3>1
    <3>3. w \in CleanWord
      BY <1>0, <3>1, <3>2 DEF CleanWord, IsToken, TokenKinds, Bracket
    <3> QED
      BY <3>1, <3>3, CleanOnes
  <2> QED
    BY <2>2, <2>3
<1>6. \A w : vault.email = <<w>> => w[1] = "email"
  BY <1>3, ValuesSmall DEF ValueKinds
<1> QED
  BY <1>4, <1>5, <1>6

LEMMA PlainRedactor ==
  ASSUME TypeOK, PlainUpload, NEW q, q = PipelineText.redactor
  PROVE  /\ SmallRedactor(q) /\ q \in Redactors /\ Numbers(q, ToSet(upload))
         /\ q.name = <<Own("name")>> /\ q.refs = <<>>
         /\ q.dob = vault.dob /\ q.dob # <<>>
         /\ q.linkedin = vault.linkedin /\ q.linkedin # <<>>
         /\ PipelineText.text = Redacted(q, upload) /\ PipelineText.text \in Text
<1>1. /\ SmallRedactor(q) /\ q.refs = vault.refs /\ q.name = FullName
      /\ Numbers(q, ToSet(upload)) /\ PipelineText.text = Redacted(q, upload)
      /\ q.dob = FromVault(vault).dob /\ q.linkedin = FromVault(vault).linkedin
      /\ PipelineText.text \in Text
  BY PipelineTyped DEF PlainUpload
<1>2. FromVault(vault).dob = vault.dob /\ FromVault(vault).linkedin = vault.linkedin
  BY DEF PlainUpload, FromVault, Redactor
<1>3. vault.dob # <<>> /\ vault.linkedin # <<>>
  BY DEF PlainUpload, Complete
<1> QED
  BY <1>1, <1>2, <1>3 DEF PlainUpload, FullName, SmallRedactor

(* The pipeline's redactor gives back every word it was given; for any     *)
(* profile it gives back the candidate's.                                  *)
LEMMA PlainWordBack ==
  ASSUME TypeOK, PlainUpload, NEW q, q = PipelineText.redactor, NEW w \in ToSet(upload)
  PROVE  /\ w \in Word /\ ~IsToken(w) /\ w # Bracket
         /\ RestoreWord(q, RedactWord(q, w)) =
              IF w[1] = "linkedin" THEN vault.linkedin ELSE <<Respelled(Candidate, w)>>
         /\ RedactWord(q, w)[1] \in {"EMAIL", "REF_EMAIL", "email"} <=> w[1] = "email"
         /\ RedactWord(q, w)[1] \in {"PHONE", "phone"} <=> w[1] = "phone"
<1>1. /\ q \in Redactors /\ Numbers(q, ToSet(upload))
      /\ q.name = <<Own("name")>> /\ q.refs = <<>>
      /\ q.dob # <<>> /\ q.linkedin = vault.linkedin /\ q.linkedin # <<>>
  BY PlainRedactor
<1>2. w \in Word /\ ~IsToken(w) /\ w # Bracket
  <2>1. upload \in Seq(Word)
    BY RedactionAssumption DEF TypeOK, Text
  <2> QED
    BY <2>1 DEF PlainUpload, ToSet
<1>3. Numbers(q, {w})
  BY <1>1 DEF Numbers
<1>4. w[1] \in ValueKinds /\ w[2] \in Nat /\ w = <<w[1], w[2]>>
  BY <1>2 DEF Word, IsToken
<1>0. Candidate.name = <<Own("name")>> /\ \A v : RefNamed(Candidate, v) = {}
  BY DEF PlainUpload, Candidate, FullName, RefNamed
<1>12. w[1] \notin NameKinds => Respelled(Candidate, w) = w
  BY <1>2, RespelledWord
<1>13. ASSUME w[1] \in NameKinds, w[2] = Me
       PROVE  Respelled(Candidate, w) = IF w[1] \in {"name", "variant"} THEN <<"name", Me>>
                                        ELSE <<"slug", Me>>
  <2>1. /\ w[1] \in {"name", "variant"} => Canonical(w) = <<"name", Me>>
        /\ w[1] \in {"slug", "handle"} => Canonical(w) = <<"slug", Me>>
    BY <1>2, <1>13, CanonicalForms
  <2>2. Names(Candidate, w)
    BY <1>0, <1>13 DEF Names, Own
  <2>3. Candidate.name = <<w>> => w = <<"name", Me>>
    BY <1>0 DEF Own
  <2> QED
    BY <1>13, <2>1, <2>2, <2>3 DEF Respelled, NameKinds
<1> HIDE DEF Word
<1> DEFINE v == RedactWord(q, w)
<1>5. CASE w[1] = "email"
  <2>1. Place(q.emails, w) \in DOMAIN q.emails /\ q.emails[Place(q.emails, w)] = w
    BY <1>1, <1>3, <1>5, PlaceTyped DEF Numbers, Redactors
  <2>2. ~RefMailed(q)
    BY <1>1 DEF RefMailed
  <2>3. v = <<"EMAIL", Place(q.emails, w)>>
    BY <1>5, <2>2 DEF RedactWord, Patterns, MailToken
  <2>4. v[1] = "EMAIL" /\ v[2] = Place(q.emails, w)
    BY <2>3
  <2> HIDE DEF v
  <2>5. RestoreWord(q, v) = <<w>>
    BY <2>1, <2>4 DEF RestoreWord, Listed
  <2> QED
    BY <1>2, <1>5, <1>12, <2>4, <2>5 DEF v, NameKinds
<1>6. CASE w[1] = "phone"
  <2>1. Place(q.phones, w) \in DOMAIN q.phones /\ q.phones[Place(q.phones, w)] = w
    BY <1>1, <1>3, <1>6, PlaceTyped DEF Numbers, Redactors
  <2>3. v = <<"PHONE", Place(q.phones, w)>>
    BY <1>6 DEF RedactWord, Patterns
  <2>4. v[1] = "PHONE" /\ v[2] = Place(q.phones, w)
    BY <2>3
  <2> HIDE DEF v
  <2>5. RestoreWord(q, v) = <<w>>
    BY <2>1, <2>4 DEF RestoreWord, Listed
  <2> QED
    BY <1>2, <1>6, <1>12, <2>4, <2>5 DEF v, NameKinds
<1>7. CASE w[1] = "linkedin"
  <2>1. v = <<"LINKEDIN", 0>>
    BY <1>7 DEF RedactWord, Patterns
  <2>2. RestoreWord(q, <<"LINKEDIN", 0>>) = Known(q.linkedin, <<"LINKEDIN", 0>>)
    BY DEF RestoreWord
  <2> QED
    BY <1>1, <1>2, <1>7, <2>1, <2>2 DEF Known
<1>8. CASE w[1] \in {"slug", "handle"} /\ w[2] = Me
  <2>1. q.name = <<<<"name", w[2]>>>>
    BY <1>1, <1>8 DEF Own
  <2>2. v = <<"SLUG", 0>>
    BY <1>8, <2>1 DEF RedactWord, Patterns
  <2>3. RestoreWord(q, <<"SLUG", 0>>) = Slug(q.name)
    BY DEF RestoreWord
  <2>4. Slug(q.name) = <<<<"slug", w[2]>>>>
    BY <2>1 DEF Slug
  <2>5. Respelled(Candidate, w) = <<"slug", w[2]>>
    BY <1>8, <1>13 DEF NameKinds
  <2> QED
    BY <1>2, <1>8, <2>2, <2>3, <2>4, <2>5
<1>9. CASE w[1] \in {"name", "variant"} /\ w[2] = Me
  <2>1. q.name = <<<<"name", w[2]>>>>
    BY <1>1, <1>9 DEF Own
  <2>2. v = <<"NAME", 0>>
    <3>1. CASE w[1] = "name"
      <4>1. q.name = <<w>>
        BY <1>4, <2>1, <3>1
      <4> QED
        BY <3>1, <4>1 DEF RedactWord, Patterns
    <3>2. CASE w[1] = "variant"
      <4>1. q.name # <<w>> /\ Canonical(w) = <<"name", w[2]>>
        BY <1>2, <2>1, <3>2, CanonicalForms
      <4> QED
        BY <2>1, <3>2, <4>1 DEF RedactWord, Patterns
    <3> QED
      BY <1>9, <3>1, <3>2
  <2>3. RestoreWord(q, <<"NAME", 0>>) = q.name
    BY DEF RestoreWord
  <2> QED
    BY <1>2, <1>9, <1>13, <2>1, <2>2, <2>3 DEF NameKinds
<1>10. CASE /\ w[1] \notin {"email", "phone", "linkedin"}
            /\ ~(w[1] \in NameKinds /\ w[2] = Me)
  <2>1. q.name # <<w>>
    BY <1>1, <1>10 DEF Own, NameKinds
  <2>2. q.name = <<<<"name", w[2]>>>> => w[2] = Me
    BY <1>1 DEF Own
  <2>3. RefNamed(q, Canonical(w)) = {}
    BY <1>1 DEF RefNamed
  <2>6. Respelled(Candidate, w) = w
    BY <1>0, <1>10, <2>2 DEF Respelled, Names, Own
  <2>4. CASE w[1] = "date" /\ q.dob = <<w>>
    <3>1. v = <<"DOB", 0>>
      BY <2>1, <2>4 DEF RedactWord, Patterns
    <3>2. RestoreWord(q, <<"DOB", 0>>) = Known(q.dob, <<"DOB", 0>>)
      BY DEF RestoreWord
    <3> QED
      BY <1>1, <1>2, <2>4, <2>6, <3>1, <3>2 DEF Known
  <2>5. CASE ~(w[1] = "date" /\ q.dob = <<w>>)
    <3>1. w[1] \in NameKinds => q.name # <<<<"name", w[2]>>>>
      BY <1>10, <2>2
    <3>2. w[1] = "date" => q.dob \notin {<<>>, <<w>>}
      BY <1>1, <2>5
    <3>3. w[1] # "EMAIL"
      BY <1>4 DEF ValueKinds
    <3>4. v = w
      BY <1>10, <2>1, <2>3, <3>1, <3>2, <3>3 DEF RedactWord, Patterns, NameKinds
    <3>5. RestoreWord(q, w) = <<w>>
      BY <1>4 DEF RestoreWord, ValueKinds
    <3> QED
      BY <1>2, <1>4, <1>10, <2>6, <3>4, <3>5 DEF ValueKinds
  <2> QED
    BY <2>4, <2>5
<1> QED
  BY <1>5, <1>6, <1>7, <1>8, <1>9, <1>10 DEF NameKinds

LEMMA GivenComesBack ==
  ASSUME TypeOK, PlainUpload, NEW q, q = PipelineText.redactor
  PROVE  RestoreText(q, PipelineText.text) = Given /\ Given \in Seq(CleanWord)
<1> DEFINE t == PipelineText.text
           given(w) == IF w[1] = "linkedin" THEN vault.linkedin
                       ELSE <<Respelled(Candidate, w)>>
           ss == [i \in DOMAIN t |-> RestoreWord(q, t[i])]
           gs == [i \in DOMAIN upload |-> given(upload[i])]
<1>1. t = Redacted(q, upload)
  BY PlainRedactor
<1>2. upload \in Seq(Word)
  BY RedactionAssumption DEF TypeOK, Text
<1>3. DOMAIN t = DOMAIN upload /\ \A i \in DOMAIN upload : t[i] = RedactWord(q, upload[i])
  BY <1>1 DEF Redacted
<1>4. RestoreText(q, t) = FlattenSeq(ss)
  BY DEF RestoreText, Each
<1>5. Given = FlattenSeq(gs)
  BY DEF Given, Each
<1>6. \A i \in DOMAIN upload : upload[i] \in ToSet(upload)
  BY DEF ToSet
<1>7. \A i \in DOMAIN upload : RestoreWord(q, RedactWord(q, upload[i])) = given(upload[i])
  BY <1>6, PlainWordBack
<1>8. ss = gs
  <2> HIDE DEF t, given
  <2> QED
    BY <1>3, <1>7
<1>9. \A i \in DOMAIN upload : gs[i] \in Seq(CleanWord)
  <2> SUFFICES ASSUME NEW i \in DOMAIN upload PROVE given(upload[i]) \in Seq(CleanWord)
    OBVIOUS
  <2>1. upload[i] \in Word /\ ~IsToken(upload[i]) /\ upload[i] # Bracket
    BY <1>6, PlainWordBack
  <2>2. CASE upload[i][1] = "linkedin"
    BY <2>2, VaultClean
  <2>3. CASE upload[i][1] # "linkedin"
    <3> DEFINE v == Respelled(Candidate, upload[i])
    <3>1. /\ v \in Word /\ ~IsToken(v) /\ Respelled(Candidate, v) = v
          /\ v = upload[i] \/ v[1] \in {"name", "slug"}
      BY <2>1, RespelledWord
    <3> HIDE DEF v
    <3>2. v \in CleanWord
      BY <2>1, <2>3, <3>1 DEF CleanWord, Bracket
    <3> QED
      BY <2>3, <3>2, CleanOnes DEF v
  <2> QED
    BY <2>2, <2>3
<1>10. gs = [i \in DOMAIN upload |-> gs[i]]
  OBVIOUS
<1> HIDE DEF gs
<1>11. gs \in Seq(Seq(CleanWord))
  BY <1>2, <1>9, <1>10, SameShape
<1>12. FlattenSeq(gs) \in Seq(CleanWord)
  BY <1>11, FlattenTyped
<1> HIDE DEF ss
<1> QED
  BY <1>4, <1>5, <1>8, <1>12

(* The first address or number of the redacted text is that of the text.   *)
LEMMA FirstComesBack ==
  ASSUME TypeOK, PlainUpload, NEW q, q = PipelineText.redactor,
         NEW kinds, NEW kind \in {"email", "phone"},
         \A w \in ToSet(upload) : RedactWord(q, w)[1] \in kinds <=> w[1] = kind
  PROVE  /\ RestoreText(q, FirstOf(kinds, PipelineText.text)) = FirstOf({kind}, upload)
         /\ FirstOf({kind}, upload) \in Seq(CleanWord)
         /\ \A w : FirstOf({kind}, upload) = <<w>> => w[1] = kind
<1> DEFINE t == PipelineText.text
           found == {i \in DOMAIN t : t[i][1] \in kinds}
           there == {i \in DOMAIN upload : upload[i][1] \in {kind}}
<1>1. t = Redacted(q, upload) /\ q \in Redactors /\ t \in Text
  BY PlainRedactor
<1>2. upload \in Text /\ upload \in Seq(Word)
  BY RedactionAssumption DEF TypeOK, Text
<1>3. DOMAIN t = DOMAIN upload /\ \A i \in DOMAIN upload : t[i] = RedactWord(q, upload[i])
  BY <1>1 DEF Redacted
<1>4. \A i \in DOMAIN upload : upload[i] \in ToSet(upload)
  BY DEF ToSet
<1> HIDE DEF t
<1>5. found = there
  BY <1>3, <1>4
<1>6. FirstOf(kinds, t) = IF found = {} THEN <<>> ELSE <<t[Min(found)]>>
  BY DEF FirstOf
<1>7. FirstOf({kind}, upload) = IF there = {} THEN <<>> ELSE <<upload[Min(there)]>>
  BY DEF FirstOf
<1>8. CASE found = {}
  <2>1. FirstOf(kinds, t) = <<>> /\ FirstOf({kind}, upload) = <<>>
    BY <1>5, <1>6, <1>7, <1>8
  <2>2. \A w : <<>> # <<w>>
    OBVIOUS
  <2> QED
    BY <1>1, <2>1, <2>2, RestoreOne, CleanOnes DEF t
<1>9. CASE found # {}
  <2> DEFINE m == Min(there)
  <2>1. m \in there
    <3>1. there \subseteq Nat
      BY <1>2
    <3>2. there # {}
      BY <1>5, <1>9
    <3> HIDE DEF there
    <3>3. \E x \in there : \A y \in there : x <= y
      BY <3>1, <3>2, LeastElement
    <3> QED
      BY <3>3 DEF Min
  <2>2. Min(found) = m
    BY <1>5
  <2>3. FirstOf(kinds, t) = <<t[m]>> /\ FirstOf({kind}, upload) = <<upload[m]>>
    BY <1>5, <1>6, <1>7, <1>9, <2>2
  <2> HIDE DEF m
  <2>4. m \in DOMAIN upload /\ upload[m][1] = kind
    BY <2>1
  <2> DEFINE w == upload[m]
  <2>5. /\ w \in ToSet(upload) /\ w[1] = kind /\ t[m] = RedactWord(q, w) /\ t[m] \in Word
    BY <1>1, <1>3, <1>4, <2>4 DEF Text
  <2>6. FirstOf(kinds, t) = <<t[m]>> /\ FirstOf({kind}, upload) = <<w>>
    BY <2>3
  <2> HIDE DEF w
  <2>7. /\ w \in Word /\ ~IsToken(w) /\ w # Bracket
        /\ RestoreWord(q, RedactWord(q, w)) =
             IF w[1] = "linkedin" THEN vault.linkedin ELSE <<Respelled(Candidate, w)>>
    BY <2>5, PlainWordBack
  <2>12. Respelled(Candidate, w) = w
    BY <2>5, <2>7, RespelledWord DEF NameKinds
  <2>8. RestoreWord(q, t[m]) = <<w>>
    BY <2>5, <2>7, <2>12
  <2>9. RestoreText(q, <<t[m]>>) = <<w>>
    BY <1>1, <2>5, <2>8, RestoreOne
  <2>10. w \in CleanWord
    BY <2>5, <2>7, <2>12 DEF CleanWord
  <2>11. \A x : <<w>> = <<x>> => x[1] = kind
    BY <2>5
  <2> QED
    BY <2>6, <2>9, <2>10, <2>11, CleanOnes DEF t
<1> QED
  BY <1>8, <1>9

LEMMA AnswerFields ==
  ASSUME TypeOK, NEW mode \in Modes, NEW text \in Text, NEW a, a = Answer(mode, text)
  PROVE  /\ a.location = <<>> /\ a.dob = <<>> /\ a.summary = text
         /\ mode = "omit" => a.email = <<>> /\ a.phone = <<>> /\ a.linkedin = <<>>
         /\ mode = "bracket" =>
              a.email = <<Bracket>> /\ a.phone = <<Bracket>> /\ a.linkedin = <<Bracket>>
         /\ mode = "echo" =>
              /\ a.email = FirstOf({"EMAIL", "REF_EMAIL", "email"}, text)
              /\ a.phone = FirstOf({"PHONE", "phone"}, text)
              /\ a.linkedin = FirstOf({"LINKEDIN", "linkedin"}, text)
<1> DEFINE field(kinds) == CASE mode = "echo" -> FirstOf(kinds, text)
                             [] mode = "omit" -> <<>>
                             [] mode = "bracket" -> <<Bracket>>
<1>1. /\ a.email = field({"EMAIL", "REF_EMAIL", "email"})
      /\ a.phone = field({"PHONE", "phone"})
      /\ a.linkedin = field({"LINKEDIN", "linkedin"})
      /\ a.location = <<>> /\ a.dob = <<>> /\ a.summary = text
  BY DEF Answer, NoCv
<1>2. ASSUME NEW kinds
      PROVE  /\ mode = "echo" => field(kinds) = FirstOf(kinds, text)
             /\ mode = "omit" => field(kinds) = <<>>
             /\ mode = "bracket" => field(kinds) = <<Bracket>>
  OBVIOUS
<1> HIDE DEF field
<1> QED
  BY <1>1, <1>2

LEMMA PrefilledFields ==
  ASSUME TypeOK, PlainUpload, NEW d \in Doc, NEW p, p = Prefilled(d)
  PROVE  /\ \A f \in {"email", "phone", "linkedin"} :
              p[f] = IF IsOpen(d[f]) THEN vault[f] ELSE d[f]
         /\ p.location \in {d.location, vault.location}
<1>1. p = [f \in DOMAIN NoCv |->
             IF /\ f \in {"name", "email", "phone", "linkedin", "location"}
                /\ Source(f) # <<>> /\ IsOpen(d[f])
             THEN Source(f) ELSE d[f]]
  BY DEF Prefilled, Doc, NoCv
<1>2. /\ Source("email") = vault["email"] /\ Source("phone") = vault["phone"]
      /\ Source("linkedin") = vault["linkedin"] /\ Source("location") = vault["location"]
  BY DEF Source, PlainUpload
<1>3. /\ vault["email"] # <<>> /\ vault["phone"] # <<>> /\ vault["linkedin"] # <<>>
  BY DEF PlainUpload, Complete
<1>4. \A f \in {"email", "phone", "linkedin", "location"} : f \in DOMAIN NoCv
  BY DEF NoCv
<1>5. \A f \in {"email", "phone", "linkedin"} : Source(f) = vault[f] /\ vault[f] # <<>>
  BY <1>2, <1>3
<1>6. \A f \in {"email", "phone", "linkedin"} :
         p[f] = IF IsOpen(d[f]) THEN vault[f] ELSE d[f]
  BY <1>1, <1>4, <1>5
<1>7. p["location"] = d["location"] \/ p["location"] = vault["location"]
  BY <1>1, <1>2, <1>4
<1> QED
  BY <1>6, <1>7

CompleteCv(c) ==
  /\ c.name = <<Own("name")>>
  /\ c.linkedin = vault.linkedin
  /\ c.email \in {FirstOf({"email"}, upload), vault.email} /\ c.email # <<>>
  /\ c.phone # <<>>
  /\ c.summary \in {<<>>, Given}
  /\ \A f \in Scalars : c[f] \in Seq(CleanWord)
CompleteInv == PlainUpload /\ stage \in {"drafted", "generated"} => CompleteCv(cv)

LEMMA DraftedComplete ==
  ASSUME TypeOK, PlainUpload, NEW mode \in Modes, NEW c, c = Drafted(mode)
  PROVE  CompleteCv(c)
<1> DEFINE q == PipelineText.redactor
           t == PipelineText.text
           a == Answer(mode, t)
           r == Restore(q, a)
           p == Prefilled(r)
<1>1. /\ SmallRedactor(q) /\ q \in Redactors /\ q.refs = <<>> /\ t \in Text
      /\ q.linkedin = vault.linkedin /\ q.linkedin # <<>>
      /\ t = Redacted(q, upload)
  BY PlainRedactor
<1>2. c = p
  <2>1. Tailored(mode, t) = a
    BY DEF Tailored, PlainUpload
  <2> QED
    BY <2>1 DEF Drafted, PlainUpload
<1>3. c.name = <<Own("name")>> /\ c \in Doc
  BY DraftedTyped DEF PlainUpload, FullName
<1>4. RestoreText(q, t) = Given /\ Given \in Seq(CleanWord)
  BY GivenComesBack
<1>5. a \in Doc
  BY <1>1, AnswerTyped
<1>6. /\ a.location = <<>> /\ a.dob = <<>> /\ a.summary = t
      /\ mode = "omit" => a.email = <<>> /\ a.phone = <<>> /\ a.linkedin = <<>>
      /\ mode = "bracket" =>
           a.email = <<Bracket>> /\ a.phone = <<Bracket>> /\ a.linkedin = <<Bracket>>
      /\ mode = "echo" =>
           /\ a.email = FirstOf({"EMAIL", "REF_EMAIL", "email"}, t)
           /\ a.phone = FirstOf({"PHONE", "phone"}, t)
           /\ a.linkedin = FirstOf({"LINKEDIN", "linkedin"}, t)
  BY <1>1, AnswerFields
<1> HIDE DEF a
<1>7. r \in Doc /\ \A f \in Scalars : r[f] = RestoreText(q, a[f])
  BY <1>1, <1>5, RestoredDoc
<1> HIDE DEF r
<1>8. /\ r.email = RestoreText(q, a.email) /\ r.phone = RestoreText(q, a.phone)
      /\ r.linkedin = RestoreText(q, a.linkedin) /\ r.location = RestoreText(q, a.location)
      /\ r.summary = RestoreText(q, a.summary) /\ r.dob = RestoreText(q, a.dob)
  <2>1. \A f \in {"email", "phone", "linkedin", "location", "summary", "dob"} : f \in Scalars
    BY DEF Scalars, NoCv
  <2>2. \A f \in {"email", "phone", "linkedin", "location", "summary", "dob"} :
           r[f] = RestoreText(q, a[f])
    BY <1>7, <2>1
  <2> QED
    BY <2>2
<1>9. /\ RestoreText(q, <<>>) = <<>> /\ RestoreText(q, <<Bracket>>) = <<Bracket>>
  <2>1. RestoreWord(q, Bracket) = <<Bracket>>
    BY DEF RestoreWord, Bracket
  <2> QED
    BY <1>1, <2>1, RestoreOne, MyName
<1>10. /\ p.summary = r.summary /\ p.dob = r.dob
       /\ \A f \in {"email", "phone", "linkedin"} :
            p[f] = IF IsOpen(r[f]) THEN vault[f] ELSE r[f]
       /\ p.location \in {r.location, vault.location}
  BY <1>7, PrefilledTyped, PrefilledFields
<1> HIDE DEF p, q
<1>11. IsOpen(<<>>) /\ IsOpen(<<Bracket>>)
  BY DEF IsOpen
<1>12. /\ vault.email # <<>> /\ vault.phone # <<>> /\ vault.linkedin # <<>>
       /\ vault.email \in Seq(CleanWord) /\ vault.phone \in Seq(CleanWord)
       /\ vault.linkedin \in Seq(CleanWord) /\ vault.location \in Seq(CleanWord)
  BY VaultClean DEF PlainUpload, Complete
<1>13. /\ p.email = IF IsOpen(r.email) THEN vault.email ELSE r.email
       /\ p.phone = IF IsOpen(r.phone) THEN vault.phone ELSE r.phone
       /\ p.linkedin = IF IsOpen(r.linkedin) THEN vault.linkedin ELSE r.linkedin
  BY <1>10
<1>14. /\ p.email \in {FirstOf({"email"}, upload), vault.email} /\ p.email # <<>>
       /\ p.email \in Seq(CleanWord)
  <2>1. CASE mode = "echo"
    <3>1. \A w \in ToSet(upload) :
             RedactWord(q, w)[1] \in {"EMAIL", "REF_EMAIL", "email"} <=> w[1] = "email"
      BY PlainWordBack DEF q
    <3>2. /\ RestoreText(q, FirstOf({"EMAIL", "REF_EMAIL", "email"}, t)) = FirstOf({"email"}, upload)
          /\ FirstOf({"email"}, upload) \in Seq(CleanWord)
      <4> DEFINE K == {"EMAIL", "REF_EMAIL", "email"}
      <4>1. \A w \in ToSet(upload) : RedactWord(q, w)[1] \in K <=> w[1] = "email"
        BY <3>1
      <4> HIDE DEF K
      <4>2. "email" \in {"email", "phone"}
        OBVIOUS
      <4>3. /\ RestoreText(q, FirstOf(K, t)) = FirstOf({"email"}, upload)
            /\ FirstOf({"email"}, upload) \in Seq(CleanWord)
        BY <4>1, <4>2, FirstComesBack DEF q
      <4> QED
        BY <4>3 DEF K
    <3>3. r.email = FirstOf({"email"}, upload)
      BY <1>6, <1>8, <2>1, <3>2
    <3> QED
      BY <1>11, <1>12, <1>13, <3>2, <3>3
  <2>2. CASE mode # "echo"
    BY <1>6, <1>8, <1>9, <1>11, <1>12, <1>13, <2>2 DEF Modes
  <2> QED
    BY <2>1, <2>2
<1>15. p.phone # <<>> /\ p.phone \in Seq(CleanWord)
  <2>1. CASE mode = "echo"
    <3>1. \A w \in ToSet(upload) : RedactWord(q, w)[1] \in {"PHONE", "phone"} <=> w[1] = "phone"
      BY PlainWordBack DEF q
    <3>2. /\ RestoreText(q, FirstOf({"PHONE", "phone"}, t)) = FirstOf({"phone"}, upload)
          /\ FirstOf({"phone"}, upload) \in Seq(CleanWord)
      <4> DEFINE K == {"PHONE", "phone"}
      <4>1. \A w \in ToSet(upload) : RedactWord(q, w)[1] \in K <=> w[1] = "phone"
        BY <3>1
      <4> HIDE DEF K
      <4>2. "phone" \in {"email", "phone"}
        OBVIOUS
      <4>3. /\ RestoreText(q, FirstOf(K, t)) = FirstOf({"phone"}, upload)
            /\ FirstOf({"phone"}, upload) \in Seq(CleanWord)
        BY <4>1, <4>2, FirstComesBack DEF q
      <4> QED
        BY <4>3 DEF K
    <3>3. r.phone = FirstOf({"phone"}, upload)
      BY <1>6, <1>8, <2>1, <3>2
    <3> QED
      BY <1>11, <1>12, <1>13, <3>2, <3>3
  <2>2. CASE mode # "echo"
    BY <1>6, <1>8, <1>9, <1>11, <1>12, <1>13, <2>2 DEF Modes
  <2> QED
    BY <2>1, <2>2
<1>16. p.linkedin = vault.linkedin
  <2>1. CASE mode = "echo"
    <3>1. \/ a.linkedin = <<>>
          \/ \E w \in ToSet(t) : a.linkedin = <<w>> /\ w[1] \in {"LINKEDIN", "linkedin"}
      BY <1>1, <1>6, <2>1, FirstOfText
    <3>2. ASSUME NEW w \in ToSet(t), a.linkedin = <<w>>, w[1] \in {"LINKEDIN", "linkedin"}
          PROVE  RestoreText(q, a.linkedin) = vault.linkedin
      <4>1. w \in Word /\ w[1] # "linkedin"
        BY <1>1, UploadIsAnonymous DEF PlainUpload, Anonymous, Personal
      <4>2. RestoreWord(q, w) = Known(q.linkedin, w)
        BY <3>2, <4>1 DEF RestoreWord
      <4>3. RestoreWord(q, w) = vault.linkedin
        BY <1>1, <4>2 DEF Known
      <4> QED
        BY <1>1, <3>2, <4>1, <4>3, RestoreOne
    <3>3. r.linkedin \in {<<>>, vault.linkedin}
      BY <1>8, <1>9, <3>1, <3>2
    <3> QED
      BY <1>11, <1>13, <3>3
  <2>2. CASE mode # "echo"
    BY <1>6, <1>8, <1>9, <1>11, <1>12, <1>13, <2>2 DEF Modes
  <2> QED
    BY <2>1, <2>2
<1>17. p.summary = Given /\ p.dob = <<>> /\ p.location \in {<<>>, vault.location}
  BY <1>4, <1>6, <1>8, <1>9, <1>10
<1>18. <<Own("name")>> \in Seq(CleanWord)
  <2>1. Own("name") \in CleanWord
    BY MyName DEF CleanWord, Own, IsToken, TokenKinds, Bracket, Respelled, Canonical
  <2> QED
    BY <2>1, CleanOnes
<1>19. /\ p.name \in Seq(CleanWord) /\ p.email \in Seq(CleanWord) /\ p.phone \in Seq(CleanWord)
       /\ p.location \in Seq(CleanWord) /\ p.linkedin \in Seq(CleanWord)
       /\ p.dob \in Seq(CleanWord) /\ p.summary \in Seq(CleanWord)
  <2>1. p.name = <<Own("name")>>
    BY <1>2, <1>3
  <2> QED
    BY <1>4, <1>12, <1>14, <1>15, <1>16, <1>17, <1>18, <2>1, CleanOnes
<1>20. \A f \in Scalars : p[f] \in Seq(CleanWord)
  BY <1>19 DEF Scalars, NoCv
<1> QED
  BY <1>2, <1>3, <1>14, <1>15, <1>16, <1>17, <1>20 DEF CompleteCv

LEMMA CompleteReturns ==
  ASSUME NEW d \in Doc, CompleteCv(d), d.refs = <<>>
  PROVE  /\ \A w \in WordsOf(d) : w \in CleanWord
         /\ Returns(d)
<1>1. \A w \in WordsOf(d) : w \in CleanWord
  <2> SUFFICES ASSUME NEW w \in WordsOf(d) PROVE w \in CleanWord
    OBVIOUS
  <2>1. PICK f \in Scalars : w \in ToSet(d[f])
    BY DocWords
  <2>2. d[f] \in Seq(CleanWord)
    BY <2>1 DEF CompleteCv
  <2> QED
    BY <2>1, <2>2 DEF ToSet
<1>2. d.linkedin = vault.linkedin
  BY DEF CompleteCv
<1> QED
  BY <1>1, <1>2 DEF CleanWord, Returns

LEMMA RefinedComplete ==
  ASSUME NEW d \in Doc, CompleteCv(d), d.refs = <<>>, Small(d.email), Small(d.phone),
         attempt.named, attempt.refs = <<>>, NEW keep \in BOOLEAN, NEW c, c = Refined(d, keep)
  PROVE  CompleteCv(c)
<1>0. Spelled(d) = d
  <2>1. \A w \in WordsOf(d) : Respelled(Candidate, w) = w
    BY CompleteReturns DEF CleanWord
  <2>2. d.name = Candidate.name /\ d.refs = Candidate.refs
    BY DEF CompleteCv, Candidate, FullName
  <2>3. \A w : Respelled(d, w) = Respelled(Candidate, w)
    BY <2>2 DEF Respelled, Names, RefNamed
  <2>4. ToSet(d["summary"]) \subseteq WordsOf(d)
    BY DocWords DEF Scalars, NoCv
  <2>5. \A i \in DOMAIN d.summary : Respelled(d, d.summary[i]) = d.summary[i]
    BY <2>1, <2>3, <2>4 DEF ToSet
  <2>6. d.summary = [i \in DOMAIN d.summary |-> d.summary[i]]
    BY DEF Doc, Text
  <2>7. Spelled(d).summary = d.summary
    BY <2>5, <2>6, SpelledTyped
  <2>8. [d EXCEPT !.summary = d.summary] = d
    BY DEF Doc
  <2> QED
    BY <2>7, <2>8, SpelledTyped
<1>1. CASE keep
  <2>1. Refined(d, TRUE) = d
    BY <1>0, CompleteReturns, RefinedSame
  <2>2. keep = TRUE
    BY <1>1
  <2> QED
    BY <2>1, <2>2
<1>2. CASE ~keep
  <2>1. /\ \A f \in Scalars \ {"summary"} : c[f] = d[f]
        /\ c.summary = <<>>
    BY <1>2, RefinedFields
  <2>2. \A f \in Scalars : c[f] \in Seq(CleanWord)
    <3>1. c["summary"] \in Seq(CleanWord)
      BY <2>1, CleanOnes
    <3> QED
      BY <2>1, <3>1 DEF CompleteCv
  <2>3. /\ c["name"] = d["name"] /\ c["email"] = d["email"] /\ c["phone"] = d["phone"]
        /\ c["linkedin"] = d["linkedin"]
    BY <2>1 DEF Scalars, NoCv
  <2> QED
    BY <2>1, <2>2, <2>3 DEF CompleteCv
<1> QED
  BY <1>1, <1>2

LEMMA CompleteStays ==
  ASSUME UNCHANGED <<vault, attempt, upload>>
  PROVE  /\ PlainUpload' = PlainUpload
         /\ Given' = Given /\ CleanWord' = CleanWord
<1>1. PlainUpload' = PlainUpload
  BY DEF PlainUpload, Complete
<1>2. CleanWord' = CleanWord
  BY DEF CleanWord, Respelled, Names, RefNamed, Candidate, FullName
<1>3. Given' = Given
  <2> DEFINE gs == [i \in DOMAIN upload |->
                      IF upload[i][1] = "linkedin" THEN vault.linkedin
                      ELSE <<Respelled(Candidate, upload[i])>>]
  <2>1. gs' = gs
    BY DEF Respelled, Names, RefNamed, Candidate, FullName
  <2>2. Given = FlattenSeq(gs) /\ Given' = FlattenSeq(gs')
    BY DEF Given, Each
  <2> HIDE DEF gs
  <2> QED
    BY <2>1, <2>2, Zenon
<1> QED
  BY <1>1, <1>2, <1>3

LEMMA CompleteStep == BaseInv /\ CompleteInv /\ [Next]_vars => CompleteInv'
<1> SUFFICES ASSUME BaseInv, CompleteInv, [Next]_vars PROVE CompleteInv'
  OBVIOUS
<1>1. TypeOK /\ DraftInv /\ cv \in Doc
  BY DEF BaseInv, TypeOK
<1>2. ASSUME NEW mode \in {"echo", "omit", "bracket"}, Generate(mode)
      PROVE  CompleteInv'
  <2>1. UNCHANGED <<vault, attempt, upload>> /\ cv' = Drafted(mode)
    BY <1>2 DEF Generate
  <2>2. PlainUpload => CompleteCv(cv')
    BY <1>1, <1>2, <2>1, DraftedComplete DEF Modes
  <2>3. PlainUpload' => CompleteCv(cv)'
    BY <2>1, <2>2, CompleteStays DEF CompleteCv
  <2> QED
    BY <2>3 DEF CompleteInv
<1>3. ASSUME NEW answered \in BOOLEAN, Finish(answered)
      PROVE  CompleteInv'
  <2>1. UNCHANGED <<vault, attempt, upload, cv>> /\ stage = "drafted"
    BY <1>3 DEF Finish
  <2>2. PlainUpload => CompleteCv(cv)
    BY <2>1 DEF CompleteInv
  <2>3. PlainUpload' => CompleteCv(cv)'
    BY <2>1, <2>2, CompleteStays DEF CompleteCv
  <2> QED
    BY <2>1, <2>3 DEF CompleteInv
<1>4. ASSUME NEW keep \in BOOLEAN, NEW note \in Notes, Refine(keep, note)
      PROVE  CompleteInv'
  <2>1. UNCHANGED <<vault, attempt, upload>> /\ cv' = Refined(cv, keep) /\ stage = "generated"
    BY <1>4 DEF Refine
  <2>2. Small(cv.email) /\ Small(cv.phone) /\ cv.refs = attempt.refs
    BY <1>1, <2>1 DEF DraftInv
  <2>3. ASSUME PlainUpload PROVE CompleteCv(cv')
    <3>1. CompleteCv(cv) /\ cv.refs = <<>>
      BY <2>1, <2>2, <2>3 DEF CompleteInv, PlainUpload
    <3> QED
      BY <1>1, <2>1, <2>2, <2>3, <3>1, RefinedComplete DEF PlainUpload
  <2>4. PlainUpload' => CompleteCv(cv)'
    BY <2>1, <2>3, CompleteStays DEF CompleteCv
  <2> QED
    BY <2>4 DEF CompleteInv
<1>5. CASE Save \/ ChangeVault \/ Show \/ DownloadSaved \/ DownloadLetter \/ DownloadAll
  BY <1>5 DEF CompleteInv, Save, ChangeVault, Show, DownloadSaved, DownloadLetter, DownloadAll, Give
<1>6. CASE UNCHANGED vars
  <2>1. UNCHANGED <<vault, attempt, upload, cv, stage>>
    BY <1>6 DEF vars
  <2>2. PlainUpload' = PlainUpload /\ (CompleteCv(cv) => CompleteCv(cv)')
    BY <2>1, CompleteStays DEF CompleteCv
  <2> QED
    BY <2>1, <2>2 DEF CompleteInv
<1> QED
  BY <1>2, <1>3, <1>4, <1>5, <1>6 DEF Next

LEMMA CompleteIsAsGiven ==
  ASSUME BaseInv, CompleteCv(cv), attempt.named, attempt.refs = <<>>, stage = "generated"
  PROVE  AsGiven
<1>1. cv \in Doc /\ cv.refs = <<>> /\ cv.name = FullName
  BY DEF BaseInv, TypeOK, DraftInv
<1>2. \A f \in Scalars : cv[f] \in Seq(CleanWord)
  BY DEF CompleteCv
<1>3. \A w : \A f \in Scalars : w \in ToSet(cv[f]) => w \in CleanWord
  BY <1>2 DEF ToSet
<1>4. CheckedTokens \subseteq TokenKinds
  BY DEF CheckedTokens, TokenKinds
<1>5. {f \in Required : cv[f] = <<>>} = {}
  <2>1. /\ cv["name"] # <<>> /\ cv["email"] # <<>> /\ cv["phone"] # <<>>
    BY DEF CompleteCv
  <2> QED
    BY <2>1 DEF Required
<1>6. \A f \in {"name", "email", "phone", "location", "summary", "linkedin"} :
         ~Contains(cv[f], Bracket)
  <2> SUFFICES ASSUME NEW f \in Scalars, Contains(cv[f], Bracket) PROVE FALSE
    BY DEF Scalars, NoCv
  <2>1. cv[f] \in Seq(CleanWord) /\ DOMAIN cv[f] = 1 .. Len(cv[f])
    BY <1>2
  <2>2. Bracket \in CleanWord
    BY <2>1 DEF Contains
  <2> QED
    BY <2>2 DEF CleanWord
<1>7. \A f \in Scalars : ~\E w \in ToSet(cv[f]) : w[1] \in CheckedTokens
  BY <1>3, <1>4 DEF CleanWord, IsToken
<1>8. ~\E w \in ToSet(RefText(cv.refs)) : w[1] \in CheckedTokens
  <2>1. cv.refs \in Seq(RefTexts) /\ DOMAIN cv.refs = {}
    BY <1>1 DEF Doc
  <2>2. \A w \in ToSet(RefText(cv.refs)) :
           \E i \in DOMAIN cv.refs, g \in RefFields : w \in ToSet(cv.refs[i][g])
    BY <2>1, RefTextWords
  <2> QED
    BY <2>1, <2>2
<1>9. CheckPlaceholders(cv) = {}
  BY <1>5, <1>6, <1>7, <1>8 DEF CheckPlaceholders
<1>10. cv.summary \in {<<>>, Given} /\ cv.email \in {FirstOf({"email"}, upload), vault.email}
  BY DEF CompleteCv
<1> QED
  BY <1>1, <1>9, <1>10 DEF AsGiven, Given

(* For every complete vault and every text without placeholders, when      *)
(* there are no references: whatever the model answers, and through any    *)
(* number of rounds of the refiner, the generated CV holds no placeholder  *)
(* and no value the candidate did not give, but for the spelling of her    *)
(* name (restore, then prefill, in run_pipeline; apply_review_fixes).      *)
THEOREM GeneratedCvsAreComplete == Spec => []GeneratedCvIsComplete
<1>1. Init => CompleteInv
  BY DEF Init, CompleteInv
<1>2. BaseInv /\ CompleteInv /\ [Next]_vars => CompleteInv'
  BY CompleteStep
<1>3. BaseInv /\ CompleteInv => GeneratedCvIsComplete
  <2> SUFFICES ASSUME BaseInv, CompleteInv, Answered, attempt.refs = <<>>, vault.refs = <<>>,
                      \A w \in ToSet(upload) : ~IsToken(w) /\ w # Bracket
               PROVE  AsGiven
    BY DEF GeneratedCvIsComplete
  <2>1. PlainUpload /\ stage = "generated"
    BY DEF PlainUpload, Answered
  <2>2. CompleteCv(cv)
    BY <2>1 DEF CompleteInv
  <2> QED
    BY <2>1, <2>2, CompleteIsAsGiven DEF PlainUpload
<1> QED
  BY <1>1, <1>2, <1>3, BaseHolds, PTL DEF Spec

-----------------------------------------------------------------------------
(* The numbers given again when the CV is saved.                           *)

(* The list has w in its first place and nowhere else. *)
Headed(list, w) ==
  Len(list) >= 1 /\ list[1] = w /\ \A k \in 1 .. Len(list) : k # 1 => list[k] # w
(* The first word of this kind is w. *)
Leads(kind, w, text) ==
  \E m \in 1 .. Len(text) :
     text[m] = w /\ \A j \in 1 .. m : text[j][1] = kind => text[j] = w

LEMMA LeadsListed ==
  ASSUME NEW W, NEW kind, NEW text \in Seq(W), NEW w \in W, w[1] = kind, Leads(kind, w, text)
  PROVE  Headed(Listing(kind, <<>>, text), w)
<1> DEFINE n == Len(text)
<1>1. <<>> \in Seq(W)
  OBVIOUS
<1>2. PICK g \in Listings(W, kind, <<>>, text, n) : Listing(kind, <<>>, text) = g[n]
  BY <1>1, ListingIsOne
<1>3. /\ g \in [0 .. n -> Seq(W)]
      /\ g[0] = <<>>
      /\ \A i \in 1 .. n :
           IF text[i][1] = kind /\ ~Contains(g[i - 1], text[i])
           THEN g[i] = Append(g[i - 1], text[i]) ELSE g[i] = g[i - 1]
  BY <1>2 DEF Listings
<1>4. n \in Nat /\ n \in 0 .. n
  OBVIOUS
<1>5. PICK m \in 1 .. n : text[m] = w /\ \A j \in 1 .. m : text[j][1] = kind => text[j] = w
  BY DEF Leads
<1> HIDE DEF n
<1> DEFINE Led(i) == (i < m /\ Len(g[i]) = 0) \/ Headed(g[i], w)
           T == {i \in Nat : i \in 0 .. n => Led(i)}
<1>6. 0 \in T
  BY <1>3, <1>4, <1>5
<1>7. ASSUME NEW i \in Nat, i \in T PROVE i + 1 \in T
  <2> SUFFICES ASSUME i + 1 \in 0 .. n PROVE Led(i + 1)
    <3> HIDE DEF Led
    <3> QED
      OBVIOUS
  <2>1. i + 1 \in 1 .. n /\ i \in 0 .. n /\ (i + 1) - 1 = i /\ m \in Nat
    BY <1>4, <1>5
  <2> DEFINE a == g[i]
             b == g[i + 1]
             x == text[i + 1]
  <2>2. a \in Seq(W) /\ x \in W
    <3>1. a \in Seq(W)
      BY <1>3, <2>1
    <3>2. x \in W
      BY <2>1 DEF n
    <3> QED
      BY <3>1, <3>2
  <2>3. (i < m /\ Len(a) = 0) \/ Headed(a, w)
    BY <1>7, <2>1
  <2>4. IF x[1] = kind /\ ~Contains(a, x) THEN b = Append(a, x) ELSE b = a
    BY <1>3, <2>1
  <2>5. i + 1 <= m /\ x[1] = kind => x = w
    BY <1>5, <2>1
  <2>6. i + 1 = m => x = w
    BY <1>5
  <2>7. Headed(a, w) => Contains(a, w)
    <3>1. ASSUME Headed(a, w) PROVE 1 \in 1 .. Len(a) /\ a[1] = w
      BY <2>2, <3>1 DEF Headed
    <3> QED
      BY <3>1 DEF Contains
  <2>8. Len(a) = 0 => ~Contains(a, x)
    BY DEF Contains
  <2> SUFFICES (i + 1 < m /\ Len(b) = 0) \/ Headed(b, w)
    OBVIOUS
  <2> HIDE DEF a, b, x
  <2>9. CASE x[1] = kind /\ ~Contains(a, x)
    <3>1. b = Append(a, x)
      BY <2>4, <2>9
    <3>2. /\ Len(b) = Len(a) + 1 /\ b[Len(a) + 1] = x /\ Len(a) \in Nat
          /\ \A k \in 1 .. Len(a) : b[k] = a[k]
      BY <2>2, <3>1
    <3>3. CASE Headed(a, w)
      <4>1. x # w
        BY <2>7, <2>9, <3>3
      <4> QED
        BY <3>2, <3>3, <4>1 DEF Headed
    <3>4. CASE i < m /\ Len(a) = 0
      <4>1. x = w
        BY <2>1, <2>5, <2>9, <3>4
      <4> QED
        BY <3>2, <3>4, <4>1 DEF Headed
    <3> QED
      BY <2>3, <3>3, <3>4
  <2>10. CASE ~(x[1] = kind /\ ~Contains(a, x))
    <3>1. b = a
      BY <2>4, <2>10
    <3>2. CASE i + 1 = m /\ Len(a) = 0
      BY <2>6, <2>8, <2>10, <3>2
    <3> QED
      BY <2>1, <2>3, <3>1, <3>2
  <2> QED
    BY <2>9, <2>10
<1>8. Nat \subseteq T
  <2> HIDE DEF T
  <2> QED
    BY <1>6, <1>7, Induction
<1>9. Led(n)
  BY <1>4, <1>8
<1>10. ~(n < m)
  BY <1>4, <1>5
<1> QED
  BY <1>2, <1>9, <1>10

LEMMA LeadsOn ==
  ASSUME NEW kind, NEW w \in Word, NEW a \in Text, NEW b \in Text, Leads(kind, w, a)
  PROVE  Leads(kind, w, a \o b)
<1>1. a \in Seq(Word) /\ b \in Seq(Word)
  BY DEF Text
<1>2. PICK m \in 1 .. Len(a) : a[m] = w /\ \A j \in 1 .. m : a[j][1] = kind => a[j] = w
  BY DEF Leads
<1> DEFINE c == a \o b
<1>3. /\ Len(c) = Len(a) + Len(b) /\ Len(a) \in Nat /\ Len(b) \in Nat
      /\ \A j \in 1 .. Len(a) : c[j] = a[j]
  BY <1>1
<1> HIDE DEF c
<1>4. m \in 1 .. Len(c) /\ \A j \in 1 .. m : j \in 1 .. Len(a)
  BY <1>3
<1>5. c[m] = w /\ \A j \in 1 .. m : c[j][1] = kind => c[j] = w
  BY <1>2, <1>3, <1>4
<1> QED
  BY <1>4, <1>5 DEF Leads, c

LEMMA LeadsAlone ==
  ASSUME NEW kind, NEW text \in Text, NEW w \in ToSet(text),
         \A v \in ToSet(text) : v[1] = kind => v = w
  PROVE  Leads(kind, w, text)
<1>1. DOMAIN text = 1 .. Len(text) /\ Len(text) \in Nat
  BY DEF Text
<1>2. PICK m \in 1 .. Len(text) : text[m] = w
  BY <1>1 DEF ToSet
<1>3. \A j \in 1 .. Len(text) : text[j] \in ToSet(text)
  BY <1>1 DEF ToSet
<1>4. \A j \in 1 .. m : j \in 1 .. Len(text)
  BY <1>1
<1>5. \A j \in 1 .. m : text[j][1] = kind => text[j] = w
  BY <1>3, <1>4
<1> QED
  BY <1>2, <1>5 DEF Leads

LEMMA HeadedPlace ==
  ASSUME NEW list \in Text, NEW w, Headed(list, w)
  PROVE  Place(list, w) = 1
<1>1. DOMAIN list = 1 .. Len(list) /\ Len(list) \in Nat
  BY DEF Text
<1>2. 1 \in DOMAIN list /\ list[1] = w
  BY <1>1 DEF Headed
<1>3. \A i \in DOMAIN list : list[i] = w => i = 1
  BY <1>1 DEF Headed
<1> QED
  BY <1>2, <1>3 DEF Place

LEMMA AgreedWords ==
  ASSUME cv \in Doc, Agrees, NEW f \in Scalars, NEW w \in ToSet(cv[f])
  PROVE  /\ w \in Word /\ ~IsToken(w) /\ w[1] \notin {"date", "variant", "handle"}
         /\ w[1] \in Personal => <<w>> = vault[w[1]]
         /\ RefNamed(cv, w) # {} => vault.refs = cv.refs
<1> DEFINE d == [cv EXCEPT !.refs = <<>>]
<1>1. d \in Doc /\ d[f] = cv[f]
  <2>1. <<>> \in Seq(RefTexts)
    OBVIOUS
  <2> QED
    BY <2>1 DEF Doc, Scalars, NoCv
<1>2. \A x \in WordsOf(d) : /\ ~IsToken(x) /\ x = Canonical(x)
                            /\ x[1] \in Personal => <<x>> = vault[x[1]]
                            /\ x[1] # "date"
                            /\ RefNamed(cv, x) # {} => vault.refs = cv.refs
  BY DEF Agrees
<1> HIDE DEF d
<1>3. w \in WordsOf(d) /\ d[f] \in Text
  BY <1>1, DocWords
<1>4. w \in Word
  BY <1>1, <1>3 DEF Text, ToSet
<1>5. w[1] \notin {"variant", "handle"}
  BY <1>2, <1>3 DEF Canonical
<1> QED
  BY <1>2, <1>3, <1>4, <1>5

LEMMA ReferenceWords ==
  ASSUME NEW refs \in Seq(RefValues), NEW i \in DOMAIN refs, NEW g \in RefFields,
         NEW w \in ToSet(refs[i][g])
  PROVE  refs[i][g] = <<w>> /\ w \in Word /\ w[1] = g
<1>1. /\ Small(refs[i][g])
      /\ refs[i].name = <<w>> => w[1] = "name"
      /\ refs[i].email = <<w>> => w[1] = "email"
      /\ refs[i].phone = <<w>> => w[1] = "phone"
  BY RefValuesSmall
<1>2. refs[i][g] # <<>>
  BY DEF ToSet
<1>3. PICK v \in Word : refs[i][g] = <<v>>
  BY <1>1, <1>2, SmallOnes
<1>4. v = w
  BY <1>3 DEF ToSet
<1>5. refs[i][g] = <<w>>
  BY <1>3, <1>4
<1>6. w[1] = g
  BY <1>1, <1>5 DEF RefFields
<1> QED
  BY <1>3, <1>4, <1>5, <1>6

RowRedactor == Numbered(FromCv(NoLocation(cv)), Dumped(cv))

LEMMA RowRedactorTyped ==
  ASSUME cv \in Doc
  PROVE  /\ RowRedactor \in Redactors
         /\ RowRedactor.name = cv.name /\ RowRedactor.refs = cv.refs
         /\ RowRedactor.emails = Listing("email", <<>>, Dumped(cv))
         /\ RowRedactor.phones = Listing("phone", <<>>, Dumped(cv))
         /\ Dumped(cv) \in Text
<1> DEFINE r == FromCv(NoLocation(cv))
<1>1. r \in Redactors /\ r.name = cv.name /\ r.refs = cv.refs
  BY NoLocationTyped
<1>2. Dumped(cv) \in Text
  BY DumpedWords
<1> HIDE DEF r
<1>3. LET q == Numbered(r, Dumped(cv))
      IN /\ q \in Redactors /\ q.name = r.name /\ q.refs = r.refs
         /\ q.emails = Listing("email", <<>>, Dumped(cv))
         /\ q.phones = Listing("phone", <<>>, Dumped(cv))
  BY <1>1, <1>2, NumberedTyped
<1> QED
  BY <1>1, <1>2, <1>3 DEF RowRedactor, r

(* An address the vault knows has the number 1 when the CV is saved, for   *)
(* it is the only one; a phone, for it comes before those of references.   *)
LEMMA FirstNumbers ==
  ASSUME BaseInv, Agrees, stage # "uploaded", NEW f \in Scalars, NEW w \in ToSet(cv[f])
  PROVE  /\ w[1] = "email" => Place(RowRedactor.emails, w) = 1
         /\ w[1] = "phone" => Place(RowRedactor.phones, w) = 1
<1>1. cv \in Doc /\ cv.refs = attempt.refs /\ TypeOK
  BY DEF BaseInv, TypeOK, DraftInv
<1>2. cv.refs \in Seq(RefValues)
  BY <1>1, AttemptSmall
<1>3. /\ w \in Word
      /\ w[1] \in Personal => <<w>> = vault[w[1]]
  BY <1>1, AgreedWords
<1>4. /\ RowRedactor.emails = Listing("email", <<>>, Dumped(cv))
      /\ RowRedactor.phones = Listing("phone", <<>>, Dumped(cv))
      /\ RowRedactor \in Redactors
      /\ Dumped(cv) \in Text /\ Dumped(cv) \in Seq(Word)
  BY <1>1, RowRedactorTyped DEF Text
<1>5. RowRedactor.emails \in Text /\ RowRedactor.phones \in Text
  BY <1>4 DEF Redactors
<1>6. ASSUME w[1] = "email" PROVE Place(RowRedactor.emails, w) = 1
  <2>1. w \in ToSet(Dumped(cv))
    BY <1>1, DocWords DEF WordsOf
  <2>2. ASSUME NEW x \in ToSet(Dumped(cv)), x[1] = "email" PROVE x = w
    <3>1. x \in WordsOf(cv)
      BY DEF WordsOf
    <3>2. \/ \E h \in Scalars : x \in ToSet(cv[h])
          \/ \E i \in DOMAIN cv.refs, g \in RefFields : x \in ToSet(cv.refs[i][g])
      BY <1>1, <3>1, DocWords
    <3>3. CASE \E h \in Scalars : x \in ToSet(cv[h])
      <4>1. <<x>> = vault["email"]
        BY <1>1, <2>2, <3>3, AgreedWords DEF Personal
      <4>2. <<w>> = vault["email"]
        BY <1>3, <1>6 DEF Personal
      <4> QED
        BY <4>1, <4>2
    <3>4. CASE \E i \in DOMAIN cv.refs, g \in RefFields : x \in ToSet(cv.refs[i][g])
      <4>1. PICK i \in DOMAIN cv.refs, g \in RefFields : x \in ToSet(cv.refs[i][g])
        BY <3>4
      <4>2. cv.refs[i][g] = <<x>> /\ x[1] = g
        <5> DEFINE rs == cv.refs
        <5>1. rs \in Seq(RefValues) /\ i \in DOMAIN rs /\ x \in ToSet(rs[i][g])
          BY <1>2, <4>1
        <5> HIDE DEF rs
        <5>2. rs[i][g] = <<x>> /\ x[1] = g
          BY <4>1, <5>1, ReferenceWords
        <5> QED
          BY <5>2 DEF rs
      <4>3. cv.refs[i].email = <<x>>
        BY <2>2, <4>2
      <4>4. cv.refs[i].email # <<>>
        BY <4>3
      <4> QED
        BY <4>4 DEF Agrees, RefMailed
    <3> QED
      BY <3>2, <3>3, <3>4
  <2>3. Leads("email", w, Dumped(cv))
    BY <1>4, <2>1, <2>2, LeadsAlone
  <2>4. Headed(RowRedactor.emails, w)
    BY <1>3, <1>4, <1>6, <2>3, LeadsListed
  <2> QED
    BY <1>5, <2>4, HeadedPlace
<1>7. ASSUME w[1] = "phone" PROVE Place(RowRedactor.phones, w) = 1
  <2> DEFINE n == cv.name
             e == cv.email
             p == cv.phone
             a == n \o e
             b == a \o p
             l == cv.location
             k == cv.linkedin
             s == cv.summary
             r == RefText(cv.refs)
             z == cv.dob
  <2>1. /\ n \in Text /\ e \in Text /\ p \in Text /\ l \in Text /\ k \in Text /\ s \in Text
        /\ z \in Text
    BY <1>1 DEF Doc
  <2>2. r \in Text
    BY <1>1, RefTextWords DEF Doc
  <2>3. Dumped(cv) = b \o l \o k \o s \o r \o z
    BY DEF Dumped
  <2>4. <<w>> = vault["phone"]
    BY <1>3, <1>7 DEF Personal
  <2>5. p = <<w>>
    BY <2>4 DEF Agrees
  <2>6. \A h \in {"name", "email", "phone"} : \A x \in ToSet(cv[h]) : x[1] = "phone" => x = w
    <3> SUFFICES ASSUME NEW h \in Scalars, NEW x \in ToSet(cv[h]), x[1] = "phone"
                 PROVE  x = w
      BY DEF Scalars, NoCv
    <3>1. <<x>> = vault["phone"]
      BY <1>1, AgreedWords DEF Personal
    <3> QED
      BY <2>4, <3>1
  <2>7. \A x : (x \in ToSet(n) \/ x \in ToSet(e) \/ x \in ToSet(p)) /\ x[1] = "phone" => x = w
    <3>1. /\ \A x \in ToSet(cv["name"]) : x[1] = "phone" => x = w
          /\ \A x \in ToSet(cv["email"]) : x[1] = "phone" => x = w
          /\ \A x \in ToSet(cv["phone"]) : x[1] = "phone" => x = w
      BY <2>6
    <3> QED
      BY <3>1
  <2>8. w \in ToSet(p)
    BY <2>5 DEF ToSet
  <2> HIDE DEF n, e, p, l, k, s, r, z
  <2>9. a \in Text /\ ToSet(a) = ToSet(n) \cup ToSet(e)
    BY <2>1, JoinWords DEF Text
  <2> HIDE DEF a
  <2>10. b \in Text /\ ToSet(b) = ToSet(a) \cup ToSet(p)
    BY <2>1, <2>9, JoinWords DEF Text
  <2> HIDE DEF b
  <2>11. Leads("phone", w, b)
    BY <2>7, <2>8, <2>9, <2>10, LeadsAlone
  <2> DEFINE b1 == b \o l
             b2 == b1 \o k
             b3 == b2 \o s
             b4 == b3 \o r
  <2>12. b1 \in Text /\ Leads("phone", w, b1)
    BY <1>3, <2>1, <2>10, <2>11, LeadsOn, JoinWords DEF Text
  <2>13. Dumped(cv) = b4 \o z
    BY <2>3
  <2> HIDE DEF b1
  <2>14. b2 \in Text /\ Leads("phone", w, b2)
    BY <1>3, <2>1, <2>12, LeadsOn, JoinWords DEF Text
  <2> HIDE DEF b2
  <2>15. b3 \in Text /\ Leads("phone", w, b3)
    BY <1>3, <2>1, <2>14, LeadsOn, JoinWords DEF Text
  <2> HIDE DEF b3
  <2>16. b4 \in Text /\ Leads("phone", w, b4)
    BY <1>3, <2>2, <2>15, LeadsOn, JoinWords DEF Text
  <2> HIDE DEF b4
  <2>17. Leads("phone", w, Dumped(cv))
    BY <1>3, <2>1, <2>13, <2>16, LeadsOn
  <2>18. Headed(RowRedactor.phones, w)
    BY <1>3, <1>4, <1>7, <2>17, LeadsListed
  <2> QED
    BY <1>5, <2>18, HeadedPlace
<1> QED
  BY <1>6, <1>7

LEMMA SavedWordBack ==
  ASSUME BaseInv, Agrees, stage # "uploaded", NEW f \in Scalars, NEW w \in ToSet(cv[f])
  PROVE  RestoreWord(VaultRedactor, RedactWord(RowRedactor, w)) = <<w>>
<1> DEFINE q == RowRedactor
           p == VaultRedactor
           v == RedactWord(q, w)
<1>1. cv \in Doc /\ TypeOK /\ vault.held
  BY DEF BaseInv, TypeOK, Agrees
<1>2. /\ w \in Word /\ ~IsToken(w) /\ w[1] \notin {"date", "variant", "handle"}
      /\ w[1] \in Personal => <<w>> = vault[w[1]]
      /\ RefNamed(cv, w) # {} => vault.refs = cv.refs
  BY <1>1, AgreedWords
<1>3. q \in Redactors /\ q.name = cv.name /\ q.refs = cv.refs
  BY <1>1, RowRedactorTyped
<1>4. /\ p.emails = vault.email /\ p.phones = vault.phone /\ p.name = vault.name
      /\ p.linkedin = vault.linkedin /\ p.refs = vault.refs
  BY <1>1, VaultRedactorTyped
<1>5. vault.name = cv.name
  BY DEF Agrees
<1>6. /\ w[1] = "email" => Place(q.emails, w) = 1
      /\ w[1] = "phone" => Place(q.phones, w) = 1
  BY FirstNumbers
<1>7. w[1] \in ValueKinds /\ w = <<w[1], w[2]>>
  BY <1>2 DEF Word, IsToken
<1>8. ~RefMailed(q) /\ RefNamed(q, w) = RefNamed(cv, w)
  BY <1>3 DEF Agrees, RefMailed, RefNamed
<1>17. Canonical(w) = w
  BY <1>2, <1>7, CanonicalForms DEF NameKinds
<1>9. 1 \in DOMAIN <<w>> /\ <<w>>[1] = w /\ <<w>> # <<>>
  OBVIOUS
<1> HIDE DEF q, p
<1>10. CASE w[1] = "email"
  <2>1. v = <<"EMAIL", 1>>
    BY <1>6, <1>8, <1>10 DEF RedactWord, Patterns, MailToken
  <2>2. p.emails = <<w>>
    BY <1>2, <1>4, <1>10 DEF Personal
  <2>3. RestoreWord(p, <<"EMAIL", 1>>) = Listed(p.emails, <<"EMAIL", 1>>)
    BY DEF RestoreWord
  <2>4. Listed(<<w>>, <<"EMAIL", 1>>) = <<w>>
    BY <1>9 DEF Listed
  <2> QED
    BY <2>1, <2>2, <2>3, <2>4 DEF q, p
<1>11. CASE w[1] = "phone"
  <2>1. v = <<"PHONE", 1>>
    BY <1>6, <1>11 DEF RedactWord, Patterns
  <2>2. p.phones = <<w>>
    BY <1>2, <1>4, <1>11 DEF Personal
  <2>3. RestoreWord(p, <<"PHONE", 1>>) = Listed(p.phones, <<"PHONE", 1>>)
    BY DEF RestoreWord
  <2>4. Listed(<<w>>, <<"PHONE", 1>>) = <<w>>
    BY <1>9 DEF Listed
  <2> QED
    BY <2>1, <2>2, <2>3, <2>4 DEF q, p
<1>12. CASE w[1] = "linkedin"
  <2>1. v = <<"LINKEDIN", 0>>
    BY <1>12 DEF RedactWord, Patterns
  <2>2. p.linkedin = <<w>>
    BY <1>2, <1>4, <1>12 DEF Personal
  <2>3. RestoreWord(p, <<"LINKEDIN", 0>>) = Known(p.linkedin, <<"LINKEDIN", 0>>)
    BY DEF RestoreWord
  <2> QED
    BY <1>9, <2>1, <2>2, <2>3 DEF Known, q, p
<1> DEFINE plain == w[1] \notin {"email", "phone", "linkedin"}
<1>13. CASE w[1] = "slug" /\ q.name = <<<<"name", w[2]>>>>
  <2>1. v = <<"SLUG", 0>>
    BY <1>13 DEF RedactWord, Patterns
  <2>2. RestoreWord(p, <<"SLUG", 0>>) = Slug(p.name)
    BY DEF RestoreWord
  <2>3. p.name = <<<<"name", w[2]>>>>
    BY <1>3, <1>4, <1>5, <1>13
  <2>4. Slug(p.name) = <<<<"slug", w[2]>>>>
    BY <2>3 DEF Slug
  <2>5. w = <<"slug", w[2]>>
    BY <1>7, <1>13
  <2> QED
    BY <2>1, <2>2, <2>4, <2>5 DEF q, p
<1>14. CASE plain /\ q.name = <<w>>
  <2>1. w[1] # "EMAIL"
    BY <1>7 DEF ValueKinds
  <2>2. v = <<"NAME", 0>>
    BY <1>2, <1>14, <2>1 DEF RedactWord, Patterns
  <2>3. RestoreWord(p, <<"NAME", 0>>) = p.name
    BY DEF RestoreWord
  <2> QED
    BY <1>3, <1>4, <1>5, <1>14, <2>2, <2>3 DEF q, p
<1>15. CASE w[1] = "name" /\ q.name # <<w>> /\ RefNamed(q, w) # {}
  <2> DEFINE i == FirstNamed(q, w)
  <2>1. i \in DOMAIN q.refs /\ q.refs[i].name = <<w>>
    BY <1>3, <1>15, FirstOfNamed DEF Redactors
  <2>2. v = <<"REF_NAME", i>>
    BY <1>15, <1>17 DEF RedactWord, Patterns
  <2> HIDE DEF i
  <2>3. p.refs = q.refs
    BY <1>2, <1>3, <1>4, <1>8, <1>15
  <2>4. v[1] = "REF_NAME" /\ v[2] = i
    BY <2>2
  <2> HIDE DEF v
  <2>5. RestoreWord(p, v) = OfRef(p, "name", v)
    BY <2>4 DEF RestoreWord
  <2>6. OfRef(p, "name", v) = Known(q.refs[i].name, v)
    BY <2>1, <2>3, <2>4 DEF OfRef
  <2> QED
    BY <1>9, <2>1, <2>5, <2>6 DEF Known, v, q, p
<1>16. CASE /\ plain /\ q.name # <<w>>
            /\ ~(w[1] = "slug" /\ q.name = <<<<"name", w[2]>>>>)
            /\ ~(w[1] = "name" /\ RefNamed(q, w) # {})
  <2>1. w[1] # "EMAIL"
    BY <1>7 DEF ValueKinds
  <2>2. v = w
    BY <1>2, <1>16, <1>17, <2>1 DEF RedactWord, Patterns
  <2>3. RestoreWord(p, w) = <<w>>
    BY <1>7 DEF RestoreWord, ValueKinds
  <2> QED
    BY <2>2, <2>3 DEF q, p
<1> QED
  BY <1>10, <1>11, <1>12, <1>13, <1>14, <1>15, <1>16

LEMMA SavedTextBack ==
  ASSUME BaseInv, Agrees, stage # "uploaded", NEW f \in Scalars, NEW e \in Text,
         e = Redacted(RowRedactor, cv[f])
  PROVE  RestoreText(VaultRedactor, e) = cv[f]
<1> DEFINE t == cv[f]
<1>1. t \in Text
  <2>1. cv \in Doc
    BY DEF BaseInv, TypeOK
  <2> QED
    BY <2>1, TextsOf
<1>2. \A i \in DOMAIN t : t[i] \in ToSet(t)
  BY DEF ToSet
<1>3. DOMAIN e = DOMAIN t /\ \A i \in DOMAIN t : e[i] = RedactWord(RowRedactor, t[i])
  BY DEF Redacted
<1>4. \A i \in DOMAIN t : RestoreWord(VaultRedactor, RedactWord(RowRedactor, t[i])) = <<t[i]>>
  BY <1>2, SavedWordBack
<1> HIDE DEF t
<1>5. \A i \in DOMAIN t : RestoreWord(VaultRedactor, e[i]) = <<t[i]>>
  BY <1>3, <1>4
<1>6. RestoreText(VaultRedactor, e) = t
  BY <1>1, <1>3, <1>5, TextComesBack
<1> QED
  BY <1>6 DEF t

LEMMA SameDoc ==
  ASSUME NEW d \in Doc, NEW e \in Doc, \A f \in Scalars : e[f] = d[f],
         e.refs = [i \in DOMAIN d.refs |-> e.refs[i]],
         \A i \in DOMAIN d.refs, g \in RefFields : e.refs[i][g] = d.refs[i][g]
  PROVE  e = d
<1> DEFINE a == e.refs
           b == d.refs
<1>1. /\ a \in Seq(RefTexts) /\ b \in Seq(RefTexts) /\ a = [i \in DOMAIN b |-> a[i]]
      /\ \A i \in DOMAIN b, g \in RefFields : a[i][g] = b[i][g]
  BY DEF Doc
<1> HIDE DEF a, b
<1>2. DOMAIN a = DOMAIN b
  BY <1>1, Zenon
<1>3. \A i \in DOMAIN b : a[i] = b[i]
  <2> SUFFICES ASSUME NEW i \in DOMAIN b PROVE a[i] = b[i]
    OBVIOUS
  <2>1. a[i] \in RefTexts /\ b[i] \in RefTexts
    BY <1>1, <1>2
  <2>2. a[i]["name"] = b[i]["name"] /\ a[i]["email"] = b[i]["email"] /\ a[i]["phone"] = b[i]["phone"]
    BY <1>1 DEF RefFields
  <2> QED
    BY <2>1, <2>2 DEF RefTexts
<1>4. Len(a) = Len(b)
  BY <1>1, <1>2
<1>5. a = b
  BY <1>1, <1>2, <1>3, <1>4
<1> QED
  BY <1>5 DEF Doc, Scalars, NoCv, a, b

(* A CV without tokens is left alone. *)
LEMMA NothingToRestoreIn ==
  ASSUME NEW q \in Redactors, NEW d \in Doc, \A w \in WordsOf(d) : ~IsToken(w)
  PROVE  Restore(q, d) = d
<1> DEFINE e == Restore(q, d)
<1>1. /\ \A f \in Scalars : RestoreText(q, d[f]) = d[f]
      /\ \A i \in DOMAIN d.refs, g \in RefFields : RestoreText(q, d.refs[i][g]) = d.refs[i][g]
  <2>1. \A f \in Scalars : d[f] \in Text /\ \A w \in ToSet(d[f]) : ~IsToken(w)
    BY DocWords
  <2>2. \A i \in DOMAIN d.refs, g \in RefFields :
           d.refs[i][g] \in Text /\ \A w \in ToSet(d.refs[i][g]) : ~IsToken(w)
    BY DocWords, TextsOf
  <2> QED
    BY <2>1, <2>2, NothingToRestore
<1>2. /\ e \in Doc
      /\ \A f \in Scalars : e[f] = RestoreText(q, d[f])
      /\ e.refs = [i \in DOMAIN d.refs |-> [g \in RefFields |-> RestoreText(q, d.refs[i][g])]]
  BY Walked, RestoreTyped, ZenonT(30)
<1> HIDE DEF e
<1>3. \A f \in Scalars : e[f] = d[f]
  BY <1>1, <1>2
<1>4. e.refs = [i \in DOMAIN d.refs |-> e.refs[i]]
  BY <1>2
<1>5. \A i \in DOMAIN d.refs, g \in RefFields : e.refs[i][g] = d.refs[i][g]
  BY <1>1, <1>2
<1>6. e = d
  BY <1>2, <1>3, <1>4, <1>5, SameDoc
<1> QED
  BY <1>6 DEF e

LEMMA AgreedCv ==
  ASSUME BaseInv, Agrees, stage # "uploaded"
  PROVE  \A w \in WordsOf(cv) : ~IsToken(w)
<1>1. cv \in Doc /\ cv.refs = attempt.refs /\ TypeOK
  BY DEF BaseInv, TypeOK, DraftInv
<1> DEFINE rs == cv.refs
<1>2. rs \in Seq(RefValues)
  BY <1>1, AttemptSmall
<1> SUFFICES ASSUME NEW w \in WordsOf(cv) PROVE ~IsToken(w)
  OBVIOUS
<1>3. \/ \E f \in Scalars : w \in ToSet(cv[f])
      \/ \E i \in DOMAIN rs, g \in RefFields : w \in ToSet(rs[i][g])
  BY <1>1, DocWords
<1> HIDE DEF rs
<1>4. CASE \E f \in Scalars : w \in ToSet(cv[f])
  BY <1>1, <1>4, AgreedWords
<1>5. CASE \E i \in DOMAIN rs, g \in RefFields : w \in ToSet(rs[i][g])
  <2>1. w[1] \in RefFields
    BY <1>2, <1>5, ReferenceWords
  <2> QED
    BY <2>1 DEF RefFields, IsToken, TokenKinds
<1> QED
  BY <1>3, <1>4, <1>5

LEMMA RedactedRowComesBack ==
  ASSUME BaseInv, RowInv, Agrees, stage \in {"saved", "shown"}, ~Breaks(cv)
  PROVE  RestoreRow = cv
<1> DEFINE e == RedactJson(FromCv(NoLocation(cv)), cv)
           d == Restore(VaultRedactor, e)
           p == VaultRedactor
<1>1. cv \in Doc /\ TypeOK /\ vault.held
  BY DEF BaseInv, TypeOK, Agrees
<1>2. row.json = e /\ row.refs = cv.refs
  BY DEF RowInv
<1>3. FromCv(NoLocation(cv)) \in Redactors
  BY <1>1, NoLocationTyped
<1>4. /\ e \in Doc
      /\ \A f \in Scalars : e[f] = Redacted(RowRedactor, cv[f])
      /\ e.refs = [i \in DOMAIN cv.refs |->
                     [g \in RefFields |-> Redacted(RowRedactor, cv.refs[i][g])]]
  BY <1>1, <1>3, RedactJsonTyped DEF RowRedactor
<1>5. p \in Redactors
  BY <1>1, VaultRedactorTyped
<1>6. RestoreRow = IF row.refs = <<>> THEN d ELSE [d EXCEPT !.refs = row.refs]
  BY <1>1, <1>2, RestoreRowTyped
<1> HIDE DEF e
<1>7. /\ d \in Doc
      /\ \A f \in Scalars : d[f] = RestoreText(p, e[f])
      /\ d.refs = [i \in DOMAIN e.refs |-> [g \in RefFields |-> RestoreText(p, e.refs[i][g])]]
  BY <1>4, <1>5, Walked, RestoreTyped, ZenonT(30)
<1> HIDE DEF d
<1>8. \A f \in Scalars : e[f] \in Text
  BY <1>4, TextsOf
<1>9. \A f \in Scalars : d[f] = cv[f]
  BY <1>4, <1>7, <1>8, SavedTextBack DEF p
<1>10. cv.refs = <<>> => d.refs = <<>>
  <2> SUFFICES ASSUME cv.refs = <<>> PROVE d.refs = <<>>
    OBVIOUS
  <2>1. DOMAIN cv.refs = {}
    OBVIOUS
  <2>2. DOMAIN e.refs = {}
    BY <1>4, <2>1
  <2>3. DOMAIN d.refs = {}
    BY <1>7, <2>2
  <2> DEFINE s == d.refs
  <2>4. s \in Seq(RefTexts) /\ DOMAIN s = {}
    BY <1>7, <2>3 DEF Doc
  <2> HIDE DEF s
  <2>5. Len(s) = 0
    BY <2>4
  <2>6. s = <<>>
    BY <2>4, <2>5
  <2> QED
    BY <2>6 DEF s
<1>11. RestoreRow.refs = cv.refs /\ \A f \in Scalars : RestoreRow[f] = cv[f]
  BY <1>2, <1>6, <1>7, <1>9, <1>10 DEF Doc, Scalars, NoCv
<1>12. RestoreRow \in Doc
  BY <1>1, RestoreRowTyped
<1> QED
  BY <1>1, <1>11, <1>12 DEF Doc, Scalars, NoCv

LEMMA RowComesBack ==
  ASSUME BaseInv, RowInv, Agrees, stage \in {"saved", "shown"}
  PROVE  RestoreRow = cv
<1>1. CASE ~Breaks(cv)
  BY <1>1, RedactedRowComesBack
<1>2. CASE Breaks(cv)
  <2>1. cv \in Doc /\ TypeOK /\ vault.held /\ \A w \in WordsOf(cv) : ~IsToken(w)
    BY AgreedCv DEF BaseInv, TypeOK, Agrees
  <2>2. row.json = cv /\ row.refs = cv.refs
    BY <1>2 DEF RowInv, RedactJson
  <2>3. Restore(VaultRedactor, row.json) = cv
    BY <2>1, <2>2, VaultRedactorTyped, NothingToRestoreIn
  <2>4. [cv EXCEPT !.refs = cv.refs] = cv
    BY <2>1 DEF Doc
  <2> QED
    BY <2>1, <2>2, <2>3, <2>4, RestoreRowTyped
<1> QED
  BY <1>1, <1>2

-----------------------------------------------------------------------------
(* The pages.                                                              *)

LEMMA NothingToFill ==
  ASSUME NEW kinds, NEW text \in Text, \A w \in ToSet(text) : ~IsToken(w)
  PROVE  Filled(kinds, text) = text /\ Stripped(text) = text
<1> DEFINE fs == [i \in DOMAIN text |->
                    IF text[i][1] \in kinds THEN FillWord(text[i]) ELSE <<text[i]>>]
           ss == [i \in DOMAIN text |->
                    IF text[i][1] \in {"LINKEDIN", "SLUG"} THEN <<>> ELSE <<text[i]>>]
           ones == [i \in DOMAIN text |-> <<text[i]>>]
<1>1. text \in Seq(Word)
  BY DEF Text
<1>2. \A i \in DOMAIN text : text[i] \in Word /\ text[i][1] \notin TokenKinds
  <2>1. \A i \in DOMAIN text : ~IsToken(text[i])
    BY DEF ToSet
  <2> QED
    BY <1>1, <2>1 DEF IsToken
<1>3. \A i \in DOMAIN text : FillWord(text[i]) = <<text[i]>>
  BY <1>2 DEF FillWord, TokenKinds
<1>4. fs = ones
  BY <1>3
<1>5. ss = ones
  BY <1>2 DEF TokenKinds
<1>6. Filled(kinds, text) = FlattenSeq(fs) /\ Stripped(text) = FlattenSeq(ss)
  BY DEF Filled, Stripped, Each
<1> HIDE DEF fs, ss
<1>7. FlattenSeq(ones) = text
  BY <1>1, FlattenSingletons
<1> HIDE DEF ones
<1> QED
  BY <1>4, <1>5, <1>6, <1>7

LEMMA PagesLeave ==
  ASSUME TypeOK, NEW d \in Doc, \A w \in WordsOf(d) : ~IsToken(w), NEW kinds
  PROVE  FilledCv(kinds, d) = d /\ StrippedCv(d) = d
<1> DEFINE e == FilledCv(kinds, d)
           s == StrippedCv(d)
<1>1. /\ \A f \in Scalars : Filled(kinds, d[f]) = d[f] /\ Stripped(d[f]) = d[f]
      /\ \A i \in DOMAIN d.refs, g \in RefFields :
           Filled(kinds, d.refs[i][g]) = d.refs[i][g] /\ Stripped(d.refs[i][g]) = d.refs[i][g]
  <2>1. \A f \in Scalars : d[f] \in Text /\ \A w \in ToSet(d[f]) : ~IsToken(w)
    BY DocWords
  <2>2. \A i \in DOMAIN d.refs, g \in RefFields :
           d.refs[i][g] \in Text /\ \A w \in ToSet(d.refs[i][g]) : ~IsToken(w)
    BY DocWords, TextsOf
  <2> QED
    BY <2>1, <2>2, NothingToFill
<1>2. /\ e \in Doc
      /\ \A f \in Scalars : e[f] = Filled(kinds, d[f])
      /\ e.refs = [i \in DOMAIN d.refs |-> [g \in RefFields |-> Filled(kinds, d.refs[i][g])]]
  BY FilledCvTyped
<1>3. /\ s \in Doc
      /\ \A f \in Scalars : s[f] = Stripped(d[f])
      /\ s.refs = [i \in DOMAIN d.refs |-> [g \in RefFields |-> Stripped(d.refs[i][g])]]
  BY StrippedCvTyped
<1> HIDE DEF e, s
<1>4. e = d
  <2>1. \A f \in Scalars : e[f] = d[f]
    BY <1>1, <1>2
  <2>2. e.refs = [i \in DOMAIN d.refs |-> e.refs[i]]
    BY <1>2
  <2>3. \A i \in DOMAIN d.refs, g \in RefFields : e.refs[i][g] = d.refs[i][g]
    BY <1>1, <1>2
  <2> QED
    BY <1>2, <2>1, <2>2, <2>3, SameDoc
<1>5. s = d
  <2>1. \A f \in Scalars : s[f] = d[f]
    BY <1>1, <1>3
  <2>2. s.refs = [i \in DOMAIN d.refs |-> s.refs[i]]
    BY <1>3
  <2>3. \A i \in DOMAIN d.refs, g \in RefFields : s.refs[i][g] = d.refs[i][g]
    BY <1>1, <1>3
  <2> QED
    BY <1>3, <2>1, <2>2, <2>3, SameDoc
<1> QED
  BY <1>4, <1>5 DEF e, s

LEMMA PagesShowTheCv ==
  ASSUME BaseInv, RowInv, Agrees, stage \in {"saved", "shown"}
  PROVE  Resolved(RestoreRow) = cv /\ Reopened(RestoreRow) = cv
<1>1. RestoreRow = cv /\ TypeOK /\ cv \in Doc /\ vault.held
  BY RowComesBack DEF BaseInv, TypeOK, Agrees
<1>2. \A w \in WordsOf(cv) : ~IsToken(w)
  BY AgreedCv
<1>3. /\ FilledCv(VaultTokens, cv) = cv /\ StrippedCv(cv) = cv
      /\ FilledCv(VaultTokens \cup {"LOCATION"}, cv) = cv
  BY <1>1, <1>2, PagesLeave
<1>4. Resolved(cv) = cv
  <2>1. Resolved(cv) = StrippedCv(FilledCv(VaultTokens, cv))
    BY <1>1 DEF Resolved, StrippedCv, FilledCv
  <2> QED
    BY <1>3, <2>1
<1>5. Reopened(cv) = cv
  <2> DEFINE e == FilledCv(VaultTokens \cup {"LOCATION"}, cv)
  <2>1. Reopened(cv) = [f \in DOMAIN cv |->
                          IF /\ f \in {"name", "email", "phone", "location", "linkedin"}
                             /\ e[f] = <<>>
                          THEN vault[f] ELSE e[f]]
    BY <1>1 DEF Reopened, FilledCv
  <2>2. e = cv
    BY <1>3
  <2> HIDE DEF e
  <2>3. \A f \in {"name", "email", "phone", "location", "linkedin"} : vault[f] = cv[f]
    BY DEF Agrees
  <2>4. Reopened(cv) = [f \in DOMAIN cv |-> cv[f]]
    BY <2>1, <2>2, <2>3
  <2> QED
    BY <1>1, <2>4 DEF Doc
<1> QED
  BY <1>1, <1>4, <1>5

(* What is on the last page and in the last file came from the row with    *)
(* this vault; the letter was written for the name of the attempt.         *)
PageInv ==
  /\ stage = "shown" => shown \in {Resolved(RestoreRow), Reopened(RestoreRow)}
  /\ stage \in {"uploaded", "drafted", "generated"} => file = NoFile
  /\ file.cv \in {NoCv, Resolved(RestoreRow)}
  /\ file.letter \in {<<>>, letter}
  /\ attempt.named /\ letter # <<>> => letter[1] = Own("name")

LEMMA PagesStay ==
  ASSUME UNCHANGED <<vault, row>>
  PROVE  Resolved(RestoreRow)' = Resolved(RestoreRow) /\ Reopened(RestoreRow)' = Reopened(RestoreRow)
<1>1. RestoreRow' = RestoreRow
  BY DEF RestoreRow, Restore, Walk, RestoreText, Each, RestoreWord, FromVault, Listed, Known,
         OfRef, Slug
<1>2. \A text, kinds : Filled(kinds, text)' = Filled(kinds, text)
  BY DEF Filled, Each, FillWord, Known, Slug
<1> QED
  BY <1>1, <1>2, ZenonT(30) DEF Resolved, Reopened, Walk

LEMMA PageStep == BaseInv /\ PageInv /\ [Next]_vars => PageInv'
<1> SUFFICES ASSUME BaseInv, PageInv, [Next]_vars PROVE PageInv'
  OBVIOUS
<1>1. TypeOK /\ DraftInv /\ cv \in Doc /\ NoFile.cv = NoCv /\ NoFile.letter = <<>>
  BY DEF BaseInv, TypeOK, NoFile
<1>2. CASE \E mode \in {"echo", "omit", "bracket"} : Generate(mode)
  <2>1. /\ UNCHANGED <<attempt, vault, row, letter, file>>
        /\ stage = "uploaded" /\ stage' = "drafted" /\ file = NoFile
    BY <1>2 DEF Generate, PageInv
  <2> QED
    BY <1>1, <2>1 DEF PageInv
<1>3. ASSUME NEW answered \in BOOLEAN, Finish(answered)
      PROVE  PageInv'
  <2>1. /\ UNCHANGED <<attempt, vault, row, file>>
        /\ stage = "drafted" /\ stage' = "generated" /\ file = NoFile
        /\ letter' \in {<<>>, Letter(cv).text}
    BY <1>3 DEF Finish, PageInv
  <2>2. attempt.named => cv.name = FullName
    BY <1>1, <2>1 DEF DraftInv
  <2>3. attempt.named => Letter(cv).text # <<>> /\ Letter(cv).text[1] = Own("name")
    BY <1>1, <2>2, LetterTyped
  <2>4. attempt.named' /\ letter' # <<>> => letter'[1] = Own("name")
    BY <2>1, <2>3
  <2>5. Own("name")' = Own("name")
    BY DEF Own
  <2> QED
    BY <1>1, <2>1, <2>4 DEF PageInv
<1>4. CASE \E keep \in BOOLEAN, note \in Notes : Refine(keep, note)
  <2>1. /\ UNCHANGED <<attempt, vault, row, letter, file>>
        /\ stage = "generated" /\ stage' = "generated"
    BY <1>4 DEF Refine
  <2> QED
    BY <1>1, <2>1 DEF PageInv
<1>5. CASE Save
  <2>1. /\ UNCHANGED <<attempt, vault, file>> /\ file = NoFile
        /\ stage = "generated" /\ stage' = "saved" /\ letter' \in {letter, <<>>}
    BY <1>5 DEF Save, PageInv
  <2> QED
    BY <1>1, <2>1 DEF PageInv
<1>6. CASE ChangeVault
  <2>1. /\ UNCHANGED <<attempt, letter>> /\ file' = NoFile /\ stage = "saved" /\ stage' = stage
    BY <1>6 DEF ChangeVault
  <2> QED
    BY <1>1, <2>1 DEF PageInv
<1>7. CASE Show
  <2>1. /\ UNCHANGED <<attempt, vault, row, letter, file>>
        /\ stage' = "shown" /\ shown' \in {Resolved(RestoreRow), Reopened(RestoreRow)}
    BY <1>7 DEF Show
  <2>2. Resolved(RestoreRow)' = Resolved(RestoreRow) /\ Reopened(RestoreRow)' = Reopened(RestoreRow)
    BY <2>1, PagesStay
  <2> QED
    BY <2>1, <2>2 DEF PageInv
<1>8. CASE DownloadSaved \/ DownloadLetter \/ DownloadAll
  <2>1. PICK d \in {NoCv, Resolved(RestoreRow)}, text \in {<<>>, letter} :
               d \in Doc /\ text \in Text /\ Give(d, text)
    BY <1>1, <1>8, Downloads
  <2>2. /\ UNCHANGED <<attempt, vault, row, letter, shown, stage>>
        /\ stage \in {"saved", "shown"}
        /\ file'.cv = d /\ file'.letter = text
    BY <2>1 DEF Give
  <2>3. Resolved(RestoreRow)' = Resolved(RestoreRow) /\ Reopened(RestoreRow)' = Reopened(RestoreRow)
    BY <2>2, PagesStay
  <2> QED
    BY <2>1, <2>2, <2>3 DEF PageInv
<1>9. CASE UNCHANGED vars
  <2>1. UNCHANGED <<attempt, vault, row, letter, shown, stage, file>>
    BY <1>9 DEF vars
  <2>2. Resolved(RestoreRow)' = Resolved(RestoreRow) /\ Reopened(RestoreRow)' = Reopened(RestoreRow)
    BY <2>1, PagesStay
  <2> QED
    BY <2>1, <2>2 DEF PageInv
<1> QED
  BY <1>2, <1>3, <1>4, <1>5, <1>6, <1>7, <1>8, <1>9 DEF Next

LEMMA PageHolds == Spec => []PageInv
<1>1. Init => PageInv
  BY DEF Init, PageInv, NoFile
<1> QED
  BY <1>1, PageStep, BaseHolds, PTL DEF Spec

LEMMA LetterNamesTheCandidate ==
  ASSUME BaseInv, PageInv, Agrees, stage # "uploaded", file.letter # <<>>
  PROVE  IsPrefix(cv.name, file.letter)
<1> DEFINE t == file.letter
<1>1. t = letter /\ t # <<>> /\ letter \in Seq(Word) /\ (attempt.named => letter[1] = Own("name"))
  BY DEF PageInv, BaseInv, TypeOK, Text
<1>2. cv.name = FullName
  BY DEF Agrees
<1> HIDE DEF t
<1>3. t \in Seq(Word) /\ Len(t) >= 1
  BY <1>1
<1>4. CASE attempt.named
  <2>1. cv.name = <<t[1]>>
    BY <1>1, <1>2, <1>4 DEF FullName
  <2>2. IsPrefix(<<t[1]>>, t)
    BY <1>3 DEF IsPrefix
  <2> QED
    BY <2>1, <2>2 DEF t
<1>5. CASE ~attempt.named
  <2>1. cv.name = <<>>
    BY <1>2, <1>5 DEF FullName
  <2>2. IsPrefix(<<>>, t)
    BY <1>3 DEF IsPrefix
  <2> QED
    BY <2>1, <2>2 DEF t
<1> QED
  BY <1>4, <1>5

(* For every CV that was saved, and however often the vault has changed    *)
(* since: while the vault agrees with it, every page and download shows    *)
(* the very CV that was saved, and the letter beside it names its          *)
(* candidate (redact, restore_cv_pii with the tokens numbered anew, then   *)
(* _resolve_cv_with_pii or restore_pii_tokens, and the downloads of My     *)
(* CVs).                                                                   *)
THEOREM SavedCvsAreShownAsSaved == Spec => []ShownAsSaved
<1>1. BaseInv /\ RowInv /\ PageInv => ShownAsSaved
  <2> SUFFICES ASSUME BaseInv, RowInv, PageInv, Agrees
               PROVE  /\ stage = "shown" => shown = cv
                      /\ file.cv \in {NoCv, cv}
                      /\ file.letter # <<>> => IsPrefix(cv.name, file.letter)
    BY DEF ShownAsSaved
  <2>1. CASE stage \in {"saved", "shown"}
    <3>1. Resolved(RestoreRow) = cv /\ Reopened(RestoreRow) = cv
      BY <2>1, PagesShowTheCv
    <3>2. stage = "shown" => shown = cv
      BY <3>1 DEF PageInv
    <3>5. file.cv \in {NoCv, cv}
      BY <3>1 DEF PageInv
    <3>6. file.letter # <<>> => IsPrefix(cv.name, file.letter)
      BY <2>1, LetterNamesTheCandidate
    <3> QED
      BY <3>2, <3>5, <3>6
  <2>2. CASE stage \notin {"saved", "shown"}
    <3>1. stage \in {"uploaded", "drafted", "generated"}
      BY <2>2 DEF BaseInv, TypeOK
    <3>2. file = NoFile
      BY <3>1 DEF PageInv
    <3> QED
      BY <3>1, <3>2 DEF NoFile
  <2> QED
    BY <2>1, <2>2
<1> QED
  BY <1>1, BaseHolds, RowHolds, PageHolds, PTL
=============================================================================
