-------------------------- MODULE ChannelFormat_proofs --------------------------
(***************************************************************************)
(* Proofs about ChannelGrammar and ChannelFormat, for any ids, bodies and  *)
(* edits by hand.  They go from lines to blocks to files: what Min and Max *)
(* of a set of lines are; where blocks start and end when texts are joined;*)
(* whose markers and fences a text holds; that a message rendered is read  *)
(* back as it was; that what is read out of a block can be rendered in its *)
(* place without starting a block or marking an id there; what a file is   *)
(* after each write and each edit by hand; how a history grows, line by    *)
(* line, and that every close fence in it stands behind its own open one.  *)
(*                                                                         *)
(* `Cat` stands for \o where a proof only needs that it is associative.    *)
(***************************************************************************)
EXTENDS ChannelFormat, SequenceTheorems, WellFoundedInduction, TLAPS

--------------------------------------------------------------------------------
(* Least and greatest. *)

LEMMA LeastOf ==
  ASSUME NEW S \in SUBSET Nat, S # {}
  PROVE  /\ Min(S) \in S
         /\ \A x \in S : Min(S) =< x
<1>1. PICK m \in S : \A y \in S : <<y, m>> \notin OpToRel(<, Nat)
  BY NatLessThanWellFounded, WFMin
<1>2. \A y \in S : ~ (y < m)
  BY <1>1 DEF OpToRel
<1>3. \A y \in S : m =< y
  BY <1>2
<1>4. QED
  BY <1>3 DEF Min

LEMMA LeastIs ==
  ASSUME NEW S \in SUBSET Nat, NEW m \in S, \A x \in S : m =< x
  PROVE  Min(S) = m
<1>1. Min(S) \in S /\ Min(S) =< m
  BY LeastOf
<1>2. m =< Min(S) /\ Min(S) \in Nat /\ m \in Nat
  BY <1>1
<1>3. QED
  BY <1>1, <1>2

\* The greatest is the least bound.
LEMMA GreatestOf ==
  ASSUME NEW S \in SUBSET Nat, S # {}, NEW n \in Nat, \A x \in S : x =< n
  PROVE  /\ Max(S) \in S
         /\ \A x \in S : x =< Max(S)
<1> DEFINE Bounds == {k \in Nat : \A x \in S : x =< k}
<1>1. PICK m \in Bounds : \A k \in Bounds : m =< k
  BY LeastOf
<1>2. m \in S
  <2>1. SUFFICES ASSUME m \notin S PROVE FALSE
    OBVIOUS
  <2>2. PICK x \in S : TRUE
    OBVIOUS
  <2>3. m > 0
    BY <2>1, <2>2
  <2>4. m - 1 \in Bounds
    BY <2>1, <2>3
  <2>5. QED
    BY <1>1, <2>4
<1>3. QED
  BY <1>1, <1>2 DEF Max

LEMMA GreatestIs ==
  ASSUME NEW S \in SUBSET Nat, NEW m \in S, \A x \in S : x =< m
  PROVE  Max(S) = m
<1>1. m \in Nat
  OBVIOUS
<1>2. Max(S) \in S /\ m =< Max(S)
  BY <1>1, GreatestOf
<1>3. Max(S) =< m /\ Max(S) \in Nat
  BY <1>2
<1>4. QED
  BY <1>1, <1>2, <1>3

--------------------------------------------------------------------------------
(* Lines and texts. *)

LEMMA LineIs ==
  ASSUME NEW id \in Nat, NEW kind \in LineKind
  PROVE  /\ Of(kind, id) \in Line
         /\ Of(kind, id).kind = kind
         /\ Of(kind, id).id = id
BY DEF Of, Line

\* A stretch of a text is a text.
LEMMA StretchIsText ==
  ASSUME NEW s \in Seq(Line), NEW i \in Nat \ {0}, NEW j \in Nat, j =< Len(s)
  PROVE  /\ SubSeq(s, i, j) \in Seq(Line)
         /\ Len(SubSeq(s, i, j)) = IF i =< j THEN j - i + 1 ELSE 0
         /\ \A k \in 1 .. (j - i + 1) : SubSeq(s, i, j)[k] = s[k + i - 1]
<1>1. \A k \in i .. j : s[k] \in Line
  OBVIOUS
<1>2. QED
  BY <1>1, SubSeqProperties

\* A text is what stands before a line, and what stands from it on.
LEMMA SplitAt ==
  ASSUME NEW s \in Seq(Line), NEW i \in 1 .. (Len(s) + 1)
  PROVE  s = SubSeq(s, 1, i - 1) \o SubSeq(s, i, Len(s))
<1> DEFINE k == i - 1
<1>1. /\ 1 \in 1 .. Len(s) + 1
      /\ k \in 1 - 1 .. Len(s)
      /\ Len(s) \in k .. Len(s)
      /\ k + 1 = i
  OBVIOUS
<1> HIDE DEF k
<1>2. SubSeq(s, 1, k) \o SubSeq(s, k + 1, Len(s)) = SubSeq(s, 1, Len(s))
  BY <1>1, ConcatAdjacentSubSeq
<1>3. QED
  BY <1>1, <1>2, SubSeqFull DEF k
--------------------------------------------------------------------------------
(* Where blocks start. *)

MarkerKind == {"marker", "spoiled marker"}

\* The first line of a text is one too: what comes before it is not blank.
Heads(ls) == {h \in DOMAIN ls : ls[h].kind = "heading" /\ MarkerIdx(ls, h) # {}}

\* The line at k marks the heading at h.
Marks(ls, h, k) ==
  /\ h < k /\ k =< h + 3
  /\ ls[k].kind \in MarkerKind
  /\ \A j \in 1 .. Len(ls) : h < j /\ j < k => ls[j].kind = "blank"

LEMMA MarkerIdxIs ==
  ASSUME NEW ls \in Seq(Line), NEW h \in 1 .. Len(ls)
  PROVE  MarkerIdx(ls, h) = {k \in 1 .. Len(ls) : Marks(ls, h, k)}
<1>1. ASSUME NEW k \in MarkerIdx(ls, h)
      PROVE  k \in 1 .. Len(ls) /\ Marks(ls, h, k)
  <2>1. k \in (h + 1) .. (h + 3) /\ k \in DOMAIN ls /\ ls[k].kind \in MarkerKind
    BY <1>1, Zenon DEF MarkerIdx, Lookahead, MarkerKind
  <2>2. \A j \in (h + 1) .. (k - 1) : ls[j].kind = "blank"
    BY <1>1 DEF MarkerIdx
  <2>3. QED
    BY <2>1, <2>2 DEF Marks
<1>2. ASSUME NEW k \in 1 .. Len(ls), Marks(ls, h, k)
      PROVE  k \in MarkerIdx(ls, h)
  <2>1. k \in (h + 1) .. (h + 3) /\ k \in DOMAIN ls
    BY <1>2 DEF Marks
  <2>2. \A j \in (h + 1) .. (k - 1) : ls[j].kind = "blank"
    BY <1>2 DEF Marks
  <2>3. QED
    BY <1>2, <2>1, <2>2 DEF MarkerIdx, Lookahead, MarkerKind, Marks
<1>3. QED
  BY <1>1, <1>2

\* A heading has one marker at most.
LEMMA OneMarkerIdx ==
  ASSUME NEW ls \in Seq(Line), NEW h \in 1 .. Len(ls), NEW k \in MarkerIdx(ls, h)
  PROVE  MarkerIdx(ls, h) = {k} /\ Min(MarkerIdx(ls, h)) = k /\ k \in 1 .. Len(ls)
<1>1. k \in 1 .. Len(ls) /\ Marks(ls, h, k)
  BY MarkerIdxIs
<1>2. ASSUME NEW l \in MarkerIdx(ls, h)
      PROVE  l = k
  <2>1. l \in 1 .. Len(ls) /\ Marks(ls, h, l)
    BY MarkerIdxIs
  <2>2. ~ (l < k) /\ ~ (k < l)
    BY <1>1, <2>1 DEF MarkerKind, Marks
  <2>3. QED
    BY <1>1, <2>1, <2>2
<1>3. MarkerIdx(ls, h) = {k}
  BY <1>2
<1>4. QED
  BY <1>1, <1>3, LeastIs

\* Between the two no heading finds a marker across.
Cut(s, t) ==
  \/ s = <<>> \/ t = <<>>
  \/ t[1].kind \notin MarkerKind \cup {"blank"}
  \/ s[Len(s)].kind \notin {"blank", "heading"}

LEMMA HeadsOfConcat ==
  ASSUME NEW s \in Seq(Line), NEW t \in Seq(Line), Cut(s, t)
  PROVE  Heads(s \o t) = Heads(s) \cup {Len(s) + i : i \in Heads(t)}
<1> DEFINE u == s \o t
<1>0. /\ u \in Seq(Line) /\ Len(u) = Len(s) + Len(t)
      /\ \A i \in 1 .. Len(s) : u[i] = s[i]
      /\ \A i \in 1 .. Len(t) : u[Len(s) + i] = t[i]
  BY ConcatProperties
<1> HIDE DEF u
<1>1. ASSUME NEW h \in 1 .. Len(s), s[h].kind = "heading", NEW k \in 1 .. Len(u), Marks(u, h, k)
      PROVE  k =< Len(s)
  <2>1. SUFFICES ASSUME k > Len(s) PROVE FALSE
    BY <1>0, <1>1
  <2>2. s # <<>> /\ t # <<>> /\ Len(s) \in Nat /\ Len(t) \in Nat /\ Len(t) > 0
    BY <1>0, <1>1, <2>1
  <2>3. Len(s) + 1 \in 1 .. Len(u) /\ u[Len(s) + 1] = t[1] /\ u[Len(s)] = s[Len(s)]
    BY <1>0, <2>2, SMTT(30)
  <2>4. CASE t[1].kind \notin MarkerKind \cup {"blank"}
    BY <1>1, <2>1, <2>2, <2>3, <2>4 DEF Marks
  <2>5. CASE s[Len(s)].kind \notin {"blank", "heading"}
    <3>1. h # Len(s) /\ h < Len(s)
      BY <1>1, <2>2, <2>5
    <3>2. Len(s) \in 1 .. Len(u)
      BY <2>2, <2>3
    <3>3. QED
      BY <1>1, <2>1, <2>2, <2>3, <2>5, <3>1, <3>2 DEF Marks
  <2>6. QED
    BY <2>2, <2>4, <2>5 DEF Cut
<1>2. ASSUME NEW h \in 1 .. Len(s), NEW k \in 1 .. Len(s)
      PROVE  Marks(u, h, k) <=> Marks(s, h, k)
  BY <1>0 DEF Marks
<1>3. ASSUME NEW i \in 1 .. Len(t), NEW k \in 1 .. Len(t)
      PROVE  Marks(u, Len(s) + i, Len(s) + k) <=> Marks(t, i, k)
  <2>1. u[Len(s) + k] = t[k] /\ Len(s) \in Nat
    BY <1>0
  <2>2. ASSUME \A j \in 1 .. Len(u) : Len(s) + i < j /\ j < Len(s) + k => u[j].kind = "blank",
               NEW j \in 1 .. Len(t), i < j, j < k
        PROVE  t[j].kind = "blank"
    <3>1. Len(s) + j \in 1 .. Len(u) /\ Len(s) + i < Len(s) + j /\ Len(s) + j < Len(s) + k
      BY <1>0, <2>1, <2>2
    <3>2. QED
      BY <1>0, <2>2, <3>1
  <2>3. ASSUME \A j \in 1 .. Len(t) : i < j /\ j < k => t[j].kind = "blank",
               NEW j \in 1 .. Len(u), Len(s) + i < j, j < Len(s) + k
        PROVE  u[j].kind = "blank"
    <3>1. PICK l \in 1 .. Len(t) : j = Len(s) + l
      BY <2>1, <2>3, j - Len(s) \in 1 .. Len(t), j = Len(s) + (j - Len(s))
    <3>2. i < l /\ l < k
      BY <2>1, <2>3, <3>1
    <3>3. QED
      BY <1>0, <2>3, <3>1, <3>2
  <2>4. QED
    BY <2>1, <2>2, <2>3 DEF Marks
<1>4. ASSUME NEW h \in 1 .. Len(s)
      PROVE  h \in Heads(u) <=> h \in Heads(s)
  <2>1. u[h] = s[h] /\ h \in DOMAIN u /\ h \in DOMAIN s
    BY <1>0
  <2>2. ASSUME s[h].kind = "heading"
        PROVE  MarkerIdx(u, h) = MarkerIdx(s, h)
    <3>1. MarkerIdx(u, h) = {k \in 1 .. Len(u) : Marks(u, h, k)}
      BY <1>0, <2>1, MarkerIdxIs
    <3>2. MarkerIdx(s, h) = {k \in 1 .. Len(s) : Marks(s, h, k)}
      BY MarkerIdxIs
    <3>3. \A k \in 1 .. Len(u) : Marks(u, h, k) => k \in 1 .. Len(s)
      BY <1>0, <1>1, <2>2
    <3>4. \A k \in 1 .. Len(s) : k \in 1 .. Len(u)
      BY <1>0
    <3>5. QED
      BY <1>2, <3>1, <3>2, <3>3, <3>4
  <2>3. QED
    BY <2>1, <2>2 DEF Heads
<1>5. ASSUME NEW i \in 1 .. Len(t)
      PROVE  Len(s) + i \in Heads(u) <=> i \in Heads(t)
  <2>1. u[Len(s) + i] = t[i] /\ Len(s) + i \in 1 .. Len(u) /\ Len(s) \in Nat
    BY <1>0
  <2>2. MarkerIdx(u, Len(s) + i) = {k \in 1 .. Len(u) : Marks(u, Len(s) + i, k)}
    BY <1>0, <2>1, MarkerIdxIs
  <2>3. MarkerIdx(t, i) = {k \in 1 .. Len(t) : Marks(t, i, k)}
    BY MarkerIdxIs
  <2>4. ASSUME NEW k \in MarkerIdx(u, Len(s) + i)
        PROVE  MarkerIdx(t, i) # {}
    <3>1. PICK l \in 1 .. Len(t) : k = Len(s) + l
      <4>1. k \in 1 .. Len(u) /\ Len(s) + i < k
        BY <2>2 DEF Marks
      <4>2. k - Len(s) \in 1 .. Len(t) /\ k = Len(s) + (k - Len(s))
        BY <1>0, <2>1, <4>1
      <4>3. QED
        BY <4>2
    <3>2. QED
      BY <1>3, <2>2, <2>3, <3>1
  <2>5. ASSUME NEW l \in MarkerIdx(t, i)
        PROVE  MarkerIdx(u, Len(s) + i) # {}
    <3>1. Len(s) + l \in 1 .. Len(u)
      BY <1>0, <2>3
    <3>2. QED
      BY <1>3, <2>2, <2>3, <3>1
  <2>6. QED
    BY <2>1, <2>4, <2>5, <1>0 DEF Heads
<1>6. ASSUME NEW h \in Heads(u)
      PROVE  h \in Heads(s) \cup {Len(s) + i : i \in Heads(t)}
  <2>1. h \in 1 .. Len(u)
    BY <1>0 DEF Heads
  <2>2. CASE h > Len(s)
    BY <1>0, <1>5, <2>1, <2>2, h - Len(s) \in 1 .. Len(t), h = Len(s) + (h - Len(s))
  <2>3. QED
    BY <1>0, <1>4, <2>1, <2>2
<1>7. Heads(s) \subseteq 1 .. Len(s) /\ Heads(t) \subseteq 1 .. Len(t)
  BY DEF Heads
<1>8. QED
  BY <1>4, <1>5, <1>6, <1>7 DEF u
--------------------------------------------------------------------------------
(* The blocks of a text. *)

Blocks(ls) == {BlockAt(ls, h) : h \in Heads(ls)}

\* The block that starts at h ends before e.
Ends(ls, h, e) ==
  /\ h < e
  /\ e = Len(ls) + 1 \/ e \in Heads(ls)
  /\ \A k \in Heads(ls) : ~ (h < k /\ k < e)

LEMMA HeadsAreLines ==
  ASSUME NEW ls \in Seq(Line)
  PROVE  Heads(ls) \subseteq 1 .. Len(ls) /\ Len(ls) \in Nat
BY DEF Heads

LEMMA BlockEndIs ==
  ASSUME NEW ls \in Seq(Line), NEW h \in 1 .. Len(ls)
  PROVE  /\ BlockEnd(ls, h) \in 1 .. Len(ls) + 1
         /\ Ends(ls, h, BlockEnd(ls, h))
         /\ \A e \in 1 .. Len(ls) + 1 : Ends(ls, h, e) => e = BlockEnd(ls, h)
<1> DEFINE next == {k \in Heads(ls) : k > h} \cup {Len(ls) + 1}
<1>1. next = {k \in BlockStarts(ls) : k > h} \cup {Len(ls) + 1}
  BY HeadsAreLines DEF BlockStarts, Heads
<1>2. next \in SUBSET Nat /\ next # {}
  BY HeadsAreLines
<1>3. BlockEnd(ls, h) = Min(next)
  BY <1>1 DEF BlockEnd
<1>4. Min(next) \in next /\ \A x \in next : Min(next) =< x
  BY <1>2, LeastOf
<1>5. PICK m \in next : m = BlockEnd(ls, h) /\ \A x \in next : m =< x
  BY <1>3, <1>4
<1>6. m \in 1 .. Len(ls) + 1 /\ h < m
  BY <1>5, HeadsAreLines
<1>7. Ends(ls, h, m)
  BY <1>5, <1>6, HeadsAreLines DEF Ends
<1>8. ASSUME NEW e \in 1 .. Len(ls) + 1, Ends(ls, h, e)
      PROVE  e = m
  <2>1. e \in next /\ m =< e
    BY <1>5, <1>8 DEF Ends
  <2>2. ~ (m < e)
    BY <1>5, <1>6, <1>8, HeadsAreLines DEF Ends
  <2>3. QED
    BY <1>6, <2>1, <2>2
<1>9. QED
  BY <1>5, <1>6, <1>7, <1>8

\* A text is what stands before a block, the block, and what follows, which starts
\* with the next block.
LEMMA BlockSplits ==
  ASSUME NEW ls \in Seq(Line), NEW h \in Heads(ls)
  PROVE  LET e == BlockEnd(ls, h)
             p == SubSeq(ls, 1, h - 1)
             b == BlockAt(ls, h)
             r == SubSeq(ls, e, Len(ls))
         IN  /\ p \in Seq(Line) /\ b \in Seq(Line) /\ r \in Seq(Line)
             /\ ls = p \o (b \o r)
             /\ Heads(b) = {1}
             /\ r = <<>> \/ 1 \in Heads(r)
             /\ e > Len(ls) <=> r = <<>>
<1>1. h \in 1 .. Len(ls) /\ Len(ls) \in Nat /\ ls[h].kind = "heading"
  BY HeadsAreLines DEF Heads
<1>2. PICK e \in 1 .. Len(ls) + 1 : e = BlockEnd(ls, h) /\ Ends(ls, h, e)
  BY <1>1, BlockEndIs
<1>3. PICK p : p = SubSeq(ls, 1, h - 1)
  OBVIOUS
<1>4. PICK b : b = SubSeq(ls, h, e - 1)
  OBVIOUS
<1>5. PICK r : r = SubSeq(ls, e, Len(ls))
  OBVIOUS
<1>6. PICK x : x = SubSeq(ls, h, Len(ls))
  OBVIOUS
<1>7. h < e
  BY <1>2 DEF Ends
<1>8. /\ p \in Seq(Line) /\ Len(p) = h - 1
      /\ b \in Seq(Line) /\ Len(b) = e - h /\ b[1] = ls[h]
      /\ r \in Seq(Line) /\ Len(r) = Len(ls) + 1 - e
      /\ e =< Len(ls) => r[1] = ls[e]
      /\ x \in Seq(Line) /\ Len(x) = Len(ls) + 1 - h /\ x[1] = ls[h]
  <2>1. p \in Seq(Line) /\ Len(p) = h - 1
    BY <1>1, <1>3, StretchIsText
  <2>2. b \in Seq(Line) /\ Len(b) = e - h /\ b[1] = ls[h]
    BY <1>1, <1>4, <1>7, StretchIsText
  <2>3. r \in Seq(Line) /\ Len(r) = Len(ls) + 1 - e /\ (e =< Len(ls) => r[1] = ls[e])
    BY <1>1, <1>5, <1>7, StretchIsText
  <2>4. x \in Seq(Line) /\ Len(x) = Len(ls) + 1 - h /\ x[1] = ls[h]
    BY <1>1, <1>6, StretchIsText
  <2>5. QED
    BY <2>1, <2>2, <2>3, <2>4
<1>9. ls = p \o x
  BY <1>1, <1>3, <1>6, h \in 1 .. (Len(ls) + 1), SplitAt
<1>10. x = b \o r
  <2> DEFINE k == e - 1
  <2>1. h \in 1 .. Len(ls) + 1 /\ k \in h - 1 .. Len(ls) /\ Len(ls) \in k .. Len(ls) /\ k + 1 = e
    BY <1>1, <1>7
  <2> HIDE DEF k
  <2>2. SubSeq(ls, h, k) \o SubSeq(ls, k + 1, Len(ls)) = SubSeq(ls, h, Len(ls))
    BY <2>1, ConcatAdjacentSubSeq
  <2>3. QED
    BY <1>4, <1>5, <1>6, <2>1, <2>2 DEF k
<1>11. e =< Len(ls) => e \in Heads(ls) /\ r[1].kind = "heading"
  <2>1. e =< Len(ls) => e \in Heads(ls)
    BY <1>1, <1>2 DEF Ends
  <2>2. QED
    BY <1>8, <2>1 DEF Heads
<1>12. Heads(ls) = Heads(p) \cup {Len(p) + i : i \in Heads(x)}
  BY <1>1, <1>8, <1>9, HeadsOfConcat DEF Cut, MarkerKind
<1>13. Heads(x) = Heads(b) \cup {Len(b) + i : i \in Heads(r)}
  <2>1. e > Len(ls) => r = <<>>
    BY <1>1, <1>8
  <2>2. r = <<>> \/ r[1].kind = "heading"
    BY <1>1, <1>11, <2>1
  <2>3. Cut(b, r)
    BY <2>2 DEF Cut, MarkerKind
  <2>4. QED
    BY <1>8, <1>10, <2>3, HeadsOfConcat
<1>14. 1 \in Heads(x)
  BY <1>1, <1>8, <1>12, HeadsAreLines
<1>15. 1 \in Heads(b)
  BY <1>1, <1>7, <1>8, <1>13, <1>14, HeadsAreLines
<1>16. ASSUME NEW i \in Heads(b)
       PROVE  i = 1
  <2>1. i \in 1 .. Len(b)
    BY <1>8, HeadsAreLines
  <2>2. h - 1 + i \in Heads(ls)
    BY <1>8, <1>12, <1>13
  <2>3. ~ (h < h - 1 + i)
    BY <1>1, <1>2, <1>8, <2>1, <2>2 DEF Ends
  <2>4. QED
    BY <1>1, <2>1, <2>3
<1>17. ASSUME e =< Len(ls)
       PROVE  1 \in Heads(r)
  <2>1. e \in Heads(ls) /\ e \notin Heads(p)
    BY <1>1, <1>7, <1>8, <1>11, <1>17, HeadsAreLines
  <2>2. PICK i \in Heads(x) : e = h - 1 + i
    BY <1>8, <1>12, <2>1
  <2>3. i \in 1 .. Len(x) /\ i = Len(b) + 1
    BY <1>1, <1>8, <2>2, HeadsAreLines
  <2>4. i \notin Heads(b)
    BY <1>8, <2>3, HeadsAreLines
  <2>5. PICK j \in Heads(r) : i = Len(b) + j
    BY <1>13, <2>2, <2>4
  <2>6. j = 1
    BY <1>1, <1>8, <2>3, <2>5, HeadsAreLines
  <2>7. QED
    BY <2>5, <2>6
<1>18. e > Len(ls) <=> r = <<>>
  BY <1>1, <1>8
<1>19. BlockAt(ls, h) = b
  BY <1>2, <1>4 DEF BlockAt
<1>20. Heads(b) = {1} /\ (r = <<>> \/ 1 \in Heads(r))
  <2>1. Heads(b) = {1}
    BY <1>15, <1>16
  <2>2. e > Len(ls) \/ e =< Len(ls)
    BY <1>1
  <2>3. QED
    BY <1>17, <1>18, <2>1, <2>2
<1>21. p \in Seq(Line) /\ b \in Seq(Line) /\ r \in Seq(Line) /\ ls = p \o (b \o r)
  BY <1>8, <1>9, <1>10
<1>22. QED
  BY <1>2, <1>3, <1>5, <1>18, <1>19, <1>20, <1>21

\* A text that is one block.
LEMMA BlocksOfOne ==
  ASSUME NEW ls \in Seq(Line), Heads(ls) = {1}
  PROVE  Blocks(ls) = {ls}
<1>1. 1 \in 1 .. Len(ls) /\ Len(ls) \in Nat
  BY HeadsAreLines
<1>2. Ends(ls, 1, Len(ls) + 1) /\ Len(ls) + 1 \in 1 .. Len(ls) + 1
  BY <1>1 DEF Ends
<1>3. BlockEnd(ls, 1) = Len(ls) + 1
  BY <1>1, <1>2, BlockEndIs
<1>4. BlockAt(ls, 1) = ls
  BY <1>1, <1>3, SubSeqFull DEF BlockAt
<1>5. QED
  BY <1>4 DEF Blocks

LEMMA BlocksOfConcat ==
  ASSUME NEW s \in Seq(Line), NEW t \in Seq(Line), t = <<>> \/ 1 \in Heads(t)
  PROVE  Blocks(s \o t) = Blocks(s) \cup Blocks(t)
<1>1. PICK u : u = s \o t
  OBVIOUS
<1>2. u \in Seq(Line) /\ Len(u) = Len(s) + Len(t) /\ Len(s) \in Nat /\ Len(t) \in Nat
  BY <1>1, ConcatProperties
<1>3. Heads(u) = Heads(s) \cup {Len(s) + i : i \in Heads(t)}
  <2>1. t = <<>> \/ t[1].kind = "heading"
    BY DEF Heads
  <2>2. Cut(s, t)
    BY <2>1 DEF Cut, MarkerKind
  <2>3. QED
    BY <1>1, <2>2, HeadsOfConcat
<1>4. Heads(s) \subseteq 1 .. Len(s) /\ Heads(t) \subseteq 1 .. Len(t)
  BY HeadsAreLines
<1>5. ASSUME NEW h \in Heads(s)
      PROVE  BlockAt(u, h) = BlockAt(s, h)
  <2>1. PICK e \in 1 .. Len(s) + 1 : e = BlockEnd(s, h) /\ Ends(s, h, e)
    BY <1>4, BlockEndIs
  <2>2. e = Len(s) + 1 => e = Len(u) + 1 \/ e \in Heads(u)
    <3>1. CASE t = <<>>
      BY <1>2, <3>1
    <3>2. CASE 1 \in Heads(t)
      BY <1>3, <3>2
    <3>3. QED
      BY <3>1, <3>2
  <2>3. e \in 1 .. Len(u) + 1 /\ h \in 1 .. Len(u) /\ h < e
    BY <1>2, <1>4, <2>1 DEF Ends
  <2>4. \A k \in Heads(u) : ~ (h < k /\ k < e)
    BY <1>2, <1>3, <1>4, <2>1 DEF Ends
  <2>5. Ends(u, h, e)
    BY <1>3, <2>1, <2>2, <2>3, <2>4 DEF Ends
  <2>6. BlockEnd(u, h) = e
    BY <1>2, <2>3, <2>5, BlockEndIs
  <2>7. SubSeq(u, h, e - 1) = SubSeq(s, h, e - 1)
    <3>1. h \in 1 .. Len(s) /\ e - 1 \in 1 .. Len(s)
      BY <1>4, <2>1, <2>3
    <3>2. QED
      BY <1>1, <3>1, SubSeqOfConcat1
  <2>8. QED
    BY <2>1, <2>6, <2>7 DEF BlockAt
<1>6. ASSUME NEW i \in Heads(t)
      PROVE  BlockAt(u, Len(s) + i) = BlockAt(t, i)
  <2>1. PICK e \in 1 .. Len(t) + 1 : e = BlockEnd(t, i) /\ Ends(t, i, e)
    BY <1>4, BlockEndIs
  <2>2. i < e /\ i \in 1 .. Len(t)
    BY <1>4, <2>1 DEF Ends
  <2>3. Len(s) + e \in 1 .. Len(u) + 1 /\ Len(s) + i \in 1 .. Len(u) /\ Len(s) + i < Len(s) + e
    BY <1>2, <2>1, <2>2
  <2>4. Len(s) + e = Len(u) + 1 \/ Len(s) + e \in Heads(u)
    <3>1. e = Len(t) + 1 \/ e \in Heads(t)
      BY <2>1 DEF Ends
    <3>2. QED
      BY <1>2, <1>3, <3>1, SMTT(30)
  <2>5. \A k \in Heads(u) : ~ (Len(s) + i < k /\ k < Len(s) + e)
    <3>1. \A k \in Heads(s) : ~ (Len(s) + i < k)
      BY <1>2, <1>4, <2>2
    <3>2. \A j \in Heads(t) : ~ (Len(s) + i < Len(s) + j /\ Len(s) + j < Len(s) + e)
      BY <1>2, <1>4, <2>1, <2>2 DEF Ends
    <3>3. QED
      BY <1>3, <3>1, <3>2
  <2>6. Ends(u, Len(s) + i, Len(s) + e)
    BY <2>3, <2>4, <2>5 DEF Ends
  <2>7. BlockEnd(u, Len(s) + i) = Len(s) + e
    BY <1>2, <2>3, <2>6, BlockEndIs
  <2>8. SubSeq(u, Len(s) + i, (Len(s) + e) - 1) = SubSeq(t, i, e - 1)
    <3> DEFINE m == Len(s) + i
               n == (Len(s) + e) - 1
    <3>1. /\ m \in Len(s) + 1 .. Len(s) + Len(t) /\ n \in Len(s) + 1 .. Len(s) + Len(t)
          /\ m - Len(s) = i /\ n - Len(s) = e - 1
      BY <1>2, <2>1, <2>2
    <3> HIDE DEF m, n
    <3>2. SubSeq(u, m, n) = SubSeq(t, m - Len(s), n - Len(s))
      BY <1>1, <3>1, SubSeqOfConcat2
    <3>3. QED
      BY <3>1, <3>2 DEF m, n
  <2>9. QED
    BY <2>1, <2>7, <2>8 DEF BlockAt
<1>7. Blocks(u) = Blocks(s) \cup Blocks(t)
  BY <1>3, <1>5, <1>6 DEF Blocks
<1>8. QED
  BY <1>1, <1>7
--------------------------------------------------------------------------------
(* Whose markers and fences a text holds. *)

FenceKind == {"open", "close"}

LEMMA MarkersAre ==
  ASSUME NEW ls \in Seq(Line)
  PROVE  /\ MarkerLines(ls) = {i \in 1 .. Len(ls) : ls[i].kind \in MarkerKind}
         /\ MarkedIds(ls) = {ls[i].id : i \in {j \in 1 .. Len(ls) : ls[j].kind \in MarkerKind}}
         /\ FenceIds(ls) = {ls[i].id : i \in {j \in 1 .. Len(ls) : ls[j].kind \in FenceKind}}
<1>1. DOMAIN ls = 1 .. Len(ls)
  OBVIOUS
<1>2. MarkerLines(ls) = {i \in 1 .. Len(ls) : ls[i].kind \in MarkerKind}
  BY <1>1 DEF MarkerLines, MarkerKind
<1>3. QED
  BY <1>1, <1>2 DEF MarkedIds, FenceIds, FenceKind

LEMMA MarkersOfConcat ==
  ASSUME NEW s \in Seq(Line), NEW t \in Seq(Line)
  PROVE  /\ MarkedIds(s \o t) = MarkedIds(s) \cup MarkedIds(t)
         /\ FenceIds(s \o t) = FenceIds(s) \cup FenceIds(t)
         /\ MarkedOnce(s \o t) <=>
              MarkedOnce(s) /\ MarkedOnce(t) /\ MarkedIds(s) \cap MarkedIds(t) = {}
<1>1. PICK u : u = s \o t
  OBVIOUS
<1>2. /\ u \in Seq(Line) /\ Len(u) = Len(s) + Len(t) /\ Len(s) \in Nat /\ Len(t) \in Nat
      /\ \A i \in 1 .. Len(s) : i \in 1 .. Len(u) /\ u[i] = s[i]
      /\ \A i \in 1 .. Len(t) : Len(s) + i \in 1 .. Len(u) /\ u[Len(s) + i] = t[i]
  BY <1>1, ConcatProperties
<1>3. \A i \in 1 .. Len(u) : i \in 1 .. Len(s) \/ \E j \in 1 .. Len(t) : i = Len(s) + j
  <2>1. ASSUME NEW i \in 1 .. Len(u), i > Len(s)
        PROVE  \E j \in 1 .. Len(t) : i = Len(s) + j
    BY <1>2, <2>1, i - Len(s) \in 1 .. Len(t), i = Len(s) + (i - Len(s))
  <2>2. QED
    BY <1>2, <2>1, SMTT(30)
<1>4. MarkedIds(u) = MarkedIds(s) \cup MarkedIds(t) /\ FenceIds(u) = FenceIds(s) \cup FenceIds(t)
  <2>1. ASSUME NEW Kind
        PROVE  {u[i].id : i \in {j \in 1 .. Len(u) : u[j].kind \in Kind}} =
                 {s[i].id : i \in {j \in 1 .. Len(s) : s[j].kind \in Kind}}
                 \cup {t[i].id : i \in {j \in 1 .. Len(t) : t[j].kind \in Kind}}
    <3>1. ASSUME NEW i \in 1 .. Len(u), u[i].kind \in Kind
          PROVE  \/ \E x \in 1 .. Len(s) : s[x].kind \in Kind /\ u[i].id = s[x].id
                 \/ \E x \in 1 .. Len(t) : t[x].kind \in Kind /\ u[i].id = t[x].id
      BY <1>2, <1>3, <3>1
    <3>2. ASSUME NEW i \in 1 .. Len(s), s[i].kind \in Kind
          PROVE  \E x \in 1 .. Len(u) : u[x].kind \in Kind /\ s[i].id = u[x].id
      BY <1>2, <3>2
    <3>3. ASSUME NEW i \in 1 .. Len(t), t[i].kind \in Kind
          PROVE  \E x \in 1 .. Len(u) : u[x].kind \in Kind /\ t[i].id = u[x].id
      BY <1>2, <3>3
    <3> DEFINE A == {u[i].id : i \in {j \in 1 .. Len(u) : u[j].kind \in Kind}}
               B == {s[i].id : i \in {j \in 1 .. Len(s) : s[j].kind \in Kind}}
               C == {t[i].id : i \in {j \in 1 .. Len(t) : t[j].kind \in Kind}}
    <3>4. A \subseteq B \cup C
      BY <3>1
    <3>5. B \subseteq A
      BY <3>2
    <3>6. C \subseteq A
      BY <3>3
    <3>7. QED
      BY <3>4, <3>5, <3>6
  <2>2. QED
    BY <1>2, <2>1, MarkersAre
<1>5. /\ MarkerLines(u) = {i \in 1 .. Len(u) : u[i].kind \in MarkerKind}
      /\ MarkerLines(s) = {i \in 1 .. Len(s) : s[i].kind \in MarkerKind}
      /\ MarkerLines(t) = {i \in 1 .. Len(t) : t[i].kind \in MarkerKind}
  BY <1>2, MarkersAre
<1>6. ASSUME MarkedOnce(u)
      PROVE  MarkedOnce(s) /\ MarkedOnce(t) /\ MarkedIds(s) \cap MarkedIds(t) = {}
  <2>1. MarkedOnce(s)
    BY <1>2, <1>5, <1>6 DEF MarkedOnce
  <2>2. ASSUME NEW i \in MarkerLines(t), NEW j \in MarkerLines(t), t[i].id = t[j].id
        PROVE  i = j
    <3>1. Len(s) + i \in MarkerLines(u) /\ Len(s) + j \in MarkerLines(u)
      BY <1>2, <1>5
    <3>2. Len(s) + i = Len(s) + j
      BY <1>2, <1>5, <1>6, <2>2, <3>1 DEF MarkedOnce
    <3>3. QED
      BY <1>2, <1>5, <3>2
  <2>3. ASSUME NEW i \in MarkerLines(s), NEW j \in MarkerLines(t), s[i].id = t[j].id
        PROVE  FALSE
    <3>1. i \in MarkerLines(u) /\ Len(s) + j \in MarkerLines(u)
      BY <1>2, <1>5
    <3>2. i = Len(s) + j
      BY <1>2, <1>5, <1>6, <2>3, <3>1 DEF MarkedOnce
    <3>3. QED
      BY <1>2, <1>5, <3>2
  <2>4. QED
    BY <2>1, <2>2, <2>3 DEF MarkedOnce, MarkedIds
<1>7. ASSUME MarkedOnce(s), MarkedOnce(t), MarkedIds(s) \cap MarkedIds(t) = {},
             NEW i \in MarkerLines(u), NEW j \in MarkerLines(u), u[i].id = u[j].id
      PROVE  i = j
  <2>1. i \in 1 .. Len(u) /\ j \in 1 .. Len(u)
    BY <1>5
  <2>2. ASSUME NEW k \in 1 .. Len(s), k \in MarkerLines(u)
        PROVE  k \in MarkerLines(s) /\ s[k] = u[k] /\ u[k].id \in MarkedIds(s)
    BY <1>2, <1>5, <2>2 DEF MarkedIds
  <2>3. ASSUME NEW k \in 1 .. Len(t), Len(s) + k \in MarkerLines(u)
        PROVE  k \in MarkerLines(t) /\ t[k] = u[Len(s) + k] /\ u[Len(s) + k].id \in MarkedIds(t)
    BY <1>2, <1>5, <2>3 DEF MarkedIds
  <2>4. CASE i \in 1 .. Len(s) /\ j \in 1 .. Len(s)
    BY <1>7, <2>2, <2>4 DEF MarkedOnce
  <2>5. ASSUME NEW x \in 1 .. Len(t), NEW y \in 1 .. Len(t), i = Len(s) + x, j = Len(s) + y
        PROVE  i = j
    BY <1>7, <2>3, <2>5 DEF MarkedOnce
  <2>6. ASSUME NEW x \in 1 .. Len(t), i \in 1 .. Len(s), j = Len(s) + x
        PROVE  FALSE
    BY <1>7, <2>2, <2>3, <2>6
  <2>7. ASSUME NEW x \in 1 .. Len(t), j \in 1 .. Len(s), i = Len(s) + x
        PROVE  FALSE
    BY <1>7, <2>2, <2>3, <2>7
  <2>8. QED
    BY <1>3, <2>1, <2>4, <2>5, <2>6, <2>7
<1>8. MarkedOnce(u) <=> MarkedOnce(s) /\ MarkedOnce(t) /\ MarkedIds(s) \cap MarkedIds(t) = {}
  BY <1>6, <1>7 DEF MarkedOnce
<1>9. QED
  BY <1>1, <1>4, <1>8

--------------------------------------------------------------------------------
(* What is cut out of a block below its line k. *)

Within(t, b, k) ==
  \/ t = <<>> \/ t = <<Blank>>
  \/ \E i \in (k + 1) .. Len(b) : \E j \in i .. Len(b) : t = SubSeq(b, i, j)

LEMMA BlankIs ==
  /\ Blank \in Line /\ <<Blank>> \in Seq(Line) /\ Len(<<Blank>>) = 1
  /\ Blank.kind = "blank"
<1>1. 0 \in Nat /\ "blank" \in LineKind
  BY DEF LineKind
<1>2. Blank \in Line /\ Blank.kind = "blank"
  BY <1>1, LineIs DEF Blank, Plain
<1>3. QED
  BY <1>2

LEMMA WithinIs ==
  ASSUME NEW b \in Seq(Line), NEW k \in Nat, NEW t, Within(t, b, k)
  PROVE  /\ t \in Seq(Line)
         /\ \A x \in 1 .. Len(t) : \/ t[x] = Blank
                                   \/ \E y \in (k + 1) .. Len(b) : t[x] = b[y]
<1>1. CASE t = <<>>
  BY <1>1
<1>2. CASE t = <<Blank>>
  BY <1>2, BlankIs
<1>3. ASSUME NEW i \in (k + 1) .. Len(b), NEW j \in i .. Len(b), t = SubSeq(b, i, j)
      PROVE  /\ t \in Seq(Line)
             /\ \A x \in 1 .. Len(t) : \E y \in (k + 1) .. Len(b) : t[x] = b[y]
  <2>1. /\ t \in Seq(Line) /\ Len(t) = j - i + 1
        /\ \A x \in 1 .. (j - i + 1) : t[x] = b[x + i - 1]
    BY <1>3, StretchIsText
  <2>2. ASSUME NEW x \in 1 .. Len(t)
        PROVE  \E y \in (k + 1) .. Len(b) : t[x] = b[y]
    BY <1>3, <2>1, x + i - 1 \in (k + 1) .. Len(b)
  <2>3. QED
    BY <2>1, <2>2
<1>4. QED
  BY <1>1, <1>2, <1>3 DEF Within

LEMMA WithinStretch ==
  ASSUME NEW b \in Seq(Line), NEW k \in Nat, NEW t, Within(t, b, k),
         NEW i \in Nat \ {0}, NEW j \in Nat, j =< Len(t)
  PROVE  Within(SubSeq(t, i, j), b, k)
<1>0. t \in Seq(Line)
  BY WithinIs
<1>1. CASE i > j
  BY <1>1, SubSeqEmpty DEF Within
<1>2. ASSUME i =< j, t = <<Blank>>
      PROVE  SubSeq(t, i, j) = t
  <2>1. i = 1 /\ j = Len(t)
    BY <1>2, BlankIs
  <2>2. QED
    BY <1>0, <2>1, SubSeqFull
<1>3. ASSUME NEW x \in (k + 1) .. Len(b), NEW y \in x .. Len(b), t = SubSeq(b, x, y), i =< j
      PROVE  Within(SubSeq(t, i, j), b, k)
  <2>1. Len(t) = y - x + 1
    BY <1>3, StretchIsText
  <2>2. /\ x \in 1 .. Len(b) /\ y \in 1 .. Len(b)
        /\ i \in 1 .. y - x + 1 /\ j \in 1 .. y - x + 1
    BY <1>3, <2>1
  <2>3. SubSeq(t, i, j) = SubSeq(b, x + i - 1, x + j - 1)
    BY <1>3, <2>2, SubSeqOfSubSeq
  <2>4. x + i - 1 \in (k + 1) .. Len(b) /\ x + j - 1 \in (x + i - 1) .. Len(b)
    BY <1>3, <2>1, <2>2
  <2>5. QED
    BY <2>3, <2>4 DEF Within
<1>4. ASSUME t = <<>>
      PROVE  i > j
  BY <1>4
<1>5. ASSUME i =< j
      PROVE  Within(SubSeq(t, i, j), b, k)
  <2>1. CASE t = <<Blank>>
    BY <1>2, <1>5, <2>1
  <2>2. ASSUME NEW x \in (k + 1) .. Len(b), NEW y \in x .. Len(b), t = SubSeq(b, x, y)
        PROVE  Within(SubSeq(t, i, j), b, k)
    BY <1>3, <1>5, <2>2
  <2>3. t # <<>>
    BY <1>4, <1>5
  <2>4. QED
    BY <2>1, <2>2, <2>3, Zenon DEF Within
<1>6. QED
  BY <1>0, <1>1, <1>5

LEMMA WithinStrip ==
  ASSUME NEW b \in Seq(Line), NEW k \in Nat, NEW t, Within(t, b, k)
  PROVE  Within(StripBlankEdges(t), b, k)
<1> DEFINE filled == {i \in DOMAIN t : t[i].kind # "blank"}
<1>1. t \in Seq(Line) /\ Len(t) \in Nat /\ DOMAIN t = 1 .. Len(t)
  BY WithinIs
<1>2. CASE filled = {}
  BY <1>2 DEF StripBlankEdges, Within
<1>3. CASE filled # {}
  <2>1. filled \in SUBSET Nat /\ \A x \in filled : x =< Len(t)
    BY <1>1
  <2>2. Min(filled) \in filled /\ Max(filled) \in filled
    BY <1>1, <1>3, <2>1, LeastOf, GreatestOf
  <2>3. PICK i \in filled, j \in filled : i = Min(filled) /\ j = Max(filled)
    BY <2>2
  <2>4. Within(SubSeq(t, i, j), b, k)
    BY <1>1, <2>3, WithinStretch
  <2>5. QED
    BY <1>3, <2>3, <2>4 DEF StripBlankEdges
<1>4. QED
  BY <1>2, <1>3

LEMMA TextIsBody ==
  ASSUME NEW t \in Seq(Line)
  PROVE  t # NoBody /\ Trim(t) = AsText(StripBlankEdges(t))
BY NoBodyAssumption DEF Trim

LEMMA WithinTrim ==
  ASSUME NEW b \in Seq(Line), NEW k \in Nat, NEW t, Within(t, b, k)
  PROVE  /\ Within(Trim(t), b, k) /\ Within(AsText(t), b, k)
         /\ t # NoBody /\ AsText(t) # NoBody /\ Trim(t) # NoBody
         /\ AsText(t) # <<>> /\ Trim(t) # <<>>
<1>1. t \in Seq(Line)
  BY WithinIs
<1>2. Within(StripBlankEdges(t), b, k)
  BY WithinStrip
<1>3. Within(Trim(t), b, k) /\ Within(AsText(t), b, k)
  BY <1>1, <1>2, TextIsBody DEF AsText, Within
<1>4. Trim(t) \in Seq(Line) /\ AsText(t) \in Seq(Line)
  BY <1>3, WithinIs
<1>5. AsText(t) # <<>> /\ Trim(t) # <<>>
  <2>1. Trim(t) = AsText(StripBlankEdges(t))
    BY <1>1, TextIsBody
  <2>2. \A x : AsText(x) # <<>>
    BY BlankIs DEF AsText
  <2>3. QED
    BY <2>1, <2>2
<1>6. QED
  BY <1>1, <1>3, <1>4, <1>5, TextIsBody
\* What is cut out of a block has no start of a block, none of whose markers is the
\* block's own.
LEMMA WithinMarks ==
  ASSUME NEW b \in Seq(Line), NEW k \in Nat, NEW t, Within(t, b, k)
  PROVE  /\ MarkedIds(t) \subseteq MarkedIds(b) /\ FenceIds(t) \subseteq FenceIds(b)
         /\ MarkedOnce(b) => MarkedOnce(t)
         /\ Heads(b) \subseteq 1 .. k => Heads(t) = {}
         /\ k \in MarkerLines(b) /\ MarkedOnce(b) => b[k].id \notin MarkedIds(t)
<1>1. ASSUME t = <<>> \/ t = <<Blank>>
      PROVE  MarkedIds(t) = {} /\ FenceIds(t) = {} /\ MarkedOnce(t) /\ Heads(t) = {}
  <2>1. t \in Seq(Line) /\ \A i \in 1 .. Len(t) : t[i].kind = "blank"
    <3>1. CASE t = <<>>
      BY <3>1
    <3>2. CASE t = <<Blank>>
      BY <3>2, BlankIs
    <3>3. QED
      BY <1>1, <3>1, <3>2
  <2>2. MarkedIds(t) = {} /\ FenceIds(t) = {} /\ MarkerLines(t) = {}
    BY <2>1, MarkersAre DEF MarkerKind, FenceKind
  <2>3. QED
    BY <2>1, <2>2 DEF MarkedOnce, Heads
<1>2. ASSUME NEW i \in (k + 1) .. Len(b), NEW j \in i .. Len(b), t = SubSeq(b, i, j)
      PROVE  /\ MarkedIds(t) \subseteq MarkedIds(b) /\ FenceIds(t) \subseteq FenceIds(b)
             /\ MarkedOnce(b) => MarkedOnce(t)
             /\ Heads(b) \subseteq 1 .. k => Heads(t) = {}
             /\ k \in MarkerLines(b) /\ MarkedOnce(b) => b[k].id \notin MarkedIds(t)
  <2>1. PICK p : p = SubSeq(b, 1, i - 1)
    OBVIOUS
  <2>2. PICK x : x = SubSeq(b, i, Len(b))
    OBVIOUS
  <2>3. PICK q : q = SubSeq(b, j + 1, Len(b))
    OBVIOUS
  <2>4. /\ t \in Seq(Line) /\ Len(t) = j - i + 1
        /\ \A y \in 1 .. (j - i + 1) : t[y] = b[y + i - 1]
    BY <1>2, StretchIsText
  <2>5. /\ p \in Seq(Line) /\ Len(p) = i - 1
        /\ \A y \in 1 .. (i - 1) : p[y] = b[y]
    BY <2>1, StretchIsText
  <2>6. x \in Seq(Line) /\ q \in Seq(Line)
    BY <2>2, <2>3, StretchIsText
  <2>7. b = p \o x
    BY <2>1, <2>2, i \in 1 .. Len(b) + 1, SplitAt
  <2>8. x = t \o q
    BY <1>2, <2>2, <2>3, i \in 1 .. Len(b) + 1, j \in i - 1 .. Len(b), Len(b) \in j .. Len(b),
       ConcatAdjacentSubSeq
  <2>9. /\ MarkedIds(b) = MarkedIds(p) \cup MarkedIds(x) /\ FenceIds(b) = FenceIds(p) \cup FenceIds(x)
        /\ MarkedOnce(b) => MarkedOnce(x) /\ MarkedIds(p) \cap MarkedIds(x) = {}
    BY <2>5, <2>6, <2>7, MarkersOfConcat
  <2>10. /\ MarkedIds(x) = MarkedIds(t) \cup MarkedIds(q) /\ FenceIds(x) = FenceIds(t) \cup FenceIds(q)
         /\ MarkedOnce(x) => MarkedOnce(t)
    BY <2>4, <2>6, <2>8, MarkersOfConcat
  <2>11. ASSUME k \in MarkerLines(b)
         PROVE  b[k].id \in MarkedIds(p)
    <3>1. k \in 1 .. Len(p) /\ b[k].kind \in MarkerKind /\ p[k] = b[k]
      BY <2>5, <2>11, MarkersAre
    <3>2. QED
      BY <2>5, <3>1, MarkersAre
  <2>12. ASSUME Heads(b) \subseteq 1 .. k, NEW h \in Heads(t)
         PROVE  FALSE
    <3>1. h \in 1 .. Len(t) /\ t[h].kind = "heading"
      BY <2>4, HeadsAreLines DEF Heads
    <3>2. PICK y \in 1 .. Len(t) : Marks(t, h, y)
      BY <2>4, <3>1, MarkerIdxIs DEF Heads
    <3>3. /\ h + i - 1 \in 1 .. Len(b) /\ y + i - 1 \in 1 .. Len(b)
          /\ b[h + i - 1] = t[h] /\ b[y + i - 1] = t[y] /\ h + i - 1 > k
      BY <2>4, <2>12, <3>1, <3>2
    <3>4. ASSUME NEW z \in 1 .. Len(b), h + i - 1 < z, z < y + i - 1
          PROVE  b[z].kind = "blank"
      <4>1. z - i + 1 \in 1 .. Len(t) /\ h < z - i + 1 /\ z - i + 1 < y
        BY <2>4, <3>1, <3>2, <3>4
      <4>2. t[z - i + 1] = b[z]
        BY <2>4, <4>1, SMTT(30)
      <4>3. QED
        BY <3>2, <4>1, <4>2 DEF Marks
    <3>5. Marks(b, h + i - 1, y + i - 1)
      BY <3>1, <3>2, <3>3, <3>4 DEF Marks
    <3>6. h + i - 1 \in Heads(b)
      BY <3>1, <3>3, <3>5, MarkerIdxIs, SMTT(30) DEF Heads
    <3>7. QED
      BY <2>12, <3>3, <3>6
  <2>13. QED
    BY <2>9, <2>10, <2>11, <2>12
<1>3. QED
  BY <1>1, <1>2 DEF Within

--------------------------------------------------------------------------------
(* What a rendered message looks like. *)

Message == [id : Nat, revision : Nat, archived : BOOLEAN, body : Seq(Line) \cup {NoBody}]

MarkerOf(m) == [kind |-> "marker", id |-> m.id, revision |-> m.revision, archived |-> m.archived]

Opening(m) ==
  IF m.archived THEN (HeadOf(m) \o Banner) \o <<Of("open", m.id)>>
                ELSE HeadOf(m) \o <<Of("open", m.id)>>

Closing(m) ==
  IF m.archived THEN (<<Of("close", m.id)>> \o <<Blank, Plain("details end")>>) \o <<Blank, Plain("rule")>>
                ELSE <<Of("close", m.id)>> \o <<Blank, Plain("rule")>>

LEMMA PlainIs ==
  \A kind \in LineKind : Plain(kind) \in Line /\ Plain(kind).kind = kind
BY LineIs DEF Plain

\* One after the other.
LEMMA ConcatIs ==
  ASSUME NEW s \in Seq(Line), NEW t \in Seq(Line)
  PROVE  /\ s \o t \in Seq(Line) /\ Len(s \o t) = Len(s) + Len(t)
         /\ \A i \in 1 .. Len(s) : (s \o t)[i] = s[i]
         /\ \A i \in 1 .. Len(t) : (s \o t)[Len(s) + i] = t[i]
BY ConcatProperties

LEMMA TwoLines ==
  ASSUME NEW x \in Line, NEW y \in Line
  PROVE  /\ <<x>> \in Seq(Line) /\ Len(<<x>>) = 1 /\ <<x>>[1] = x
         /\ <<x, y>> \in Seq(Line) /\ Len(<<x, y>>) = 2 /\ <<x, y>>[1] = x /\ <<x, y>>[2] = y
OBVIOUS

LEMMA FourLines ==
  ASSUME NEW x \in Line, NEW y \in Line, NEW z \in Line, NEW w \in Line, NEW s, s = <<x, y, z, w>>
  PROVE  s \in Seq(Line) /\ Len(s) = 4 /\ s[1] = x /\ s[2] = y /\ s[3] = z /\ s[4] = w
OBVIOUS

LEMMA MarkerIs ==
  ASSUME NEW m \in Message
  PROVE  /\ m.id \in Nat /\ m.archived \in BOOLEAN
         /\ MarkerOf(m) \in Line /\ MarkerOf(m).kind = "marker"
         /\ Of("open", m.id) \in Line /\ Of("open", m.id).kind = "open"
         /\ Of("close", m.id) \in Line /\ Of("close", m.id).kind = "close"
<1>1. /\ m.id \in Nat /\ m.archived \in BOOLEAN
      /\ MarkerOf(m) \in Line /\ MarkerOf(m).kind = "marker"
  BY DEF Message, MarkerOf, Line, LineKind
<1>2. "open" \in LineKind /\ "close" \in LineKind
  BY DEF LineKind
<1>3. /\ Of("open", m.id) \in Line /\ Of("open", m.id).kind = "open"
      /\ Of("close", m.id) \in Line /\ Of("close", m.id).kind = "close"
  BY <1>1, <1>2, LineIs
<1>4. QED
  BY <1>1, <1>3

LEMMA HeadIs ==
  ASSUME NEW m \in Message
  PROVE  /\ HeadOf(m) \in Seq(Line) /\ Len(HeadOf(m)) = 4
         /\ HeadOf(m)[1].kind = "heading" /\ HeadOf(m)[2] = MarkerOf(m)
         /\ HeadOf(m)[3].kind = "meta" /\ HeadOf(m)[4].kind = "blank"
<1>1. Plain("heading") \in Line /\ Plain("heading").kind = "heading"
  BY PlainIs DEF LineKind
<1>2. Plain("meta") \in Line /\ Plain("meta").kind = "meta"
  BY PlainIs DEF LineKind
<1>3. MarkerOf(m) \in Line
  BY MarkerIs
<1>4. HeadOf(m) = << Plain("heading"), MarkerOf(m), Plain("meta"), Blank >>
  BY DEF HeadOf, MarkerOf
<1>5. /\ HeadOf(m) \in Seq(Line) /\ Len(HeadOf(m)) = 4
      /\ HeadOf(m)[1] = Plain("heading") /\ HeadOf(m)[2] = MarkerOf(m)
      /\ HeadOf(m)[3] = Plain("meta") /\ HeadOf(m)[4] = Blank
  BY <1>1, <1>2, <1>3, <1>4, BlankIs, FourLines
<1>6. QED
  BY <1>1, <1>2, <1>5, BlankIs

LEMMA BannerIs ==
  /\ Banner \in Seq(Line) /\ Len(Banner) = 4
  /\ \A i \in 1 .. 4 : Banner[i].kind \in {"banner", "blank", "details"}
<1>1. Plain("banner") \in Line /\ Plain("banner").kind = "banner"
  BY PlainIs DEF LineKind
<1>2. Plain("details") \in Line /\ Plain("details").kind = "details"
  BY PlainIs DEF LineKind
<1>3. /\ Banner \in Seq(Line) /\ Len(Banner) = 4
      /\ Banner[1] = Plain("banner") /\ Banner[2] = Blank
      /\ Banner[3] = Plain("details") /\ Banner[4] = Blank
  BY <1>1, <1>2, BlankIs, FourLines DEF Banner
<1>4. ASSUME NEW i \in 1 .. 4
      PROVE  i = 1 \/ i = 2 \/ i = 3 \/ i = 4
  OBVIOUS
<1>5. QED
  BY <1>1, <1>2, <1>3, <1>4, BlankIs

LEMMA TrailersAre ==
  /\ <<Blank, Plain("rule")>> \in Seq(Line) /\ Len(<<Blank, Plain("rule")>>) = 2
  /\ <<Blank, Plain("rule")>>[1].kind = "blank" /\ <<Blank, Plain("rule")>>[2].kind = "rule"
  /\ <<Blank, Plain("details end")>> \in Seq(Line) /\ Len(<<Blank, Plain("details end")>>) = 2
  /\ <<Blank, Plain("details end")>>[1].kind = "blank"
  /\ <<Blank, Plain("details end")>>[2].kind = "details end"
<1>1. Plain("rule") \in Line /\ Plain("rule").kind = "rule"
  BY PlainIs DEF LineKind
<1>2. Plain("details end") \in Line /\ Plain("details end").kind = "details end"
  BY PlainIs DEF LineKind
<1>3. QED
  BY <1>1, <1>2, BlankIs, TwoLines

LEMMA OpeningIs ==
  ASSUME NEW m \in Message
  PROVE  /\ Opening(m) \in Seq(Line)
         /\ Len(Opening(m)) \in {5, 9}
         /\ Opening(m)[1].kind = "heading" /\ Opening(m)[2] = MarkerOf(m)
         /\ \A i \in 3 .. Len(Opening(m)) - 1 :
              Opening(m)[i].kind \in {"meta", "blank", "banner", "details"}
         /\ Opening(m)[Len(Opening(m))] = Of("open", m.id)
<1>1. PICK h \in Seq(Line) : h = HeadOf(m)
  BY HeadIs
<1>2. /\ Len(h) = 4 /\ h[1].kind = "heading" /\ h[2] = MarkerOf(m)
      /\ h[3].kind = "meta" /\ h[4].kind = "blank"
  BY <1>1, HeadIs
<1>3. PICK x \in Seq(Line) : x = <<Of("open", m.id)>> /\ Len(x) = 1 /\ x[1] = Of("open", m.id)
  BY MarkerIs, TwoLines
<1>4. CASE m.archived
  <2>1. PICK b \in Seq(Line) : b = Banner
    BY BannerIs
  <2>2. Len(b) = 4 /\ \A i \in 1 .. 4 : b[i].kind \in {"banner", "blank", "details"}
    BY <2>1, BannerIs
  <2>3. PICK c \in Seq(Line) : c = h \o b
    BY ConcatIs
  <2>4. /\ Len(c) = 8 /\ \A i \in 1 .. 4 : c[i] = h[i]
        /\ \A i \in 1 .. 4 : c[4 + i] = b[i]
    <3>1. /\ Len(c) = Len(h) + Len(b)
          /\ \A i \in 1 .. Len(h) : c[i] = h[i]
          /\ \A i \in 1 .. Len(b) : c[Len(h) + i] = b[i]
      BY <2>3, ConcatIs
    <3>2. QED
      BY <1>2, <2>2, <3>1
  <2>5. PICK o : o = c \o x
    OBVIOUS
  <2>6. /\ o \in Seq(Line) /\ Len(o) = Len(c) + Len(x)
        /\ \A i \in 1 .. Len(c) : o[i] = c[i]
        /\ \A i \in 1 .. Len(x) : o[Len(c) + i] = x[i]
    BY <2>5, ConcatIs
  <2>7. Len(o) = 9 /\ (\A i \in 1 .. 8 : o[i] = c[i]) /\ o[9] = x[1]
    BY <1>3, <2>4, <2>6
  <2>8. ASSUME NEW i \in 3 .. 8
        PROVE  o[i].kind \in {"meta", "blank", "banner", "details"}
    <3>1. i =< 4 => i = 3 \/ i = 4
      OBVIOUS
    <3>2. CASE i =< 4
      BY <1>2, <2>4, <2>7, <3>1, <3>2
    <3>3. CASE i > 4
      <4>1. i - 4 \in 1 .. 4 /\ c[4 + (i - 4)] = b[i - 4]
        BY <2>4, <3>3
      <4>2. c[i] = b[i - 4]
        BY <4>1
      <4>3. QED
        BY <2>2, <2>7, <4>1, <4>2, SMTT(30)
    <3>4. QED
      BY <3>2, <3>3
  <2>9. Opening(m) = o
    BY <1>1, <1>3, <1>4, <2>1, <2>3, <2>5 DEF Opening
  <2>10. o[1].kind = "heading" /\ o[2] = MarkerOf(m)
    BY <1>2, <2>4, <2>7
  <2>11. /\ o[Len(o)] = Of("open", m.id)
         /\ \A i \in 3 .. Len(o) - 1 : o[i].kind \in {"meta", "blank", "banner", "details"}
    BY <1>3, <2>7, <2>8
  <2>12. QED
    BY <2>6, <2>7, <2>9, <2>10, <2>11
<1>5. CASE ~ m.archived
  <2>1. PICK o : o = h \o x
    OBVIOUS
  <2>2. /\ o \in Seq(Line) /\ Len(o) = Len(h) + Len(x)
        /\ \A i \in 1 .. Len(h) : o[i] = h[i]
        /\ \A i \in 1 .. Len(x) : o[Len(h) + i] = x[i]
    BY <2>1, ConcatIs
  <2>3. Len(o) = 5 /\ (\A i \in 1 .. 4 : o[i] = h[i]) /\ o[5] = x[1]
    BY <1>2, <1>3, <2>2
  <2>4. ASSUME NEW i \in 3 .. 4
        PROVE  o[i].kind \in {"meta", "blank", "banner", "details"}
    <3>1. i = 3 \/ i = 4
      OBVIOUS
    <3>2. QED
      BY <1>2, <2>3, <3>1
  <2>5. Opening(m) = o
    BY <1>1, <1>3, <1>5, <2>1 DEF Opening
  <2>6. o[1].kind = "heading" /\ o[2] = MarkerOf(m)
    BY <1>2, <2>3
  <2>7. /\ o[Len(o)] = Of("open", m.id)
        /\ \A i \in 3 .. Len(o) - 1 : o[i].kind \in {"meta", "blank", "banner", "details"}
    BY <1>3, <2>3, <2>4
  <2>8. QED
    BY <2>2, <2>3, <2>5, <2>6, <2>7
<1>6. QED
  BY <1>4, <1>5

LEMMA ClosingIs ==
  ASSUME NEW m \in Message
  PROVE  /\ Closing(m) \in Seq(Line)
         /\ Len(Closing(m)) \in {3, 5}
         /\ Closing(m)[1] = Of("close", m.id)
         /\ \A i \in 2 .. Len(Closing(m)) : Closing(m)[i].kind \in {"blank", "details end", "rule"}
         /\ Closing(m)[Len(Closing(m))].kind = "rule"
<1> DEFINE y == <<Of("close", m.id)>>
           e == <<Blank, Plain("rule")>>
           d == <<Blank, Plain("details end")>>
<1>1. y \in Seq(Line) /\ Len(y) = 1 /\ y[1] = Of("close", m.id)
  BY MarkerIs, TwoLines
<1>2. e \in Seq(Line) /\ Len(e) = 2 /\ e[1].kind = "blank" /\ e[2].kind = "rule"
  BY TrailersAre
<1>3. d \in Seq(Line) /\ Len(d) = 2 /\ d[1].kind = "blank" /\ d[2].kind = "details end"
  BY TrailersAre
<1>0. Closing(m) = IF m.archived THEN (y \o d) \o e ELSE y \o e
  BY DEF Closing
<1> HIDE DEF y, e, d
<1>4. CASE m.archived
  <2>1. PICK f : f = y \o d
    OBVIOUS
  <2>2. f \in Seq(Line) /\ Len(f) = 3 /\ f[1] = y[1] /\ f[2] = d[1] /\ f[3] = d[2]
    <3>1. /\ f \in Seq(Line) /\ Len(f) = Len(y) + Len(d)
          /\ \A i \in 1 .. Len(y) : f[i] = y[i]
          /\ \A i \in 1 .. Len(d) : f[Len(y) + i] = d[i]
      BY <1>1, <1>3, <2>1, ConcatIs
    <3>2. Len(y) = 1 /\ Len(d) = 2
      BY <1>1, <1>3
    <3>3. f[1] = y[1] /\ f[1 + 1] = d[1] /\ f[1 + 2] = d[2]
      BY <3>1, <3>2
    <3>4. QED
      BY <3>1, <3>2, <3>3
  <2>3. PICK c : c = f \o e
    OBVIOUS
  <2>4. /\ c \in Seq(Line) /\ Len(c) = 5 /\ \A i \in 1 .. 3 : c[i] = f[i]
        /\ c[4] = e[1] /\ c[5] = e[2]
    <3>1. /\ c \in Seq(Line) /\ Len(c) = Len(f) + Len(e)
          /\ \A i \in 1 .. Len(f) : c[i] = f[i]
          /\ \A i \in 1 .. Len(e) : c[Len(f) + i] = e[i]
      BY <1>2, <2>2, <2>3, ConcatIs
    <3>2. c[Len(f) + 1] = e[1] /\ c[Len(f) + 2] = e[2]
      BY <1>2, <3>1
    <3>3. QED
      BY <1>2, <2>2, <3>1, <3>2
  <2>5. c[1] = y[1] /\ c[2] = d[1] /\ c[3] = d[2] /\ c[4] = e[1] /\ c[5] = e[2]
    BY <1>1, <2>2, <2>4
  <2>6. Closing(m) = c
    BY <1>0, <1>4, <2>1, <2>3
  <2>7. \A i \in 2 .. 5 : i = 2 \/ i = 3 \/ i = 4 \/ i = 5
    OBVIOUS
  <2>8. QED
    BY <1>1, <1>2, <1>3, <2>4, <2>5, <2>6, <2>7
<1>5. CASE ~ m.archived
  <2>1. PICK c : c = y \o e
    OBVIOUS
  <2>2. /\ c \in Seq(Line) /\ Len(c) = Len(y) + Len(e)
        /\ \A i \in 1 .. Len(y) : c[i] = y[i]
        /\ \A i \in 1 .. Len(e) : c[Len(y) + i] = e[i]
    BY <1>1, <1>2, <2>1, ConcatIs
  <2>3. Len(c) = 3 /\ c[1] = y[1] /\ c[2] = e[1] /\ c[3] = e[2]
    <3>1. c[Len(y) + 1] = e[1] /\ c[Len(y) + 2] = e[2]
      BY <1>2, <2>2
    <3>2. QED
      BY <1>1, <1>2, <2>2, <3>1
  <2>4. Closing(m) = c
    BY <1>0, <1>5, <2>1
  <2>5. \A i \in 2 .. 3 : i = 2 \/ i = 3
    OBVIOUS
  <2>6. QED
    BY <1>1, <1>2, <2>2, <2>3, <2>4, <2>5
<1>6. QED
  BY <1>4, <1>5

\* Concatenation without what the provers know of it.
Cat(s, t) == s \o t

LEMMA CatIs ==
  ASSUME NEW s \in Seq(Line), NEW t \in Seq(Line)
  PROVE  Cat(s, t) \in Seq(Line)
BY ConcatProperties DEF Cat

LEMMA CatAssoc ==
  ASSUME NEW s \in Seq(Line), NEW t \in Seq(Line), NEW u \in Seq(Line)
  PROVE  Cat(Cat(s, t), u) = Cat(s, Cat(t, u))
BY ConcatAssociative DEF Cat

LEMMA CatFour ==
  ASSUME NEW s \in Seq(Line), NEW t \in Seq(Line), NEW u \in Seq(Line), NEW v \in Seq(Line)
  PROVE  Cat(s, Cat(Cat(t, u), v)) = Cat(Cat(s, t), Cat(u, v))
BY CatIs, CatAssoc

\* A message is what it opens with, its body, and what it closes with.
LEMMA PlainPieces ==
  ASSUME NEW h \in Seq(Line), NEW x \in Seq(Line), NEW t \in Seq(Line), NEW y \in Seq(Line), NEW e \in Seq(Line)
  PROVE  Cat(Cat(h, Cat(Cat(x, t), y)), e) = Cat(Cat(Cat(h, x), t), Cat(y, e))
<1>1. /\ Cat(x, t) \in Seq(Line) /\ Cat(h, x) \in Seq(Line) /\ Cat(Cat(h, x), t) \in Seq(Line)
  BY CatIs
<1>2. Cat(h, Cat(Cat(x, t), y)) = Cat(Cat(h, Cat(x, t)), y)
  BY <1>1, CatAssoc
<1>3. Cat(h, Cat(x, t)) = Cat(Cat(h, x), t)
  BY CatAssoc
<1>4. Cat(Cat(Cat(Cat(h, x), t), y), e) = Cat(Cat(Cat(h, x), t), Cat(y, e))
  BY <1>1, CatAssoc
<1>5. QED
  BY <1>2, <1>3, <1>4, Zenon

LEMMA RenderIs ==
  ASSUME NEW m \in Message, Trim(m.body) \in Seq(Line)
  PROVE  FormatMessage(m) = (Opening(m) \o Trim(m.body)) \o Closing(m)
<1>1. PICK t : t = Trim(m.body)
  OBVIOUS
<1>2. PICK h : h = HeadOf(m)
  OBVIOUS
<1>3. PICK x : x = <<Of("open", m.id)>>
  OBVIOUS
<1>4. PICK y : y = <<Of("close", m.id)>>
  OBVIOUS
<1>5. PICK e : e = <<Blank, Plain("rule")>>
  OBVIOUS
<1>6. PICK d : d = <<Blank, Plain("details end")>>
  OBVIOUS
<1>7. PICK b : b = Banner
  OBVIOUS
<1>8. /\ t \in Seq(Line) /\ h \in Seq(Line) /\ b \in Seq(Line) /\ d \in Seq(Line) /\ e \in Seq(Line)
      /\ x \in Seq(Line) /\ y \in Seq(Line)
  BY <1>1, <1>2, <1>3, <1>4, <1>5, <1>6, <1>7, HeadIs, BannerIs, TrailersAre, MarkerIs, TwoLines
<1>9. CASE m.archived
  <2>1. FormatMessage(m) = Cat(Cat(h, Cat(Cat(b, Cat(Cat(x, t), y)), d)), e)
    BY <1>1, <1>2, <1>3, <1>4, <1>5, <1>6, <1>7, <1>9, Zenon DEF FormatMessage, Fenced, Cat
  <2>2. Opening(m) = Cat(Cat(h, b), x) /\ Closing(m) = Cat(Cat(y, d), e)
    BY <1>2, <1>3, <1>4, <1>5, <1>6, <1>7, <1>9, Zenon DEF Opening, Closing, Cat
  <2>3. Cat(Cat(h, Cat(Cat(b, Cat(Cat(x, t), y)), d)), e) = Cat(Cat(Cat(Cat(h, b), x), t), Cat(Cat(y, d), e))
    <3>1. /\ Cat(x, t) \in Seq(Line) /\ Cat(Cat(x, t), y) \in Seq(Line) /\ Cat(h, b) \in Seq(Line)
          /\ Cat(y, d) \in Seq(Line) /\ Cat(Cat(Cat(x, t), y), d) \in Seq(Line)
          /\ Cat(Cat(y, d), e) \in Seq(Line)
      BY <1>8, CatIs
    <3>2. Cat(h, Cat(Cat(b, Cat(Cat(x, t), y)), d)) = Cat(Cat(h, b), Cat(Cat(Cat(x, t), y), d))
      BY <1>8, <3>1, CatFour
    <3>3. Cat(Cat(Cat(h, b), Cat(Cat(Cat(x, t), y), d)), e) = Cat(Cat(h, b), Cat(Cat(Cat(Cat(x, t), y), d), e))
      BY <1>8, <3>1, CatAssoc
    <3>4. Cat(Cat(Cat(x, t), y), d) = Cat(Cat(x, t), Cat(y, d))
      BY <1>8, <3>1, CatAssoc
    <3>5. Cat(Cat(Cat(x, t), Cat(y, d)), e) = Cat(Cat(x, t), Cat(Cat(y, d), e))
      BY <1>8, <3>1, CatAssoc
    <3>6. Cat(Cat(h, b), Cat(Cat(x, t), Cat(Cat(y, d), e))) = Cat(Cat(Cat(h, b), Cat(x, t)), Cat(Cat(y, d), e))
      BY <1>8, <3>1, CatAssoc
    <3>7. Cat(Cat(h, b), Cat(x, t)) = Cat(Cat(Cat(h, b), x), t)
      BY <1>8, <3>1, CatAssoc
    <3>8. QED
      BY <3>2, <3>3, <3>4, <3>5, <3>6, <3>7, Zenon
  <2>4. QED
    BY <1>1, <2>1, <2>2, <2>3, Zenon DEF Cat
<1>10. CASE ~ m.archived
  <2>1. FormatMessage(m) = Cat(Cat(h, Cat(Cat(x, t), y)), e)
    BY <1>1, <1>2, <1>3, <1>4, <1>5, <1>10, Zenon DEF FormatMessage, Fenced, Cat
  <2>2. Opening(m) = Cat(h, x) /\ Closing(m) = Cat(y, e)
    BY <1>2, <1>3, <1>4, <1>5, <1>10, Zenon DEF Opening, Closing, Cat
  <2>3. FormatMessage(m) = Cat(Cat(Opening(m), t), Closing(m))
    BY <1>8, <2>1, <2>2, PlainPieces
  <2>4. QED
    BY <1>1, <2>3, Zenon DEF Cat
<1>11. QED
  BY <1>9, <1>10

\* What is written for a body is never empty, and comes out of the body.
LEMMA TrimIsText ==
  ASSUME NEW body \in Seq(Line) \cup {NoBody}
  PROVE  /\ Trim(body) \in Seq(Line) /\ Trim(body) # <<>>
         /\ body # NoBody => Within(Trim(body), body, 0)
<1>1. CASE body = NoBody
  BY <1>1, BlankIs DEF Trim
<1>2. CASE body \in Seq(Line)
  <2>1. Within(body, body, 0)
    <3>1. CASE body = <<>>
      BY <3>1 DEF Within
    <3>2. CASE body # <<>>
      <4>1. Len(body) \in Nat /\ Len(body) >= 1
        BY <1>2, <3>2
      <4>2. 1 \in (0 + 1) .. Len(body) /\ Len(body) \in 1 .. Len(body) /\ body = SubSeq(body, 1, Len(body))
        BY <1>2, <4>1, SubSeqFull
      <4>3. QED
        BY <4>2 DEF Within
    <3>3. QED
      BY <3>1, <3>2
  <2>2. Within(Trim(body), body, 0) /\ Trim(body) # <<>>
    BY <1>2, <2>1, WithinTrim
  <2>3. QED
    BY <1>2, <2>2, WithinIs
<1>3. QED
  BY <1>1, <1>2

LEMMA CatLines ==
  ASSUME NEW s \in Seq(Line), NEW t \in Seq(Line)
  PROVE  /\ Cat(s, t) \in Seq(Line) /\ Len(Cat(s, t)) = Len(s) + Len(t)
         /\ Len(s) \in Nat /\ Len(t) \in Nat
         /\ \A i \in 1 .. Len(s) : Cat(s, t)[i] = s[i]
         /\ \A i \in 1 .. Len(t) : Cat(s, t)[Len(s) + i] = t[i]
BY ConcatProperties DEF Cat

\* The text b is made of s, t, u and v.
MadeOf(b, s, t, u, v) ==
  /\ b \in Seq(Line)
  /\ Len(b) = Len(s) + Len(t) + Len(u) + Len(v)
  /\ \A i \in 1 .. Len(s) : b[i] = s[i]
  /\ \A i \in 1 .. Len(t) : b[Len(s) + i] = t[i]
  /\ \A i \in 1 .. Len(u) : b[Len(s) + Len(t) + i] = u[i]
  /\ \A i \in 1 .. Len(v) : b[Len(s) + Len(t) + Len(u) + i] = v[i]

LEMMA FourPieces ==
  ASSUME NEW s \in Seq(Line), NEW t \in Seq(Line), NEW u \in Seq(Line), NEW v \in Seq(Line)
  PROVE  MadeOf(Cat(Cat(Cat(s, t), u), v), s, t, u, v)
<1>1. PICK x : x = Cat(s, t)
  OBVIOUS
<1>2. PICK y : y = Cat(x, u)
  OBVIOUS
<1>3. PICK b : b = Cat(y, v)
  OBVIOUS
<1>4. /\ x \in Seq(Line) /\ Len(x) = Len(s) + Len(t) /\ Len(s) \in Nat /\ Len(t) \in Nat
      /\ \A i \in 1 .. Len(s) : x[i] = s[i]
      /\ \A i \in 1 .. Len(t) : x[Len(s) + i] = t[i]
  BY <1>1, CatLines, ZenonT(30)
<1>5. /\ y \in Seq(Line) /\ Len(y) = Len(x) + Len(u) /\ Len(u) \in Nat
      /\ \A i \in 1 .. Len(x) : y[i] = x[i]
      /\ \A i \in 1 .. Len(u) : y[Len(x) + i] = u[i]
  <2>1. x \in Seq(Line)
    BY <1>4
  <2>2. QED
    BY <1>2, <2>1, CatLines
<1>6. /\ b \in Seq(Line) /\ Len(b) = Len(y) + Len(v) /\ Len(v) \in Nat
      /\ \A i \in 1 .. Len(y) : b[i] = y[i]
      /\ \A i \in 1 .. Len(v) : b[Len(y) + i] = v[i]
  <2>1. y \in Seq(Line)
    BY <1>5
  <2>2. QED
    BY <1>3, <2>1, CatLines
<1>8. \A i \in 1 .. Len(s) : b[i] = s[i]
  BY <1>4, <1>5, <1>6
<1>9. ASSUME NEW i \in 1 .. Len(t)
      PROVE  b[Len(s) + i] = t[i]
  <2>1. Len(s) + i \in 1 .. Len(x) /\ Len(s) + i \in 1 .. Len(y)
    BY <1>4, <1>5
  <2>2. QED
    BY <1>4, <1>5, <1>6, <2>1
<1>10. ASSUME NEW i \in 1 .. Len(u)
       PROVE  b[Len(s) + Len(t) + i] = u[i]
  <2>1. Len(x) + i \in 1 .. Len(y)
    BY <1>4, <1>5
  <2>2. QED
    BY <1>4, <1>5, <1>6, <2>1
<1>11. QED
  BY <1>1, <1>2, <1>3, <1>4, <1>5, <1>6, <1>8, <1>9, <1>10 DEF MadeOf

\* Between its own fence lines is a body, from the first that opens to the last that closes.
LEMMA FencedBody ==
  ASSUME NEW b, NEW id, NEW n \in Nat, NEW e \in Nat, NEW last \in Nat, 2 < n, n < e, e =< last,
         DOMAIN b = 1 .. last,
         \A i \in 3 .. n - 1 : b[i] # Of("open", id),
         b[n] = Of("open", id), b[e] = Of("close", id),
         \A i \in e + 1 .. last : b[i] # Of("close", id)
  PROVE  ExtractBody(b, 2, id) = AsText(SubSeq(b, n + 1, e - 1))
<1> DEFINE opens  == {i \in DOMAIN b : i > 2 /\ b[i] = Of("open", id)}
           closes == {i \in DOMAIN b : i > Min(opens) /\ b[i] = Of("close", id)}
<1>1. Min(opens) = n /\ n \in opens
  <2>1. n \in opens
    OBVIOUS
  <2>2. \A i \in opens : n =< i
    OBVIOUS
  <2>3. opens \in SUBSET Nat
    OBVIOUS
  <2>4. QED
    BY <2>1, <2>2, <2>3, LeastIs
<1>2. Max(closes) = e /\ e \in closes
  <2>1. e \in closes
    BY <1>1
  <2>2. \A i \in closes : i =< e
    OBVIOUS
  <2>3. closes \in SUBSET Nat
    OBVIOUS
  <2>4. QED
    BY <2>1, <2>2, <2>3, GreatestIs
<1>3. QED
  BY <1>1, <1>2, Zenon DEF ExtractBody

\* What is rendered is read back as it was, its body trimmed, whatever stands below
\* it as long as no line there closes its fence.
THEOREM RoundTrip ==
  ASSUME NEW m \in Message, NEW z \in Seq(Line), m.id \notin FenceIds(z)
  PROVE  LET b == FormatMessage(m) \o z
         IN  /\ b \in Seq(Line) /\ b[2] = MarkerOf(m)
             /\ MarkerIdx(b, 1) = {2} /\ IsMessage(b)
             /\ ParseMessage(b) = [m EXCEPT !.body = Trim(m.body)]
<1>1. PICK t : t = Trim(m.body)
  OBVIOUS
<1>2. t \in Seq(Line) /\ t # <<>>
  BY <1>1, TrimIsText DEF Message
<1>3. PICK o : o = Opening(m)
  OBVIOUS
<1>4. PICK c : c = Closing(m)
  OBVIOUS
<1>5. PICK n : n = Len(o)
  OBVIOUS
<1>6. PICK w : w = Len(c)
  OBVIOUS
<1>7. PICK l : l = Len(t)
  OBVIOUS
<1>8. PICK v : v = Len(z)
  OBVIOUS
<1>9. /\ o[1].kind = "heading" /\ o[2] = MarkerOf(m)
      /\ \A i \in 3 .. n - 1 : o[i].kind \in {"meta", "blank", "banner", "details"}
      /\ o[n] = Of("open", m.id)
  BY <1>3, <1>5, OpeningIs
<1>10. /\ c[1] = Of("close", m.id)
       /\ \A i \in 2 .. w : c[i].kind \in {"blank", "details end", "rule"}
  BY <1>4, <1>6, ClosingIs
<1>11. /\ n \in Nat /\ n >= 5 /\ w \in Nat /\ w >= 3
       /\ l \in Nat /\ l > 0 /\ v \in Nat
  <2>1. n \in {5, 9}
    BY <1>3, <1>5, OpeningIs
  <2>2. w \in {3, 5}
    BY <1>4, <1>6, ClosingIs
  <2>3. l \in Nat /\ l > 0
    BY <1>2, <1>7
  <2>4. v \in Nat
    BY <1>8
  <2>5. n >= 5 /\ n \in Nat /\ w >= 3 /\ w \in Nat
    BY <2>1, <2>2
  <2>6. QED
    BY <2>3, <2>4, <2>5
<1>12. o \in Seq(Line) /\ c \in Seq(Line)
  BY <1>3, <1>4, OpeningIs, ClosingIs
<1>13. PICK b : b = Cat(Cat(Cat(o, t), c), z)
  OBVIOUS
<1>14. b = FormatMessage(m) \o z
  BY <1>1, <1>2, <1>3, <1>4, <1>13, RenderIs, Zenon DEF Cat
<1>15. /\ b \in Seq(Line)
       /\ Len(b) = Len(o) + Len(t) + Len(c) + Len(z)
       /\ \A i \in 1 .. Len(o) : b[i] = o[i]
       /\ \A i \in 1 .. Len(t) : b[Len(o) + i] = t[i]
       /\ \A i \in 1 .. Len(c) : b[Len(o) + Len(t) + i] = c[i]
       /\ \A i \in 1 .. Len(z) : b[Len(o) + Len(t) + Len(c) + i] = z[i]
  <2>1. t \in Seq(Line) /\ o \in Seq(Line) /\ c \in Seq(Line) /\ z \in Seq(Line)
    BY <1>2, <1>12
  <2>2. MadeOf(b, o, t, c, z)
    BY <2>1, <1>13, FourPieces
  <2>3. QED
    BY <2>2 DEF MadeOf
<1>16. PICK last : last = n + l + w + v
  OBVIOUS
<1>17. PICK e : e = n + l + 1
  OBVIOUS
<1>18. /\ last \in Nat /\ e \in Nat /\ n < e /\ e =< last /\ 2 < n
       /\ e - 1 = n + l /\ last = (e - 1) + w + v
  BY <1>11, <1>16, <1>17
<1>19. b \in Seq(Line) /\ Len(b) = last /\ DOMAIN b = 1 .. last
  BY <1>5, <1>6, <1>7, <1>8, <1>15, <1>16
<1>20. /\ \A i \in 1 .. n : b[i] = o[i]
       /\ \A i \in 1 .. l : b[n + i] = t[i]
       /\ \A i \in 1 .. w : b[n + l + i] = c[i]
       /\ \A i \in 1 .. v : b[n + l + w + i] = z[i]
  BY <1>5, <1>6, <1>7, <1>8, <1>15
<1>21. b[2] = MarkerOf(m) /\ b[n] = Of("open", m.id) /\ b[e] = Of("close", m.id)
  <2>1. 1 \in 1 .. w /\ 2 \in 1 .. n /\ n \in 1 .. n
    BY <1>11
  <2>2. b[n + l + 1] = c[1] /\ b[2] = o[2] /\ b[n] = o[n]
    BY <1>20, <2>1
  <2>3. QED
    BY <1>9, <1>10, <1>17, <2>2
<1>22. MarkerIdx(b, 1) = {2} /\ Min(MarkerIdx(b, 1)) = 2
  <2>1. 1 \in 1 .. last /\ 2 \in 1 .. last
    BY <1>11, <1>18
  <2>2. b[2].kind = "marker"
    BY <1>21, MarkerIs
  <2>3. \A j \in 1 .. last : ~ (1 < j /\ j < 2)
    BY <1>18
  <2>4. Marks(b, 1, 2)
    BY <1>19, <2>2, <2>3 DEF Marks, MarkerKind
  <2>5. 2 \in MarkerIdx(b, 1)
    BY <1>19, <2>1, <2>4, MarkerIdxIs
  <2>6. QED
    BY <1>19, <2>1, <2>5, OneMarkerIdx
<1>23. /\ Of("open", m.id).kind = "open" /\ Of("close", m.id).kind = "close"
       /\ Of("close", m.id).id = m.id
  BY DEF Of
<1>24. \A i \in 3 .. n - 1 : b[i] # Of("open", m.id)
  <2>1. TAKE i \in 3 .. n - 1
  <2>2. i \in 1 .. n
    BY <1>11
  <2>3. b[i] = o[i]
    BY <1>20, <2>2
  <2>4. QED
    BY <1>9, <1>23, <2>3
<1>25. \A i \in e + 1 .. last : b[i] # Of("close", m.id)
  <2>1. TAKE i \in e + 1 .. last
  <2>2. i - (n + l) \in 2 .. w \/ i - (n + l + w) \in 1 .. v
    BY <1>11, <1>16, <1>17
  <2>3. i = n + l + (i - (n + l)) /\ i = n + l + w + (i - (n + l + w))
    BY <1>11, <1>16, <1>17
  <2>4. ASSUME NEW j \in 2 .. w, i = n + l + j
        PROVE  b[i].kind # "close"
    <3>1. j \in 1 .. w
      BY <1>11
    <3>2. b[i] = c[j]
      BY <1>20, <2>4, <3>1
    <3>3. QED
      BY <1>10, <3>2
  <2>5. ASSUME NEW j \in 1 .. v, i = n + l + w + j, b[i] = Of("close", m.id)
        PROVE  FALSE
    <3>1. z[j] = Of("close", m.id)
      BY <1>20, <2>5
    <3>2. j \in 1 .. Len(z)
      BY <1>8
    <3>3. m.id \in FenceIds(z)
      BY <1>23, <3>1, <3>2, MarkersAre DEF FenceKind
    <3>4. QED
      BY <3>3
  <2>6. QED
    BY <1>23, <2>2, <2>3, <2>4, <2>5
<1>26. ExtractBody(b, 2, m.id) = AsText(SubSeq(b, n + 1, e - 1))
  BY <1>11, <1>18, <1>19, <1>21, <1>24, <1>25, FencedBody, SMTT(30)
<1>27. SubSeq(b, n + 1, e - 1) = t
  <2>1. PICK s : s = SubSeq(b, n + 1, e - 1)
    OBVIOUS
  <2>2. PICK f \in Nat \ {0} : f = n + 1
    BY <1>11
  <2>3. PICK g \in Nat : g = e - 1 /\ g =< last /\ f =< g /\ g - f + 1 = l
    BY <1>11, <1>17, <1>18, <2>2
  <2>4. /\ s \in Seq(Line) /\ Len(s) = l
        /\ \A k \in 1 .. (g - f + 1) : s[k] = b[k + f - 1]
    BY <1>19, <2>1, <2>2, <2>3, StretchIsText
  <2>5. ASSUME NEW k \in 1 .. l
        PROVE  s[k] = t[k]
    <3>1. k + f - 1 = n + k
      BY <1>11, <2>2
    <3>2. QED
      BY <1>20, <2>3, <2>4, <3>1
  <2>6. s = t
    BY <1>2, <1>7, <2>4, <2>5, SeqEqual
  <2>7. QED
    BY <2>1, <2>6
<1>28. ExtractBody(b, 2, m.id) = t
  BY <1>2, <1>26, <1>27, Zenon DEF AsText
<1>29. IsMessage(b)
  BY <1>21, <1>22, MarkerIs DEF IsMessage
<1>30. ParseMessage(b) = [id |-> m.id, revision |-> m.revision, archived |-> m.archived, body |-> t]
  <2>1. /\ b[2].id = m.id /\ b[2].revision = m.revision /\ b[2].archived = m.archived
    BY <1>21 DEF MarkerOf
  <2>2. QED
    BY <1>22, <1>28, <2>1 DEF ParseMessage
<1>31. [m EXCEPT !.body = t] = [id |-> m.id, revision |-> m.revision, archived |-> m.archived, body |-> t]
  BY DEF Message
<1>32. QED
  BY <1>1, <1>14, <1>19, <1>21, <1>22, <1>29, <1>30, <1>31, Zenon

LEMMA CatHeads ==
  ASSUME NEW s \in Seq(Line), NEW t \in Seq(Line), Cut(s, t)
  PROVE  Heads(Cat(s, t)) = Heads(s) \cup {Len(s) + i : i \in Heads(t)}
BY HeadsOfConcat DEF Cat

LEMMA CatMarkers ==
  ASSUME NEW s \in Seq(Line), NEW t \in Seq(Line)
  PROVE  /\ MarkedIds(Cat(s, t)) = MarkedIds(s) \cup MarkedIds(t)
         /\ FenceIds(Cat(s, t)) = FenceIds(s) \cup FenceIds(t)
         /\ MarkedOnce(Cat(s, t)) <=>
              MarkedOnce(s) /\ MarkedOnce(t) /\ MarkedIds(s) \cap MarkedIds(t) = {}
BY MarkersOfConcat DEF Cat

LEMMA OpeningHolds ==
  ASSUME NEW m \in Message
  PROVE  /\ Heads(Opening(m)) = {1}
         /\ MarkedIds(Opening(m)) = {m.id} /\ MarkedOnce(Opening(m))
         /\ FenceIds(Opening(m)) = {m.id}
<1>1. PICK o : o = Opening(m)
  OBVIOUS
<1>2. PICK n : n = Len(o)
  OBVIOUS
<1>3. /\ o[1].kind = "heading" /\ o[2] = MarkerOf(m)
      /\ \A i \in 3 .. n - 1 : o[i].kind \in {"meta", "blank", "banner", "details"}
      /\ o[n] = Of("open", m.id)
  BY <1>1, <1>2, OpeningIs
<1>4. n \in Nat /\ n >= 5
  <2>1. n \in {5, 9}
    BY <1>1, <1>2, OpeningIs
  <2>2. QED
    BY <2>1
<1>5. /\ o[2].kind = "marker" /\ o[2].id = m.id /\ o[n].kind = "open" /\ o[n].id = m.id
  BY <1>3 DEF MarkerOf, Of
<1>6. \A i \in 1 .. n : i = 1 \/ i = 2 \/ i = n \/ i \in 3 .. n - 1
  BY <1>4
<1>7. 1 \in 1 .. n /\ 2 \in 1 .. n /\ n \in 1 .. n
  BY <1>4
<1>8. \A i \in 1 .. n : o[i].kind \in MarkerKind <=> i = 2
  BY <1>3, <1>5, <1>6 DEF MarkerKind
<1>9. \A i \in 1 .. n : o[i].kind \in FenceKind <=> i = n
  <2>1. 1 # n /\ 2 # n
    BY <1>4
  <2>2. QED
    BY <1>3, <1>5, <1>6, <2>1 DEF FenceKind
<1>10. \A i \in 1 .. n : o[i].kind = "heading" <=> i = 1
  <2>1. 1 # n /\ 2 # n
    BY <1>4
  <2>2. QED
    BY <1>3, <1>5, <1>6, <2>1
<1>11. o \in Seq(Line) /\ Len(o) = n
  BY <1>1, <1>2, OpeningIs
<1>12. /\ MarkerLines(o) = {i \in 1 .. n : o[i].kind \in MarkerKind}
       /\ MarkedIds(o) = {o[i].id : i \in {j \in 1 .. n : o[j].kind \in MarkerKind}}
       /\ FenceIds(o) = {o[i].id : i \in {j \in 1 .. n : o[j].kind \in FenceKind}}
  BY <1>11, MarkersAre
<1>13. MarkerLines(o) = {2} /\ MarkedIds(o) = {m.id} /\ FenceIds(o) = {m.id}
  BY <1>5, <1>7, <1>8, <1>9, <1>12
<1>14. MarkedOnce(o)
  BY <1>13 DEF MarkedOnce
<1>15. Heads(o) = {1}
  <2>1. \A j \in 1 .. n : ~ (1 < j /\ j < 2)
    BY <1>4
  <2>2. Marks(o, 1, 2)
    BY <1>5, <1>11, <2>1 DEF Marks, MarkerKind
  <2>3. MarkerIdx(o, 1) = {k \in 1 .. n : Marks(o, 1, k)}
    BY <1>7, <1>11, MarkerIdxIs
  <2>4. MarkerIdx(o, 1) # {}
    BY <1>7, <2>2, <2>3
  <2>5. DOMAIN o = 1 .. n
    BY <1>11
  <2>6. QED
    BY <1>7, <1>10, <2>4, <2>5 DEF Heads
<1>16. QED
  BY <1>1, <1>13, <1>14, <1>15

\* A text without headings, markers and fences.
LEMMA HoldsNothing ==
  ASSUME NEW t \in Seq(Line)
  PROVE  /\ (\A i \in 1 .. Len(t) : t[i].kind # "heading") => Heads(t) = {}
         /\ (\A i \in 1 .. Len(t) : t[i].kind \notin MarkerKind) => MarkedIds(t) = {} /\ MarkedOnce(t)
         /\ (\A i \in 1 .. Len(t) : t[i].kind \notin FenceKind) => FenceIds(t) = {}
<1>1. (\A i \in 1 .. Len(t) : t[i].kind # "heading") => Heads(t) = {}
  BY HeadsAreLines DEF Heads
<1>2. QED
  BY <1>1, MarkersAre DEF MarkedOnce

LEMMA ClosingHolds ==
  ASSUME NEW m \in Message
  PROVE  /\ Heads(Closing(m)) = {}
         /\ MarkedIds(Closing(m)) = {} /\ MarkedOnce(Closing(m))
         /\ FenceIds(Closing(m)) = {m.id}
<1>1. PICK c : c = Closing(m)
  OBVIOUS
<1>2. PICK w : w = Len(c)
  OBVIOUS
<1>3. /\ c[1] = Of("close", m.id)
      /\ \A i \in 2 .. w : c[i].kind \in {"blank", "details end", "rule"}
  BY <1>1, <1>2, ClosingIs
<1>4. w \in Nat /\ w >= 3
  <2>1. w \in {3, 5}
    BY <1>1, <1>2, ClosingIs
  <2>2. QED
    BY <2>1
<1>5. c[1].kind = "close" /\ c[1].id = m.id
  <2>1. c[1] = Of("close", m.id)
    BY <1>3
  <2>2. QED
    BY <2>1 DEF Of
<1>6. (\A i \in 1 .. w : i = 1 \/ i \in 2 .. w) /\ 1 \in 1 .. w
  BY <1>4
<1>7. c \in Seq(Line) /\ w = Len(c)
  BY <1>1, <1>2, ClosingIs
<1>8. \A i \in 1 .. w : c[i].kind # "heading" /\ c[i].kind \notin MarkerKind
  BY <1>3, <1>5, <1>6 DEF MarkerKind
<1>9. \A i \in 1 .. w : c[i].kind \in FenceKind <=> i = 1
  <2>1. \A i \in 2 .. w : i # 1
    BY <1>4
  <2>2. QED
    BY <1>3, <1>5, <1>6, <2>1 DEF FenceKind
<1>10. FenceIds(c) = {c[i].id : i \in {j \in 1 .. w : c[j].kind \in FenceKind}}
  BY <1>7, MarkersAre
<1>11. FenceIds(c) = {m.id}
  BY <1>5, <1>6, <1>9, <1>10
<1>12. QED
  BY <1>1, <1>7, <1>8, <1>11, HoldsNothing

\* A rendered message is one block, whatever stands below it that starts none.
LEMMA RenderedHolds ==
  ASSUME NEW m \in Message, NEW z \in Seq(Line), Heads(z) = {}, Heads(Trim(m.body)) = {}
  PROVE  LET b == FormatMessage(m) \o z
             t == Trim(m.body)
         IN  /\ Heads(b) = {1}
             /\ MarkedIds(b) = {m.id} \cup MarkedIds(t) \cup MarkedIds(z)
             /\ FenceIds(b) = {m.id} \cup FenceIds(t) \cup FenceIds(z)
             /\ MarkedOnce(t) /\ MarkedOnce(z) /\ m.id \notin MarkedIds(t)
                /\ ({m.id} \cup MarkedIds(t)) \cap MarkedIds(z) = {} => MarkedOnce(b)
<1>1. PICK t : t = Trim(m.body)
  OBVIOUS
<1>2. t \in Seq(Line) /\ t # <<>> /\ Heads(t) = {}
  BY <1>1, TrimIsText DEF Message
<1>3. PICK o : o = Opening(m)
  OBVIOUS
<1>4. PICK c : c = Closing(m)
  OBVIOUS
<1>5. PICK x : x = Cat(o, t)
  OBVIOUS
<1>6. PICK y : y = Cat(x, c)
  OBVIOUS
<1>7. PICK b : b = Cat(y, z)
  OBVIOUS
<1>8. b = FormatMessage(m) \o z
  BY <1>1, <1>2, <1>3, <1>4, <1>5, <1>6, <1>7, RenderIs, Zenon DEF Cat
<1>9. o \in Seq(Line) /\ c \in Seq(Line)
  BY <1>3, <1>4, OpeningIs, ClosingIs
<1>10. x \in Seq(Line) /\ Len(x) = Len(o) + Len(t)
  BY <1>2, <1>5, <1>9, CatLines
<1>11. /\ y \in Seq(Line) /\ Len(y) = Len(x) + Len(c)
       /\ \A i \in 1 .. Len(c) : y[Len(x) + i] = c[i]
  BY <1>6, <1>9, <1>10, CatLines
<1>12. Heads(x) = {1}
  <2>1. o[Len(o)].kind = "open"
    BY <1>3, OpeningIs, MarkerIs
  <2>2. Cut(o, t)
    BY <2>1 DEF Cut
  <2>3. Heads(x) = Heads(o) \cup {Len(o) + i : i \in Heads(t)}
    BY <1>2, <1>5, <1>9, <2>2, CatHeads
  <2>4. Heads(o) = {1}
    BY <1>3, OpeningHolds
  <2>5. QED
    BY <1>2, <2>3, <2>4
<1>13. Heads(y) = {1}
  <2>1. c[1].kind = "close"
    BY <1>4, ClosingIs, MarkerIs
  <2>2. Cut(x, c)
    BY <2>1 DEF Cut, MarkerKind
  <2>3. Heads(y) = Heads(x) \cup {Len(x) + i : i \in Heads(c)}
    BY <1>6, <1>9, <1>10, <2>2, CatHeads
  <2>4. Heads(c) = {}
    BY <1>4, ClosingHolds
  <2>5. QED
    BY <1>12, <2>3, <2>4
<1>14. Heads(b) = {1}
  <2>1. PICK w : w = Len(c)
    OBVIOUS
  <2>2. c[w].kind = "rule" /\ w \in {3, 5}
    BY <1>4, <2>1, ClosingIs
  <2>3. w \in 1 .. w
    BY <2>2
  <2>4. y[Len(y)].kind = "rule"
    BY <1>11, <2>1, <2>2, <2>3
  <2>5. Cut(y, z)
    BY <2>4 DEF Cut
  <2>6. Heads(b) = Heads(y) \cup {Len(y) + i : i \in Heads(z)}
    BY <1>7, <1>11, <2>5, CatHeads
  <2>7. QED
    BY <1>13, <2>6
<1>15. MarkedIds(o) = {m.id} /\ MarkedOnce(o) /\ FenceIds(o) = {m.id}
  BY <1>3, OpeningHolds
<1>16. MarkedIds(c) = {} /\ MarkedOnce(c) /\ FenceIds(c) = {m.id}
  BY <1>4, ClosingHolds
<1>17. /\ MarkedIds(x) = MarkedIds(o) \cup MarkedIds(t) /\ FenceIds(x) = FenceIds(o) \cup FenceIds(t)
       /\ MarkedOnce(x) <=> MarkedOnce(o) /\ MarkedOnce(t) /\ MarkedIds(o) \cap MarkedIds(t) = {}
  BY <1>2, <1>5, <1>9, CatMarkers
<1>18. /\ MarkedIds(y) = MarkedIds(x) \cup MarkedIds(c) /\ FenceIds(y) = FenceIds(x) \cup FenceIds(c)
       /\ MarkedOnce(y) <=> MarkedOnce(x) /\ MarkedOnce(c) /\ MarkedIds(x) \cap MarkedIds(c) = {}
  BY <1>6, <1>9, <1>10, CatMarkers
<1>19. /\ MarkedIds(b) = MarkedIds(y) \cup MarkedIds(z) /\ FenceIds(b) = FenceIds(y) \cup FenceIds(z)
       /\ MarkedOnce(b) <=> MarkedOnce(y) /\ MarkedOnce(z) /\ MarkedIds(y) \cap MarkedIds(z) = {}
  BY <1>7, <1>11, CatMarkers
<1>20. MarkedIds(y) = {m.id} \cup MarkedIds(t)
  BY <1>15, <1>16, <1>17, <1>18
<1>21. FenceIds(b) = {m.id} \cup FenceIds(t) \cup FenceIds(z)
  BY <1>15, <1>16, <1>17, <1>18, <1>19
<1>22. MarkedOnce(t) /\ MarkedOnce(z) /\ m.id \notin MarkedIds(t)
         /\ ({m.id} \cup MarkedIds(t)) \cap MarkedIds(z) = {} => MarkedOnce(b)
  BY <1>15, <1>16, <1>17, <1>18, <1>19, <1>20
<1>23. QED
  BY <1>1, <1>8, <1>14, <1>19, <1>20, <1>21, <1>22

--------------------------------------------------------------------------------
(* What is read in a block. *)

LEMMA UnwrapStays ==
  ASSUME NEW b \in Seq(Line), NEW k \in Nat, NEW t, Within(t, b, k)
  PROVE  Within(UnwrapArchived(t), b, k)
<1> DEFINE opens  == {i \in DOMAIN t : t[i].kind = "details"}
           closes == {i \in DOMAIN t : t[i].kind = "details end" /\ i > Min(opens)}
<1>1. DOMAIN t = 1 .. Len(t) /\ Len(t) \in Nat
  BY WithinIs
<1>2. CASE opens = {} \/ closes = {}
  BY <1>2, Zenon DEF UnwrapArchived
<1>3. CASE opens # {} /\ closes # {}
  <2>0. opens \subseteq 1 .. Len(t) /\ closes \subseteq 1 .. Len(t)
    BY <1>1, Zenon
  <2>1. opens \in SUBSET Nat /\ closes \in SUBSET Nat /\ \A i \in closes : i =< Len(t)
    <3> HIDE DEF opens, closes
    <3>1. QED
      BY <1>1, <2>0
  <2>2. Min(opens) \in opens
    BY <1>3, <2>1, LeastOf
  <2>3. Max(closes) \in closes
    BY <1>1, <1>3, <2>1, GreatestOf
  <2>4. PICK i \in 1 .. Len(t), j \in 1 .. Len(t) : i = Min(opens) /\ j = Max(closes)
    BY <1>1, <2>2, <2>3
  <2>5. i + 1 \in Nat \ {0} /\ j - 1 \in Nat /\ j - 1 =< Len(t)
    BY <1>1
  <2>6. Within(SubSeq(t, i + 1, j - 1), b, k)
    BY <2>5, WithinStretch
  <2>7. PICK u : u = SubSeq(t, i + 1, j - 1)
    OBVIOUS
  <2>8. Within(StripBlankEdges(u), b, k)
    BY <2>6, <2>7, WithinStrip
  <2>9. UnwrapArchived(t) = StripBlankEdges(SubSeq(t, Min(opens) + 1, Max(closes) - 1))
    BY <1>3, Zenon DEF UnwrapArchived
  <2>10. QED
    BY <2>4, <2>7, <2>8, <2>9
<1>4. QED
  BY <1>2, <1>3

LEMMA StretchWithin ==
  ASSUME NEW b \in Seq(Line), NEW k \in Nat, NEW i \in Nat, NEW j \in Int, k < i, j =< Len(b)
  PROVE  Within(SubSeq(b, i, j), b, k)
<1>1. Len(b) \in Nat
  OBVIOUS
<1>2. CASE i > j
  BY <1>2, SubSeqEmpty DEF Within
<1>3. CASE i =< j
  BY <1>1, <1>3 DEF Within
<1>4. QED
  BY <1>2, <1>3

LEMMA LegacyWithin ==
  ASSUME NEW b \in Seq(Line), NEW k \in Nat, k =< Len(b)
  PROVE  Within(LegacyBody(b, k), b, k) /\ LegacyBody(b, k) # NoBody
<1>1. PICK n \in Nat : n = Len(b) /\ DOMAIN b = 1 .. n
  OBVIOUS
<1> DEFINE blanks == {i \in DOMAIN b : i > k /\ b[i].kind = "blank"} \cup {Len(b) + 1}
<1>2. PICK s \in Nat : s = Min(blanks) + 1 /\ s > k + 1
  <2>1. blanks \in SUBSET Nat /\ blanks # {} /\ \A i \in blanks : i > k
    BY <1>1
  <2>2. Min(blanks) \in blanks
    BY <2>1, LeastOf
  <2> HIDE DEF blanks
  <2>3. Min(blanks) \in Nat /\ Min(blanks) > k
    BY <2>1, <2>2
  <2>4. QED
    BY <2>3
<1> DEFINE rules == {i \in DOMAIN b : i >= s /\ b[i].kind = "rule"} \cup {Len(b) + 1}
<1>3. PICK e \in Nat : e = Min(rules) /\ e =< n + 1
  <2>1. rules \in SUBSET Nat /\ rules # {} /\ \A i \in rules : i =< n + 1
    BY <1>1
  <2>2. Min(rules) \in rules
    BY <2>1, LeastOf
  <2> HIDE DEF rules
  <2>3. Min(rules) \in Nat /\ Min(rules) =< n + 1
    BY <2>1, <2>2
  <2>4. QED
    BY <2>3
<1>4. PICK t : t = SubSeq(b, s, e - 1)
  OBVIOUS
<1>5. k < s /\ e - 1 \in Int /\ e - 1 =< Len(b)
  BY <1>1, <1>2, <1>3
<1>6. Within(t, b, k)
  BY <1>4, <1>5, StretchWithin
<1>7. PICK u : u = UnwrapArchived(t)
  OBVIOUS
<1>8. Within(u, b, k)
  BY <1>6, <1>7, UnwrapStays
<1>9. LegacyBody(b, k) = Trim(u)
  BY <1>2, <1>3, <1>4, <1>7, Zenon DEF LegacyBody
<1>10. QED
  BY <1>8, <1>9, WithinTrim

LEMMA ExtractWithin ==
  ASSUME NEW b \in Seq(Line), NEW k \in Nat, k =< Len(b), NEW id
  PROVE  \/ ExtractBody(b, k, id) = NoBody
         \/ Within(ExtractBody(b, k, id), b, k) /\ ExtractBody(b, k, id) # NoBody
<1> DEFINE opens  == {i \in DOMAIN b : i > k /\ b[i] = Of("open", id)}
           closes == {i \in DOMAIN b : i > Min(opens) /\ b[i] = Of("close", id)}
<1>1. CASE opens = {}
  <2>1. ExtractBody(b, k, id) = LegacyBody(b, k)
    BY <1>1, Zenon DEF ExtractBody
  <2>2. QED
    BY <2>1, LegacyWithin
<1>2. CASE opens # {} /\ closes = {}
  BY <1>2, Zenon DEF ExtractBody
<1>3. CASE opens # {} /\ closes # {}
  <2>1. PICK n \in Nat : n = Len(b) /\ DOMAIN b = 1 .. n
    OBVIOUS
  <2>2. opens \in SUBSET Nat /\ closes \in SUBSET Nat /\ \A i \in closes : i =< n
    BY <2>1
  <2>3. Min(opens) \in opens
    BY <1>3, <2>2, LeastOf
  <2>4. Max(closes) \in closes
    BY <1>3, <2>2, GreatestOf
  <2>5. PICK i \in Nat, j \in Nat : i = Min(opens) /\ j = Max(closes) /\ i > k /\ j =< n
    BY <2>2, <2>3, <2>4
  <2>6. PICK t : t = SubSeq(b, i + 1, j - 1)
    OBVIOUS
  <2>7. Within(t, b, k)
    BY <2>1, <2>5, <2>6, StretchWithin
  <2>8. ExtractBody(b, k, id) = AsText(t)
    BY <1>3, <2>5, <2>6, Zenon DEF ExtractBody
  <2>9. QED
    BY <2>7, <2>8, WithinTrim
<1>4. QED
  BY <1>1, <1>2, <1>3

\* A message has the id of a marker of its block.  Its body, if it could be read, is
\* a stretch of its block without that marker, and starts no block.
LEMMA ParseIs ==
  ASSUME NEW b \in Seq(Line), Heads(b) = {1}, IsMessage(b)
  PROVE  LET m == ParseMessage(b)
             t == Trim(m.body)
         IN  /\ m \in Message /\ m.id \in MarkedIds(b)
             /\ m.body # NoBody =>
                  /\ Heads(t) = {}
                  /\ MarkedIds(t) \subseteq MarkedIds(b) /\ FenceIds(t) \subseteq FenceIds(b)
                  /\ MarkedOnce(b) => MarkedOnce(t) /\ m.id \notin MarkedIds(t)
<1>1. PICK k \in MarkerIdx(b, 1) : b[k].kind = "marker"
  BY DEF IsMessage
<1>2. PICK n \in Nat : n = Len(b) /\ 1 \in 1 .. n
  BY HeadsAreLines
<1>3. Min(MarkerIdx(b, 1)) = k /\ k \in 1 .. n /\ k > 1
  <2>1. Min(MarkerIdx(b, 1)) = k /\ k \in 1 .. n
    BY <1>2, OneMarkerIdx
  <2>2. Marks(b, 1, k)
    BY <1>2, MarkerIdxIs
  <2>3. QED
    BY <2>1, <2>2 DEF Marks
<1>4. PICK m : m = ParseMessage(b)
  OBVIOUS
<1>5. PICK body : body = ExtractBody(b, k, b[k].id)
  OBVIOUS
<1>6. m = [id |-> b[k].id, revision |-> b[k].revision, archived |-> b[k].archived, body |-> body]
  BY <1>3, <1>4, <1>5, Zenon DEF ParseMessage
<1>7. k \in Nat /\ k =< Len(b)
  BY <1>2, <1>3
<1>8. body = NoBody \/ (Within(body, b, k) /\ body # NoBody)
  BY <1>5, <1>7, ExtractWithin
<1>9. body \in Seq(Line) \cup {NoBody}
  BY <1>7, <1>8, WithinIs
<1>10. b[k] \in Line
  BY <1>2, <1>3
<1>11. m \in Message
  BY <1>6, <1>9, <1>10 DEF Message, Line
<1>12. k \in MarkerLines(b) /\ b[k].id \in MarkedIds(b)
  BY <1>1, <1>2, <1>3, MarkersAre DEF MarkerKind
<1>13. PICK t : t = Trim(body)
  OBVIOUS
<1>14. ASSUME body # NoBody
       PROVE  /\ Heads(t) = {}
              /\ MarkedIds(t) \subseteq MarkedIds(b) /\ FenceIds(t) \subseteq FenceIds(b)
              /\ MarkedOnce(b) => MarkedOnce(t) /\ b[k].id \notin MarkedIds(t)
  <2>1. Within(t, b, k)
    BY <1>7, <1>8, <1>13, <1>14, WithinTrim
  <2>2. Heads(b) \subseteq 1 .. k
    BY <1>3
  <2>3. QED
    BY <1>7, <1>12, <2>1, <2>2, WithinMarks
<1>15. m.id = b[k].id /\ m.body = body
  BY <1>6
<1>16. QED
  BY <1>4, <1>11, <1>12, <1>13, <1>14, <1>15

--------------------------------------------------------------------------------
(* What is read in a file. *)

\* A channel starts below its header, and no two of its markers have the same id.
Sound(ls) == ls \in Seq(Line) /\ ls # <<>> /\ ls[1].kind = "blank" /\ MarkedOnce(ls)

MessagesIn(ls) == {ParseMessage(b) : b \in {c \in Blocks(ls) : IsMessage(c)}}

\* The text ls is p, the block b, and r.
Stacked(ls, p, b, r) ==
  /\ ls \in Seq(Line)
  /\ Blocks(ls) = Blocks(p) \cup {b} \cup Blocks(r)
  /\ MarkedIds(ls) = MarkedIds(p) \cup MarkedIds(b) \cup MarkedIds(r)
  /\ FenceIds(ls) = FenceIds(p) \cup FenceIds(b) \cup FenceIds(r)
  /\ MarkedOnce(ls) <=>
       /\ MarkedOnce(p) /\ MarkedOnce(b) /\ MarkedOnce(r)
       /\ MarkedIds(p) \cap MarkedIds(b) = {} /\ MarkedIds(p) \cap MarkedIds(r) = {}
       /\ MarkedIds(b) \cap MarkedIds(r) = {}

LEMMA ThreeHold ==
  ASSUME NEW p \in Seq(Line), NEW b \in Seq(Line), NEW r \in Seq(Line),
         Heads(b) = {1}, r = <<>> \/ 1 \in Heads(r)
  PROVE  Stacked(Cat(p, Cat(b, r)), p, b, r)
<1>1. PICK x : x = Cat(b, r)
  OBVIOUS
<1>2. x \in Seq(Line)
  BY <1>1, CatIs
<1>3. PICK ls : ls = Cat(p, x)
  OBVIOUS
<1>4. ls \in Seq(Line)
  BY <1>2, <1>3, CatIs
<1>5. Blocks(x) = {b} \cup Blocks(r)
  BY <1>1, BlocksOfConcat, BlocksOfOne DEF Cat
<1>6. 1 \in Heads(x)
  <2>1. r = <<>> \/ r[1].kind = "heading"
    BY DEF Heads
  <2>2. Cut(b, r)
    BY <2>1 DEF Cut, MarkerKind
  <2>3. QED
    BY <1>1, <2>2, CatHeads
<1>7. Blocks(ls) = Blocks(p) \cup Blocks(x)
  BY <1>2, <1>3, <1>6, BlocksOfConcat DEF Cat
<1>8. /\ MarkedIds(x) = MarkedIds(b) \cup MarkedIds(r) /\ FenceIds(x) = FenceIds(b) \cup FenceIds(r)
      /\ MarkedOnce(x) <=> MarkedOnce(b) /\ MarkedOnce(r) /\ MarkedIds(b) \cap MarkedIds(r) = {}
  BY <1>1, CatMarkers
<1>9. /\ MarkedIds(ls) = MarkedIds(p) \cup MarkedIds(x) /\ FenceIds(ls) = FenceIds(p) \cup FenceIds(x)
      /\ MarkedOnce(ls) <=> MarkedOnce(p) /\ MarkedOnce(x) /\ MarkedIds(p) \cap MarkedIds(x) = {}
  BY <1>2, <1>3, CatMarkers
<1>10. MarkedOnce(ls) <=>
                  /\ MarkedOnce(p) /\ MarkedOnce(b) /\ MarkedOnce(r)
                  /\ MarkedIds(p) \cap MarkedIds(b) = {} /\ MarkedIds(p) \cap MarkedIds(r) = {}
                  /\ MarkedIds(b) \cap MarkedIds(r) = {}
  BY <1>8, <1>9
<1>11. /\ Blocks(ls) = Blocks(p) \cup {b} \cup Blocks(r)
       /\ MarkedIds(ls) = MarkedIds(p) \cup MarkedIds(b) \cup MarkedIds(r)
       /\ FenceIds(ls) = FenceIds(p) \cup FenceIds(b) \cup FenceIds(r)
  BY <1>5, <1>7, <1>8, <1>9
<1>12. QED
  BY <1>1, <1>3, <1>4, <1>10, <1>11 DEF Stacked

\* A block of a text, and what stands before and after it.
LEMMA BlockStands ==
  ASSUME NEW ls \in Seq(Line), NEW c \in Blocks(ls)
  PROVE  \E p, r \in Seq(Line) :
           /\ ls = Cat(p, Cat(c, r)) /\ c \in Seq(Line)
           /\ Heads(c) = {1} /\ (r = <<>> \/ 1 \in Heads(r))
<1>1. PICK h \in Heads(ls) : c = BlockAt(ls, h)
  BY DEF Blocks
<1>2. PICK p : p = SubSeq(ls, 1, h - 1)
  OBVIOUS
<1>3. PICK r : r = SubSeq(ls, BlockEnd(ls, h), Len(ls))
  OBVIOUS
<1>4. /\ p \in Seq(Line) /\ c \in Seq(Line) /\ r \in Seq(Line)
      /\ ls = p \o (c \o r)
      /\ Heads(c) = {1} /\ (r = <<>> \/ 1 \in Heads(r))
  BY <1>1, <1>2, <1>3, BlockSplits, Zenon
<1>5. QED
  BY <1>4, Zenon DEF Cat

LEMMA BlockHolds ==
  ASSUME NEW ls \in Seq(Line), NEW c \in Blocks(ls)
  PROVE  /\ c \in Seq(Line) /\ Heads(c) = {1}
         /\ MarkedIds(c) \subseteq MarkedIds(ls) /\ FenceIds(c) \subseteq FenceIds(ls)
         /\ MarkedOnce(ls) => MarkedOnce(c)
<1>1. PICK p \in Seq(Line), r \in Seq(Line) :
        /\ ls = Cat(p, Cat(c, r)) /\ c \in Seq(Line)
        /\ Heads(c) = {1} /\ (r = <<>> \/ 1 \in Heads(r))
  BY BlockStands
<1>2. QED
  BY <1>1, ThreeHold DEF Stacked

\* No two blocks have a marker of one id.
LEMMA BlockUnique ==
  ASSUME NEW ls \in Seq(Line), MarkedOnce(ls), NEW b \in Blocks(ls), NEW c \in Blocks(ls),
         NEW id \in MarkedIds(b), id \in MarkedIds(c)
  PROVE  b = c
<1>1. PICK p \in Seq(Line), r \in Seq(Line) :
        /\ ls = Cat(p, Cat(b, r)) /\ b \in Seq(Line)
        /\ Heads(b) = {1} /\ (r = <<>> \/ 1 \in Heads(r))
  BY BlockStands
<1>2. /\ Blocks(ls) = Blocks(p) \cup {b} \cup Blocks(r)
      /\ MarkedIds(p) \cap MarkedIds(b) = {} /\ MarkedIds(b) \cap MarkedIds(r) = {}
  BY <1>1, ThreeHold, SMTT(30) DEF Stacked
<1>3. c \notin Blocks(p) /\ c \notin Blocks(r)
  BY <1>2, BlockHolds
<1>4. QED
  BY <1>2, <1>3

LEMMA MessageIsIn ==
  ASSUME NEW ls \in Seq(Line), NEW m \in MessagesIn(ls)
  PROVE  /\ m \in Message /\ m.id \in MarkedIds(ls)
         /\ \E b \in Blocks(ls) : IsMessage(b) /\ m = ParseMessage(b) /\ m.id \in MarkedIds(b)
<1>1. PICK b \in Blocks(ls) : IsMessage(b) /\ m = ParseMessage(b)
  BY DEF MessagesIn
<1>2. b \in Seq(Line) /\ Heads(b) = {1} /\ MarkedIds(b) \subseteq MarkedIds(ls)
  BY BlockHolds
<1>3. m \in Message /\ m.id \in MarkedIds(b)
  BY <1>1, <1>2, ParseIs
<1>4. QED
  BY <1>1, <1>2, <1>3

LEMMA OneMessage ==
  ASSUME NEW ls \in Seq(Line), MarkedOnce(ls),
         NEW m \in MessagesIn(ls), NEW n \in MessagesIn(ls), m.id = n.id
  PROVE  m = n
<1>1. PICK b \in Blocks(ls) : m = ParseMessage(b) /\ m.id \in MarkedIds(b)
  BY MessageIsIn
<1>2. PICK c \in Blocks(ls) : n = ParseMessage(c) /\ n.id \in MarkedIds(c)
  BY MessageIsIn
<1>3. b = c
  BY <1>1, <1>2, BlockUnique
<1>4. QED
  BY <1>1, <1>2, <1>3

LEMMA StartsAreHeads ==
  ASSUME NEW ls, Sound(ls)
  PROVE  BlockStarts(ls) = Heads(ls) /\ Messages(ls) = MessagesIn(ls)
<1>1. ls \in Seq(Line) /\ ls[1].kind = "blank"
  BY DEF Sound
<1>2. \A h \in DOMAIN ls : ls[h].kind = "heading" => h > 1
  BY <1>1
<1>3. BlockStarts(ls) = Heads(ls)
  BY <1>2 DEF BlockStarts, Heads
<1>4. QED
  BY <1>3, Zenon DEF Messages, MessagesIn, Blocks

\* What a reader is shown are the messages of the blocks, by their ids.
LEMMA BookIs ==
  ASSUME NEW ls, Sound(ls)
  PROVE  LET B == ParseChannel(ls)
         IN  /\ B = [id \in DOMAIN B |-> B[id]]
             /\ \A id \in DOMAIN B : B[id] \in MessagesIn(ls) /\ B[id].id = id
             /\ \A m \in MessagesIn(ls) : m.id \in DOMAIN B /\ B[m.id] = m
<1>1. PICK M : M = MessagesIn(ls)
  OBVIOUS
<1>2. PICK B : B = ParseChannel(ls)
  OBVIOUS
<1>3. B = [id \in {m.id : m \in M} |-> CHOOSE m \in M : m.id = id]
  <2>1. Messages(ls) = M
    BY <1>1, StartsAreHeads
  <2>2. QED
    BY <1>2, <2>1 DEF ParseChannel
<1>4. ASSUME NEW id \in DOMAIN B
      PROVE  B[id] \in M /\ B[id].id = id
  <2>1. \E m \in M : m.id = id
    BY <1>3
  <2>2. B[id] = CHOOSE m \in M : m.id = id
    BY <1>3
  <2>3. QED
    BY <2>1, <2>2
<1>5. ASSUME NEW m \in M
      PROVE  m.id \in DOMAIN B /\ B[m.id] = m
  <2>1. m.id \in DOMAIN B
    BY <1>3
  <2>2. B[m.id] \in M /\ B[m.id].id = m.id
    BY <1>4, <2>1
  <2>3. QED
    BY <1>1, <2>1, <2>2, OneMessage DEF Sound
<1>6. B = [id \in DOMAIN B |-> B[id]]
  BY <1>3
<1>7. QED
  BY <1>1, <1>2, <1>4, <1>5, <1>6

\* The book C is the book B but for the message y.
ButFor(C, B, y) ==
  /\ C = [i \in DOMAIN B \cup {y.id} |-> IF i = y.id THEN C[y.id] ELSE B[i]]
  /\ y.id \in DOMAIN C /\ C[y.id] = y

\* The book of a file in which one message has come, or come in the place of another.
LEMMA BookChanges ==
  ASSUME NEW ls, Sound(ls), NEW new, Sound(new), NEW R, NEW y,
         R = {m \in MessagesIn(ls) : m.id # y.id}, MessagesIn(new) = R \cup {y}
  PROVE  ButFor(ParseChannel(new), ParseChannel(ls), y)
<1>1. PICK B : B = ParseChannel(ls)
  OBVIOUS
<1>2. PICK C : C = ParseChannel(new)
  OBVIOUS
<1>3. /\ \A id \in DOMAIN B : B[id] \in MessagesIn(ls) /\ B[id].id = id
      /\ \A m \in MessagesIn(ls) : m.id \in DOMAIN B /\ B[m.id] = m
  BY <1>1, BookIs
<1>4. /\ C = [id \in DOMAIN C |-> C[id]]
      /\ \A id \in DOMAIN C : C[id] \in MessagesIn(new) /\ C[id].id = id
      /\ \A m \in MessagesIn(new) : m.id \in DOMAIN C /\ C[m.id] = m
  BY <1>2, BookIs
<1>5. y.id \in DOMAIN C /\ C[y.id] = y
  BY <1>4
<1>6. DOMAIN C = DOMAIN B \cup {y.id}
  <2>1. ASSUME NEW id \in DOMAIN C, id # y.id
        PROVE  id \in DOMAIN B
    BY <1>3, <1>4, <2>1
  <2>2. ASSUME NEW id \in DOMAIN B, id # y.id
        PROVE  id \in DOMAIN C
    BY <1>3, <1>4, <2>2
  <2>3. QED
    BY <1>5, <2>1, <2>2
<1>7. ASSUME NEW id \in DOMAIN C, id # y.id
      PROVE  C[id] = B[id]
  BY <1>3, <1>4, <1>7
<1>8. C = [i \in DOMAIN B \cup {y.id} |-> IF i = y.id THEN C[y.id] ELSE B[i]]
  BY <1>4, <1>6, <1>7
<1>9. QED
  BY <1>1, <1>2, <1>5, <1>8 DEF ButFor

\* Where a message is found, and what is read there.
LEMMA FoundIs ==
  ASSUME NEW ls, Sound(ls), NEW id \in DOMAIN ParseChannel(ls)
  PROVE  /\ Found(ls, id) # {} /\ FindMessageBlock(ls, id) \in Heads(ls)
         /\ IsMessage(BlockAt(ls, FindMessageBlock(ls, id)))
         /\ ParseChannel(ls)[id] = ParseMessage(BlockAt(ls, FindMessageBlock(ls, id)))
         /\ ParseChannel(ls)[id].id = id
<1>1. PICK B : B = ParseChannel(ls)
  OBVIOUS
<1>2. B[id] \in MessagesIn(ls) /\ B[id].id = id
  BY <1>1, BookIs
<1>3. Found(ls, id) = {h \in Heads(ls) : IsMessage(BlockAt(ls, h)) /\ ParseMessage(BlockAt(ls, h)).id = id}
  BY StartsAreHeads DEF Found
<1>4. PICK b \in Blocks(ls) : IsMessage(b) /\ B[id] = ParseMessage(b)
  BY <1>2 DEF MessagesIn
<1>5. Found(ls, id) # {}
  BY <1>2, <1>3, <1>4 DEF Blocks
<1>6. Found(ls, id) \in SUBSET Nat
  BY <1>3, HeadsAreLines DEF Sound
<1>7. PICK h \in Found(ls, id) : h = FindMessageBlock(ls, id)
  BY <1>5, <1>6, LeastOf DEF FindMessageBlock
<1>8. PICK c : c = BlockAt(ls, h)
  OBVIOUS
<1>9. c \in Blocks(ls) /\ IsMessage(c) /\ ParseMessage(c).id = id
  BY <1>3, <1>7, <1>8 DEF Blocks
<1>10. ParseMessage(c) \in MessagesIn(ls)
  BY <1>9 DEF MessagesIn
<1>11. ParseMessage(c) = B[id]
  BY <1>2, <1>9, <1>10, OneMessage DEF Sound
<1>12. h \in Heads(ls)
  BY <1>3, <1>7
<1>13. QED
  BY <1>1, <1>2, <1>5, <1>7, <1>8, <1>9, <1>11, <1>12

--------------------------------------------------------------------------------
(* Files as the service writes them. *)

NoControl(t) == \A i \in 1 .. Len(t) : t[i].kind \notin Control

\* Lines that a body of the message id can have: fences of its own at the most.
Clean(t, id) == \A i \in 1 .. Len(t) : t[i].kind \in Control => t[i].kind \in FenceKind /\ t[i].id = id

\* Where the message of such a block is read.
LEMMA SecondMarks ==
  ASSUME NEW b \in Seq(Line), Len(b) >= 2, b[2].kind = "marker"
  PROVE  /\ IsMessage(b)
         /\ ParseMessage(b) = [id |-> b[2].id, revision |-> b[2].revision, archived |-> b[2].archived,
                               body |-> ExtractBody(b, 2, b[2].id)]
<1>1. 1 \in 1 .. Len(b) /\ 2 \in 1 .. Len(b)
  OBVIOUS
<1>2. Marks(b, 1, 2)
  <2>1. \A j \in 1 .. Len(b) : ~ (1 < j /\ j < 2)
    OBVIOUS
  <2>2. QED
    BY <2>1 DEF Marks, MarkerKind
<1>3. 2 \in MarkerIdx(b, 1)
  BY <1>1, <1>2, MarkerIdxIs
<1>4. Min(MarkerIdx(b, 1)) = 2
  BY <1>1, <1>3, OneMarkerIdx
<1>5. IsMessage(b)
  BY <1>3 DEF IsMessage
<1>6. QED
  BY <1>4, <1>5, Zenon DEF ParseMessage

\* Its body can be written into such a block again.
LEMMA TidyBody ==
  ASSUME NEW b \in Seq(Line), TidyBlock(b), ParseMessage(b).body # NoBody
  PROVE  Clean(Trim(ParseMessage(b).body), ParseMessage(b).id)
<1>1. PICK id : id = b[2].id
  OBVIOUS
<1>2. /\ Len(b) >= 2 /\ b[2].kind = "marker"
      /\ \A i \in 3 .. Len(b) : b[i].kind \in Control => b[i].kind \in FenceKind /\ b[i].id = id
  BY <1>1 DEF TidyBlock, FenceKind
<1>3. PICK t : t = ExtractBody(b, 2, id)
  OBVIOUS
<1>4. ParseMessage(b).id = id /\ ParseMessage(b).body = t
  <2>1. ParseMessage(b) = [id |-> b[2].id, revision |-> b[2].revision, archived |-> b[2].archived,
                           body |-> ExtractBody(b, 2, b[2].id)]
    BY <1>2, SecondMarks
  <2>2. QED
    BY <1>1, <1>3, <2>1
<1>5. Within(t, b, 2)
  <2>1. 2 \in Nat /\ 2 =< Len(b)
    BY <1>2
  <2>2. QED
    BY <1>3, <1>4, <2>1, ExtractWithin
<1>6. PICK s : s = Trim(t)
  OBVIOUS
<1>7. Within(s, b, 2)
  BY <1>5, <1>6, WithinTrim
<1>8. \A x \in 1 .. Len(s) : s[x] = Blank \/ \E y \in 3 .. Len(b) : s[x] = b[y]
  <2>1. \A x \in 1 .. Len(s) : s[x] = Blank \/ \E y \in (2 + 1) .. Len(b) : s[x] = b[y]
    BY <1>7, WithinIs
  <2>2. 2 + 1 = 3
    OBVIOUS
  <2>3. QED
    BY <2>1, <2>2
<1>9. Blank.kind \notin Control
  BY BlankIs DEF Control
<1>10. Clean(s, id)
  BY <1>2, <1>8, <1>9 DEF Clean
<1>11. QED
  BY <1>4, <1>6, <1>10

\* What is cut out of a text without control lines has none.
LEMMA WithinPlain ==
  ASSUME NEW q \in Seq(Line), NoControl(q), NEW s, Within(s, q, 0)
  PROVE  NoControl(s)
<1>1. \A x \in 1 .. Len(s) : s[x] = Blank \/ \E y \in 1 .. Len(q) : s[x] = q[y]
  <2>1. \A x \in 1 .. Len(s) : s[x] = Blank \/ \E y \in (0 + 1) .. Len(q) : s[x] = q[y]
    BY WithinIs
  <2>2. 0 + 1 = 1
    OBVIOUS
  <2>3. QED
    BY <2>1, <2>2
<1>2. Blank.kind \notin Control
  BY BlankIs DEF Control
<1>3. QED
  BY <1>1, <1>2 DEF NoControl

\* Below its first two lines the text has fences of id at the most.
CleanBelow(t, id) == \A i \in 3 .. Len(t) : t[i].kind \in Control => t[i].kind \in FenceKind /\ t[i].id = id

LEMMA CleanBelowIs ==
  ASSUME NEW s \in Seq(Line), NEW t \in Seq(Line), NEW id, CleanBelow(s, id), Clean(t, id)
  PROVE  CleanBelow(Cat(s, t), id)
<1>1. PICK d : d = Cat(s, t)
  OBVIOUS
<1>2. /\ Len(d) = Len(s) + Len(t) /\ Len(s) \in Nat /\ Len(t) \in Nat
      /\ \A i \in 1 .. Len(s) : d[i] = s[i]
      /\ \A i \in 1 .. Len(t) : d[Len(s) + i] = t[i]
  BY <1>1, CatLines, ZenonT(30)
<1>3. ASSUME NEW i \in 3 .. Len(d), d[i].kind \in Control
      PROVE  d[i].kind \in FenceKind /\ d[i].id = id
  <2>1. CASE i \in 3 .. Len(s)
    BY <1>2, <1>3, <2>1 DEF CleanBelow
  <2>2. CASE ~ (i =< Len(s))
    <3>1. i - Len(s) \in 1 .. Len(t) /\ i = Len(s) + (i - Len(s))
      BY <1>2, <2>2
    <3>2. PICK k \in 1 .. Len(t) : i = Len(s) + k
      BY <3>1
    <3>3. QED
      BY <1>2, <1>3, <3>2 DEF Clean
  <2>3. QED
    BY <1>2, <2>1, <2>2
<1>4. QED
  BY <1>1, <1>3 DEF CleanBelow

\* A message rendered is such a block.
LEMMA RenderedTidy ==
  ASSUME NEW m \in Message, Clean(Trim(m.body), m.id), NEW z \in Seq(Line), NoControl(z)
  PROVE  TidyBlock(FormatMessage(m) \o z)
<1>1. PICK t : t = Trim(m.body)
  OBVIOUS
<1>2. PICK o : o = Opening(m)
  OBVIOUS
<1>3. PICK c : c = Closing(m)
  OBVIOUS
<1>4. PICK b : b = FormatMessage(m) \o z
  OBVIOUS
<1>5. t \in Seq(Line)
  BY <1>1, TrimIsText DEF Message
<1>6. PICK open : open = Of("open", m.id)
  OBVIOUS
<1>7. PICK close : close = Of("close", m.id)
  OBVIOUS
<1>8. open.kind = "open" /\ open.id = m.id /\ close.kind = "close" /\ close.id = m.id
  BY <1>6, <1>7 DEF Of
<1>9. /\ o \in Seq(Line) /\ Len(o) \in {5, 9} /\ o[Len(o)] = open
      /\ \A i \in 3 .. Len(o) - 1 : o[i].kind \in {"meta", "blank", "banner", "details"}
  BY <1>2, <1>6, OpeningIs
<1>10. /\ c \in Seq(Line) /\ Len(c) \in {3, 5} /\ c[1] = close
       /\ \A i \in 2 .. Len(c) : c[i].kind \in {"blank", "details end", "rule"}
  BY <1>3, <1>7, ClosingIs
<1>11. b = Cat(Cat(Cat(o, t), c), z)
  <2>1. FormatMessage(m) = Cat(Cat(o, t), c)
    BY <1>1, <1>2, <1>3, <1>5, RenderIs, Zenon DEF Cat
  <2>2. QED
    BY <1>4, <2>1, Zenon DEF Cat
<1>12. CleanBelow(o, m.id)
  <2>1. \A i \in 3 .. Len(o) : i \in 3 .. Len(o) - 1 \/ i = Len(o)
    BY <1>9
  <2>2. \A k \in {"meta", "blank", "banner", "details"} : k \notin Control
    BY DEF Control
  <2>3. open.kind \in FenceKind
    BY <1>8 DEF FenceKind
  <2>4. QED
    BY <1>8, <1>9, <2>1, <2>2, <2>3 DEF CleanBelow
<1>13. Clean(c, m.id)
  <2>1. \A i \in 1 .. Len(c) : i = 1 \/ i \in 2 .. Len(c)
    <3>1. PICK n \in Nat : n = Len(c)
      BY <1>10
    <3>2. \A i \in 1 .. n : i = 1 \/ i \in 2 .. n
      OBVIOUS
    <3>3. QED
      BY <3>1, <3>2
  <2>2. \A k \in {"blank", "details end", "rule"} : k \notin Control
    BY DEF Control
  <2>3. close.kind \in FenceKind
    BY <1>8 DEF FenceKind
  <2>4. QED
    BY <1>8, <1>10, <2>1, <2>2, <2>3 DEF Clean
<1>14. Clean(z, m.id)
  BY DEF Clean, NoControl
<1>15. CleanBelow(b, m.id)
  <2>1. PICK d : d = Cat(o, t)
    OBVIOUS
  <2>2. PICK e : e = Cat(d, c)
    OBVIOUS
  <2>3. d \in Seq(Line) /\ e \in Seq(Line)
    BY <1>5, <1>9, <1>10, <2>1, <2>2, CatIs
  <2>4. CleanBelow(d, m.id)
    BY <1>1, <1>5, <1>9, <1>12, <2>1, CleanBelowIs
  <2>5. CleanBelow(e, m.id)
    BY <1>10, <1>13, <2>2, <2>3, <2>4, CleanBelowIs
  <2>6. b = Cat(e, z)
    BY <1>11, <2>1, <2>2
  <2>7. QED
    BY <1>14, <2>3, <2>5, <2>6, CleanBelowIs
<1>16. b \in Seq(Line) /\ b[2] = MarkerOf(m)
  <2>1. m.id \notin FenceIds(z)
    BY MarkersAre DEF NoControl, Control, FenceKind
  <2>2. QED
    BY <1>4, <2>1, RoundTrip
<1>17. b[2].kind = "marker" /\ b[2].id = m.id
  BY <1>16 DEF MarkerOf
<1>18. PICK n : n = Len(o)
  OBVIOUS
<1>19. n \in 3 .. Len(b) /\ b[n] = open
  <2>1. MadeOf(b, o, t, c, z)
    BY <1>5, <1>9, <1>10, <1>11, FourPieces
  <2>2. n \in 1 .. Len(o) /\ 3 =< n
    BY <1>9, <1>18
  <2>3. b[n] = o[n]
    BY <2>1, <2>2 DEF MadeOf
  <2>4. Len(b) = Len(o) + Len(t) + Len(c) + Len(z)
    BY <2>1 DEF MadeOf
  <2>5. Len(t) \in Nat /\ Len(c) \in Nat /\ Len(z) \in Nat
    <3>1. c \in Seq(Line)
      BY <1>3, ClosingIs
    <3>2. Len(c) \in Nat
      BY <3>1
    <3>3. Len(t) \in Nat /\ Len(z) \in Nat
      BY <1>5
    <3>4. QED
      BY <3>2, <3>3
  <2>6. n =< Len(b) /\ n \in Nat /\ Len(b) \in Nat
    BY <1>18, <2>2, <2>4, <2>5
  <2>7. QED
    BY <1>9, <1>18, <2>2, <2>3, <2>6
<1>20. Len(b) >= 2
  BY <1>16, <1>19
<1>21. TidyBlock(b)
  BY <1>6, <1>15, <1>17, <1>19, <1>20 DEF TidyBlock, CleanBelow, FenceKind
<1>22. QED
  BY <1>4, <1>21

\* Nothing of a message stands above the first block.
Led(ls) == \A i \in 1 .. Len(ls) : ls[i].kind \in Control => \E h \in Heads(ls) : h =< i

TidyText(ls) == Led(ls) /\ \A b \in Blocks(ls) : TidyBlock(b)

LEMMA CutAtHead ==
  ASSUME NEW p \in Seq(Line), NEW x \in Seq(Line), x = <<>> \/ 1 \in Heads(x)
  PROVE  /\ Cat(p, x) \in Seq(Line)
         /\ Heads(Cat(p, x)) = Heads(p) \cup {Len(p) + i : i \in Heads(x)}
         /\ Blocks(Cat(p, x)) = Blocks(p) \cup Blocks(x)
<1>1. x = <<>> \/ x[1].kind = "heading"
  BY DEF Heads
<1>2. Cut(p, x)
  BY <1>1 DEF Cut, MarkerKind
<1>3. QED
  BY <1>2, CatIs, CatHeads, BlocksOfConcat DEF Cat

LEMMA LedIs ==
  ASSUME NEW p \in Seq(Line), NEW x \in Seq(Line), x = <<>> \/ 1 \in Heads(x)
  PROVE  Led(Cat(p, x)) <=> Led(p)
<1>1. PICK ls : ls = Cat(p, x)
  OBVIOUS
<1>2. /\ ls \in Seq(Line) /\ Len(ls) = Len(p) + Len(x) /\ Len(p) \in Nat /\ Len(x) \in Nat
      /\ \A i \in 1 .. Len(p) : ls[i] = p[i]
  BY <1>1, CatLines, ZenonT(30)
<1>3. Heads(ls) = Heads(p) \cup {Len(p) + i : i \in Heads(x)}
  BY <1>1, CutAtHead
<1>4. Heads(p) \subseteq 1 .. Len(p) /\ Heads(x) \subseteq 1 .. Len(x)
  BY HeadsAreLines
<1>5. ASSUME NEW i \in 1 .. Len(p)
      PROVE  (\E h \in Heads(ls) : h =< i) <=> (\E h \in Heads(p) : h =< i)
  <2>1. \A h \in Heads(x) : ~ (Len(p) + h =< i)
    BY <1>2, <1>4
  <2>2. QED
    BY <1>3, <2>1
<1>6. ASSUME NEW i \in 1 .. Len(ls), i \notin 1 .. Len(p)
      PROVE  \E h \in Heads(ls) : h =< i
  <2>1. x # <<>>
    BY <1>2, <1>6
  <2>2. Len(p) + 1 \in Heads(ls) /\ Len(p) + 1 =< i
    BY <1>2, <1>3, <1>6, <2>1
  <2>3. QED
    BY <2>2
<1>7. ASSUME Led(p)
      PROVE  Led(ls)
  <2>1. ASSUME NEW i \in 1 .. Len(ls), ls[i].kind \in Control
        PROVE  \E h \in Heads(ls) : h =< i
    <3>1. CASE i \in 1 .. Len(p)
      BY <1>2, <1>5, <1>7, <2>1, <3>1 DEF Led
    <3>2. QED
      BY <1>6, <3>1
  <2>2. QED
    BY <2>1 DEF Led
<1>8. ASSUME Led(ls)
      PROVE  Led(p)
  <2>1. ASSUME NEW i \in 1 .. Len(p), p[i].kind \in Control
        PROVE  \E h \in Heads(p) : h =< i
    <3>1. i \in 1 .. Len(ls) /\ ls[i].kind \in Control
      BY <1>2, <2>1
    <3>2. \E h \in Heads(ls) : h =< i
      BY <1>8, <3>1 DEF Led
    <3>3. QED
      BY <1>5, <3>2
  <2>2. QED
    BY <2>1 DEF Led
<1>9. QED
  BY <1>1, <1>7, <1>8

\* A text without blocks, above them, has no control line.
LEMMA LedPlain ==
  ASSUME NEW q \in Seq(Line), Heads(q) = {}
  PROVE  Led(q) <=> NoControl(q)
  BY DEF Led, NoControl

LEMMA TidyIs ==
  ASSUME NEW ls, Sound(ls), Tidy(ls)
  PROVE  TidyText(ls)
<1>1. ls \in Seq(Line) /\ BlockStarts(ls) = Heads(ls)
  BY StartsAreHeads DEF Sound
<1>2. Led(ls)
  BY <1>1 DEF Tidy, Led
<1>3. \A b \in Blocks(ls) : TidyBlock(b)
  BY <1>1 DEF Tidy, Blocks
<1>4. QED
  BY <1>2, <1>3 DEF TidyText

\* A block in the place of another.
LEMMA BlockTidied ==
  ASSUME NEW p \in Seq(Line), NEW b \in Seq(Line), NEW r \in Seq(Line), Heads(b) = {1}, r = <<>> \/ 1 \in Heads(r),
         TidyText(Cat(p, Cat(b, r))), NEW f \in Seq(Line), Heads(f) = {1}, TidyBlock(f)
  PROVE  TidyText(Cat(p, Cat(f, r)))
<1>1. PICK ls : ls = Cat(p, Cat(b, r))
  OBVIOUS
<1>2. PICK new : new = Cat(p, Cat(f, r))
  OBVIOUS
<1>3. Stacked(ls, p, b, r) /\ Stacked(new, p, f, r)
  BY <1>1, <1>2, ThreeHold
<1>4. Blocks(ls) = Blocks(p) \cup {b} \cup Blocks(r) /\ Blocks(new) = Blocks(p) \cup {f} \cup Blocks(r)
  BY <1>3 DEF Stacked
<1>5. ASSUME NEW c \in Seq(Line), Heads(c) = {1}
      PROVE  Led(Cat(p, Cat(c, r))) <=> Led(p)
  <2>1. PICK s : s = Cat(c, r)
    OBVIOUS
  <2>2. s \in Seq(Line) /\ Heads(s) = Heads(c) \cup {Len(c) + i : i \in Heads(r)}
    BY <2>1, CutAtHead
  <2>3. 1 \in Heads(s)
    BY <1>5, <2>2
  <2>4. QED
    BY <2>1, <2>2, <2>3, LedIs
<1>6. Led(ls) <=> Led(new)
  BY <1>1, <1>2, <1>5
<1>7. TidyText(ls)
  BY <1>1
<1>8. TidyText(new)
  BY <1>4, <1>6, <1>7 DEF TidyText
<1>9. QED
  BY <1>2, <1>8

--------------------------------------------------------------------------------
(* What a write of the service makes of a file. *)

LEMMA CatEmpty ==
  ASSUME NEW s \in Seq(Line)
  PROVE  Cat(s, <<>>) = s /\ Cat(<<>>, s) = s
BY ConcatEmptySeq DEF Cat

\* One block rendered anew, or a message in its place.
LEMMA BlockReplaced ==
  ASSUME NEW ls, Sound(ls), NEW p \in Seq(Line), NEW b \in Seq(Line), NEW r \in Seq(Line),
         ls = Cat(p, Cat(b, r)), Heads(b) = {1}, r = <<>> \/ 1 \in Heads(r),
         IsMessage(b), NEW f \in Seq(Line), Heads(f) = {1}, MarkedOnce(f),
         MarkedIds(f) \subseteq MarkedIds(b), IsMessage(f), ParseMessage(f).id = ParseMessage(b).id
  PROVE  LET new == Cat(p, Cat(f, r))
         IN  /\ Sound(new)
             /\ MarkedIds(new) \subseteq MarkedIds(ls)
             /\ FenceIds(new) \subseteq FenceIds(ls) \cup FenceIds(f)
             /\ MessagesIn(new) =
                  {n \in MessagesIn(ls) : n.id # ParseMessage(f).id} \cup {ParseMessage(f)}
             /\ \A c \in Blocks(ls) : c # b => c \in Blocks(new)
<1>1. PICK new : new = Cat(p, Cat(f, r))
  OBVIOUS
<1>2. /\ ls \in Seq(Line)
      /\ Blocks(ls) = Blocks(p) \cup {b} \cup Blocks(r)
      /\ MarkedIds(ls) = MarkedIds(p) \cup MarkedIds(b) \cup MarkedIds(r)
      /\ FenceIds(ls) = FenceIds(p) \cup FenceIds(b) \cup FenceIds(r)
      /\ MarkedOnce(p) /\ MarkedOnce(r)
      /\ MarkedIds(p) \cap MarkedIds(b) = {} /\ MarkedIds(p) \cap MarkedIds(r) = {}
      /\ MarkedIds(b) \cap MarkedIds(r) = {}
  <2>1. Stacked(ls, p, b, r)
    BY ThreeHold
  <2>2. QED
    BY <2>1 DEF Stacked, Sound
<1>3. /\ new \in Seq(Line)
      /\ Blocks(new) = Blocks(p) \cup {f} \cup Blocks(r)
      /\ MarkedIds(new) = MarkedIds(p) \cup MarkedIds(f) \cup MarkedIds(r)
      /\ FenceIds(new) = FenceIds(p) \cup FenceIds(f) \cup FenceIds(r)
      /\ MarkedOnce(new)
  <2>1. /\ MarkedIds(p) \cap MarkedIds(f) = {} /\ MarkedIds(f) \cap MarkedIds(r) = {}
    BY <1>2
  <2>2. Stacked(new, p, f, r)
    BY <1>1, ThreeHold
  <2>3. QED
    BY <1>2, <2>1, <2>2 DEF Stacked
<1>4. Sound(new)
  <2>1. PICK x : x = Cat(b, r)
    OBVIOUS
  <2>2. PICK y : y = Cat(f, r)
    OBVIOUS
  <2>3. /\ x \in Seq(Line) /\ y \in Seq(Line)
    BY <2>1, <2>2, CatIs
  <2>4. x[1].kind = "heading"
    <3>1. 1 \in 1 .. Len(b) /\ b[1].kind = "heading"
      BY HeadsAreLines DEF Heads
    <3>2. x[1] = b[1]
      BY <2>1, <3>1, CatLines, ZenonT(30)
    <3>3. QED
      BY <3>1, <3>2
  <2>5. p # <<>>
    <3>1. SUFFICES ASSUME p = <<>> PROVE FALSE
      OBVIOUS
    <3>2. ls = x
      BY <2>1, <2>3, <3>1, CatEmpty
    <3>3. QED
      BY <2>4, <3>2 DEF Sound
  <2>6. 1 \in 1 .. Len(p)
    BY <2>5
  <2>7. ls[1] = p[1]
    BY <2>1, <2>3, <2>6, CatLines, ZenonT(30)
  <2>8. new[1] = p[1] /\ Len(new) = Len(p) + Len(y) /\ Len(y) \in Nat
    BY <1>1, <2>2, <2>3, <2>6, CatLines, ZenonT(30)
  <2>9. new # <<>>
    BY <1>3, <2>6, <2>8
  <2>10. QED
    BY <1>3, <2>7, <2>8, <2>9 DEF Sound
<1>5. PICK id : id = ParseMessage(b).id /\ id \in MarkedIds(b) /\ id \in MarkedIds(f)
  BY ParseIs
<1>6. ASSUME NEW c \in Blocks(p) \cup Blocks(r), IsMessage(c)
      PROVE  ParseMessage(c).id # id
  <2>1. /\ c \in Seq(Line) /\ Heads(c) = {1}
        /\ MarkedIds(c) \subseteq MarkedIds(p) \/ MarkedIds(c) \subseteq MarkedIds(r)
    BY BlockHolds
  <2>2. ParseMessage(c).id \in MarkedIds(c)
    BY <1>6, <2>1, ParseIs
  <2>3. QED
    BY <1>2, <1>5, <2>1, <2>2
<1>7. ASSUME NEW n
      PROVE  n \in MessagesIn(new) <=>
               n \in {o \in MessagesIn(ls) : o.id # ParseMessage(f).id} \cup {ParseMessage(f)}
  <2>1. n \in MessagesIn(new) <=>
          n = ParseMessage(f) \/ \E c \in Blocks(p) \cup Blocks(r) : IsMessage(c) /\ n = ParseMessage(c)
    BY <1>3 DEF MessagesIn
  <2>2. n \in MessagesIn(ls) <=>
          n = ParseMessage(b) \/ \E c \in Blocks(p) \cup Blocks(r) : IsMessage(c) /\ n = ParseMessage(c)
    BY <1>2 DEF MessagesIn
  <2>3. QED
    BY <1>5, <1>6, <2>1, <2>2
<1>8. MessagesIn(new) = {n \in MessagesIn(ls) : n.id # ParseMessage(f).id} \cup {ParseMessage(f)}
  BY <1>7
<1>9. /\ MarkedIds(new) \subseteq MarkedIds(ls) /\ FenceIds(new) \subseteq FenceIds(ls) \cup FenceIds(f)
      /\ \A c \in Blocks(ls) : c # b => c \in Blocks(new)
  BY <1>2, <1>3
<1>10. QED
  BY <1>1, <1>4, <1>8, <1>9

\* A body that can be rendered into the block b of its message.
Fits(m, b) ==
  LET t == Trim(m.body)
  IN  /\ m \in Message /\ m.id = ParseMessage(b).id
      /\ Heads(t) = {} /\ MarkedOnce(t) /\ m.id \notin MarkedIds(t)
      /\ MarkedIds(t) \subseteq MarkedIds(b) /\ FenceIds(t) \subseteq FenceIds(b)

LEMMA SpliceIs ==
  ASSUME Sound(lines), NEW m, m.id \in DOMAIN ParseChannel(lines),
         Fits(m, BlockAt(lines, FindMessageBlock(lines, m.id)))
  PROVE  LET new == SpliceBlock(m)
             out == [m EXCEPT !.body = Trim(m.body)]
         IN  /\ Sound(new)
             /\ MarkedIds(new) \subseteq MarkedIds(lines)
             /\ FenceIds(new) \subseteq FenceIds(lines) \cup MarkedIds(lines)
             /\ MessagesIn(new) = {n \in MessagesIn(lines) : n.id # m.id} \cup {out}
             /\ \A c \in Blocks(lines) :
                  c # BlockAt(lines, FindMessageBlock(lines, m.id)) => c \in Blocks(new)
             /\ TidyText(lines) /\ Clean(Trim(m.body), m.id) => TidyText(new)
<1>1. PICK h : h = FindMessageBlock(lines, m.id)
  OBVIOUS
<1>2. PICK b : b = BlockAt(lines, h)
  OBVIOUS
<1>3. h \in Heads(lines) /\ IsMessage(b) /\ ParseMessage(b).id = m.id
  BY <1>1, <1>2, FoundIs
<1>4. lines \in Seq(Line)
  BY DEF Sound
<1>5. PICK p : p = Before(h)
  OBVIOUS
<1>6. PICK r : r = SubSeq(lines, BlockEnd(lines, h), Len(lines))
  OBVIOUS
<1>7. /\ p \in Seq(Line) /\ b \in Seq(Line) /\ r \in Seq(Line)
      /\ lines = p \o (b \o r)
      /\ Heads(b) = {1} /\ (r = <<>> \/ 1 \in Heads(r))
      /\ BlockEnd(lines, h) > Len(lines) <=> r = <<>>
  BY <1>2, <1>3, <1>4, <1>5, <1>6, BlockSplits, Zenon DEF Before
<1>8. PICK z : z = IF r = <<>> THEN <<Blank>> ELSE <<>>
  OBVIOUS
<1>9. /\ z \in Seq(Line) /\ Heads(z) = {} /\ MarkedIds(z) = {} /\ FenceIds(z) = {} /\ MarkedOnce(z)
      /\ NoControl(z)
  <2>1. z \in Seq(Line) /\ \A i \in 1 .. Len(z) : z[i].kind = "blank"
    <3>1. CASE z = <<>>
      BY <3>1
    <3>2. CASE z = <<Blank>>
      BY <3>2, BlankIs
    <3>3. QED
      BY <1>8, <3>1, <3>2
  <2>2. NoControl(z)
    BY <2>1 DEF NoControl, Control
  <2>3. QED
    BY <2>1, <2>2, HoldsNothing DEF MarkerKind, FenceKind
<1>10. PICK f : f = FormatMessage(m) \o z
  OBVIOUS
<1>11. PICK t : t = Trim(m.body)
  OBVIOUS
<1>12. /\ m \in Message /\ m.id = ParseMessage(b).id
       /\ Heads(t) = {} /\ MarkedOnce(t) /\ m.id \notin MarkedIds(t)
       /\ MarkedIds(t) \subseteq MarkedIds(b) /\ FenceIds(t) \subseteq FenceIds(b)
  BY <1>1, <1>2, <1>11 DEF Fits
<1>13. /\ f \in Seq(Line) /\ IsMessage(f) /\ ParseMessage(f) = [m EXCEPT !.body = t]
  BY <1>9, <1>10, <1>11, <1>12, RoundTrip
<1>14. /\ Heads(f) = {1}
       /\ MarkedIds(f) = {m.id} \cup MarkedIds(t) \cup MarkedIds(z)
       /\ FenceIds(f) = {m.id} \cup FenceIds(t) \cup FenceIds(z)
       /\ MarkedOnce(t) /\ MarkedOnce(z) /\ m.id \notin MarkedIds(t)
            /\ ({m.id} \cup MarkedIds(t)) \cap MarkedIds(z) = {} => MarkedOnce(f)
  BY <1>9, <1>10, <1>11, <1>12, RenderedHolds
<1>15. m.id \in MarkedIds(b)
  BY <1>3, <1>7, ParseIs
<1>16. MarkedIds(f) \subseteq MarkedIds(b) /\ FenceIds(f) \subseteq FenceIds(b) \cup MarkedIds(b) /\ MarkedOnce(f)
  BY <1>9, <1>12, <1>14, <1>15
<1>17. ParseMessage(f).id = m.id
  BY <1>13 DEF Message
<1>18. lines = Cat(p, Cat(b, r))
  BY <1>7, Zenon DEF Cat
<1>19. PICK new : new = SpliceBlock(m)
  OBVIOUS
<1>20. new = Cat(p, Cat(f, r))
  <2>1. PICK g : g = FormatMessage(m)
    OBVIOUS
  <2>2. g \in Seq(Line)
    <3>1. t \in Seq(Line)
      BY <1>11, <1>12, TrimIsText DEF Message
    <3>2. PICK o : o = Opening(m)
      OBVIOUS
    <3>3. PICK c : c = Closing(m)
      OBVIOUS
    <3>4. o \in Seq(Line) /\ c \in Seq(Line)
      BY <1>12, <3>2, <3>3, OpeningIs, ClosingIs
    <3>5. g = Cat(Cat(o, t), c)
      BY <1>11, <1>12, <2>1, <3>1, <3>2, <3>3, RenderIs, Zenon DEF Cat
    <3>6. QED
      BY <3>1, <3>4, <3>5, CatIs
  <2>3. After(BlockEnd(lines, h)) = Cat(z, r)
    <3>1. CASE r = <<>>
      <4>1. After(BlockEnd(lines, h)) = z /\ Cat(z, r) = z
        BY <1>7, <1>8, <1>9, <3>1, CatEmpty DEF After
      <4>2. QED
        BY <4>1
    <3>2. CASE r # <<>>
      <4>1. After(BlockEnd(lines, h)) = r
        BY <1>6, <1>7, <3>2, Zenon DEF After
      <4>2. Cat(z, r) = r
        BY <1>7, <1>8, <3>2, CatEmpty
      <4>3. QED
        BY <4>1, <4>2
    <3>3. QED
      BY <3>1, <3>2
  <2>4. new = Cat(Cat(p, g), Cat(z, r))
    BY <1>1, <1>5, <1>19, <2>1, <2>3, Zenon DEF SpliceBlock, Cat
  <2>5. Cat(z, r) \in Seq(Line)
    BY <1>7, <1>9, CatIs
  <2>6. Cat(Cat(p, g), Cat(z, r)) = Cat(p, Cat(g, Cat(z, r)))
    BY <1>7, <2>2, <2>5, CatAssoc
  <2>7. Cat(Cat(g, z), r) = Cat(g, Cat(z, r))
    BY <1>7, <1>9, <2>2, CatAssoc
  <2>8. f = Cat(g, z)
    BY <1>10, <2>1, Zenon DEF Cat
  <2>9. QED
    BY <2>4, <2>6, <2>7, <2>8, Zenon
<1>21. /\ Sound(new)
       /\ MarkedIds(new) \subseteq MarkedIds(lines)
       /\ FenceIds(new) \subseteq FenceIds(lines) \cup FenceIds(f)
       /\ MessagesIn(new) =
            {n \in MessagesIn(lines) : n.id # ParseMessage(f).id} \cup {ParseMessage(f)}
       /\ \A c \in Blocks(lines) : c # b => c \in Blocks(new)
  <2>1. Heads(b) = {1} /\ (r = <<>> \/ 1 \in Heads(r)) /\ IsMessage(b)
    BY <1>3, <1>7
  <2>2. p \in Seq(Line) /\ b \in Seq(Line) /\ r \in Seq(Line) /\ f \in Seq(Line)
    BY <1>7, <1>13
  <2>3. Heads(f) = {1} /\ MarkedOnce(f) /\ MarkedIds(f) \subseteq MarkedIds(b) /\ IsMessage(f)
    BY <1>13, <1>14, <1>16
  <2>4. ParseMessage(f).id = ParseMessage(b).id
    BY <1>3, <1>17
  <2>5. QED
    BY <1>18, <1>20, <2>1, <2>2, <2>3, <2>4, BlockReplaced, SMTT(30)
<1>22. b \in Blocks(lines)
  BY <1>2, <1>3 DEF Blocks
<1>23. FenceIds(b) \subseteq FenceIds(lines) /\ MarkedIds(b) \subseteq MarkedIds(lines)
  BY <1>4, <1>22, BlockHolds
<1>24. FenceIds(new) \subseteq FenceIds(lines) \cup MarkedIds(lines)
  BY <1>16, <1>21, <1>23
<1>25. MessagesIn(new) = {n \in MessagesIn(lines) : n.id # m.id} \cup {[m EXCEPT !.body = t]}
  BY <1>13, <1>17, <1>21
<1>26. ASSUME TidyText(lines), Clean(Trim(m.body), m.id)
       PROVE  TidyText(new)
  <2>1. TidyBlock(f)
    BY <1>9, <1>10, <1>12, <1>26, RenderedTidy
  <2>2. f \in Seq(Line) /\ Heads(f) = {1}
    BY <1>13, <1>14
  <2>3. TidyText(Cat(p, Cat(b, r)))
    BY <1>18, <1>26
  <2>4. Heads(b) = {1} /\ (r = <<>> \/ 1 \in Heads(r)) /\ p \in Seq(Line) /\ b \in Seq(Line) /\ r \in Seq(Line)
    BY <1>7
  <2>5. QED
    BY <1>20, <2>1, <2>2, <2>3, <2>4, BlockTidied
<1>27. QED
  BY <1>1, <1>2, <1>11, <1>19, <1>21, <1>24, <1>25, <1>26

\* A text is what stands before its first block, and its blocks.
LEMMA FirstHead ==
  ASSUME NEW ls \in Seq(Line)
  PROVE  \E q, r \in Seq(Line) : ls = Cat(q, r) /\ Heads(q) = {} /\ (r = <<>> \/ 1 \in Heads(r))
<1>1. CASE Heads(ls) = {}
  <2>1. ls = Cat(ls, <<>>)
    BY CatEmpty
  <2>2. <<>> \in Seq(Line)
    OBVIOUS
  <2>3. QED
    BY <1>1, <2>1, <2>2, Zenon
<1>2. CASE Heads(ls) # {}
  <2>1. Heads(ls) \in SUBSET Nat
    BY HeadsAreLines
  <2>2. PICK h \in Heads(ls) : \A k \in Heads(ls) : h =< k
    BY <1>2, <2>1, LeastOf
  <2>3. PICK q : q = SubSeq(ls, 1, h - 1)
    OBVIOUS
  <2>4. PICK b : b = BlockAt(ls, h)
    OBVIOUS
  <2>5. PICK r : r = SubSeq(ls, BlockEnd(ls, h), Len(ls))
    OBVIOUS
  <2>6. /\ q \in Seq(Line) /\ b \in Seq(Line) /\ r \in Seq(Line)
        /\ ls = q \o (b \o r)
        /\ Heads(b) = {1} /\ (r = <<>> \/ 1 \in Heads(r))
    BY <2>3, <2>4, <2>5, BlockSplits, Zenon
  <2>7. PICK x : x = Cat(b, r)
    OBVIOUS
  <2>8. x \in Seq(Line) /\ ls = Cat(q, x)
    BY <2>6, <2>7, CatIs, Zenon DEF Cat
  <2>9. 1 \in Heads(x)
    <3>1. r = <<>> \/ r[1].kind = "heading"
      BY <2>6 DEF Heads
    <3>2. Cut(b, r)
      BY <3>1 DEF Cut, MarkerKind
    <3>3. QED
      BY <2>6, <2>7, <3>2, CatHeads
  <2>10. Heads(q) = {}
    <3>1. x[1].kind = "heading"
      BY <2>9 DEF Heads
    <3>2. Cut(q, x)
      BY <3>1 DEF Cut, MarkerKind
    <3>3. Heads(q) \subseteq Heads(ls)
      BY <2>6, <2>8, <3>2, CatHeads
    <3>4. Heads(q) \subseteq 1 .. Len(q) /\ Len(q) = h - 1
      <4>1. h \in 1 .. Len(ls)
        BY HeadsAreLines
      <4>2. Len(q) = h - 1
        BY <2>3, <4>1, StretchIsText
      <4>3. QED
        BY <2>6, <4>2, HeadsAreLines
    <3>5. QED
      BY <2>1, <2>2, <3>3, <3>4
  <2>11. QED
    BY <2>6, <2>8, <2>9, <2>10
<1>3. QED
  BY <1>1, <1>2

LEMMA NoHeadsNoBlocks ==
  ASSUME NEW ls, Heads(ls) = {}
  PROVE  Blocks(ls) = {} /\ MessagesIn(ls) = {}
BY DEF Blocks, MessagesIn

LEMMA SuffixOfCat ==
  ASSUME NEW q \in Seq(Line), NEW r \in Seq(Line), NEW i \in 1 .. Len(q) + 1
  PROVE  SubSeq(Cat(q, r), i, Len(Cat(q, r))) = Cat(SubSeq(q, i, Len(q)), r)
<1>1. PICK u : u = Cat(q, r)
  OBVIOUS
<1>2. PICK y : y = SubSeq(q, i, Len(q))
  OBVIOUS
<1>3. PICK v : v = Cat(y, r)
  OBVIOUS
<1>4. PICK s : s = SubSeq(u, i, Len(u))
  OBVIOUS
<1>5. PICK n : n = Len(q)
  OBVIOUS
<1>6. PICK l : l = Len(r)
  OBVIOUS
<1>7. n \in Nat /\ l \in Nat /\ i \in 1 .. n + 1
  BY <1>5, <1>6
<1>8. /\ u \in Seq(Line) /\ Len(u) = n + l
      /\ \A k \in 1 .. n : u[k] = q[k]
      /\ \A k \in 1 .. l : u[n + k] = r[k]
  BY <1>1, <1>5, <1>6, CatLines
<1>9. /\ y \in Seq(Line) /\ Len(y) = n - i + 1
      /\ \A k \in 1 .. (n - i + 1) : y[k] = q[k + i - 1]
  <2>1. i \in Nat \ {0} /\ n \in Nat /\ n =< Len(q)
    BY <1>5, <1>7
  <2>2. /\ y \in Seq(Line) /\ Len(y) = IF i =< n THEN n - i + 1 ELSE 0
        /\ \A k \in 1 .. (n - i + 1) : y[k] = q[k + i - 1]
    BY <1>2, <1>5, <2>1, StretchIsText
  <2>3. ~ (i =< n) => n - i + 1 = 0
    BY <1>7
  <2>4. QED
    BY <2>2, <2>3
<1>10. PICK d \in Nat : d = n - i + 1
  BY <1>7
<1>11. /\ v \in Seq(Line) /\ Len(v) = d + l
       /\ \A k \in 1 .. d : v[k] = y[k]
       /\ \A k \in 1 .. l : v[d + k] = r[k]
  <2>1. y \in Seq(Line) /\ Len(y) = d
    BY <1>9, <1>10
  <2>2. QED
    BY <1>3, <1>6, <2>1, CatLines
<1>12. /\ s \in Seq(Line) /\ Len(s) = d + l
       /\ \A k \in 1 .. d + l : s[k] = u[k + i - 1]
  <2>1. PICK e \in Nat : e = n + l /\ e = Len(u)
    BY <1>7, <1>8
  <2>2. i \in Nat \ {0} /\ e =< Len(u)
    BY <1>7, <2>1
  <2>3. /\ s \in Seq(Line) /\ Len(s) = IF i =< e THEN e - i + 1 ELSE 0
        /\ \A k \in 1 .. (e - i + 1) : s[k] = u[k + i - 1]
    BY <1>4, <1>8, <2>1, <2>2, StretchIsText
  <2>4. e - i + 1 = d + l /\ (~ (i =< e) => d + l = 0)
    BY <1>7, <1>10, <2>1
  <2>5. QED
    BY <2>3, <2>4
<1>13. ASSUME NEW k \in 1 .. d + l
       PROVE  s[k] = v[k]
  <2>1. CASE k =< d
    <3>1. k \in 1 .. d /\ k \in 1 .. (n - i + 1) /\ k + i - 1 \in 1 .. n
      BY <1>7, <1>10, <2>1
    <3>2. QED
      BY <1>8, <1>9, <1>11, <1>12, <3>1
  <2>2. CASE k > d
    <3>1. PICK j \in 1 .. l : k = d + j /\ k + i - 1 = n + j
      BY <1>7, <1>10, <2>2, k - d \in 1 .. l
    <3>2. QED
      BY <1>8, <1>11, <1>12, <3>1
  <2>3. QED
    BY <1>10, <2>1, <2>2
<1>14. s = v
  BY <1>11, <1>12, <1>13, SeqEqual
<1>15. QED
  BY <1>1, <1>2, <1>3, <1>4, <1>14

\* Stripping takes leading lines away, from what stands before the first block.
LEMMA StrippedIs ==
  ASSUME NEW q \in Seq(Line), NEW r \in Seq(Line), r = <<>> \/ r[1].kind = "heading"
  PROVE  \E s \in Seq(Line) : /\ Within(s, q, 0)
                              /\ Stripped(Cat(q, r)) = Cat(s, r)
                              /\ s # <<>> \/ r # <<>>
<1>1. PICK u : u = Cat(q, r)
  OBVIOUS
<1>2. PICK n : n = Len(q)
  OBVIOUS
<1>3. PICK l : l = Len(r)
  OBVIOUS
<1>4. n \in Nat /\ l \in Nat
  BY <1>2, <1>3
<1>5. /\ u \in Seq(Line) /\ Len(u) = n + l /\ DOMAIN u = 1 .. n + l
      /\ \A k \in 1 .. l : u[n + k] = r[k]
  <2>1. u \in Seq(Line) /\ Len(u) = Len(q) + Len(r) /\ \A k \in 1 .. Len(r) : u[Len(q) + k] = r[k]
    BY <1>1, CatLines
  <2>2. DOMAIN u = 1 .. Len(u)
    BY <2>1
  <2>3. QED
    BY <1>2, <1>3, <2>1, <2>2
<1> DEFINE filled == {i \in DOMAIN u : u[i].kind # "blank"} \cup {Len(u) + 1}
<1>6. filled \in SUBSET Nat /\ filled # {}
  BY <1>4, <1>5
<1>7. Min(filled) \in filled /\ \A i \in filled : Min(filled) =< i
  BY <1>6, LeastOf
<1>8. PICK i \in filled : i = Min(filled) /\ \A j \in filled : i =< j
  BY <1>7
<1>9. n + 1 \in filled
  <2>1. CASE r = <<>>
    BY <1>3, <1>5, <2>1, <1>4
  <2>2. CASE r # <<>> /\ r[1].kind = "heading"
    <3>1. 1 \in 1 .. l
      BY <1>3, <2>2
    <3>2. u[n + 1].kind = "heading"
      BY <1>5, <2>2, <3>1
    <3>3. n + 1 \in DOMAIN u
      BY <1>4, <1>5, <3>1
    <3>4. QED
      BY <3>2, <3>3
  <2>3. QED
    BY <2>1, <2>2
<1>10. i \in 1 .. n + 1
  <2>1. i =< n + 1
    BY <1>8, <1>9
  <2>2. i \in 1 .. n + l + 1
    BY <1>4, <1>5
  <2>3. QED
    BY <1>4, <2>1, <2>2
<1>11. PICK y : y = SubSeq(q, i, n)
  OBVIOUS
<1>12. SubSeq(u, i, Len(u)) = Cat(y, r)
  BY <1>1, <1>2, <1>10, <1>11, SuffixOfCat
<1>13. Within(y, q, 0)
  BY <1>2, <1>4, <1>10, <1>11, StretchWithin
<1>14. y \in Seq(Line)
  BY <1>13, WithinIs
<1>15. Stripped(u) = AsText(Cat(y, r))
  BY <1>8, <1>12, Zenon DEF Stripped
<1>16. CASE y = <<>> /\ r = <<>>
  <2>1. Cat(y, r) = <<>> /\ Cat(<<Blank>>, r) = <<Blank>>
    BY <1>16, BlankIs, CatEmpty
  <2>2. Stripped(u) = Cat(<<Blank>>, r)
    BY <1>15, <2>1, Zenon DEF AsText
  <2>3. Within(<<Blank>>, q, 0) /\ <<Blank>> # <<>> /\ <<Blank>> \in Seq(Line)
    BY BlankIs DEF Within
  <2>4. QED
    BY <1>1, <2>2, <2>3, Zenon
<1>17. CASE ~ (y = <<>> /\ r = <<>>)
  <2>1. Cat(y, r) # <<>>
    BY <1>14, <1>17, ConcatEqualIffEmpty DEF Cat
  <2>2. Stripped(u) = Cat(y, r)
    BY <1>15, <2>1, Zenon DEF AsText
  <2>3. QED
    BY <1>1, <1>13, <1>14, <1>17, <2>2, Zenon
<1>18. QED
  BY <1>16, <1>17

LEMMA WithinWithin ==
  ASSUME NEW b \in Seq(Line), NEW k \in Nat, NEW t \in Seq(Line), Within(t, b, k), NEW s, Within(s, t, 0)
  PROVE  Within(s, b, k)
<1>1. CASE s = <<>> \/ s = <<Blank>>
  BY <1>1 DEF Within
<1>2. ASSUME NEW i \in (0 + 1) .. Len(t), NEW j \in i .. Len(t), s = SubSeq(t, i, j)
      PROVE  Within(s, b, k)
  <2>1. i \in Nat \ {0} /\ j \in Nat /\ j =< Len(t)
    BY <1>2
  <2>2. QED
    BY <1>2, <2>1, WithinStretch
<1>3. QED
  BY <1>1, <1>2 DEF Within

\* What stands below a message that is appended: the blocks there were.
LEMMA BelowIs ==
  ASSUME NEW q \in Seq(Line), NEW r \in Seq(Line), r = <<>> \/ r[1].kind = "heading"
  PROVE  \E s \in Seq(Line) : Within(s, q, 0) /\ Below(Cat(q, r)) = Cat(s, r)
<1>1. PICK u : u = Cat(q, r)
  OBVIOUS
<1>2. PICK s \in Seq(Line) : Within(s, q, 0) /\ Stripped(u) = Cat(s, r) /\ (s # <<>> \/ r # <<>>)
  BY <1>1, StrippedIs
<1>3. PICK v : v = Cat(s, r)
  OBVIOUS
<1>4. CASE v[1].kind # "rule"
  BY <1>1, <1>2, <1>3, <1>4, Zenon DEF Below
<1>5. CASE v[1].kind = "rule"
  <2>1. s # <<>>
    <3>1. SUFFICES ASSUME s = <<>> PROVE FALSE
      OBVIOUS
    <3>2. v = r /\ r[1].kind = "heading"
      BY <1>2, <1>3, <3>1, CatEmpty
    <3>3. QED
      BY <1>5, <3>2
  <2>2. v \in Seq(Line) /\ v # <<>>
    BY <1>2, <1>3, <2>1, CatIs, ConcatEqualIffEmpty DEF Cat
  <2>3. PICK t : t = SubSeq(s, 2, Len(s))
    OBVIOUS
  <2>4. Tail(v) = Cat(t, r)
    <3>1. 2 \in 1 .. Len(s) + 1
      BY <2>1
    <3>2. SubSeq(v, 2, Len(v)) = Cat(t, r)
      BY <1>3, <2>3, <3>1, SuffixOfCat
    <3>3. QED
      BY <2>2, <3>2, TailIsSubSeq
  <2>5. Within(t, q, 0) /\ t \in Seq(Line)
    <3>1. 2 \in Nat \ {0} /\ Len(s) \in Nat /\ Len(s) =< Len(s)
      OBVIOUS
    <3>2. Within(t, q, 0)
      BY <1>2, <2>3, <3>1, WithinStretch
    <3>3. QED
      BY <3>2, WithinIs
  <2>6. PICK w \in Seq(Line) : Within(w, t, 0) /\ Stripped(Cat(t, r)) = Cat(w, r)
    BY <2>5, StrippedIs
  <2>7. Within(w, q, 0)
    BY <2>5, <2>6, WithinWithin
  <2>8. Below(u) = Stripped(Tail(v))
    BY <1>2, <1>3, <1>5, Zenon DEF Below
  <2>9. QED
    BY <1>1, <2>4, <2>6, <2>7, <2>8, Zenon
<1>6. QED
  BY <1>4, <1>5

LEMMA FormatIsText ==
  ASSUME NEW m \in Message
  PROVE  FormatMessage(m) \in Seq(Line)
<1>1. PICK t : t = Trim(m.body)
  OBVIOUS
<1>2. t \in Seq(Line)
  BY <1>1, TrimIsText DEF Message
<1>3. PICK o : o = Opening(m)
  OBVIOUS
<1>4. PICK c : c = Closing(m)
  OBVIOUS
<1>5. o \in Seq(Line) /\ c \in Seq(Line)
  BY <1>3, <1>4, OpeningIs, ClosingIs
<1>6. FormatMessage(m) = Cat(Cat(o, t), c)
  BY <1>1, <1>2, <1>3, <1>4, RenderIs, Zenon DEF Cat
<1>7. QED
  BY <1>2, <1>5, <1>6, CatIs

\* A message posted stands above the blocks there were.
LEMMA AppendIs ==
  ASSUME Sound(lines), NEW m \in Message, m.id \notin MarkedIds(lines), m.id \notin FenceIds(lines),
         Heads(Trim(m.body)) = {}, MarkedIds(Trim(m.body)) = {}, FenceIds(Trim(m.body)) = {}
  PROVE  LET new == <<Blank, Blank>> \o FormatMessage(m) \o Below(lines)
             out == [m EXCEPT !.body = Trim(m.body)]
         IN  /\ Sound(new)
             /\ MarkedIds(new) \subseteq MarkedIds(lines) \cup {m.id}
             /\ FenceIds(new) \subseteq FenceIds(lines) \cup {m.id}
             /\ MessagesIn(new) = MessagesIn(lines) \cup {out}
             /\ Blocks(lines) \subseteq Blocks(new)
             /\ TidyText(lines) /\ Clean(Trim(m.body), m.id) => TidyText(new)
<1>1. lines \in Seq(Line) /\ MarkedOnce(lines)
  BY DEF Sound
<1>2. PICK q \in Seq(Line), r \in Seq(Line) :
        lines = Cat(q, r) /\ Heads(q) = {} /\ (r = <<>> \/ 1 \in Heads(r))
  BY <1>1, FirstHead
<1>3. r = <<>> \/ r[1].kind = "heading"
  BY <1>2 DEF Heads
<1>4. PICK s \in Seq(Line) : Within(s, q, 0) /\ Below(lines) = Cat(s, r)
  BY <1>2, <1>3, BelowIs
<1>5. /\ Blocks(lines) = Blocks(r) /\ MarkedIds(lines) = MarkedIds(q) \cup MarkedIds(r)
      /\ FenceIds(lines) = FenceIds(q) \cup FenceIds(r)
      /\ MarkedOnce(q) /\ MarkedOnce(r) /\ MarkedIds(q) \cap MarkedIds(r) = {}
  <2>1. Blocks(lines) = Blocks(q) \cup Blocks(r)
    BY <1>2, BlocksOfConcat DEF Cat
  <2>2. Blocks(q) = {}
    BY <1>2, NoHeadsNoBlocks
  <2>3. /\ MarkedIds(lines) = MarkedIds(q) \cup MarkedIds(r)
        /\ FenceIds(lines) = FenceIds(q) \cup FenceIds(r)
        /\ MarkedOnce(lines) <=> MarkedOnce(q) /\ MarkedOnce(r) /\ MarkedIds(q) \cap MarkedIds(r) = {}
    BY <1>2, CatMarkers
  <2>4. QED
    BY <1>1, <2>1, <2>2, <2>3
<1>6. /\ Heads(s) = {} /\ MarkedIds(s) \subseteq MarkedIds(q) /\ FenceIds(s) \subseteq FenceIds(q)
      /\ MarkedOnce(s)
  <2>1. Heads(q) \subseteq 1 .. 0 /\ 0 \in Nat
    BY <1>2
  <2>2. QED
    BY <1>4, <1>5, <2>1, WithinMarks
<1>7. PICK f : f = FormatMessage(m) \o s
  OBVIOUS
<1>8. PICK t : t = Trim(m.body)
  OBVIOUS
<1>9. /\ t \in Seq(Line) /\ Heads(t) = {} /\ MarkedIds(t) = {} /\ FenceIds(t) = {}
  BY <1>8, TrimIsText DEF Message
<1>10. MarkedOnce(t)
  <2>1. ASSUME NEW i \in MarkerLines(t)
        PROVE  FALSE
    BY <1>9, <2>1 DEF MarkedIds
  <2>2. QED
    BY <2>1 DEF MarkedOnce
<1>11. m.id \notin FenceIds(s) /\ m.id \notin MarkedIds(s) /\ m.id \notin MarkedIds(r)
  BY <1>5, <1>6
<1>12. f \in Seq(Line) /\ IsMessage(f) /\ ParseMessage(f) = [m EXCEPT !.body = t]
  BY <1>7, <1>8, <1>11, RoundTrip
<1>13. /\ Heads(f) = {1}
       /\ MarkedIds(f) = {m.id} \cup MarkedIds(t) \cup MarkedIds(s)
       /\ FenceIds(f) = {m.id} \cup FenceIds(t) \cup FenceIds(s)
       /\ MarkedOnce(t) /\ MarkedOnce(s) /\ m.id \notin MarkedIds(t)
            /\ ({m.id} \cup MarkedIds(t)) \cap MarkedIds(s) = {} => MarkedOnce(f)
  BY <1>6, <1>7, <1>8, <1>9, RenderedHolds
<1>14. MarkedOnce(f)
  BY <1>6, <1>9, <1>10, <1>11, <1>13
<1>15. PICK p : p = <<Blank, Blank>>
  OBVIOUS
<1>16. p \in Seq(Line) /\ Len(p) = 2 /\ p[1] = Blank /\ p[2] = Blank
  BY <1>15, BlankIs, TwoLines
<1>17. Heads(p) = {} /\ MarkedIds(p) = {} /\ FenceIds(p) = {} /\ MarkedOnce(p)
  <2>1. \A i \in 1 .. 2 : i = 1 \/ i = 2
    OBVIOUS
  <2>2. \A i \in 1 .. Len(p) : p[i].kind = "blank"
    BY <1>16, <2>1, BlankIs
  <2>3. QED
    BY <1>16, <2>2, HoldsNothing DEF MarkerKind, FenceKind
<1>18. PICK new : new = <<Blank, Blank>> \o FormatMessage(m) \o Below(lines)
  OBVIOUS
<1>19. new = Cat(p, Cat(f, r))
  <2>1. PICK g : g = FormatMessage(m)
    OBVIOUS
  <2>2. g \in Seq(Line)
    BY <2>1, FormatIsText
  <2>3. new = Cat(Cat(p, g), Cat(s, r))
    BY <1>4, <1>15, <1>18, <2>1, Zenon DEF Cat
  <2>4. Cat(s, r) \in Seq(Line)
    BY CatIs
  <2>5. Cat(Cat(p, g), Cat(s, r)) = Cat(p, Cat(g, Cat(s, r)))
    BY <1>16, <2>2, <2>4, CatAssoc
  <2>6. Cat(Cat(g, s), r) = Cat(g, Cat(s, r))
    BY <2>2, CatAssoc
  <2>7. f = Cat(g, s)
    BY <1>7, <2>1, Zenon DEF Cat
  <2>8. QED
    BY <2>3, <2>5, <2>6, <2>7, Zenon
<1>20. Stacked(new, p, f, r)
  BY <1>2, <1>12, <1>13, <1>16, <1>19, ThreeHold
<1>21. /\ new \in Seq(Line) /\ MarkedOnce(new)
       /\ Blocks(new) = {f} \cup Blocks(r)
       /\ MarkedIds(new) = MarkedIds(f) \cup MarkedIds(r)
       /\ FenceIds(new) = FenceIds(f) \cup FenceIds(r)
  <2>1. MarkedIds(f) \cap MarkedIds(r) = {}
    BY <1>5, <1>6, <1>9, <1>11, <1>13
  <2>2. Blocks(p) = {}
    BY <1>17, NoHeadsNoBlocks
  <2>3. QED
    BY <1>5, <1>14, <1>17, <1>20, <2>1, <2>2 DEF Stacked
<1>22. Sound(new)
  <2>1. PICK x : x = Cat(f, r)
    OBVIOUS
  <2>2. x \in Seq(Line)
    BY <1>12, <2>1, CatIs
  <2>3. new = Cat(p, x) /\ 1 \in 1 .. Len(p)
    BY <1>16, <1>19, <2>1
  <2>4. new[1] = p[1] /\ Len(new) = Len(p) + Len(x) /\ Len(x) \in Nat
    <3>1. p \in Seq(Line)
      BY <1>16
    <3>2. /\ \A i \in 1 .. Len(p) : new[i] = p[i]
          /\ Len(new) = Len(p) + Len(x) /\ Len(x) \in Nat
      BY <2>2, <2>3, <3>1, CatLines
    <3>3. QED
      BY <2>3, <3>2
  <2>5. new # <<>>
    BY <1>16, <1>21, <2>4
  <2>6. QED
    BY <1>16, <1>21, <2>4, <2>5, BlankIs DEF Sound
<1>23. MessagesIn(new) = MessagesIn(lines) \cup {[m EXCEPT !.body = t]}
  BY <1>5, <1>12, <1>21 DEF MessagesIn
<1>24. /\ MarkedIds(new) \subseteq MarkedIds(lines) \cup {m.id}
       /\ FenceIds(new) \subseteq FenceIds(lines) \cup {m.id}
       /\ Blocks(lines) \subseteq Blocks(new)
  BY <1>5, <1>6, <1>9, <1>13, <1>21
<1>25. ASSUME TidyText(lines), Clean(Trim(m.body), m.id)
       PROVE  TidyText(new)
  <2>1. NoControl(s)
    <3>1. NoControl(q)
      BY <1>2, <1>25, LedIs, LedPlain DEF TidyText
    <3>2. QED
      BY <1>4, <3>1, WithinPlain
  <2>2. TidyBlock(f)
    BY <1>7, <1>25, <2>1, RenderedTidy
  <2>3. \A b \in Blocks(new) : TidyBlock(b)
    BY <1>5, <1>21, <1>25, <2>2 DEF TidyText
  <2>4. Led(p)
    <3>1. \A i \in 1 .. 2 : i = 1 \/ i = 2
      OBVIOUS
    <3>2. \A i \in 1 .. Len(p) : p[i].kind = "blank"
      BY <1>16, <3>1, BlankIs
    <3>3. QED
      BY <3>2 DEF Led, Control
  <2>5. Led(new)
    <3>1. PICK x : x = Cat(f, r)
      OBVIOUS
    <3>2. x \in Seq(Line) /\ Heads(x) = Heads(f) \cup {Len(f) + i : i \in Heads(r)}
      BY <1>2, <1>12, <3>1, CutAtHead
    <3>3. 1 \in Heads(x)
      BY <1>13, <3>2
    <3>4. new = Cat(p, x) /\ p \in Seq(Line)
      BY <1>16, <1>19, <3>1
    <3>5. QED
      BY <2>4, <3>2, <3>3, <3>4, LedIs
  <2>6. QED
    BY <2>3, <2>5 DEF TidyText
<1>26. QED
  BY <1>8, <1>18, <1>22, <1>23, <1>24, <1>25

--------------------------------------------------------------------------------
(* What a hand makes of a file. *)

LEMMA LineStands ==
  ASSUME NEW ls \in Seq(Line), NEW i \in 1 .. Len(ls)
  PROVE  \E p, r \in Seq(Line) :
           /\ Len(p) = i - 1 /\ p = SubSeq(ls, 1, i - 1) /\ <<ls[i]>> \in Seq(Line)
           /\ ls = Cat(p, Cat(<<ls[i]>>, r))
           /\ SubSeq(ls, i, Len(ls)) = Cat(<<ls[i]>>, r)
           /\ RemoveAt(ls, i) = Cat(p, r)
<1>1. i \in Nat /\ Len(ls) \in Nat /\ ls[i] \in Line
  OBVIOUS
<1>2. PICK p : p = SubSeq(ls, 1, i - 1)
  OBVIOUS
<1>3. PICK x : x = SubSeq(ls, i, Len(ls))
  OBVIOUS
<1>4. PICK r : r = SubSeq(ls, i + 1, Len(ls))
  OBVIOUS
<1>5. p \in Seq(Line) /\ Len(p) = i - 1
  BY <1>1, <1>2, StretchIsText
<1>6. r \in Seq(Line) /\ x \in Seq(Line)
  BY <1>1, <1>3, <1>4, StretchIsText
<1>7. ls = Cat(p, x)
  <2>1. i \in 1 .. (Len(ls) + 1)
    BY <1>1
  <2>2. QED
    BY <1>2, <1>3, <2>1, SplitAt DEF Cat
<1>8. x = Cat(<<ls[i]>>, r)
  <2>1. Len(ls) \in i .. Len(ls)
    BY <1>1
  <2>2. QED
    BY <1>3, <1>4, <2>1, SubSeqRecursiveFirst DEF Cat
<1>9. RemoveAt(ls, i) = Cat(p, r)
  BY <1>2, <1>4, Zenon DEF RemoveAt, Cat
<1>10. <<ls[i]>> \in Seq(Line)
  BY <1>1
<1>11. QED
  BY <1>2, <1>3, <1>5, <1>6, <1>7, <1>8, <1>9, <1>10, Zenon

\* One line less, or one more that marks and fences nothing.
LEMMA CutIsSound ==
  ASSUME NEW p \in Seq(Line), NEW x \in Seq(Line), NEW r \in Seq(Line), p # <<>>,
         NEW ls, Sound(ls), ls = Cat(p, Cat(x, r))
  PROVE  LET new == Cat(p, r)
         IN  Sound(new) /\ MarkedIds(new) \subseteq MarkedIds(ls) /\ FenceIds(new) \subseteq FenceIds(ls)
<1>1. PICK new : new = Cat(p, r)
  OBVIOUS
<1>2. PICK y : y = Cat(x, r)
  OBVIOUS
<1>3. y \in Seq(Line) /\ ls = Cat(p, y) /\ new \in Seq(Line)
  BY <1>1, <1>2, CatIs
<1>4. /\ MarkedIds(y) = MarkedIds(x) \cup MarkedIds(r) /\ FenceIds(y) = FenceIds(x) \cup FenceIds(r)
      /\ MarkedOnce(y) <=> MarkedOnce(x) /\ MarkedOnce(r) /\ MarkedIds(x) \cap MarkedIds(r) = {}
  BY <1>2, CatMarkers
<1>5. /\ MarkedIds(ls) = MarkedIds(p) \cup MarkedIds(y) /\ FenceIds(ls) = FenceIds(p) \cup FenceIds(y)
      /\ MarkedOnce(ls) <=> MarkedOnce(p) /\ MarkedOnce(y) /\ MarkedIds(p) \cap MarkedIds(y) = {}
  BY <1>3, CatMarkers
<1>6. /\ MarkedIds(new) = MarkedIds(p) \cup MarkedIds(r) /\ FenceIds(new) = FenceIds(p) \cup FenceIds(r)
      /\ MarkedOnce(new) <=> MarkedOnce(p) /\ MarkedOnce(r) /\ MarkedIds(p) \cap MarkedIds(r) = {}
  BY <1>1, CatMarkers
<1>7. MarkedOnce(ls) /\ ls[1].kind = "blank"
  BY DEF Sound
<1>8. MarkedOnce(new)
  BY <1>4, <1>5, <1>6, <1>7
<1>9. new # <<>> /\ new[1].kind = "blank"
  <2>1. 1 \in 1 .. Len(p)
    OBVIOUS
  <2>2. \A i \in 1 .. Len(p) : ls[i] = p[i]
    <3>1. \A i \in 1 .. Len(p) : Cat(p, y)[i] = p[i]
      BY <1>3, CatLines
    <3>2. QED
      BY <1>3, <3>1, Zenon
  <2>3. (\A i \in 1 .. Len(p) : new[i] = p[i]) /\ Len(new) = Len(p) + Len(r) /\ Len(r) \in Nat
    BY <1>1, CatLines
  <2>4. new[1] = ls[1]
    BY <2>1, <2>2, <2>3
  <2>5. Len(new) # 0
    BY <2>1, <2>3
  <2>6. new # <<>>
    BY <2>5
  <2>7. QED
    BY <1>7, <2>4, <2>6
<1>10. Sound(new)
  BY <1>3, <1>8, <1>9 DEF Sound
<1>11. QED
  BY <1>1, <1>4, <1>5, <1>6, <1>10

LEMMA PutIsSound ==
  ASSUME NEW p \in Seq(Line), NEW x \in Seq(Line), NEW r \in Seq(Line), p # <<>>,
         MarkedIds(x) = {}, FenceIds(x) = {}, MarkedOnce(x),
         NEW ls, Sound(ls), ls = Cat(p, r)
  PROVE  LET new == Cat(p, Cat(x, r))
         IN  Sound(new) /\ MarkedIds(new) \subseteq MarkedIds(ls) /\ FenceIds(new) \subseteq FenceIds(ls)
<1>1. PICK y : y = Cat(x, r)
  OBVIOUS
<1>2. PICK new : new = Cat(p, y)
  OBVIOUS
<1>3. y \in Seq(Line) /\ new \in Seq(Line)
  BY <1>1, <1>2, CatIs
<1>4. /\ MarkedIds(y) = MarkedIds(x) \cup MarkedIds(r) /\ FenceIds(y) = FenceIds(x) \cup FenceIds(r)
      /\ MarkedOnce(y) <=> MarkedOnce(x) /\ MarkedOnce(r) /\ MarkedIds(x) \cap MarkedIds(r) = {}
  BY <1>1, CatMarkers
<1>5. /\ MarkedIds(new) = MarkedIds(p) \cup MarkedIds(y) /\ FenceIds(new) = FenceIds(p) \cup FenceIds(y)
      /\ MarkedOnce(new) <=> MarkedOnce(p) /\ MarkedOnce(y) /\ MarkedIds(p) \cap MarkedIds(y) = {}
  BY <1>2, <1>3, CatMarkers
<1>6. /\ MarkedIds(ls) = MarkedIds(p) \cup MarkedIds(r) /\ FenceIds(ls) = FenceIds(p) \cup FenceIds(r)
      /\ MarkedOnce(ls) <=> MarkedOnce(p) /\ MarkedOnce(r) /\ MarkedIds(p) \cap MarkedIds(r) = {}
  BY CatMarkers
<1>7. MarkedOnce(ls) /\ ls[1].kind = "blank"
  BY DEF Sound
<1>8. MarkedOnce(new)
  BY <1>4, <1>5, <1>6, <1>7
<1>9. new # <<>> /\ new[1].kind = "blank"
  <2>1. 1 \in 1 .. Len(p)
    OBVIOUS
  <2>2. \A i \in 1 .. Len(p) : ls[i] = p[i]
    BY CatLines
  <2>3. (\A i \in 1 .. Len(p) : new[i] = p[i]) /\ Len(new) = Len(p) + Len(y) /\ Len(y) \in Nat
    BY <1>2, <1>3, CatLines, ZenonT(30)
  <2>4. new[1] = ls[1]
    BY <2>1, <2>2, <2>3
  <2>5. Len(new) # 0
    BY <2>1, <2>3
  <2>6. new # <<>>
    BY <2>5
  <2>7. QED
    BY <1>7, <2>4, <2>6
<1>10. Sound(new)
  BY <1>3, <1>8, <1>9 DEF Sound
<1>11. QED
  BY <1>1, <1>2, <1>4, <1>5, <1>6, <1>10

\* A line that no text is the worse for.
Idle == {Blank, Plain("rule")}

LEMMA IdleIs ==
  ASSUME NEW l \in Idle
  PROVE  /\ l \in Line /\ <<l>> \in Seq(Line) /\ l.kind \in {"blank", "rule"}
         /\ Heads(<<l>>) = {} /\ MarkedIds(<<l>>) = {} /\ FenceIds(<<l>>) = {} /\ MarkedOnce(<<l>>)
<1>1. l \in Line /\ l.kind \in {"blank", "rule"}
  BY BlankIs, PlainIs DEF Idle, LineKind
<1>2. PICK s : s = <<l>>
  OBVIOUS
<1>3. s \in Seq(Line) /\ Len(s) = 1 /\ s[1] = l
  BY <1>1, <1>2, TwoLines
<1>4. \A i \in 1 .. Len(s) : s[i].kind \in {"blank", "rule"}
  <2>1. \A i \in 1 .. 1 : i = 1
    OBVIOUS
  <2>2. QED
    BY <1>1, <1>3, <2>1
<1>5. QED
  BY <1>1, <1>2, <1>3, <1>4, HoldsNothing DEF MarkerKind, FenceKind

\* What a hand makes of a sound text is one, with no mark it did not have.
Kin(new, ls) ==
  Sound(new) /\ MarkedIds(new) \subseteq MarkedIds(ls) /\ FenceIds(new) \subseteq FenceIds(ls)

LEMMA RemoveIsSound ==
  ASSUME NEW ls, Sound(ls), NEW i \in 2 .. Len(ls)
  PROVE  Kin(RemoveAt(ls, i), ls)
<1>1. ls \in Seq(Line)
  BY DEF Sound
<1>2. i \in 1 .. Len(ls) /\ i - 1 # 0
  OBVIOUS
<1>3. PICK p \in Seq(Line), r \in Seq(Line) :
        /\ Len(p) = i - 1 /\ <<ls[i]>> \in Seq(Line)
        /\ ls = Cat(p, Cat(<<ls[i]>>, r))
        /\ RemoveAt(ls, i) = Cat(p, r)
  BY <1>1, <1>2, LineStands
<1>4. PICK x : x = <<ls[i]>>
  OBVIOUS
<1>5. x \in Seq(Line) /\ ls = Cat(p, Cat(x, r))
  BY <1>3, <1>4, Zenon
<1>6. p # <<>>
  <2>1. Len(p) # 0
    BY <1>2, <1>3
  <2>2. QED
    BY <2>1
<1>7. PICK new : new = Cat(p, r)
  OBVIOUS
<1>8. Sound(new) /\ MarkedIds(new) \subseteq MarkedIds(ls) /\ FenceIds(new) \subseteq FenceIds(ls)
  BY <1>5, <1>6, <1>7, CutIsSound
<1>9. QED
  BY <1>3, <1>7, <1>8, Zenon DEF Kin

LEMMA InsertIsSound ==
  ASSUME NEW ls, Sound(ls), NEW i \in 1 .. Len(ls), NEW l \in Idle
  PROVE  Kin(InsertAt(ls, i + 1, l), ls)
<1>1. ls \in Seq(Line)
  BY DEF Sound
<1>2. PICK p : p = SubSeq(ls, 1, i)
  OBVIOUS
<1>3. PICK k \in Nat : k = i + 1 /\ i = k - 1
  OBVIOUS
<1>4. i \in Nat /\ i =< Len(ls) /\ k \in Nat \ {0} /\ Len(ls) \in Nat /\ 1 =< i
  BY <1>1, <1>3
<1>5. PICK r : r = SubSeq(ls, k, Len(ls))
  OBVIOUS
<1>6. k \in 1 .. (Len(ls) + 1)
  BY <1>3, <1>4
<1>7. ls = SubSeq(ls, 1, k - 1) \o SubSeq(ls, k, Len(ls))
  BY <1>1, <1>6, SplitAt
<1>8. p \in Seq(Line) /\ Len(p) = i
  BY <1>1, <1>2, <1>4, StretchIsText
<1>9. r \in Seq(Line)
  BY <1>1, <1>4, <1>5, StretchIsText
<1>10. p # <<>>
  <2>1. Len(p) # 0
    BY <1>4, <1>8
  <2>2. QED
    BY <2>1
<1>11. PICK x : x = <<l>>
  OBVIOUS
<1>12. /\ x \in Seq(Line) /\ MarkedIds(x) = {} /\ FenceIds(x) = {} /\ MarkedOnce(x)
  BY <1>11, IdleIs
<1>13. ls = Cat(p, r)
  BY <1>2, <1>3, <1>5, <1>7, Zenon DEF Cat
<1>14. PICK new : new = InsertAt(ls, k, l)
  OBVIOUS
<1>15. new = Cat(Cat(p, x), r)
  BY <1>2, <1>3, <1>5, <1>11, <1>14, Zenon DEF Cat, InsertAt
<1>16. new = Cat(p, Cat(x, r))
  BY <1>8, <1>9, <1>12, <1>15, CatAssoc
<1>17. Sound(new) /\ MarkedIds(new) \subseteq MarkedIds(ls) /\ FenceIds(new) \subseteq FenceIds(ls)
  BY <1>8, <1>9, <1>10, <1>12, <1>13, <1>16, PutIsSound
<1>18. QED
  BY <1>3, <1>14, <1>17, Zenon DEF Kin

LEMMA SpoilIsSound ==
  ASSUME NEW ls, Sound(ls), NEW i \in 1 .. Len(ls), ls[i].kind = "marker"
  PROVE  Kin([ls EXCEPT ![i].kind = "spoiled marker"], ls)
<1>1. ls \in Seq(Line) /\ ls[1].kind = "blank" /\ MarkedOnce(ls)
  BY DEF Sound
<1>2. ls[i] \in Line
  BY <1>1
<1>3. PICK x : x = [ls[i] EXCEPT !.kind = "spoiled marker"]
  OBVIOUS
<1>4. x \in Line /\ x.kind = "spoiled marker" /\ x.id = ls[i].id
  BY <1>2, <1>3 DEF Line, LineKind
<1>5. PICK new : new = [ls EXCEPT ![i] = x]
  OBVIOUS
<1>6. new = [ls EXCEPT ![i].kind = "spoiled marker"]
  BY <1>3, <1>5
<1>7. /\ new \in Seq(Line) /\ Len(new) = Len(ls)
      /\ \A j \in 1 .. Len(ls) : new[j] = IF j = i THEN x ELSE ls[j]
  <2>1. ls \in Seq(Line) /\ x \in Line
    BY <1>1, <1>4
  <2>2. QED
    BY <2>1, <1>5, ExceptSeq
<1>8. PICK n : n = Len(ls) /\ n = Len(new)
  BY <1>7
<1>9. \A j \in 1 .. n : j # i => new[j] = ls[j]
  BY <1>7, <1>8
<1>10. new[i] = x /\ i \in 1 .. n
  BY <1>7, <1>8
<1>11. /\ \A j \in 1 .. n : new[j].id = ls[j].id
       /\ \A j \in 1 .. n : new[j].kind \in MarkerKind <=> ls[j].kind \in MarkerKind
       /\ \A j \in 1 .. n : new[j].kind \in FenceKind <=> ls[j].kind \in FenceKind
  BY <1>4, <1>9, <1>10 DEF MarkerKind, FenceKind
<1>12. /\ MarkerLines(ls) = {j \in 1 .. n : ls[j].kind \in MarkerKind}
       /\ MarkedIds(ls) = {ls[j].id : j \in {k \in 1 .. n : ls[k].kind \in MarkerKind}}
       /\ FenceIds(ls) = {ls[j].id : j \in {k \in 1 .. n : ls[k].kind \in FenceKind}}
  BY <1>1, <1>8, MarkersAre
<1>13. /\ MarkerLines(new) = {j \in 1 .. n : new[j].kind \in MarkerKind}
       /\ MarkedIds(new) = {new[j].id : j \in {k \in 1 .. n : new[k].kind \in MarkerKind}}
       /\ FenceIds(new) = {new[j].id : j \in {k \in 1 .. n : new[k].kind \in FenceKind}}
  BY <1>7, <1>8, MarkersAre
<1>14. MarkerLines(new) = MarkerLines(ls) /\ MarkerLines(ls) \subseteq 1 .. n
  BY <1>11, <1>12, <1>13
<1>15. MarkedIds(new) = MarkedIds(ls) /\ FenceIds(new) = FenceIds(ls)
  BY <1>11, <1>12, <1>13
<1>16. MarkedOnce(new)
  BY <1>1, <1>11, <1>14 DEF MarkedOnce
<1>17. new # <<>> /\ new[1].kind = "blank"
  <2>1. i # 1
    BY <1>1
  <2>2. 1 \in 1 .. n /\ Len(new) # 0
    BY <1>8
  <2>3. QED
    BY <1>1, <1>9, <2>1, <2>2
<1>18. Sound(new)
  BY <1>7, <1>16, <1>17 DEF Sound
<1>19. QED
  BY <1>6, <1>15, <1>18 DEF Kin

--------------------------------------------------------------------------------
(* Histories: how a file grows, and what can be read of it. *)

\* A text that adds to the history of a message: a revision of it, or what it was cut to.
Adds(text, id, r) ==
  /\ text \in Seq(HistoryLine) /\ Len(text) >= 1
  /\ \A j \in 1 .. Len(text) : text[j].kind = "rev" => j = 4 /\ text[j] = RevOpen(id, r.revision)
  /\ \A j \in 1 .. Len(text) : text[j].kind = "rev end" =>
       /\ j = Len(r.body) + 5 /\ text[j] = RevClose(id, r.revision) /\ text[4] = RevOpen(id, r.revision)
       /\ \A i \in 1 .. Len(r.body) : text[4 + i] = r.body[i]
  /\ (\A j \in 1 .. Len(text) - 1 : text[j].kind # "rev") => \A j \in 1 .. Len(text) : text[j].kind # "rule"

Whole(text, id, r) ==
  /\ text[4] = RevOpen(id, r.revision) /\ text[Len(r.body) + 5] = RevClose(id, r.revision)
  /\ Len(text) = Len(r.body) + 8
  /\ \A i \in 1 .. Len(r.body) : text[4 + i] = r.body[i]

LEMMA FourIs ==
  ASSUME NEW S, NEW a \in S, NEW b \in S, NEW c \in S, NEW d \in S
  PROVE  LET s == <<a, b, c, d>>
         IN  s \in Seq(S) /\ Len(s) = 4 /\ s[1] = a /\ s[2] = b /\ s[3] = c /\ s[4] = d
  OBVIOUS

LEMMA JoinIs ==
  ASSUME NEW s \in Seq(HistoryLine), NEW t \in Seq(HistoryLine)
  PROVE  /\ Cat(s, t) \in Seq(HistoryLine) /\ Len(Cat(s, t)) = Len(s) + Len(t)
         /\ \A i \in 1 .. Len(s) : Cat(s, t)[i] = s[i]
         /\ \A i \in 1 .. Len(t) : Cat(s, t)[Len(s) + i] = t[i]
BY ConcatProperties DEF Cat

\* The lines of a revision.
LEMMA RevisionIs ==
  ASSUME NEW id \in Id, NEW r, r.revision \in Nat, r.body \in Seq(Line)
  PROVE  LET text == FormatRevision(id, r)
             n    == Len(r.body)
         IN  /\ text \in Seq(HistoryLine) /\ Len(text) = n + 8
             /\ text[1].kind = "heading" /\ text[2] = Plain("meta") /\ text[3] = Blank /\ text[4] = RevOpen(id, r.revision)
             /\ \A i \in 1 .. n : text[4 + i] = r.body[i]
             /\ text[n + 5] = RevClose(id, r.revision)
             /\ \A i \in (n + 6) .. (n + 8) : text[i] \in {Blank, Plain("rule")}
<1>1. PICK n : n = Len(r.body)
  OBVIOUS
<1>2. n \in Nat /\ \A i \in 1 .. n : r.body[i] \in Line
  BY <1>1
<1>3. PICK a : a = << [Plain("heading") EXCEPT !.revision = r.revision], Plain("meta"), Blank, RevOpen(id, r.revision) >>
  OBVIOUS
<1>4. PICK z : z = << RevClose(id, r.revision), Blank, Plain("rule"), Blank >>
  OBVIOUS
<1>5. PICK text : text = FormatRevision(id, r)
  OBVIOUS
<1>6. text = Cat(Cat(a, r.body), z)
  BY <1>3, <1>4, <1>5 DEF FormatRevision, Cat
<1>7. id \in Nat
  BY IdAssumption
<1>8. [Plain("heading") EXCEPT !.revision = r.revision] \in HistoryLine /\ [Plain("heading") EXCEPT !.revision = r.revision].kind = "heading"
  BY DEF Plain, Of, HistoryLine, Line, LineKind
<1>9. Plain("meta") \in HistoryLine /\ Blank \in HistoryLine /\ Plain("rule") \in HistoryLine
  BY DEF Plain, Blank, Of, HistoryLine, Line, LineKind
<1>10. RevOpen(id, r.revision) \in HistoryLine /\ RevClose(id, r.revision) \in HistoryLine
  BY <1>7 DEF RevOpen, RevClose, HistoryLine, Fence
<1>11. r.body \in Seq(HistoryLine)
  BY DEF HistoryLine
<1>12. /\ a \in Seq(HistoryLine) /\ Len(a) = 4
       /\ a[1].kind = "heading" /\ a[2] = Plain("meta") /\ a[3] = Blank /\ a[4] = RevOpen(id, r.revision)
  BY <1>3, <1>8, <1>9, <1>10, FourIs, Zenon
<1>13. /\ z \in Seq(HistoryLine) /\ Len(z) = 4
       /\ z[1] = RevClose(id, r.revision) /\ z[2] = Blank /\ z[3] = Plain("rule") /\ z[4] = Blank
  BY <1>4, <1>9, <1>10, FourIs, Zenon
<1>14. PICK b : b = Cat(a, r.body)
  OBVIOUS
<1>15. b \in Seq(HistoryLine) /\ Len(b) = 4 + n /\ (\A i \in 1 .. 4 : b[i] = a[i]) /\ \A i \in 1 .. n : b[4 + i] = r.body[i]
  <2>1. /\ b \in Seq(HistoryLine) /\ Len(b) = Len(a) + Len(r.body)
        /\ \A i \in 1 .. Len(a) : b[i] = a[i]
        /\ \A i \in 1 .. Len(r.body) : b[Len(a) + i] = r.body[i]
    BY <1>11, <1>12, <1>14, JoinIs, ZenonT(30)
  <2>2. QED
    BY <1>1, <1>12, <2>1
<1>16. text = Cat(b, z)
  BY <1>6, <1>14
<1>17. /\ text \in Seq(HistoryLine) /\ Len(text) = 4 + n + 4
       /\ \A i \in 1 .. 4 + n : text[i] = b[i]
       /\ \A i \in 1 .. 4 : text[4 + n + i] = z[i]
  <2>1. /\ text \in Seq(HistoryLine) /\ Len(text) = Len(b) + Len(z)
        /\ \A i \in 1 .. Len(b) : text[i] = b[i]
        /\ \A i \in 1 .. Len(z) : text[Len(b) + i] = z[i]
    BY <1>13, <1>15, <1>16, JoinIs, ZenonT(30)
  <2>2. QED
    BY <1>13, <1>15, <2>1
<1>18. Len(text) = n + 8 /\ \A i \in 1 .. (n + 4) : text[i] = b[i]
  BY <1>2, <1>17
<1>19. \A i \in 1 .. 4 : text[n + 4 + i] = z[i]
  BY <1>2, <1>17
<1>20. \A i \in 1 .. n : text[4 + i] = r.body[i]
  <2>1. \A i \in 1 .. n : 4 + i \in 1 .. n + 4
    BY <1>2
  <2>2. QED
    BY <1>15, <1>18, <2>1
<1>21. text[1] = a[1] /\ text[2] = a[2] /\ text[3] = a[3] /\ text[4] = a[4]
  BY <1>2, <1>15, <1>18
<1>22. text[n + 5] = z[1] /\ text[n + 6] = z[2] /\ text[n + 7] = z[3] /\ text[n + 8] = z[4]
  <2>1. text[n + 4 + 1] = z[1] /\ text[n + 4 + 2] = z[2] /\ text[n + 4 + 3] = z[3] /\ text[n + 4 + 4] = z[4]
    BY <1>19
  <2>2. QED
    BY <1>2, <2>1
<1>23. \A i \in (n + 6) .. (n + 8) : i = n + 6 \/ i = n + 7 \/ i = n + 8
  BY <1>2
<1>24. \A i \in (n + 6) .. (n + 8) : text[i] \in {Blank, Plain("rule")}
  BY <1>13, <1>22, <1>23
<1>25. QED
  BY <1>1, <1>5, <1>12, <1>13, <1>17, <1>18, <1>20, <1>21, <1>22, <1>24, Zenon

\* A line that is cut or run together with another is neither a fence nor a rule.
LEMMA CutIs ==
  ASSUME NEW l \in HistoryLine, NEW c \in CutLine(l)
  PROVE  c \in HistoryLine /\ (c = l \/ c.kind \in {"blank", "text"})
<1>1. c = Blank \/ c = Remnant \/ c = l
  BY DEF CutLine
<1>2. Blank \in HistoryLine /\ Blank.kind = "blank"
  BY DEF Blank, Plain, Of, HistoryLine, Line, LineKind
<1>3. Remnant \in HistoryLine /\ Remnant.kind = "text"
  BY DEF Remnant, Text, Of, HistoryLine, Line, LineKind
<1>4. QED
  BY <1>1, <1>2, <1>3

LEMMA TornIs ==
  ASSUME NEW id \in Id, NEW r, r.revision \in Nat, r.body \in Seq(Line),
         NEW text \in Tears(FormatRevision(id, r))
  PROVE  Adds(text, id, r)
<1>1. PICK n : n = Len(r.body)
  OBVIOUS
<1>2. n \in Nat /\ \A i \in 1 .. n : r.body[i] \in Line
  BY <1>1
<1>3. PICK all : all = FormatRevision(id, r)
  OBVIOUS
<1>4. /\ all \in Seq(HistoryLine) /\ Len(all) = n + 8
      /\ all[1].kind = "heading" /\ all[2] = Plain("meta") /\ all[3] = Blank /\ all[4] = RevOpen(id, r.revision)
      /\ \A i \in 1 .. n : all[4 + i] = r.body[i]
      /\ all[n + 5] = RevClose(id, r.revision)
      /\ \A i \in (n + 6) .. (n + 8) : all[i] \in {Blank, Plain("rule")}
  BY <1>1, <1>3, RevisionIs, Zenon
<1>5. PICK k \in DOMAIN all : text \in {Append(SubSeq(all, 1, k - 1), l) : l \in CutLine(all[k])}
  BY <1>3 DEF Tears
<1>6. PICK l \in CutLine(all[k]) : text = Append(SubSeq(all, 1, k - 1), l)
  BY <1>5
<1>7. k \in 1 .. (n + 8) /\ all[k] \in HistoryLine
  BY <1>4
<1>8. l \in HistoryLine /\ (l = all[k] \/ l.kind \in {"blank", "text"})
  BY <1>6, <1>7, CutIs
<1>9. /\ text \in Seq(HistoryLine) /\ Len(text) = k /\ text[k] = l
      /\ \A i \in 1 .. (k - 1) : text[i] = all[i]
  <2>1. PICK s : s = SubSeq(all, 1, k - 1)
    OBVIOUS
  <2>2. s \in Seq(HistoryLine) /\ Len(s) = k - 1 /\ \A i \in 1 .. (k - 1) : s[i] = all[i]
    BY <1>2, <1>4, <1>7, <2>1
  <2>3. text = Append(s, l)
    BY <1>6, <2>1
  <2>4. QED
    BY <1>7, <1>8, <2>2, <2>3
\* Of what line it is, by its place.
<1>10. ASSUME NEW j \in 1 .. Len(text)
       PROVE  /\ text[j] = all[j] \/ text[j].kind \in {"blank", "text"}
              /\ j \in 1 .. (n + 8) /\ (j < k => text[j] = all[j])
  BY <1>2, <1>7, <1>8, <1>9
<1>11. ASSUME NEW j \in 1 .. (n + 8)
       PROVE  /\ all[j].kind = "rev" => j = 4
              /\ all[j].kind = "rev end" => j = n + 5
              /\ all[j].kind = "rule" => j > 4
  <2>1. all[1].kind \notin {"rev", "rev end", "rule"} /\ all[2].kind \notin {"rev", "rev end", "rule"}
    BY <1>4 DEF Plain, Of
  <2>2. all[3].kind \notin {"rev", "rev end", "rule"} /\ all[4].kind = "rev"
    BY <1>4 DEF Plain, Of, Blank, RevOpen
  <2>3. ASSUME j \in 5 .. (n + 4)
        PROVE  all[j].kind \notin {"rev", "rev end"}
    <3>1. j - 4 \in 1 .. n /\ 4 + (j - 4) = j
      BY <1>2, <2>3
    <3>2. all[j] = r.body[j - 4]
      BY <1>4, <3>1
    <3>3. all[j] \in Line
      BY <1>2, <3>1, <3>2
    <3>4. QED
      BY <3>3 DEF Line, LineKind
  <2>4. all[n + 5].kind = "rev end"
    <3>1. RevClose(id, r.revision).kind = "rev end"
      BY DEF RevClose
    <3>2. QED
      BY <1>4, <3>1, Zenon
  <2>5. ASSUME j \in (n + 6) .. (n + 8)
        PROVE  all[j].kind \notin {"rev", "rev end"}
    <3>1. Blank.kind = "blank" /\ Plain("rule").kind = "rule"
      BY DEF Plain, Of, Blank
    <3>2. all[j] = Blank \/ all[j] = Plain("rule")
      BY <1>4, <2>5
    <3>3. QED
      BY <3>1, <3>2
  <2>6. j = 1 \/ j = 2 \/ j = 3 \/ j = 4 \/ j \in 5 .. (n + 4) \/ j = n + 5 \/ j \in (n + 6) .. (n + 8)
    BY <1>2
  <2>7. j \in 5 .. (n + 4) \/ j = n + 5 \/ j \in (n + 6) .. (n + 8) => j > 4
    BY <1>2
  <2>8. QED
    BY <2>1, <2>2, <2>3, <2>4, <2>5, <2>6, <2>7
<1>12. \A j \in 1 .. Len(text) : text[j].kind = "rev" => j = 4 /\ text[j] = RevOpen(id, r.revision)
  BY <1>4, <1>10, <1>11
<1>13. ASSUME NEW j \in 1 .. Len(text), text[j].kind = "rev end"
       PROVE  /\ j = n + 5 /\ text[j] = RevClose(id, r.revision) /\ text[4] = RevOpen(id, r.revision)
              /\ \A i \in 1 .. n : text[4 + i] = r.body[i]
  <2>1. text[j] = all[j] /\ j = n + 5
    BY <1>10, <1>11, <1>13
  <2>2. k >= n + 5
    BY <1>2, <1>7, <1>9, <2>1
  <2>3. \A i \in 1 .. (n + 4) : i \in 1 .. Len(text) /\ i < k
    BY <1>2, <1>7, <1>9, <2>2
  <2>4. \A i \in 1 .. (n + 4) : text[i] = all[i]
    BY <1>10, <2>3
  <2>5. 4 \in 1 .. (n + 4) /\ \A i \in 1 .. n : 4 + i \in 1 .. (n + 4)
    BY <1>2
  <2>6. QED
    BY <1>4, <2>1, <2>4, <2>5
<1>14. ASSUME \A j \in 1 .. Len(text) - 1 : text[j].kind # "rev"
       PROVE  \A j \in 1 .. Len(text) : text[j].kind # "rule"
  <2>1. k =< 4
    <3>1. SUFFICES ASSUME k > 4 PROVE FALSE
      BY <1>7
    <3>2. 4 \in 1 .. Len(text) - 1 /\ 4 \in 1 .. Len(text) /\ 4 < k
      BY <1>7, <1>9, <3>1
    <3>3. text[4].kind = "rev"
      BY <1>4, <1>10, <3>2 DEF RevOpen
    <3>4. QED
      BY <1>14, <3>2, <3>3
  <2>2. \A j \in 1 .. Len(text) : ~ (j > 4)
    BY <1>7, <1>9, <2>1
  <2>3. QED
    BY <1>10, <1>11, <2>2
<1>15. Len(text) >= 1
  BY <1>7, <1>9
<1>16. QED
  BY <1>1, <1>9, <1>12, <1>13, <1>14, <1>15, Zenon DEF Adds

\* What stands behind what was there.
LEMMA AppendedIs ==
  ASSUME NEW file \in Seq(HistoryLine), Len(file) >= 1, NEW text \in Seq(HistoryLine), Len(text) >= 1
  PROVE  LET new == Appended(file, text)
             m   == Len(file)
         IN  /\ new \in Seq(HistoryLine) /\ Len(new) = m + Len(text) - 1
             /\ \A i \in 1 .. (m - 1) : new[i] = file[i]
             /\ new[m] = file[m] \/ new[m] = text[1] \/ new[m].kind = "text"
             /\ \A k \in 2 .. Len(text) : new[m - 1 + k] = text[k]
<1>1. PICK m : m = Len(file)
  OBVIOUS
<1>2. PICK n : n = Len(text)
  OBVIOUS
<1>3. m \in Nat \ {0} /\ n \in Nat \ {0}
  BY <1>1, <1>2
<1>4. PICK line : line = RunOn(file[m], text[1])
  OBVIOUS
<1>5. Remnant \in HistoryLine /\ Remnant.kind = "text"
  BY DEF Remnant, Text, Of, HistoryLine, Line, LineKind
<1>6. line = file[m] \/ line = text[1] \/ line = Remnant
  BY <1>4 DEF RunOn
<1>7. file[m] \in HistoryLine /\ text[1] \in HistoryLine
  BY <1>1, <1>2, <1>3
<1>8. line \in HistoryLine
  BY <1>5, <1>6, <1>7
<1>9. PICK new : new = Appended(file, text)
  OBVIOUS
<1>10. new = [i \in 1 .. m + n - 1 |-> IF i < m THEN file[i] ELSE IF i = m THEN line ELSE text[i - m + 1]]
  BY <1>1, <1>2, <1>4, <1>9 DEF Appended
<1>11. ASSUME NEW i \in 1 .. m + n - 1
       PROVE  (IF i < m THEN file[i] ELSE IF i = m THEN line ELSE text[i - m + 1]) \in HistoryLine
  <2>1. i < m => i \in 1 .. Len(file)
    BY <1>1, <1>3
  <2>2. i > m => i - m + 1 \in 1 .. Len(text)
    BY <1>2, <1>3
  <2>3. i < m \/ i = m \/ i > m
    BY <1>3
  <2>4. QED
    BY <1>3, <1>8, <2>1, <2>2, <2>3
<1>12. new \in Seq(HistoryLine) /\ Len(new) = m + n - 1
  <2>1. m + n - 1 \in Nat
    BY <1>3
  <2>2. new \in [1 .. m + n - 1 -> HistoryLine]
    BY <1>10, <1>11
  <2>3. QED
    BY <2>1, <2>2
<1>13. \A i \in 1 .. (m - 1) : i \in 1 .. m + n - 1 /\ i < m
  BY <1>3
<1>14. \A i \in 1 .. (m - 1) : new[i] = file[i]
  BY <1>10, <1>13
<1>15. new[m] = line
  BY <1>3, <1>10
<1>16. ASSUME NEW k \in 2 .. n
       PROVE  new[m - 1 + k] = text[k]
  <2>1. m - 1 + k \in 1 .. m + n - 1 /\ ~ (m - 1 + k < m) /\ m - 1 + k # m /\ (m - 1 + k) - m + 1 = k
    BY <1>3
  <2>2. QED
    BY <1>10, <2>1
<1>17. QED
  BY <1>1, <1>2, <1>5, <1>6, <1>9, <1>12, <1>14, <1>15, <1>16

\* Its open fence at o, and its close at c, enclose r.
FencedAt(file, id, o, c, r) ==
  /\ o \in 1 .. (c - 1) /\ c \in 1 .. Len(file)
  /\ file[o] = RevOpen(id, r.revision) /\ file[c] = RevClose(id, r.revision)
  /\ \A k \in (o + 1) .. (c - 1) : file[k].kind \notin {"rev", "rev end"}
  /\ AsText(SubSeq(file, o + 1, c - 1)) = r.body

LEMMA SameLines ==
  ASSUME NEW file \in Seq(HistoryLine), NEW new \in Seq(HistoryLine), NEW a \in Nat \ {0}, NEW b \in Nat,
         b =< Len(file), b =< Len(new), \A i \in a .. b : new[i] = file[i]
  PROVE  SubSeq(new, a, b) = SubSeq(file, a, b)
<1>1. PICK s : s = SubSeq(file, a, b)
  OBVIOUS
<1>2. PICK t : t = SubSeq(new, a, b)
  OBVIOUS
<1>3. (\A i \in a .. b : file[i] \in HistoryLine) /\ \A i \in a .. b : new[i] \in HistoryLine
  OBVIOUS
<1>4. /\ s \in Seq(HistoryLine) /\ Len(s) = IF a <= b THEN b - a + 1 ELSE 0
      /\ \A i \in 1 .. b - a + 1 : s[i] = file[a + i - 1]
  BY <1>1, <1>3, SubSeqProperties
<1>5. /\ t \in Seq(HistoryLine) /\ Len(t) = IF a <= b THEN b - a + 1 ELSE 0
      /\ \A i \in 1 .. b - a + 1 : t[i] = new[a + i - 1]
  BY <1>2, <1>3, SubSeqProperties
<1>6. ASSUME NEW i \in 1 .. Len(s)
      PROVE  s[i] = t[i]
  <2>1. i \in 1 .. b - a + 1 /\ a + i - 1 \in a .. b
    BY <1>4
  <2>2. QED
    BY <1>4, <1>5, <2>1
<1>7. s = t
  BY <1>4, <1>5, <1>6, SeqEqual
<1>8. QED
  BY <1>1, <1>2, <1>7

LEMMA FencedStays ==
  ASSUME NEW file \in Seq(HistoryLine), NEW new \in Seq(HistoryLine), NEW id, NEW o, NEW c, NEW r,
         FencedAt(file, id, o, c, r), c =< Len(new), \A i \in 1 .. c : new[i] = file[i]
  PROVE  FencedAt(new, id, o, c, r)
<1>1. o \in 1 .. (c - 1) /\ c \in 1 .. Len(file) /\ Len(file) \in Nat /\ Len(new) \in Nat
  BY LenProperties DEF FencedAt
<1>2. c \in 1 .. Len(new) /\ o \in 1 .. c /\ c \in 1 .. c /\ o + 1 \in Nat \ {0} /\ c - 1 \in Nat
  BY <1>1
<1>3. \A k \in (o + 1) .. (c - 1) : k \in 1 .. c
  BY <1>1
<1>4. c - 1 =< Len(file) /\ c - 1 =< Len(new)
  BY <1>1, <1>2
<1>5. SubSeq(new, o + 1, c - 1) = SubSeq(file, o + 1, c - 1)
  BY <1>2, <1>3, <1>4, SameLines
<1>6. QED
  BY <1>1, <1>2, <1>3, <1>5 DEF FencedAt

\* The fence that a text brings along.
LEMMA FencedNew ==
  ASSUME NEW file \in Seq(HistoryLine), Len(file) >= 1, NEW text \in Seq(HistoryLine), NEW id,
         NEW r, r.body \in Seq(Line), r.body # <<>>, Len(text) >= Len(r.body) + 5,
         text[4] = RevOpen(id, r.revision), text[Len(r.body) + 5] = RevClose(id, r.revision),
         \A i \in 1 .. Len(r.body) : text[4 + i] = r.body[i]
  PROVE  FencedAt(Appended(file, text), id, Len(file) + 3, Len(file) + Len(r.body) + 4, r)
<1>1. PICK m : m = Len(file)
  OBVIOUS
<1>2. PICK n : n = Len(r.body)
  OBVIOUS
<1>3. PICK new : new = Appended(file, text)
  OBVIOUS
<1>4. m \in Nat \ {0} /\ n \in Nat \ {0} /\ Len(text) \in Nat /\ Len(text) >= n + 5
  BY <1>1, <1>2
<1>5. /\ new \in Seq(HistoryLine) /\ Len(new) = m + Len(text) - 1
      /\ \A k \in 2 .. Len(text) : new[m - 1 + k] = text[k]
  <2>1. Len(text) >= 1
    BY <1>4
  <2>2. /\ new \in Seq(HistoryLine) /\ Len(new) = Len(file) + Len(text) - 1
        /\ \A k \in 2 .. Len(text) : new[Len(file) - 1 + k] = text[k]
    BY <1>3, <2>1, AppendedIs, Zenon
  <2>3. QED
    BY <1>1, <2>2
<1>6. \A k \in 4 .. n + 5 : new[m - 1 + k] = text[k]
  BY <1>4, <1>5
<1>7. 4 \in 4 .. n + 5 /\ n + 5 \in 4 .. n + 5 /\ m - 1 + 4 = m + 3 /\ m - 1 + (n + 5) = m + n + 4
  BY <1>4
<1>8. new[m + 3] = RevOpen(id, r.revision) /\ new[m + n + 4] = RevClose(id, r.revision)
  BY <1>2, <1>6, <1>7
<1>9. ASSUME NEW i \in 1 .. n
      PROVE  new[m + 3 + i] = r.body[i]
  <2>1. 4 + i \in 4 .. n + 5 /\ m - 1 + (4 + i) = m + 3 + i
    BY <1>4
  <2>2. text[4 + i] = r.body[i]
    BY <1>2
  <2>3. QED
    BY <1>6, <2>1, <2>2
<1>10. ASSUME NEW k \in (m + 4) .. (m + n + 3)
       PROVE  new[k].kind \notin {"rev", "rev end"}
  <2>1. k - m - 3 \in 1 .. n /\ m + 3 + (k - m - 3) = k
    BY <1>4
  <2>2. new[k] = r.body[k - m - 3]
    BY <1>9, <2>1
  <2>3. r.body[k - m - 3] \in Line
    BY <1>2, <2>1
  <2>4. QED
    BY <2>2, <2>3 DEF Line, LineKind
<1>11. SubSeq(new, m + 4, m + n + 3) = r.body
  <2>1. PICK s : s = SubSeq(new, m + 4, m + n + 3)
    OBVIOUS
  <2>2. \A k \in (m + 4) .. (m + n + 3) : new[k] \in HistoryLine
    BY <1>4, <1>5
  <2>3. /\ s \in Seq(HistoryLine) /\ Len(s) = n
        /\ \A k \in 1 .. n : s[k] = new[m + 4 + k - 1]
    <3>1. PICK e : e = m + 4
      OBVIOUS
    <3>2. PICK f : f = m + n + 3
      OBVIOUS
    <3>3. e \in Int /\ f \in Int /\ e <= f /\ f - e + 1 = n
      BY <1>4, <3>1, <3>2
    <3>4. \A k \in e .. f : new[k] \in HistoryLine
      BY <2>2, <3>1, <3>2
    <3>5. s = SubSeq(new, e, f)
      BY <2>1, <3>1, <3>2
    <3>6. /\ s \in Seq(HistoryLine) /\ Len(s) = IF e <= f THEN f - e + 1 ELSE 0
          /\ \A k \in 1 .. f - e + 1 : s[k] = new[e + k - 1]
      BY <3>3, <3>4, <3>5, SubSeqProperties
    <3>7. QED
      BY <3>1, <3>3, <3>6
  <2>4. \A k \in 1 .. n : m + 4 + k - 1 = m + 3 + k
    BY <1>4
  <2>5. \A k \in 1 .. n : s[k] = r.body[k]
    BY <1>9, <2>3, <2>4
  <2>6. r.body \in Seq(HistoryLine)
    BY DEF HistoryLine
  <2>7. s = r.body
    BY <1>2, <2>3, <2>5, <2>6, SeqEqual
  <2>8. QED
    BY <2>1, <2>7
<1>12. m + 3 \in 1 .. (m + n + 4) - 1 /\ m + n + 4 \in 1 .. Len(new) /\ (m + 3) + 1 = m + 4 /\ (m + n + 4) - 1 = m + n + 3
  BY <1>4, <1>5
<1>13. AsText(r.body) = r.body
  BY DEF AsText
<1>14. \A k \in ((m + 3) + 1) .. ((m + n + 4) - 1) : new[k].kind \notin {"rev", "rev end"}
  BY <1>10, <1>12
<1>15. AsText(SubSeq(new, (m + 3) + 1, (m + n + 4) - 1)) = r.body
  BY <1>11, <1>12, <1>13
<1>16. QED
  BY <1>1, <1>2, <1>3, <1>8, <1>12, <1>14, <1>15, Zenon DEF FencedAt

\* The headings of v0.3.0, and where their revisions may end.
LHeads(file)   == {h \in DOMAIN file : file[h].kind = "heading"}
LNext(file, h) == Min({k \in LHeads(file) : k > h} \cup {Len(file) + 1})
LEnds(file, h) == {r \in (h + 5) .. (LNext(file, h) - 1) : file[r].kind = "rule" /\ file[r - 1] = Blank}

LEMMA LegacyIs ==
  ASSUME NEW file
  PROVE  ReadLegacy(file) =
           {[revision |-> file[h].revision, body |-> SubSeq(file, h + 3, Min(LEnds(file, h)) - 2)] :
              h \in {k \in LHeads(file) : LEnds(file, k) # {} /\ file[k + 1].kind = "meta" /\ file[k + 2] = Blank}}
  BY Zenon DEF ReadLegacy, LHeads, LNext, LEnds

LEMMA EndsAre ==
  ASSUME NEW file \in Seq(HistoryLine), NEW h \in LHeads(file), NEW r
  PROVE  r \in LEnds(file, h) <=>
           /\ r \in (h + 5) .. Len(file) /\ file[r].kind = "rule" /\ file[r - 1] = Blank
           /\ \A k \in (h + 1) .. r : file[k].kind # "heading"
<1>1. h \in 1 .. Len(file) /\ Len(file) \in Nat
  BY LenProperties DEF LHeads
<1>2. PICK S : S = {k \in LHeads(file) : k > h} \cup {Len(file) + 1}
  OBVIOUS
<1>3. S \in SUBSET Nat /\ S # {}
  BY <1>1, <1>2 DEF LHeads
<1>4. PICK n : n = LNext(file, h)
  OBVIOUS
<1>5. n \in S /\ \A x \in S : n =< x
  BY <1>2, <1>3, <1>4, LeastOf, Zenon DEF LNext
<1>6. n \in Nat /\ n =< Len(file) + 1 /\ n > h
  BY <1>1, <1>2, <1>3, <1>5
<1>7. ASSUME r \in (h + 5) .. (n - 1)
      PROVE  r \in (h + 5) .. Len(file) /\ \A k \in (h + 1) .. r : file[k].kind # "heading"
  <2>1. r \in (h + 5) .. Len(file)
    BY <1>1, <1>6, <1>7
  <2>2. ASSUME NEW k \in (h + 1) .. r, file[k].kind = "heading"
        PROVE  FALSE
    <3>1. k \in 1 .. Len(file) /\ k > h /\ k < n
      BY <1>1, <1>6, <1>7, <2>1
    <3>2. k \in S
      BY <1>2, <2>2, <3>1 DEF LHeads
    <3>3. QED
      BY <1>5, <1>6, <3>1, <3>2
  <2>3. QED
    BY <2>1, <2>2
<1>8. ASSUME r \in (h + 5) .. Len(file), \A k \in (h + 1) .. r : file[k].kind # "heading"
      PROVE  r \in (h + 5) .. (n - 1)
  <2>1. SUFFICES ASSUME n =< r PROVE FALSE
    BY <1>1, <1>6, <1>8
  <2>2. n # Len(file) + 1 /\ n \in (h + 1) .. r
    BY <1>1, <1>6, <1>8, <2>1
  <2>3. file[n].kind = "heading"
    BY <1>2, <1>5, <2>2 DEF LHeads
  <2>4. QED
    BY <1>8, <2>2, <2>3
<1>9. r \in LEnds(file, h) <=> r \in (h + 5) .. (n - 1) /\ file[r].kind = "rule" /\ file[r - 1] = Blank
  BY <1>4, Zenon DEF LEnds
<1>10. QED
  BY <1>7, <1>8, <1>9, Zenon

\* A text without a rule leaves nothing to be read that was not there.
LEMMA NothingAppears ==
  ASSUME NEW file \in Seq(HistoryLine), Len(file) >= 1, NEW text \in Seq(HistoryLine), Len(text) >= 1,
         \A j \in 1 .. Len(text) : text[j].kind # "rule"
  PROVE  ReadLegacy(Appended(file, text)) \subseteq ReadLegacy(file)
<1>1. PICK m : m = Len(file)
  OBVIOUS
<1>2. PICK new : new = Appended(file, text)
  OBVIOUS
<1>3. m \in Nat \ {0} /\ Len(text) \in Nat \ {0}
  BY <1>1
<1>4. /\ new \in Seq(HistoryLine) /\ Len(new) = m + Len(text) - 1
      /\ \A i \in 1 .. (m - 1) : new[i] = file[i]
      /\ new[m] = file[m] \/ new[m] = text[1] \/ new[m].kind = "text"
      /\ \A k \in 2 .. Len(text) : new[m - 1 + k] = text[k]
  BY <1>1, <1>2, AppendedIs, Zenon
<1>5. SUFFICES ASSUME NEW h \in LHeads(new), LEnds(new, h) # {}, new[h + 1].kind = "meta", new[h + 2] = Blank
               PROVE  [revision |-> new[h].revision, body |-> SubSeq(new, h + 3, Min(LEnds(new, h)) - 2)]
                        \in ReadLegacy(file)
  BY <1>2, LegacyIs
<1>6. LEnds(new, h) \in SUBSET Nat
  <2>1. ASSUME NEW x \in LEnds(new, h)
        PROVE  x \in Nat
    <3>1. x \in (h + 5) .. Len(new)
      BY <1>4, EndsAre
    <3>2. h \in Nat
      BY <1>4 DEF LHeads
    <3>3. QED
      BY <3>1, <3>2
  <2>2. QED
    BY <2>1
<1>7. PICK r : r = Min(LEnds(new, h))
  OBVIOUS
<1>8. r \in LEnds(new, h) /\ \A x \in LEnds(new, h) : r =< x
  BY <1>5, <1>6, <1>7, LeastOf, Zenon
<1>9. /\ r \in (h + 5) .. Len(new) /\ new[r].kind = "rule" /\ new[r - 1] = Blank
      /\ \A k \in (h + 1) .. r : new[k].kind # "heading"
  BY <1>4, <1>8, EndsAre
<1>10. h \in 1 .. Len(new) /\ h \in Nat /\ new[h].kind = "heading"
  BY <1>4 DEF LHeads
<1>11. r =< m
  <2>1. SUFFICES ASSUME r > m PROVE FALSE
    BY <1>3, <1>9, <1>10
  <2>2. r - m + 1 \in 2 .. Len(text) /\ m - 1 + (r - m + 1) = r
    BY <1>3, <1>4, <1>9, <1>10, <2>1
  <2>3. new[r] = text[r - m + 1] /\ r - m + 1 \in 1 .. Len(text)
    BY <1>4, <2>2
  <2>4. QED
    BY <1>9, <2>3
<1>12. new[r] = file[r]
  <2>1. 1 \in 1 .. Len(text) /\ r \in Nat
    BY <1>3, <1>9, <1>10
  <2>2. CASE r = m
    BY <1>4, <1>9, <2>1, <2>2
  <2>3. CASE r # m
    <3>1. r \in 1 .. (m - 1)
      BY <1>3, <1>9, <1>10, <1>11, <2>1, <2>3
    <3>2. QED
      BY <1>4, <3>1
  <2>4. QED
    BY <2>2, <2>3
<1>13. \A k \in 1 .. r : new[k] = file[k]
  <2>1. \A k \in 1 .. r : k = r \/ k \in 1 .. (m - 1)
    BY <1>3, <1>9, <1>10, <1>11
  <2>2. QED
    BY <1>4, <1>12, <2>1
<1>14. h \in LHeads(file) /\ file[h] = new[h] /\ file[h + 1] = new[h + 1] /\ file[h + 2] = new[h + 2]
  <2>1. h \in 1 .. r /\ h + 1 \in 1 .. r /\ h + 2 \in 1 .. r /\ h \in 1 .. Len(file)
    BY <1>1, <1>3, <1>9, <1>10, <1>11
  <2>2. QED
    BY <1>10, <1>13, <2>1 DEF LHeads
<1>15. r \in LEnds(file, h)
  <2>1. r \in 1 .. r /\ r - 1 \in 1 .. r /\ r \in (h + 5) .. Len(file) /\ \A k \in (h + 1) .. r : k \in 1 .. r
    BY <1>1, <1>3, <1>9, <1>10, <1>11
  <2>2. file[r].kind = "rule" /\ file[r - 1] = Blank /\ \A k \in (h + 1) .. r : file[k].kind # "heading"
    BY <1>9, <1>13, <2>1
  <2>3. QED
    BY <1>14, <2>1, <2>2, EndsAre, Zenon
<1>16. ASSUME NEW x \in LEnds(file, h)
       PROVE  x \in Nat /\ r =< x
  <2>1. /\ x \in (h + 5) .. Len(file) /\ file[x].kind = "rule" /\ file[x - 1] = Blank
        /\ \A k \in (h + 1) .. x : file[k].kind # "heading"
    BY <1>14, EndsAre
  <2>2. x \in Nat
    BY <1>10, <2>1
  <2>3. SUFFICES ASSUME x < r PROVE FALSE
    BY <1>9, <1>10, <2>2
  <2>4. x \in 1 .. r /\ x - 1 \in 1 .. r /\ x \in (h + 5) .. Len(new) /\ \A k \in (h + 1) .. x : k \in 1 .. r
    BY <1>9, <1>10, <2>1, <2>2, <2>3
  <2>5. new[x].kind = "rule" /\ new[x - 1] = Blank /\ \A k \in (h + 1) .. x : new[k].kind # "heading"
    BY <1>13, <2>1, <2>4
  <2>6. x \in LEnds(new, h)
    BY <1>4, <2>4, <2>5, EndsAre, Zenon
  <2>7. QED
    BY <1>8, <1>9, <1>10, <2>2, <2>3, <2>6
<1>17. Min(LEnds(file, h)) = r
  <2>1. LEnds(file, h) \in SUBSET Nat
    BY <1>16
  <2>2. QED
    BY <1>15, <1>16, <2>1, LeastIs
<1>18. SubSeq(new, h + 3, r - 2) = SubSeq(file, h + 3, r - 2)
  <2>1. h + 3 \in Nat \ {0} /\ r - 2 \in Nat /\ r - 2 =< Len(file) /\ r - 2 =< Len(new)
        /\ \A i \in (h + 3) .. (r - 2) : i \in 1 .. r
    BY <1>1, <1>3, <1>9, <1>10, <1>11
  <2>2. \A i \in (h + 3) .. (r - 2) : new[i] = file[i]
    BY <1>13, <2>1
  <2>3. QED
    BY <1>4, <2>1, <2>2, SameLines
<1>19. [revision |-> file[h].revision, body |-> SubSeq(file, h + 3, Min(LEnds(file, h)) - 2)] \in ReadLegacy(file)
  <2>1. h \in {k \in LHeads(file) : LEnds(file, k) # {} /\ file[k + 1].kind = "meta" /\ file[k + 2] = Blank}
    BY <1>5, <1>14, <1>15
  <2>2. QED
    BY <2>1, LegacyIs
<1>20. QED
  BY <1>7, <1>14, <1>17, <1>18, <1>19

--------------------------------------------------------------------------------
LEMMA CloseIs ==
  ASSUME NEW id, NEW revision
  PROVE  RevClose(id, revision).kind = "rev end" /\ RevClose(id, revision).id = id
  BY DEF RevClose

Opens(file, id)  == {o \in 1 .. Len(file) : file[o].kind = "rev" /\ file[o].id = id}
Closes(file, id) == {c \in 1 .. Len(file) : file[c].kind = "rev end" /\ file[c].id = id}

LEMMA FencedIs ==
  ASSUME NEW file \in Seq(HistoryLine), NEW id, NEW o, NEW c, NEW r, FencedAt(file, id, o, c, r)
  PROVE  /\ o \in Nat /\ c \in Nat /\ o >= 1 /\ o < c /\ c =< Len(file)
         /\ o \in Opens(file, id) /\ c \in Closes(file, id)
         /\ file[o].revision = r.revision /\ file[c] = RevClose(id, file[o].revision)
         /\ \A k \in Opens(file, id) \cup Closes(file, id) : ~ (o < k /\ k < c)
<1>1. o \in 1 .. (c - 1) /\ c \in 1 .. Len(file) /\ Len(file) \in Nat
  BY LenProperties DEF FencedAt
<1>2. file[o] = RevOpen(id, r.revision) /\ file[c] = RevClose(id, r.revision)
  BY Zenon DEF FencedAt
<1>3. \A k \in (o + 1) .. (c - 1) : file[k].kind # "rev" /\ file[k].kind # "rev end"
  BY Zenon DEF FencedAt
<1>4. file[o].kind = "rev" /\ file[o].id = id /\ file[o].revision = r.revision
  BY <1>2 DEF RevOpen
<1>5. file[c].kind = "rev end" /\ file[c].id = id
  <2>1. RevClose(id, r.revision).kind = "rev end" /\ RevClose(id, r.revision).id = id
    BY CloseIs
  <2>2. QED
    BY <1>2, <2>1
<1>6. file[c] = RevClose(id, file[o].revision)
  BY <1>2, <1>4
<1>7. o \in Nat /\ c \in Nat /\ o >= 1 /\ o < c /\ c =< Len(file)
  BY <1>1
<1>8. ASSUME NEW k \in Opens(file, id) \cup Closes(file, id), o < k, k < c
      PROVE  FALSE
  <2>1. file[k].kind = "rev" \/ file[k].kind = "rev end"
    BY <1>8 DEF Opens, Closes
  <2>2. k \in (o + 1) .. (c - 1)
    <3>1. k \in 1 .. Len(file)
      BY <1>8 DEF Opens, Closes
    <3>2. QED
      BY <1>1, <1>7, <1>8, <3>1
  <2>3. QED
    BY <1>3, <2>1, <2>2
<1>9. o \in 1 .. Len(file)
  BY <1>1
<1>10. o \in Opens(file, id) /\ c \in Closes(file, id)
  BY <1>1, <1>4, <1>5, <1>9 DEF Opens, Closes
<1>11. QED
  BY <1>4, <1>6, <1>7, <1>8, <1>10

\* A revision reaches to the next one at most.
LEMMA LimitIs ==
  ASSUME NEW file \in Seq(HistoryLine), NEW id, NEW o \in Opens(file, id)
  PROVE  /\ Limit(file, id, o) \in Nat /\ Limit(file, id, o) > o /\ Limit(file, id, o) =< Len(file) + 1
         /\ Limit(file, id, o) \in Opens(file, id) \/ Limit(file, id, o) = Len(file) + 1
         /\ \A p \in Opens(file, id) : p > o => Limit(file, id, o) =< p
<1>1. Len(file) \in Nat /\ o \in 1 .. Len(file) /\ Opens(file, id) \subseteq 1 .. Len(file)
  BY LenProperties DEF Opens
<1>2. RevOpens(file, id) = Opens(file, id)
  BY DEF RevOpens, Opens
<1>3. PICK S : S = {i \in Opens(file, id) : i > o} \cup {Len(file) + 1}
  OBVIOUS
<1>4. S \in SUBSET Nat /\ S # {}
  BY <1>1, <1>3
<1>5. Limit(file, id, o) = Min(S)
  BY <1>2, <1>3 DEF Limit
<1>6. Min(S) \in S /\ \A x \in S : Min(S) =< x
  BY <1>4, LeastOf
<1>7. QED
  BY <1>1, <1>3, <1>4, <1>5, <1>6

\* Of a history file, with what was written to it and what was replaced.
HistoryHolds(file, id, written, replaced) ==
  /\ file \in Seq(HistoryLine) /\ Len(file) >= 1
  /\ \A c \in Closes(file, id) : \E r \in written : \E o \in 1 .. Len(file) : FencedAt(file, id, o, c, r)
  /\ \A r \in replaced : \E o \in 1 .. Len(file) : \E c \in 1 .. (Len(file) - 1) : FencedAt(file, id, o, c, r)
  /\ Opens(file, id) \subseteq {Len(file)} => ReadLegacy(file) \subseteq written

\* A revision that is fenced is read as it is.
LEMMA RevisionReads ==
  ASSUME NEW file, NEW id, NEW written, NEW replaced, HistoryHolds(file, id, written, replaced),
         NEW o \in Opens(file, id), NEW c, NEW r \in Revision, FencedAt(file, id, o, c, r), c < Limit(file, id, o)
  PROVE  ReadRevision(file, id, o) = r
<1>1. file \in Seq(HistoryLine) /\ Len(file) \in Nat
  BY LenProperties DEF HistoryHolds
<1>2. PICK l : l = Limit(file, id, o)
  OBVIOUS
<1>3. PICK ends : ends = {i \in (o + 1) .. (l - 1) : file[i] = RevClose(id, file[o].revision)}
  OBVIOUS
<1>4. /\ o \in Nat /\ c \in Nat /\ o >= 1 /\ o < c /\ c =< Len(file)
      /\ \A k \in Opens(file, id) \cup Closes(file, id) : ~ (o < k /\ k < c)
  BY <1>1, FencedIs
<1>5. c \in Closes(file, id) /\ file[o].revision = r.revision /\ file[c] = RevClose(id, file[o].revision)
  BY <1>1, FencedIs
<1>6. l \in Nat /\ l =< Len(file) + 1 /\ c < l /\ \A p \in Opens(file, id) : p > o => l =< p
  BY <1>1, <1>2, LimitIs
<1>7. c \in (o + 1) .. (l - 1)
  BY <1>4, <1>6
<1>8. c \in ends
  BY <1>3, <1>5, <1>7
<1>9. ASSUME NEW e \in ends
      PROVE  e = c
  <2>1. e \in (o + 1) .. (l - 1) /\ file[e] = RevClose(id, file[o].revision)
    BY <1>3
  <2>2. file[e].kind = "rev end" /\ file[e].id = id
    <3>1. RevClose(id, file[o].revision).kind = "rev end" /\ RevClose(id, file[o].revision).id = id
      BY CloseIs
    <3>2. QED
      BY <2>1, <3>1
  <2>3. e \in Nat /\ o < e /\ e < l /\ e \in 1 .. Len(file)
    BY <1>1, <1>4, <1>6, <2>1
  <2>4. e \in Closes(file, id)
    BY <2>2, <2>3 DEF Closes
  <2>5. ~ (e < c)
    BY <1>4, <2>3, <2>4
  <2>6. PICK q \in written : \E p \in 1 .. Len(file) : FencedAt(file, id, p, e, q)
    BY <2>4, Zenon DEF HistoryHolds
  <2>7. PICK p \in 1 .. Len(file) : FencedAt(file, id, p, e, q)
    BY <2>6
  <2>8. /\ p \in Nat /\ p < e /\ p \in Opens(file, id)
        /\ \A k \in Opens(file, id) \cup Closes(file, id) : ~ (p < k /\ k < e)
    BY <1>1, <2>7, FencedIs
  <2>9. ~ (p < c /\ c < e)
    BY <1>5, <2>8
  <2>10. ~ (p > o)
    BY <1>6, <2>3, <2>8
  <2>11. QED
    BY <1>4, <2>3, <2>5, <2>8, <2>9, <2>10
<1>10. ends = {c}
  BY <1>8, <1>9
<1>11. Max(ends) = c
  BY <1>4, <1>10, GreatestIs
<1>12. ReadRevision(file, id, o)
         = [revision |-> file[o].revision,
            body |-> IF ends = {} THEN NoBody ELSE AsText(SubSeq(file, o + 1, Max(ends) - 1))]
  BY <1>2, <1>3, Zenon DEF ReadRevision
<1>13. ends # {}
  BY <1>10
<1>14. AsText(SubSeq(file, o + 1, c - 1)) = r.body
  BY Zenon DEF FencedAt
<1>15. ReadRevision(file, id, o) = [revision |-> r.revision, body |-> r.body]
  BY <1>5, <1>11, <1>12, <1>13, <1>14
<1>16. r = [revision |-> r.revision, body |-> r.body]
  BY DEF Revision
<1>17. QED
  BY <1>15, <1>16

\* What can be read of it.
LEMMA HistoryReads ==
  ASSUME NEW file, NEW id, NEW written \in SUBSET Revision, NEW replaced \in SUBSET Revision,
         HistoryHolds(file, id, written, replaced)
  PROVE  /\ replaced \subseteq ReadHistory(file, id)
         /\ \A r \in ReadHistory(file, id) : r.body # NoBody => r \in written
<1>1. file \in Seq(HistoryLine) /\ Len(file) \in Nat
  BY LenProperties DEF HistoryHolds
<1>2. PICK opens : opens = Opens(file, id)
  OBVIOUS
<1>3. RevOpens(file, id) = opens
  BY <1>1, <1>2, LenProperties DEF RevOpens, Opens
<1>4. ASSUME NEW r \in replaced
      PROVE  r \in ReadHistory(file, id)
  <2>1. PICK o \in 1 .. Len(file), c \in 1 .. (Len(file) - 1) : FencedAt(file, id, o, c, r)
    BY Zenon DEF HistoryHolds
  <2>2. /\ o \in Nat /\ c \in Nat /\ o < c /\ c =< Len(file) /\ o \in opens
        /\ \A k \in opens : ~ (o < k /\ k < c)
    BY <1>1, <1>2, <2>1, FencedIs
  <2>3. c \notin opens
    <3>1. c \in Closes(file, id)
      BY <1>1, <2>1, FencedIs
    <3>2. QED
      BY <1>2, <3>1 DEF Opens, Closes
  <2>4. PICK l : l = Limit(file, id, o)
    OBVIOUS
  <2>5. l \in Nat /\ l > o /\ (l \in opens \/ l = Len(file) + 1)
    BY <1>1, <1>2, <2>2, <2>4, LimitIs
  <2>6. l # c
    BY <1>1, <2>2, <2>3, <2>5
  <2>7. c < l
    BY <1>1, <2>2, <2>5, <2>6
  <2>8. ReadRevision(file, id, o) = r
    BY <1>2, <2>1, <2>2, <2>4, <2>7, RevisionReads
  <2>9. ReadHistory(file, id) = {ReadRevision(file, id, p) : p \in opens}
    BY <1>3, <2>2 DEF ReadHistory
  <2>10. QED
    BY <2>2, <2>8, <2>9
<1>5. ASSUME NEW r \in ReadHistory(file, id), r.body # NoBody
      PROVE  r \in written
  <2>1. CASE opens = {}
    BY <1>2, <1>3, <2>1 DEF ReadHistory, HistoryHolds
  <2>2. CASE opens # {}
    <3>1. ReadHistory(file, id) = {ReadRevision(file, id, p) : p \in opens}
      BY <1>3, <2>2 DEF ReadHistory
    <3>2. PICK o \in opens : r = ReadRevision(file, id, o)
      BY <3>1
    <3>3. PICK l : l = Limit(file, id, o)
      OBVIOUS
    <3>4. PICK ends : ends = {i \in (o + 1) .. (l - 1) : file[i] = RevClose(id, file[o].revision)}
      OBVIOUS
    <3>5. r = [revision |-> file[o].revision,
               body |-> IF ends = {} THEN NoBody ELSE AsText(SubSeq(file, o + 1, Max(ends) - 1))]
      BY <3>2, <3>3, <3>4, Zenon DEF ReadRevision
    <3>6. PICK c \in ends : TRUE
      BY <1>5, <3>5
    <3>7. l \in Nat /\ l =< Len(file) + 1 /\ \A p \in opens : p > o => l =< p
      BY <1>1, <1>2, <3>3, LimitIs
    <3>8. o \in 1 .. Len(file)
      BY <1>2 DEF Opens
    <3>9. c \in (o + 1) .. (l - 1) /\ file[c] = RevClose(id, file[o].revision)
      BY <3>4
    <3>10. c \in 1 .. Len(file) /\ c \in Nat /\ o < c /\ c < l
      BY <1>1, <3>7, <3>8, <3>9
    <3>11. c \in Closes(file, id)
      <4>1. file[c].kind = "rev end" /\ file[c].id = id
        <5>1. RevClose(id, file[o].revision).kind = "rev end" /\ RevClose(id, file[o].revision).id = id
          BY CloseIs
        <5>2. QED
          BY <3>9, <5>1
      <4>2. QED
        BY <3>10, <4>1 DEF Closes
    <3>12. PICK q \in written : \E p \in 1 .. Len(file) : FencedAt(file, id, p, c, q)
      BY <3>11, Zenon DEF HistoryHolds
    <3>13. PICK p \in 1 .. Len(file) : FencedAt(file, id, p, c, q)
      BY <3>12
    <3>14. p \in Nat /\ p < c /\ p \in opens /\ \A k \in opens : ~ (p < k /\ k < c)
      BY <1>1, <1>2, <3>13, FencedIs
    <3>15. ~ (o > p)
      BY <3>8, <3>10, <3>14
    <3>16. ~ (p > o)
      BY <3>7, <3>8, <3>10, <3>14
    <3>17. p = o
      BY <3>8, <3>14, <3>15, <3>16
    <3>18. r = q
      BY <1>2, <3>2, <3>3, <3>10, <3>13, <3>17, RevisionReads
    <3>19. QED
      BY <3>18
  <2>3. QED
    BY <2>1, <2>2
<1>6. QED
  BY <1>4, <1>5

\* It holds as the file grows.
LEMMA HistoryGrows ==
  ASSUME NEW file, NEW id, NEW written, NEW replaced, HistoryHolds(file, id, written, replaced),
         NEW r, r.body \in Seq(Line), r.body # <<>>, NEW text, Adds(text, id, r)
  PROVE  LET new == Appended(file, text)
         IN  /\ HistoryHolds(new, id, written \cup {r}, replaced)
             /\ Whole(text, id, r) => HistoryHolds(new, id, written \cup {r}, replaced \cup {r})
<1>1. file \in Seq(HistoryLine) /\ Len(file) >= 1 /\ text \in Seq(HistoryLine) /\ Len(text) >= 1
  BY DEF HistoryHolds, Adds
<1>2. PICK m : m = Len(file)
  OBVIOUS
<1>3. PICK l : l = Len(text)
  OBVIOUS
<1>4. PICK n : n = Len(r.body)
  OBVIOUS
<1>5. PICK new : new = Appended(file, text)
  OBVIOUS
<1>6. m \in Nat \ {0} /\ l \in Nat \ {0} /\ n \in Nat
  BY <1>1, <1>2, <1>3, <1>4
<1>7. /\ new \in Seq(HistoryLine) /\ Len(new) = m + l - 1
      /\ \A i \in 1 .. (m - 1) : new[i] = file[i]
      /\ new[m] = file[m] \/ new[m] = text[1] \/ new[m].kind = "text"
      /\ \A k \in 2 .. l : new[m - 1 + k] = text[k]
  BY <1>1, <1>2, <1>3, <1>5, AppendedIs, Zenon
<1>8. ASSUME NEW j \in 1 .. l, text[j].kind = "rev"
      PROVE  j = 4 /\ text[j] = RevOpen(id, r.revision)
  BY <1>3, <1>8, Zenon DEF Adds
<1>9. ASSUME NEW j \in 1 .. l, text[j].kind = "rev end"
      PROVE  /\ j = n + 5 /\ text[j] = RevClose(id, r.revision) /\ text[4] = RevOpen(id, r.revision)
             /\ \A i \in 1 .. n : text[4 + i] = r.body[i]
  BY <1>3, <1>4, <1>9, Zenon DEF Adds
<1>10. text[1].kind # "rev" /\ text[1].kind # "rev end"
  <2>1. 1 \in 1 .. l /\ 1 # 4 /\ 1 # n + 5
    BY <1>6
  <2>2. QED
    BY <1>8, <1>9, <2>1
<1>11. new[m].kind = "rev" \/ new[m].kind = "rev end" => new[m] = file[m]
  BY <1>7, <1>10
<1>12. ASSUME NEW c \in 1 .. m, new[c].kind = "rev" \/ new[c].kind = "rev end"
       PROVE  \A i \in 1 .. c : new[i] = file[i]
  <2>1. \A i \in 1 .. c : i \in 1 .. (m - 1) \/ (i = m /\ c = m)
    BY <1>6
  <2>2. QED
    BY <1>7, <1>11, <1>12, <2>1
<1>13. ASSUME NEW q, NEW o, NEW c \in 1 .. m, FencedAt(file, id, o, c, q), \A i \in 1 .. c : new[i] = file[i]
       PROVE  FencedAt(new, id, o, c, q) /\ o \in 1 .. Len(new)
  <2>1. c =< Len(new)
    BY <1>6, <1>7
  <2>2. FencedAt(new, id, o, c, q)
    BY <1>1, <1>7, <1>13, <2>1, FencedStays
  <2>3. o \in Nat /\ o >= 1 /\ o < c
    BY <1>1, <1>13, FencedIs
  <2>4. QED
    BY <1>6, <1>7, <2>1, <2>2, <2>3
<1>14. ASSUME l >= n + 5, text[4] = RevOpen(id, r.revision), text[n + 5] = RevClose(id, r.revision),
              \A i \in 1 .. n : text[4 + i] = r.body[i]
       PROVE  FencedAt(new, id, m + 3, m + n + 4, r) /\ m + 3 \in 1 .. Len(new)
  <2>1. m + 3 \in 1 .. Len(new)
    BY <1>6, <1>7, <1>14
  <2>2. QED
    BY <1>1, <1>2, <1>3, <1>4, <1>5, <1>14, <2>1, FencedNew, Zenon
<1>15. ASSUME NEW c \in Closes(new, id)
       PROVE  \E q \in written \cup {r} : \E o \in 1 .. Len(new) : FencedAt(new, id, o, c, q)
  <2>1. c \in 1 .. (m + l - 1)
    BY <1>7, <1>15 DEF Closes
  <2>2. new[c].kind = "rev end" /\ new[c].id = id
    BY <1>15 DEF Closes
  <2>3. CASE c =< m
    <3>1. c \in 1 .. m /\ c \in 1 .. Len(file)
      BY <1>2, <1>6, <2>1, <2>3
    <3>2. \A i \in 1 .. c : new[i] = file[i]
      BY <1>12, <2>2, <3>1
    <3>3. c \in 1 .. c
      BY <3>1
    <3>4. c \in Closes(file, id)
      BY <2>2, <3>1, <3>2, <3>3 DEF Closes
    <3>5. PICK q \in written : \E o \in 1 .. Len(file) : FencedAt(file, id, o, c, q)
      BY <3>4, Zenon DEF HistoryHolds
    <3>6. PICK o \in 1 .. Len(file) : FencedAt(file, id, o, c, q)
      BY <3>5
    <3>7. FencedAt(new, id, o, c, q) /\ o \in 1 .. Len(new)
      BY <1>13, <3>1, <3>2, <3>6
    <3>8. QED
      BY <3>7
  <2>4. CASE c > m
    <3>1. PICK k : k = c - m + 1
      OBVIOUS
    <3>2. k \in 2 .. l /\ k \in 1 .. l /\ m - 1 + k = c
      BY <1>6, <2>1, <2>4, <3>1
    <3>3. new[c] = text[k]
      BY <1>7, <3>2
    <3>4. /\ k = n + 5 /\ text[k] = RevClose(id, r.revision) /\ text[4] = RevOpen(id, r.revision)
          /\ \A i \in 1 .. n : text[4 + i] = r.body[i]
      BY <1>9, <2>2, <3>2, <3>3
    <3>5. l >= n + 5 /\ c = m + n + 4
      BY <1>6, <3>2, <3>4
    <3>6. FencedAt(new, id, m + 3, c, r) /\ m + 3 \in 1 .. Len(new)
      BY <1>14, <3>4, <3>5
    <3>7. QED
      BY <3>6
  <2>5. QED
    BY <1>6, <2>1, <2>3, <2>4
<1>16. ASSUME NEW q \in replaced
       PROVE  \E o \in 1 .. Len(new) : \E c \in 1 .. (Len(new) - 1) : FencedAt(new, id, o, c, q)
  <2>1. PICK o \in 1 .. Len(file), c \in 1 .. (Len(file) - 1) : FencedAt(file, id, o, c, q)
    BY Zenon DEF HistoryHolds
  <2>2. c \in 1 .. m /\ c \in 1 .. (Len(new) - 1) /\ \A i \in 1 .. c : i \in 1 .. (m - 1)
    BY <1>2, <1>6, <1>7, <2>1
  <2>3. \A i \in 1 .. c : new[i] = file[i]
    BY <1>7, <2>2
  <2>4. FencedAt(new, id, o, c, q) /\ o \in 1 .. Len(new)
    BY <1>13, <2>1, <2>2, <2>3
  <2>5. QED
    BY <2>2, <2>4
<1>17. ASSUME Whole(text, id, r)
       PROVE  \E o \in 1 .. Len(new) : \E c \in 1 .. (Len(new) - 1) : FencedAt(new, id, o, c, r)
  <2>1. /\ text[4] = RevOpen(id, r.revision) /\ text[n + 5] = RevClose(id, r.revision) /\ l = n + 8
        /\ \A i \in 1 .. n : text[4 + i] = r.body[i]
    BY <1>3, <1>4, <1>17, Zenon DEF Whole
  <2>2. l >= n + 5 /\ m + n + 4 \in 1 .. (Len(new) - 1)
    BY <1>6, <1>7, <2>1
  <2>3. FencedAt(new, id, m + 3, m + n + 4, r) /\ m + 3 \in 1 .. Len(new)
    BY <1>14, <2>1, <2>2
  <2>4. QED
    BY <2>2, <2>3
<1>18. ASSUME Opens(new, id) \subseteq {Len(new)}
       PROVE  ReadLegacy(new) \subseteq written
  <2>1. ASSUME NEW o \in Opens(file, id)
        PROVE  o = Len(file)
    <3>1. o \in 1 .. m
      BY <1>2, <2>1 DEF Opens
    <3>2. file[o].kind = "rev" /\ file[o].id = id
      BY <2>1 DEF Opens
    <3>3. SUFFICES ASSUME o # m PROVE FALSE
      BY <1>2
    <3>4. o \in 1 .. (m - 1) /\ o \in 1 .. Len(new) /\ o # Len(new)
      BY <1>6, <1>7, <3>1, <3>3
    <3>5. o \in Opens(new, id)
      BY <1>7, <3>2, <3>4 DEF Opens
    <3>6. QED
      BY <1>18, <3>4, <3>5
  <2>2. ASSUME NEW j \in 1 .. Len(text) - 1, text[j].kind = "rev"
        PROVE  FALSE
    <3>1. j \in 1 .. l /\ j \in 1 .. (l - 1)
      BY <1>3, <1>6
    <3>2. j = 4 /\ text[j] = RevOpen(id, r.revision)
      BY <1>8, <2>2, <3>1
    <3>3. 4 \in 2 .. l /\ m - 1 + 4 \in 1 .. Len(new) /\ m - 1 + 4 # Len(new)
      BY <1>6, <1>7, <3>1, <3>2
    <3>4. new[m - 1 + 4] = RevOpen(id, r.revision)
      BY <1>7, <3>2, <3>3
    <3>5. RevOpen(id, r.revision).kind = "rev" /\ RevOpen(id, r.revision).id = id
      BY DEF RevOpen
    <3>6. m - 1 + 4 \in Opens(new, id)
      BY <3>3, <3>4, <3>5 DEF Opens
    <3>7. QED
      BY <1>18, <3>3, <3>6
  <2>3. \A j \in 1 .. Len(text) : text[j].kind # "rule"
    BY <2>2, Zenon DEF Adds
  <2>4. ReadLegacy(new) \subseteq ReadLegacy(file)
    BY <1>1, <1>5, <2>3, NothingAppears
  <2>5. ReadLegacy(file) \subseteq written
    BY <2>1, Zenon DEF HistoryHolds
  <2>6. QED
    BY <2>4, <2>5
<1>19. Len(new) >= 1
  BY <1>6, <1>7
<1>20. HistoryHolds(new, id, written \cup {r}, replaced)
  BY <1>7, <1>15, <1>16, <1>18, <1>19 DEF HistoryHolds
<1>21. Whole(text, id, r) => HistoryHolds(new, id, written \cup {r}, replaced \cup {r})
  BY <1>7, <1>15, <1>16, <1>17, <1>18, <1>19 DEF HistoryHolds
<1>22. QED
  BY <1>5, <1>20, <1>21

\* A history without a fence: nothing is written yet but what it says.
LEMMA HistoryStarts ==
  ASSUME NEW file \in Seq(Line), file # <<>>, NEW id
  PROVE  HistoryHolds(file, id, ReadLegacy(file), {}) /\ ReadLegacy(file) \in SUBSET Revision
<1>1. file \in Seq(HistoryLine) /\ Len(file) >= 1 /\ Len(file) \in Nat
  BY DEF HistoryLine
<1>2. ASSUME NEW i \in 1 .. Len(file)
      PROVE  file[i].kind # "rev end" /\ file[i].revision \in Nat
  <2>1. file[i] \in Line
    OBVIOUS
  <2>2. QED
    BY <2>1 DEF Line, LineKind
<1>3. Closes(file, id) = {}
  BY <1>2 DEF Closes
<1>4. HistoryHolds(file, id, ReadLegacy(file), {})
  BY <1>1, <1>3 DEF HistoryHolds
<1>5. ASSUME NEW q \in ReadLegacy(file)
      PROVE  q \in Revision
  <2>1. PICK h \in LHeads(file) : /\ LEnds(file, h) # {}
           /\ q = [revision |-> file[h].revision, body |-> SubSeq(file, h + 3, Min(LEnds(file, h)) - 2)]
    BY LegacyIs
  <2>2. PICK e : e = Min(LEnds(file, h)) - 2
    OBVIOUS
  <2>3. h \in 1 .. Len(file)
    BY <1>1 DEF LHeads
  <2>4. ASSUME NEW x \in LEnds(file, h)
        PROVE  x \in Nat /\ x >= 2 /\ x =< Len(file)
    <3>1. x \in (h + 5) .. Len(file)
      BY <1>1, EndsAre
    <3>2. QED
      BY <1>1, <2>3, <3>1
  <2>5. Min(LEnds(file, h)) \in LEnds(file, h)
    <3>1. LEnds(file, h) \in SUBSET Nat
      BY <2>4
    <3>2. QED
      BY <2>1, <3>1, LeastOf
  <2>6. e \in Int /\ h + 3 \in Int /\ e =< Len(file)
    BY <1>1, <2>2, <2>3, <2>4, <2>5
  <2>7. \A i \in (h + 3) .. e : i \in 1 .. Len(file)
    BY <1>1, <2>3, <2>6
  <2>8. \A i \in (h + 3) .. e : file[i] \in Line
    BY <2>7
  <2>9. SubSeq(file, h + 3, e) \in Seq(Line)
    BY <2>6, <2>8, SubSeqProperties
  <2>10. QED
    BY <1>2, <2>1, <2>2, <2>3, <2>9 DEF Revision
<1>6. QED
  BY <1>4, <1>5

\* A revision that is there in full.
LEMMA WholeIs ==
  ASSUME NEW id \in Id, NEW r, r.revision \in Nat, r.body \in Seq(Line), NEW text, text = FormatRevision(id, r)
  PROVE  Adds(text, id, r) /\ Whole(text, id, r)
<1>1. PICK n : n = Len(r.body)
  OBVIOUS
<1>2. /\ text \in Seq(HistoryLine) /\ Len(text) = n + 8
      /\ text[4] = RevOpen(id, r.revision) /\ text[n + 5] = RevClose(id, r.revision)
      /\ \A i \in 1 .. n : text[4 + i] = r.body[i]
  BY <1>1, RevisionIs, Zenon
<1>3. n \in Nat
  BY <1>1
<1>4. PICK k : k = n + 8
  OBVIOUS
<1>5. k \in DOMAIN text /\ k \in 1 .. k /\ k - 1 \in Nat /\ Len(text) = k /\ text[k] \in HistoryLine
  BY <1>2, <1>3, <1>4
<1>6. PICK s : s = SubSeq(text, 1, k - 1)
  OBVIOUS
<1>7. s \in Seq(HistoryLine) /\ Len(s) = k - 1 /\ \A i \in 1 .. (k - 1) : s[i] = text[i]
  <2>1. \A i \in 1 .. (k - 1) : text[i] \in HistoryLine
    BY <1>2, <1>5
  <2>2. /\ s \in Seq(HistoryLine) /\ Len(s) = IF 1 <= k - 1 THEN (k - 1) - 1 + 1 ELSE 0
        /\ \A i \in 1 .. (k - 1) - 1 + 1 : s[i] = text[1 + i - 1]
    BY <1>5, <1>6, <2>1, SubSeqProperties
  <2>3. QED
    BY <1>5, <2>2
<1>8. PICK t : t = Append(s, text[k])
  OBVIOUS
<1>9. t = text
  <2>1. t \in Seq(HistoryLine) /\ Len(t) = k /\ t[k] = text[k] /\ \A i \in 1 .. (k - 1) : t[i] = s[i]
    BY <1>5, <1>7, <1>8
  <2>2. \A i \in 1 .. k : i = k \/ i \in 1 .. (k - 1)
    BY <1>5
  <2>3. \A i \in 1 .. k : t[i] = text[i]
    BY <1>7, <2>1, <2>2
  <2>4. QED
    BY <1>2, <1>5, <2>1, <2>3, SeqEqual
<1>10. text[k] \in CutLine(text[k])
  BY DEF CutLine
<1>11. text \in {Append(SubSeq(text, 1, k - 1), l) : l \in CutLine(text[k])}
  BY <1>6, <1>8, <1>9, <1>10
<1>12. text \in Tears(text)
  BY <1>5, <1>11 DEF Tears
<1>13. Adds(text, id, r)
  BY <1>12, TornIs
<1>14. QED
  BY <1>1, <1>2, <1>13, Zenon DEF Whole

--------------------------------------------------------------------------------
(* The invariant. *)

\* What a message may have beside the file.
History == [file : Seq(HistoryLine) \ {<<>>}, written : SUBSET Revision, replaced : SUBSET Revision, kept : Nat, lost : Nat]

FormatInv ==
  /\ Sound(lines)
  /\ MarkedIds(lines) \subseteq minted /\ FenceIds(lines) \subseteq minted /\ minted \subseteq Id
  /\ book = ParseChannel(lines)
  /\ revs \in [Id -> History]
  /\ hand \in Nat

LEMMA BodyIsPlain ==
  ASSUME NEW body \in Bodies
  PROVE  /\ body \in Seq(Line) /\ Trim(body) \in Seq(Line)
         /\ Heads(Trim(body)) = {} /\ MarkedIds(Trim(body)) = {} /\ FenceIds(Trim(body)) = {}
         /\ MarkedOnce(Trim(body)) /\ \A id : Clean(Trim(body), id)
<1>1. body \in Seq(Line) /\ \A i \in 1 .. Len(body) : body[i].kind \notin Control
  <2>1. IsBody(body)
    BY BodiesAssumption
  <2>2. QED
    BY <2>1 DEF IsBody
<1>2. body # NoBody
  BY <1>1, TextIsBody
<1>3. PICK t : t = Trim(body)
  OBVIOUS
<1>4. t \in Seq(Line) /\ Within(t, body, 0)
  BY <1>1, <1>2, <1>3, TrimIsText
<1>5. Heads(body) = {} /\ MarkedIds(body) = {} /\ MarkedOnce(body) /\ FenceIds(body) = {}
  BY <1>1, HoldsNothing DEF Control, MarkerKind, FenceKind
<1>6. Heads(body) \subseteq 1 .. 0 /\ 0 \in Nat
  BY <1>5
<1>7. Heads(t) = {} /\ MarkedIds(t) = {} /\ FenceIds(t) = {} /\ MarkedOnce(t)
  BY <1>1, <1>4, <1>5, <1>6, WithinMarks
<1>8. \A id : Clean(t, id)
  <2>1. NoControl(body)
    BY <1>1 DEF NoControl
  <2>2. NoControl(t)
    BY <1>1, <1>4, <2>1, WithinPlain
  <2>3. QED
    BY <2>2 DEF NoControl, Clean
<1>9. QED
  BY <1>1, <1>3, <1>4, <1>7, <1>8

\* What is read can be written again.
LEMMA BookHolds ==
  ASSUME Sound(lines), NEW id \in DOMAIN ParseChannel(lines)
  PROVE  LET m == ParseChannel(lines)[id]
             b == BlockAt(lines, FindMessageBlock(lines, id))
         IN  /\ m \in Message /\ m.id = id /\ id \in MarkedIds(lines)
             /\ b \in Blocks(lines) /\ id \in MarkedIds(b) /\ IsMessage(b) /\ m = ParseMessage(b)
             /\ Trim(m.body) \in Seq(Line)
             /\ m.body # NoBody =>
                  /\ Heads(Trim(m.body)) = {} /\ MarkedOnce(Trim(m.body)) /\ id \notin MarkedIds(Trim(m.body))
                  /\ MarkedIds(Trim(m.body)) \subseteq MarkedIds(b) /\ FenceIds(Trim(m.body)) \subseteq FenceIds(b)
<1>1. PICK h : h = FindMessageBlock(lines, id)
  OBVIOUS
<1>2. PICK b : b = BlockAt(lines, h)
  OBVIOUS
<1>3. PICK m : m = ParseChannel(lines)[id]
  OBVIOUS
<1>4. h \in Heads(lines) /\ IsMessage(b) /\ m = ParseMessage(b) /\ m.id = id
  BY <1>1, <1>2, <1>3, FoundIs
<1>5. b \in Blocks(lines)
  BY <1>2, <1>4 DEF Blocks
<1>6. lines \in Seq(Line) /\ MarkedOnce(lines)
  BY DEF Sound
<1>7. b \in Seq(Line) /\ Heads(b) = {1} /\ MarkedIds(b) \subseteq MarkedIds(lines) /\ MarkedOnce(b)
  BY <1>5, <1>6, BlockHolds
<1>8. PICK t : t = Trim(m.body)
  OBVIOUS
<1>9. /\ m \in Message /\ m.id \in MarkedIds(b)
      /\ m.body # NoBody =>
           /\ Heads(t) = {}
           /\ MarkedIds(t) \subseteq MarkedIds(b) /\ FenceIds(t) \subseteq FenceIds(b)
           /\ MarkedOnce(b) => MarkedOnce(t) /\ m.id \notin MarkedIds(t)
  BY <1>4, <1>7, <1>8, ParseIs
<1>10. t \in Seq(Line)
  BY <1>8, <1>9, TrimIsText DEF Message
<1>11. QED
  BY <1>1, <1>2, <1>3, <1>4, <1>5, <1>7, <1>8, <1>9, <1>10

\* What a write of the service may make of the file ls, and of what is read in it:
\* the message y is new, or new in the place of the one of its id, whose block was.
OneChanged(ls, new, y) ==
  /\ Sound(new)
  /\ MarkedIds(new) \subseteq MarkedIds(ls) \cup {y.id}
  /\ FenceIds(new) \subseteq FenceIds(ls) \cup MarkedIds(ls) \cup {y.id}
  /\ ButFor(ParseChannel(new), ParseChannel(ls), y)
  /\ \A c \in Blocks(ls) : y.id \notin MarkedIds(c) => c \in Blocks(new)
  /\ TidyText(ls) => TidyText(new)

\* A message that is there, edited or archived.
LEMMA SpliceChanges ==
  ASSUME Sound(lines), NEW id \in DOMAIN ParseChannel(lines), NEW m \in Message, m.id = id,
         \/ \E body \in Bodies : m.body = body
         \/ m.body = ParseChannel(lines)[id].body /\ m.body # NoBody
  PROVE  OneChanged(lines, SpliceBlock(m), [m EXCEPT !.body = Trim(m.body)])
<1>1. PICK b : b = BlockAt(lines, FindMessageBlock(lines, id))
  OBVIOUS
<1>2. PICK t : t = Trim(m.body)
  OBVIOUS
<1>3. PICK y : y = [m EXCEPT !.body = t]
  OBVIOUS
<1>4. b \in Blocks(lines) /\ id \in MarkedIds(b) /\ IsMessage(b) /\ id = ParseMessage(b).id
  BY <1>1, BookHolds
<1>5. /\ Heads(t) = {} /\ MarkedOnce(t) /\ id \notin MarkedIds(t)
      /\ MarkedIds(t) \subseteq MarkedIds(b) /\ FenceIds(t) \subseteq FenceIds(b)
  <2>1. CASE \E body \in Bodies : m.body = body
    BY <1>2, <2>1, BodyIsPlain
  <2>2. CASE m.body = ParseChannel(lines)[id].body /\ m.body # NoBody
    BY <1>1, <1>2, <2>2, BookHolds
  <2>3. QED
    BY <2>1, <2>2
<1>6. Fits(m, b)
  BY <1>2, <1>4, <1>5 DEF Fits
<1>7. PICK new : new = SpliceBlock(m)
  OBVIOUS
<1>8. /\ Sound(new)
      /\ MarkedIds(new) \subseteq MarkedIds(lines)
      /\ FenceIds(new) \subseteq FenceIds(lines) \cup MarkedIds(lines)
      /\ MessagesIn(new) = {n \in MessagesIn(lines) : n.id # m.id} \cup {y}
      /\ \A c \in Blocks(lines) : c # b => c \in Blocks(new)
      /\ TidyText(lines) /\ Clean(t, m.id) => TidyText(new)
  BY <1>1, <1>2, <1>3, <1>6, <1>7, SpliceIs
<1>9. y.id = id
  BY <1>3 DEF Message
<1>10. ButFor(ParseChannel(new), ParseChannel(lines), y)
  <2>1. PICK R : R = {n \in MessagesIn(lines) : n.id # y.id}
    OBVIOUS
  <2>2. MessagesIn(new) = R \cup {y}
    BY <1>8, <1>9, <2>1
  <2>3. QED
    BY <1>8, <2>1, <2>2, BookChanges
<1>11. TidyText(lines) => Clean(t, m.id)
  <2>1. CASE \E body \in Bodies : m.body = body
    BY <1>2, <2>1, BodyIsPlain
  <2>2. CASE m.body = ParseChannel(lines)[id].body /\ m.body # NoBody
    <3>1. ParseChannel(lines)[id] = ParseMessage(b) /\ b \in Seq(Line)
      <4>1. ParseChannel(lines)[id] = ParseMessage(b)
        BY <1>1, BookHolds
      <4>2. QED
        BY <1>4, <4>1, BlockHolds DEF Sound
    <3>2. TidyText(lines) => TidyBlock(b)
      BY <1>4 DEF TidyText
    <3>3. QED
      BY <1>2, <1>4, <2>2, <3>1, <3>2, TidyBody
  <2>3. QED
    BY <2>1, <2>2
<1>12. QED
  BY <1>2, <1>3, <1>4, <1>7, <1>8, <1>9, <1>10, <1>11 DEF OneChanged

\* A message posted.
LEMMA AppendChanges ==
  ASSUME Sound(lines), NEW id \in Nat, id \notin MarkedIds(lines), id \notin FenceIds(lines), NEW body \in Bodies
  PROVE  LET m == [id |-> id, revision |-> 0, archived |-> FALSE, body |-> body]
         IN  /\ OneChanged(lines, <<Blank, Blank>> \o FormatMessage(m) \o Below(lines),
                           [m EXCEPT !.body = Trim(body)])
             /\ id \notin DOMAIN ParseChannel(lines)
<1>1. PICK m : m = [id |-> id, revision |-> 0, archived |-> FALSE, body |-> body]
  OBVIOUS
<1>2. PICK t : t = Trim(body)
  OBVIOUS
<1>3. PICK y : y = [m EXCEPT !.body = t]
  OBVIOUS
<1>4. /\ body \in Seq(Line) /\ Heads(t) = {} /\ MarkedIds(t) = {} /\ FenceIds(t) = {} /\ Clean(t, id)
  BY <1>2, BodyIsPlain
<1>5. m \in Message /\ m.id = id /\ m.body = body /\ y.id = id
  BY <1>1, <1>3, <1>4 DEF Message
<1>6. PICK new : new = <<Blank, Blank>> \o FormatMessage(m) \o Below(lines)
  OBVIOUS
<1>7. /\ Sound(new)
      /\ MarkedIds(new) \subseteq MarkedIds(lines) \cup {id}
      /\ FenceIds(new) \subseteq FenceIds(lines) \cup {id}
      /\ MessagesIn(new) = MessagesIn(lines) \cup {y}
      /\ Blocks(lines) \subseteq Blocks(new)
      /\ TidyText(lines) => TidyText(new)
  BY <1>2, <1>3, <1>4, <1>5, <1>6, AppendIs
<1>8. \A n \in MessagesIn(lines) : n.id # id
  BY MessageIsIn DEF Sound
<1>9. ButFor(ParseChannel(new), ParseChannel(lines), y)
  <2>1. PICK R : R = {n \in MessagesIn(lines) : n.id # y.id}
    OBVIOUS
  <2>2. MessagesIn(new) = R \cup {y}
    BY <1>5, <1>7, <1>8, <2>1
  <2>3. QED
    BY <1>7, <2>1, <2>2, BookChanges
<1>10. id \notin DOMAIN ParseChannel(lines)
  BY <1>8, BookIs
<1>11. OneChanged(lines, new, y)
  BY <1>5, <1>7, <1>9 DEF OneChanged
<1>12. QED
  BY <1>1, <1>2, <1>3, <1>6, <1>10, <1>11

--------------------------------------------------------------------------------
(* The steps. *)

\* A line edited by hand.
HandAt(i) ==
  \/ i > 1 /\ DeleteLine(i)
  \/ \E l \in {Blank, Plain("rule")} : InsertLine(i, l)
  \/ SpoilMarker(i)

\* What a step may be.
LEMMA StepIs ==
  ASSUME [FormatNext]_formatVars
  PROVE  \/ \E id \in Id : \E body \in Bodies : AppendMessage(id, body)
         \/ \E id \in Id : \E body \in Bodies : EditMessage(id, body)
         \/ \E id \in Id : LoseEdit(id)
         \/ \E id \in Id : ArchiveMessage(id)
         \/ \E i \in DOMAIN lines : HandAt(i)
         \/ UNCHANGED formatVars
  BY Zenon DEF FormatNext, HandAt

\* The service has written: what is read is as before but for y.
Wrote(y) ==
  /\ lines' \in {new \in {lines'} : OneChanged(lines, new, y)}
  /\ book' = ParseChannel(lines')
  /\ ButFor(book', book, y)
  /\ hand' = hand

LEMMA PostStep ==
  ASSUME FormatInv, NEW id \in Id, NEW body \in Bodies, AppendMessage(id, body)
  PROVE  LET y == [id |-> id, revision |-> 0, archived |-> FALSE, body |-> Trim(body)]
         IN  Wrote(y) /\ id \notin DOMAIN book /\ y.id = id /\ id \notin MarkedIds(lines)
<1>1. PICK m : m = [id |-> id, revision |-> 0, archived |-> FALSE, body |-> body]
  OBVIOUS
<1>2. PICK y : y = [id |-> id, revision |-> 0, archived |-> FALSE, body |-> Trim(body)]
  OBVIOUS
<1>3. PICK new : new = <<Blank, Blank>> \o FormatMessage(m) \o Below(lines)
  OBVIOUS
<1>4. lines' = new /\ book' = ParseChannel(new) /\ hand' = hand /\ id \notin minted
  BY <1>1, <1>3, Zenon DEF AppendMessage, Publish
<1>5. Sound(lines) /\ id \in Nat /\ id \notin MarkedIds(lines) /\ id \notin FenceIds(lines)
  BY <1>4, IdAssumption DEF FormatInv
<1>12. PICK t : t = Trim(body)
  OBVIOUS
<1>13. y = [id |-> id, revision |-> 0, archived |-> FALSE, body |-> t]
  BY <1>2, <1>12
<1>14. y.id = id
  BY <1>13
<1>15. y = [m EXCEPT !.body = t]
  <2>1. PICK n : n = [m EXCEPT !.body = t]
    OBVIOUS
  <2>2. m.id = id /\ m.revision = 0 /\ m.archived = FALSE
    BY <1>1
  <2>3. body \in Seq(Line) /\ t \in Seq(Line)
    BY <1>12, BodyIsPlain
  <2>4. m \in Message
    BY <1>1, <1>5, <2>3 DEF Message
  <2>5. n = [id |-> m.id, revision |-> m.revision, archived |-> m.archived, body |-> t]
    BY <2>1, <2>4 DEF Message
  <2>6. QED
    BY <1>13, <2>1, <2>2, <2>5, Zenon
<1>6. y = [m EXCEPT !.body = Trim(body)] /\ y.id = id
  BY <1>12, <1>14, <1>15
<1>7. OneChanged(lines, new, y) /\ id \notin DOMAIN ParseChannel(lines)
  BY <1>1, <1>3, <1>5, <1>6, AppendChanges
<1>8. book = ParseChannel(lines)
  BY DEF FormatInv
<1>9. ButFor(book', book, y)
  BY <1>4, <1>7, <1>8 DEF OneChanged
<1>10. Wrote(y)
  BY <1>4, <1>7, <1>9, Zenon DEF Wrote
<1>11. QED
  BY <1>2, <1>5, <1>6, <1>7, <1>8, <1>10

LEMMA EditStep ==
  ASSUME FormatInv, NEW id \in Id, NEW body \in Bodies, EditMessage(id, body)
  PROVE  LET y == Edited(book[id], Trim(body))
         IN  Wrote(y) /\ id \in DOMAIN book /\ book[id].body # NoBody /\ y.id = id /\ book[id].id = id
<1>1. PICK m : m = Edited(book[id], body)
  OBVIOUS
<1>2. PICK y : y = Edited(book[id], Trim(body))
  OBVIOUS
<1>3. PICK new : new = SpliceBlock(m)
  OBVIOUS
<1>4. lines' = new /\ book' = ParseChannel(new) /\ hand' = hand /\ id \in DOMAIN book /\ book[id].body # NoBody
  BY <1>1, <1>3, Zenon DEF EditMessage, Publish, Renderable
<1>5. Sound(lines) /\ book = ParseChannel(lines)
  BY DEF FormatInv
<1>6. book[id] \in Message /\ book[id].id = id
  BY <1>4, <1>5, BookHolds
<1>7. body \in Seq(Line)
  BY BodyIsPlain
<1>15. PICK old : old = book[id]
  OBVIOUS
<1>16. old.id \in Nat /\ old.revision \in Nat /\ old.archived \in BOOLEAN /\ old.id = id
  BY <1>6, <1>15 DEF Message
<1>17. m = [id |-> old.id, revision |-> old.revision + 1, archived |-> old.archived, body |-> body]
  BY <1>1, <1>6, <1>15 DEF Message, Edited
<1>8. m \in Message /\ m.id = id /\ m.body = body
  BY <1>7, <1>16, <1>17 DEF Message
<1>9. y = [m EXCEPT !.body = Trim(m.body)] /\ y.id = id
  BY <1>1, <1>2, <1>6, <1>8 DEF Message, Edited
<1>10. id \in DOMAIN ParseChannel(lines)
  BY <1>4, <1>5
<1>11. OneChanged(lines, new, y)
  BY <1>3, <1>5, <1>8, <1>9, <1>10, SpliceChanges
<1>12. ButFor(book', book, y)
  BY <1>4, <1>5, <1>11 DEF OneChanged
<1>13. Wrote(y)
  BY <1>4, <1>11, <1>12, Zenon DEF Wrote
<1>14. QED
  BY <1>2, <1>4, <1>6, <1>9, <1>13

LEMMA ArchiveStep ==
  ASSUME FormatInv, NEW id \in Id, ArchiveMessage(id)
  PROVE  LET y == [book[id] EXCEPT !.body = Trim(@), !.archived = TRUE]
         IN  /\ Wrote(y) /\ id \in DOMAIN book /\ book[id].body # NoBody /\ y.id = id /\ book[id].id = id
             /\ y.revision = book[id].revision
<1>1. PICK m : m = [book[id] EXCEPT !.archived = TRUE]
  OBVIOUS
<1>2. PICK y : y = [book[id] EXCEPT !.body = Trim(@), !.archived = TRUE]
  OBVIOUS
<1>3. PICK new : new = SpliceBlock(m)
  OBVIOUS
<1>4. lines' = new /\ book' = ParseChannel(new) /\ hand' = hand /\ id \in DOMAIN book /\ book[id].body # NoBody
  BY <1>1, <1>3, Zenon DEF ArchiveMessage, Publish, Renderable
<1>5. Sound(lines) /\ book = ParseChannel(lines)
  BY DEF FormatInv
<1>6. book[id] \in Message /\ book[id].id = id
  BY <1>4, <1>5, BookHolds
<1>7. m \in Message /\ m.id = id /\ m.body = book[id].body
  BY <1>1, <1>6 DEF Message
<1>8. y = [m EXCEPT !.body = Trim(m.body)] /\ y.id = id /\ y.revision = book[id].revision
  BY <1>1, <1>2, <1>6, <1>7 DEF Message
<1>9. id \in DOMAIN ParseChannel(lines) /\ m.body = ParseChannel(lines)[id].body /\ m.body # NoBody
  BY <1>4, <1>5, <1>7
<1>10. OneChanged(lines, new, y)
  BY <1>3, <1>5, <1>7, <1>8, <1>9, SpliceChanges
<1>11. ButFor(book', book, y)
  BY <1>4, <1>5, <1>10 DEF OneChanged
<1>12. Wrote(y)
  BY <1>4, <1>10, <1>11, Zenon DEF Wrote
<1>13. QED
  BY <1>2, <1>4, <1>6, <1>8, <1>12

LEMMA HandStep ==
  ASSUME FormatInv, NEW i \in DOMAIN lines, HandAt(i)
  PROVE  /\ lines' \in {new \in {lines'} : Kin(new, lines)}
         /\ book' = ParseChannel(lines') /\ hand' = hand + 1 /\ UNCHANGED <<revs, minted>>
<1>1. Sound(lines) /\ lines \in Seq(Line)
  BY DEF FormatInv, Sound
<1>2. i \in 1 .. Len(lines)
  BY <1>1
<1>3. CASE i > 1 /\ DeleteLine(i)
  <2>1. i \in 2 .. Len(lines)
    BY <1>2, <1>3
  <2>2. PICK new : new = RemoveAt(lines, i)
    OBVIOUS
  <2>3. Kin(new, lines)
    BY <1>1, <2>1, <2>2, RemoveIsSound
  <2>4. lines' = new /\ book' = ParseChannel(lines') /\ hand' = hand + 1 /\ UNCHANGED <<revs, minted>>
    BY <1>3, <2>2, Zenon DEF DeleteLine, Publish, ByHand
  <2>5. QED
    BY <2>3, <2>4, Zenon
<1>4. ASSUME NEW l \in {Blank, Plain("rule")}, InsertLine(i, l)
      PROVE  /\ lines' \in {new \in {lines'} : Kin(new, lines)}
             /\ book' = ParseChannel(lines') /\ hand' = hand + 1 /\ UNCHANGED <<revs, minted>>
  <2>1. l \in Idle
    BY DEF Idle
  <2>2. PICK new : new = InsertAt(lines, i + 1, l)
    OBVIOUS
  <2>3. Kin(new, lines)
    BY <1>1, <1>2, <2>1, <2>2, InsertIsSound
  <2>4. lines' = new /\ book' = ParseChannel(lines') /\ hand' = hand + 1 /\ UNCHANGED <<revs, minted>>
    BY <1>4, <2>2, Zenon DEF InsertLine, Publish, ByHand
  <2>5. QED
    BY <2>3, <2>4, Zenon
<1>5. CASE SpoilMarker(i)
  <2>1. PICK new : new = [lines EXCEPT ![i].kind = "spoiled marker"]
    OBVIOUS
  <2>2. lines[i].kind = "marker"
    BY <1>5, Zenon DEF SpoilMarker
  <2>3. Kin(new, lines)
    BY <1>1, <1>2, <2>1, <2>2, SpoilIsSound
  <2>4. lines' = new /\ book' = ParseChannel(lines') /\ hand' = hand + 1 /\ UNCHANGED <<revs, minted>>
    BY <1>5, <2>1, Zenon DEF SpoilMarker, Publish, ByHand
  <2>5. QED
    BY <2>3, <2>4, Zenon
<1>6. QED
  BY <1>3, <1>4, <1>5, Zenon DEF HandAt

\* Of each message, what can be read of its history is what it should be.
HistoryInv == \A id \in Id : HistoryHolds(revs[id].file, id, revs[id].written, revs[id].replaced)

\* The history of a message, with one revision more.
LEMMA KeptIs ==
  ASSUME FormatInv, NEW id \in DOMAIN book, NEW text, NEW lost \in {0, 1}, KeepRevision(id, text, lost),
         \/ text = FormatRevision(id, PriorOf(id))
         \/ lost = 1 /\ text \in Tears(FormatRevision(id, PriorOf(id)))
  PROVE  /\ revs' \in [Id -> History]
         /\ HistoryInv => HistoryInv'
<1>1. PICK r : r = PriorOf(id)
  OBVIOUS
<1>2. Sound(lines) /\ book = ParseChannel(lines) /\ MarkedIds(lines) \subseteq Id
  BY DEF FormatInv
<1>3. book[id] \in Message /\ id \in MarkedIds(lines) /\ Trim(book[id].body) \in Seq(Line)
  BY <1>2, BookHolds
<1>4. r = [revision |-> book[id].revision + 1, body |-> Trim(book[id].body)]
  BY <1>1 DEF PriorOf
<1>5. id \in Id /\ r \in Revision /\ r.revision \in Nat /\ r.body \in Seq(Line)
  BY <1>2, <1>3, <1>4 DEF Message, Revision
<1>6. r.body # <<>>
  BY <1>4 DEF Trim, AsText
<1>7. Adds(text, id, r) /\ (lost = 0 => Whole(text, id, r))
  BY <1>1, <1>5, WholeIs, TornIs
<1>8. PICK old : old = revs[id]
  OBVIOUS
<1>9. revs \in [Id -> History]
  BY DEF FormatInv
<1>10. /\ old.file \in Seq(HistoryLine) \ {<<>>} /\ old.written \in SUBSET Revision /\ old.replaced \in SUBSET Revision
       /\ old.kept \in Nat /\ old.lost \in Nat
  BY <1>5, <1>8, <1>9 DEF History
<1>11. PICK new : new = [file |-> Appended(old.file, text), written |-> old.written \cup {r},
                         replaced |-> IF lost = 0 THEN old.replaced \cup {r} ELSE old.replaced,
                         kept |-> old.kept + 1, lost |-> old.lost + lost]
  OBVIOUS
<1>12. revs' = [revs EXCEPT ![id] = new]
  BY <1>1, <1>8, <1>11 DEF KeepRevision
<1>13. Appended(old.file, text) \in Seq(HistoryLine) \ {<<>>}
  <2>1. text \in Seq(HistoryLine) /\ Len(text) >= 1
    BY <1>7 DEF Adds
  <2>2. old.file \in Seq(HistoryLine) /\ Len(old.file) >= 1
    BY <1>10
  <2>3. PICK more : more = Appended(old.file, text)
    OBVIOUS
  <2>4. more \in Seq(HistoryLine) /\ Len(more) = Len(old.file) + Len(text) - 1
    BY <2>1, <2>2, <2>3, AppendedIs
  <2>5. Len(more) >= 1
    BY <2>1, <2>2, <2>4
  <2>6. QED
    BY <2>3, <2>4, <2>5
<1>14. new \in History
  BY <1>5, <1>10, <1>11, <1>13 DEF History
<1>15. revs' \in [Id -> History]
  BY <1>9, <1>12, <1>14
<1>16. ASSUME HistoryInv
       PROVE  HistoryInv'
  <2>1. HistoryHolds(old.file, id, old.written, old.replaced)
    BY <1>5, <1>8, <1>16 DEF HistoryInv
  <2>2. HistoryHolds(new.file, id, new.written, new.replaced)
    BY <1>5, <1>6, <1>7, <1>11, <2>1, HistoryGrows
  <2>3. revs'[id] = new /\ \A other \in Id : other # id => revs'[other] = revs[other]
    BY <1>5, <1>9, <1>12
  <2>4. ASSUME NEW i \in Id
        PROVE  HistoryHolds(revs'[i].file, i, revs'[i].written, revs'[i].replaced)
    BY <1>16, <2>2, <2>3 DEF HistoryInv
  <2>5. QED
    BY <2>4 DEF HistoryInv
<1>17. QED
  BY <1>15, <1>16

--------------------------------------------------------------------------------
(* The invariant holds, and what it gives. *)

LEMMA InitIs == FormatInit => FormatInv
<1> SUFFICES ASSUME FormatInit
             PROVE  FormatInv
  OBVIOUS
<1>1. PICK old \in Old :
        /\ lines = old.lines
        /\ revs = [id \in Id |-> [file |-> old.files[id], written |-> ReadLegacy(old.files[id]),
                                  replaced |-> {}, kept |-> 0, lost |-> 0]]
  BY DEF FormatInit
<1>2. /\ old.lines \in Seq(Line) /\ old.lines # <<>> /\ old.lines[1].kind = "blank" /\ MarkedOnce(old.lines)
      /\ FenceIds(old.lines) \subseteq MarkedIds(old.lines) /\ MarkedIds(old.lines) \subseteq Id
      /\ \A id \in Id : old.files[id] \in Seq(Line) /\ old.files[id] # <<>>
  BY OldAssumption
<1>3. Sound(lines) /\ revs \in [Id -> History]
  <2>1. ASSUME NEW id \in Id
        PROVE  [file |-> old.files[id], written |-> ReadLegacy(old.files[id]), replaced |-> {}, kept |-> 0, lost |-> 0] \in History
    <3>1. old.files[id] \in Seq(Line) /\ old.files[id] # <<>>
      BY <1>2
    <3>2. ReadLegacy(old.files[id]) \in SUBSET Revision /\ old.files[id] \in Seq(HistoryLine) \ {<<>>}
      BY <3>1, HistoryStarts DEF HistoryHolds
    <3>3. QED
      BY <3>2 DEF History
  <2>2. QED
    BY <1>1, <1>2, <2>1 DEF Sound
<1>4. minted = MarkedIds(lines) /\ hand = 0 /\ book = ParseChannel(lines)
  BY DEF FormatInit
<1>5. FenceIds(lines) \subseteq minted /\ minted \subseteq Id
  BY <1>1, <1>2, <1>4
<1>6. QED
  BY <1>3, <1>4, <1>5 DEF FormatInv

LEMMA WroteInv ==
  ASSUME FormatInv, NEW y, Wrote(y), y.id \in minted', minted \subseteq minted', minted' \subseteq Id,
         revs' \in [Id -> History]
  PROVE  FormatInv'
<1>1. PICK new : new = lines'
  OBVIOUS
<1>2. OneChanged(lines, new, y) /\ book' = ParseChannel(new) /\ hand' = hand
  BY <1>1, Zenon DEF Wrote
<1>3. Sound(new) /\ MarkedIds(new) \subseteq minted' /\ FenceIds(new) \subseteq minted'
  BY <1>2 DEF FormatInv, OneChanged
<1>4. hand' \in Nat
  BY <1>2 DEF FormatInv
<1>5. QED
  BY <1>1, <1>2, <1>3, <1>4 DEF FormatInv

LEMMA StepInv == FormatInv /\ [FormatNext]_formatVars => FormatInv'
<1> SUFFICES ASSUME FormatInv, [FormatNext]_formatVars
             PROVE  FormatInv'
  OBVIOUS
<1>1. minted \subseteq Id /\ revs \in [Id -> History]
  BY DEF FormatInv
<1>2. ASSUME NEW id \in Id, NEW body \in Bodies, AppendMessage(id, body)
      PROVE  FormatInv'
  <2>1. PICK y : Wrote(y) /\ y.id = id
    BY <1>2, PostStep
  <2>2. minted' = minted \cup {id} /\ revs' = revs
    BY <1>2 DEF AppendMessage
  <2>3. QED
    BY <1>1, <2>1, <2>2, WroteInv
<1>3. ASSUME NEW id \in Id, NEW body \in Bodies, EditMessage(id, body)
      PROVE  FormatInv'
  <2>1. PICK y : Wrote(y) /\ y.id = id
    BY <1>3, EditStep
  <2>2. id \in DOMAIN book
    BY <1>3, EditStep
  <2>3. minted' = minted /\ KeepRevision(id, FormatRevision(id, PriorOf(id)), 0)
    BY <1>3 DEF EditMessage
  <2>4. revs' \in [Id -> History]
    BY <2>2, <2>3, KeptIs
  <2>5. id \in minted
    BY <2>2, BookHolds DEF FormatInv
  <2>6. QED
    BY <1>1, <2>1, <2>3, <2>4, <2>5, WroteInv
<1>4. ASSUME NEW id \in Id, LoseEdit(id)
      PROVE  FormatInv'
  <2>1. id \in DOMAIN book /\ UNCHANGED <<lines, minted, hand, book>>
    BY <1>4 DEF LoseEdit, Renderable
  <2>2. PICK text \in Tears(FormatRevision(id, PriorOf(id))) : KeepRevision(id, text, 1)
    BY <1>4 DEF LoseEdit
  <2>3. revs' \in [Id -> History]
    BY <2>1, <2>2, KeptIs
  <2>4. QED
    BY <2>1, <2>3 DEF FormatInv
<1>5. ASSUME NEW id \in Id, ArchiveMessage(id)
      PROVE  FormatInv'
  <2>1. PICK y : Wrote(y) /\ y.id = id
    BY <1>5, ArchiveStep
  <2>2. id \in DOMAIN book
    BY <1>5, ArchiveStep
  <2>3. minted' = minted /\ revs' = revs
    BY <1>5 DEF ArchiveMessage
  <2>4. id \in minted
    BY <2>2, BookHolds DEF FormatInv
  <2>5. QED
    BY <1>1, <2>1, <2>3, <2>4, WroteInv
<1>6. ASSUME NEW i \in DOMAIN lines, HandAt(i)
      PROVE  FormatInv'
  <2>1. PICK new : new = lines'
    OBVIOUS
  <2>2. Kin(new, lines) /\ book' = ParseChannel(new) /\ hand' = hand + 1 /\ UNCHANGED <<revs, minted>>
    BY <1>6, <2>1, HandStep
  <2>3. Sound(new) /\ MarkedIds(new) \subseteq minted' /\ FenceIds(new) \subseteq minted'
    BY <2>2 DEF FormatInv, Kin
  <2>4. hand' \in Nat
    BY <2>2 DEF FormatInv
  <2>5. QED
    BY <1>1, <2>1, <2>2, <2>3, <2>4 DEF FormatInv
<1>7. CASE UNCHANGED formatVars
  BY <1>7 DEF formatVars, FormatInv
<1>8. QED
  BY <1>2, <1>3, <1>4, <1>5, <1>6, <1>7, StepIs, Zenon

\* The file is a text whose first line is the end of the header and in which no two
\* lines are the marker of one id, every id in it was minted, and what a reader is
\* shown is what the file says: whatever the service and a hand did to it.
THEOREM FormatCorrect == FormatSpec => []FormatInv
  BY InitIs, StepInv, PTL DEF FormatSpec

\* What a write of the service shows.
LEMMA WritesStep ==
  ASSUME FormatInv, [FormatNext]_formatVars, hand' = hand, lines' # lines
  PROVE  \E id \in DOMAIN book' :
           /\ book' = [i \in DOMAIN book \cup {id} |-> IF i = id THEN book'[id] ELSE book[i]]
           /\ IF id \in DOMAIN book
              THEN /\ book[id].body # NoBody
                   /\ EditOf(book'[id], book[id]) \/ ArchiveOf(book'[id], book[id])
              ELSE Posted(book'[id])
<1> DEFINE Goal(id) ==
      /\ book' = [i \in DOMAIN book \cup {id} |-> IF i = id THEN book'[id] ELSE book[i]]
      /\ IF id \in DOMAIN book
         THEN /\ book[id].body # NoBody
              /\ EditOf(book'[id], book[id]) \/ ArchiveOf(book'[id], book[id])
         ELSE Posted(book'[id])
<1>1. ASSUME NEW id \in Id, NEW body \in Bodies, AppendMessage(id, body)
      PROVE  id \in DOMAIN book' /\ Goal(id)
  <2>1. PICK y : y = [id |-> id, revision |-> 0, archived |-> FALSE, body |-> Trim(body)]
    OBVIOUS
  <2>2. Wrote(y) /\ id \notin DOMAIN book /\ y.id = id
    BY <1>1, <2>1, PostStep
  <2>3. book' = [i \in DOMAIN book \cup {id} |-> IF i = id THEN book'[id] ELSE book[i]] /\ id \in DOMAIN book' /\ book'[id] = y
    BY <2>2, Zenon DEF Wrote, ButFor
  <2>4. Posted(y)
    BY <2>1 DEF Posted
  <2>5. QED
    BY <2>2, <2>3, <2>4
<1>2. ASSUME NEW id \in Id, NEW body \in Bodies, EditMessage(id, body)
      PROVE  id \in DOMAIN book' /\ Goal(id)
  <2>1. PICK y : y = Edited(book[id], Trim(body))
    OBVIOUS
  <2>2. Wrote(y) /\ id \in DOMAIN book /\ y.id = id /\ book[id].body # NoBody
    BY <1>2, <2>1, EditStep
  <2>3. book' = [i \in DOMAIN book \cup {id} |-> IF i = id THEN book'[id] ELSE book[i]] /\ id \in DOMAIN book' /\ book'[id] = y
    BY <2>2, Zenon DEF Wrote, ButFor
  <2>4. EditOf(y, book[id])
    BY <2>1, Zenon DEF EditOf
  <2>5. QED
    BY <2>2, <2>3, <2>4
<1>3. ASSUME NEW id \in Id, ArchiveMessage(id)
      PROVE  id \in DOMAIN book' /\ Goal(id)
  <2>1. PICK y : y = [book[id] EXCEPT !.body = Trim(@), !.archived = TRUE]
    OBVIOUS
  <2>2. Wrote(y) /\ id \in DOMAIN book /\ y.id = id /\ book[id].body # NoBody
    BY <1>3, <2>1, ArchiveStep
  <2>3. book' = [i \in DOMAIN book \cup {id} |-> IF i = id THEN book'[id] ELSE book[i]] /\ id \in DOMAIN book' /\ book'[id] = y
    BY <2>2, Zenon DEF Wrote, ButFor
  <2>4. ArchiveOf(y, book[id])
    BY <2>1, Zenon DEF ArchiveOf
  <2>5. QED
    BY <2>2, <2>3, <2>4
<1>4. ~ (\E id \in Id : LoseEdit(id)) /\ ~ UNCHANGED formatVars
  BY DEF LoseEdit, formatVars
<1>5. ASSUME NEW i \in DOMAIN lines, HandAt(i)
      PROVE  FALSE
  BY <1>5, HandStep DEF FormatInv
<1> HIDE DEF Goal
<1>6. \E id \in DOMAIN book' : Goal(id)
  BY <1>1, <1>2, <1>3, <1>4, <1>5, StepIs, Zenon
<1>7. QED
  BY <1>6 DEF Goal

\* A write of the service shows in what is read as one message posted, edited or
\* archived with the body it was given and in no other message, for every file that
\* any edits by hand have made of a sound one.
THEOREM WritesExact == FormatSpec => WritesAreExact
<1>1. FormatInv /\ [FormatNext]_formatVars =>
        [hand' = hand /\ lines' # lines =>
           \E id \in DOMAIN book' :
             /\ book' = [i \in DOMAIN book \cup {id} |-> IF i = id THEN book'[id] ELSE book[i]]
             /\ IF id \in DOMAIN book
                THEN /\ book[id].body # NoBody
                     /\ EditOf(book'[id], book[id]) \/ ArchiveOf(book'[id], book[id])
                ELSE Posted(book'[id])]_formatVars
  BY WritesStep
<1>2. QED
  BY <1>1, FormatCorrect, PTL DEF FormatSpec, WritesAreExact

\* A block that is not of the message written is the first of its id after as before.
LEMMA BlockIsKept ==
  ASSUME FormatInv, NEW y, NEW new, OneChanged(lines, new, y), NEW id \in DOMAIN book, id # y.id,
         y.id \in DOMAIN book \/ y.id \notin MarkedIds(lines)
  PROVE  Found(new, id) # {} /\ BlockAt(new, FindMessageBlock(new, id)) = BlockAt(lines, FindMessageBlock(lines, id))
<1>1. Sound(lines) /\ book = ParseChannel(lines) /\ lines \in Seq(Line) /\ MarkedOnce(lines)
  BY DEF FormatInv, Sound
<1>2. PICK c : c = BlockAt(lines, FindMessageBlock(lines, id))
  OBVIOUS
<1>3. c \in Blocks(lines) /\ id \in MarkedIds(c) /\ IsMessage(c) /\ ParseMessage(c).id = id
  BY <1>1, <1>2, BookHolds
<1>4. y.id \notin MarkedIds(c)
  <2>1. CASE y.id \notin MarkedIds(lines)
    BY <1>1, <1>3, <2>1, BlockHolds
  <2>2. ASSUME y.id \in DOMAIN book, y.id \in MarkedIds(c)
        PROVE  FALSE
    <3>1. PICK b : b = BlockAt(lines, FindMessageBlock(lines, y.id))
      OBVIOUS
    <3>2. b \in Blocks(lines) /\ y.id \in MarkedIds(b) /\ ParseMessage(b).id = y.id
      BY <1>1, <2>2, <3>1, BookHolds
    <3>3. b = c
      BY <1>1, <1>3, <2>2, <3>2, BlockUnique
    <3>4. QED
      BY <1>3, <3>2, <3>3
  <2>3. QED
    BY <2>1, <2>2
<1>5. Sound(new) /\ new \in Seq(Line) /\ MarkedOnce(new) /\ c \in Blocks(new)
  BY <1>3, <1>4 DEF OneChanged, Sound
<1>6. id \in DOMAIN ParseChannel(new)
  <2>1. PICK n : n = ParseMessage(c)
    OBVIOUS
  <2>2. n \in MessagesIn(new) /\ n.id = id
    BY <1>3, <1>5, <2>1 DEF MessagesIn
  <2>3. QED
    BY <1>5, <2>2, BookIs
<1>7. PICK d : d = BlockAt(new, FindMessageBlock(new, id))
  OBVIOUS
<1>8. Found(new, id) # {} /\ FindMessageBlock(new, id) \in Heads(new) /\ IsMessage(d) /\ ParseMessage(d).id = id
  BY <1>5, <1>6, <1>7, FoundIs
<1>9. d \in Blocks(new)
  BY <1>7, <1>8 DEF Blocks
<1>10. id \in MarkedIds(d)
  <2>1. d \in Seq(Line) /\ Heads(d) = {1}
    BY <1>5, <1>9, BlockHolds
  <2>2. QED
    BY <1>8, <2>1, ParseIs
<1>11. c = d
  BY <1>3, <1>5, <1>9, <1>10, BlockUnique
<1>12. QED
  BY <1>2, <1>7, <1>8, <1>11

LEMMA DamageStep ==
  ASSUME FormatInv, [FormatNext]_formatVars, hand' = hand, NEW id \in DOMAIN book, book[id].body = NoBody
  PROVE  /\ Found(lines', id) # {}
         /\ BlockAt(lines', FindMessageBlock(lines', id)) = BlockAt(lines, FindMessageBlock(lines, id))
<1>1. PICK new : new = lines'
  OBVIOUS
<1> DEFINE Goal == Found(new, id) # {} /\ BlockAt(new, FindMessageBlock(new, id)) = BlockAt(lines, FindMessageBlock(lines, id))
<1>2. ASSUME NEW y, Wrote(y), id # y.id, y.id \in DOMAIN book \/ y.id \notin MarkedIds(lines)
      PROVE  Goal
  <2>1. OneChanged(lines, new, y)
    BY <1>1, <1>2, Zenon DEF Wrote
  <2>2. QED
    BY <1>2, <2>1, BlockIsKept
<1>3. ASSUME new = lines
      PROVE  Goal
  BY <1>3, FoundIs DEF FormatInv
<1> HIDE DEF Goal
<1>4. ASSUME NEW i \in Id, NEW body \in Bodies, AppendMessage(i, body)
      PROVE  Goal
  <2>1. PICK y : y = [id |-> i, revision |-> 0, archived |-> FALSE, body |-> Trim(body)]
    OBVIOUS
  <2>2. Wrote(y) /\ i \notin DOMAIN book /\ y.id = i /\ i \notin MarkedIds(lines)
    BY <1>4, <2>1, PostStep
  <2>3. QED
    BY <1>2, <2>2
<1>5. ASSUME NEW i \in Id, NEW body \in Bodies, EditMessage(i, body)
      PROVE  Goal
  <2>1. PICK y : y = Edited(book[i], Trim(body))
    OBVIOUS
  <2>2. Wrote(y) /\ i \in DOMAIN book /\ y.id = i /\ book[i].body # NoBody
    BY <1>5, <2>1, EditStep
  <2>3. QED
    BY <1>2, <2>2
<1>6. ASSUME NEW i \in Id, ArchiveMessage(i)
      PROVE  Goal
  <2>1. PICK y : y = [book[i] EXCEPT !.body = Trim(@), !.archived = TRUE]
    OBVIOUS
  <2>2. Wrote(y) /\ i \in DOMAIN book /\ y.id = i /\ book[i].body # NoBody
    BY <1>6, <2>1, ArchiveStep
  <2>3. QED
    BY <1>2, <2>2
<1>7. ASSUME NEW i \in Id, LoseEdit(i)
      PROVE  Goal
  BY <1>1, <1>3, <1>7 DEF LoseEdit
<1>8. ASSUME NEW i \in DOMAIN lines, HandAt(i)
      PROVE  Goal
  BY <1>8, HandStep DEF FormatInv
<1>9. ASSUME UNCHANGED formatVars
      PROVE  Goal
  BY <1>1, <1>3, <1>9 DEF formatVars
<1>10. Goal
  BY <1>4, <1>5, <1>6, <1>7, <1>8, <1>9, StepIs, Zenon
<1>11. QED
  BY <1>1, <1>10, Zenon DEF Goal

\* The lines of a block whose body could not be recovered survive every write of the
\* service, wherever it stands and whatever is written around it.
THEOREM DamageKept == FormatSpec => DamageIsKept
<1>1. FormatInv /\ [FormatNext]_formatVars =>
        [\A id \in DOMAIN book : hand' = hand /\ book[id].body = NoBody =>
           /\ Found(lines', id) # {}
           /\ BlockAt(lines', FindMessageBlock(lines', id))
                = BlockAt(lines, FindMessageBlock(lines, id))]_formatVars
  BY DamageStep
<1>2. QED
  BY <1>1, FormatCorrect, PTL DEF FormatSpec, DamageIsKept

--------------------------------------------------------------------------------
(* The history. *)

LEMMA HistoryInit == FormatInit => HistoryInv
<1> SUFFICES ASSUME FormatInit, NEW id \in Id
             PROVE  HistoryHolds(revs[id].file, id, revs[id].written, revs[id].replaced)
  BY DEF HistoryInv
<1>1. PICK old \in Old :
        revs = [i \in Id |-> [file |-> old.files[i], written |-> ReadLegacy(old.files[i]),
                              replaced |-> {}, kept |-> 0, lost |-> 0]]
  BY DEF FormatInit
<1>2. old.files[id] \in Seq(Line) /\ old.files[id] # <<>>
  BY OldAssumption
<1>3. HistoryHolds(old.files[id], id, ReadLegacy(old.files[id]), {})
  BY <1>2, HistoryStarts
<1>4. QED
  BY <1>1, <1>3

LEMMA HistoryStep == FormatInv /\ HistoryInv /\ [FormatNext]_formatVars => HistoryInv'
<1> SUFFICES ASSUME FormatInv, HistoryInv, [FormatNext]_formatVars
             PROVE  HistoryInv'
  OBVIOUS
<1>1. ASSUME revs' = revs
      PROVE  HistoryInv'
  BY <1>1 DEF HistoryInv
<1>2. ASSUME NEW id \in Id, NEW body \in Bodies, EditMessage(id, body)
      PROVE  HistoryInv'
  <2>1. id \in DOMAIN book /\ KeepRevision(id, FormatRevision(id, PriorOf(id)), 0)
    BY <1>2 DEF EditMessage, Renderable
  <2>2. QED
    BY <2>1, KeptIs
<1>3. ASSUME NEW id \in Id, LoseEdit(id)
      PROVE  HistoryInv'
  <2>1. id \in DOMAIN book
    BY <1>3 DEF LoseEdit, Renderable
  <2>2. PICK text \in Tears(FormatRevision(id, PriorOf(id))) : KeepRevision(id, text, 1)
    BY <1>3 DEF LoseEdit
  <2>3. QED
    BY <2>1, <2>2, KeptIs
<1>4. ASSUME NEW id \in Id, NEW body \in Bodies, AppendMessage(id, body)
      PROVE  HistoryInv'
  BY <1>1, <1>4 DEF AppendMessage
<1>5. ASSUME NEW id \in Id, ArchiveMessage(id)
      PROVE  HistoryInv'
  BY <1>1, <1>5 DEF ArchiveMessage
<1>6. ASSUME NEW i \in DOMAIN lines, HandAt(i)
      PROVE  HistoryInv'
  BY <1>1, <1>6, HandStep
<1>7. ASSUME UNCHANGED formatVars
      PROVE  HistoryInv'
  BY <1>1, <1>7 DEF formatVars
<1>8. QED
  BY <1>2, <1>3, <1>4, <1>5, <1>6, <1>7, StepIs, Zenon

LEMMA HistoryIs ==
  ASSUME FormatInv, HistoryInv, NEW id \in Id
  PROVE  /\ revs[id].replaced \subseteq ReadHistory(revs[id].file, id)
         /\ \A r \in ReadHistory(revs[id].file, id) : r.body # NoBody => r \in revs[id].written
<1>1. HistoryHolds(revs[id].file, id, revs[id].written, revs[id].replaced)
  BY DEF HistoryInv
<1>2. revs[id].written \in SUBSET Revision /\ revs[id].replaced \in SUBSET Revision
  BY DEF FormatInv, History
<1>3. QED
  BY <1>1, <1>2, HistoryReads

\* What an edit replaced can be read in the history ever after, as the revision that
\* replaced it, whatever else was cut short there, and at whatever place.
THEOREM EditsKept == FormatSpec => []EditsAreKept
<1>1. FormatInv /\ HistoryInv => EditsAreKept
  BY HistoryIs DEF EditsAreKept
<1>2. QED
  BY <1>1, HistoryInit, HistoryStep, FormatCorrect, PTL DEF FormatSpec

\* A body that the history gives is one that was written to it, whole: none is pieced
\* together from what two appends left there.
THEOREM NothingIsGuessed == FormatSpec => []NoBodyIsGuessed
<1>1. FormatInv /\ HistoryInv => NoBodyIsGuessed
  BY HistoryIs DEF NoBodyIsGuessed
<1>2. QED
  BY <1>1, HistoryInit, HistoryStep, FormatCorrect, PTL DEF FormatSpec

--------------------------------------------------------------------------------
(* The first edit by hand: what becomes of the text around one line. *)

\* A text is cut in one way at one place.
LEMMA SameSplit ==
  ASSUME NEW s \in Seq(Line), NEW t \in Seq(Line), NEW u \in Seq(Line), NEW v \in Seq(Line),
         Cat(s, t) = Cat(u, v), Len(s) = Len(u)
  PROVE  s = u /\ t = v
<1>1. PICK w : w = Cat(s, t)
  OBVIOUS
<1>2. w = Cat(u, v)
  BY <1>1
<1>3. \A i \in 1 .. Len(s) : w[i] = s[i]
  BY <1>1, CatLines, ZenonT(30)
<1>4. \A i \in 1 .. Len(u) : w[i] = u[i]
  BY <1>2, CatLines, ZenonT(30)
<1>5. \A i \in 1 .. Len(s) : s[i] = u[i]
  BY <1>3, <1>4
<1>6. s = u
  BY <1>5, SeqEqual
<1>7. Len(w) = Len(s) + Len(t) /\ Len(s) \in Nat /\ Len(t) \in Nat /\ \A i \in 1 .. Len(t) : w[Len(s) + i] = t[i]
  BY <1>1, CatLines, ZenonT(30)
<1>8. Len(w) = Len(u) + Len(v) /\ Len(v) \in Nat /\ \A i \in 1 .. Len(v) : w[Len(u) + i] = v[i]
  BY <1>2, CatLines, ZenonT(30)
<1>9. Len(t) = Len(v)
  BY <1>7, <1>8
<1>10. \A i \in 1 .. Len(t) : t[i] = v[i]
  BY <1>7, <1>8, <1>9
<1>11. t = v
  BY <1>9, <1>10, SeqEqual
<1>12. QED
  BY <1>6, <1>11

\* The lines around the one at i stay, and those of w come in its place.
Slipped(new, ls, i, w) ==
  \A p, r \in Seq(Line) :
    Len(p) = i - 1 /\ ls = Cat(p, Cat(<<ls[i]>>, r)) => new = Cat(p, Cat(w, r))

LEMMA RemoveSlips ==
  ASSUME NEW ls \in Seq(Line), NEW i \in 1 .. Len(ls)
  PROVE  Slipped(RemoveAt(ls, i), ls, i, <<>>)
<1>1. PICK p \in Seq(Line), r \in Seq(Line) :
        /\ Len(p) = i - 1 /\ <<ls[i]>> \in Seq(Line)
        /\ ls = Cat(p, Cat(<<ls[i]>>, r))
        /\ RemoveAt(ls, i) = Cat(p, r)
  BY LineStands
<1>2. PICK x : x = <<ls[i]>>
  OBVIOUS
<1>3. x \in Seq(Line) /\ Cat(x, r) \in Seq(Line) /\ ls = Cat(p, Cat(x, r))
  BY <1>1, <1>2, CatIs
<1>4. ASSUME NEW q \in Seq(Line), NEW s \in Seq(Line), Len(q) = i - 1, ls = Cat(q, Cat(x, s))
      PROVE  RemoveAt(ls, i) = Cat(q, Cat(<<>>, s))
  <2>1. Cat(x, s) \in Seq(Line)
    BY <1>3, CatIs
  <2>2. q = p /\ Cat(x, s) = Cat(x, r)
    <3>1. Cat(q, Cat(x, s)) = Cat(p, Cat(x, r)) /\ Len(q) = Len(p)
      BY <1>1, <1>3, <1>4
    <3>2. QED
      BY <1>3, <2>1, <3>1, SameSplit
  <2>3. s = r
    BY <1>3, <2>2, SameSplit
  <2>4. Cat(<<>>, s) = s
    BY CatEmpty
  <2>5. QED
    BY <1>1, <2>2, <2>3, <2>4
<1>5. QED
  BY <1>2, <1>4 DEF Slipped

LEMMA InsertSlips ==
  ASSUME NEW ls \in Seq(Line), NEW i \in 1 .. Len(ls), NEW l \in Line
  PROVE  Slipped(InsertAt(ls, i + 1, l), ls, i, Cat(<<ls[i]>>, <<l>>))
<1>1. PICK k \in Nat : k = i + 1 /\ i = k - 1
  OBVIOUS
<1>2. /\ i \in Nat /\ i =< Len(ls) /\ k \in Nat \ {0} /\ Len(ls) \in Nat /\ 1 =< i
      /\ k \in 1 .. (Len(ls) + 1)
  BY <1>1
<1>3. PICK a : a = SubSeq(ls, 1, i)
  OBVIOUS
<1>4. PICK b : b = SubSeq(ls, k, Len(ls))
  OBVIOUS
<1>5. a \in Seq(Line) /\ Len(a) = i
  BY <1>2, <1>3, StretchIsText
<1>6. b \in Seq(Line)
  BY <1>2, <1>4, StretchIsText
<1>7. ls = Cat(a, b)
  <2>1. ls = SubSeq(ls, 1, k - 1) \o SubSeq(ls, k, Len(ls))
    BY <1>2, SplitAt
  <2>2. QED
    BY <1>1, <1>3, <1>4, <2>1, Zenon DEF Cat
<1>8. PICK x : x = <<ls[i]>>
  OBVIOUS
<1>9. PICK y : y = <<l>>
  OBVIOUS
<1>10. x \in Seq(Line) /\ y \in Seq(Line) /\ Len(x) = 1
  BY <1>8, <1>9, TwoLines
<1>11. PICK new : new = InsertAt(ls, k, l)
  OBVIOUS
<1>12. new = Cat(Cat(a, y), b)
  BY <1>1, <1>3, <1>4, <1>9, <1>11, Zenon DEF Cat, InsertAt
<1>13. ASSUME NEW p \in Seq(Line), NEW r \in Seq(Line), Len(p) = i - 1, ls = Cat(p, Cat(x, r))
       PROVE  new = Cat(p, Cat(Cat(x, y), r))
  <2>1. PICK q : q = Cat(p, x)
    OBVIOUS
  <2>2. q \in Seq(Line) /\ Len(q) = i
    <3>1. q \in Seq(Line) /\ Len(q) = Len(p) + Len(x)
      BY <1>10, <2>1, CatLines
    <3>2. QED
      BY <1>2, <1>10, <1>13, <3>1
  <2>3. ls = Cat(q, r)
    BY <1>10, <1>13, <2>1, CatAssoc
  <2>4. q = a /\ r = b
    <3>1. Cat(q, r) = Cat(a, b) /\ Len(q) = Len(a)
      BY <1>5, <1>7, <2>2, <2>3
    <3>2. QED
      BY <1>5, <1>6, <2>2, <3>1, SameSplit
  <2>5. new = Cat(Cat(Cat(p, x), y), r)
    BY <1>12, <2>1, <2>4
  <2>6. Cat(Cat(p, x), y) = Cat(p, Cat(x, y)) /\ Cat(x, y) \in Seq(Line)
    BY <1>10, CatAssoc, CatIs
  <2>7. Cat(Cat(p, Cat(x, y)), r) = Cat(p, Cat(Cat(x, y), r))
    BY <2>6, CatAssoc
  <2>8. QED
    BY <2>5, <2>6, <2>7, Zenon
<1>14. QED
  BY <1>1, <1>8, <1>9, <1>11, <1>13 DEF Slipped

\* The text s is p, w and r.
Threaded(s, p, w, r) ==
  /\ s \in Seq(Line) /\ Len(s) = Len(p) + Len(w) + Len(r)
  /\ Len(p) \in Nat /\ Len(w) \in Nat /\ Len(r) \in Nat
  /\ \A i \in 1 .. Len(p) : s[i] = p[i]
  /\ \A i \in 1 .. Len(w) : s[Len(p) + i] = w[i]
  /\ \A i \in 1 .. Len(r) : s[Len(p) + Len(w) + i] = r[i]

LEMMA ThreePieces ==
  ASSUME NEW p \in Seq(Line), NEW w \in Seq(Line), NEW r \in Seq(Line)
  PROVE  Threaded(Cat(p, Cat(w, r)), p, w, r)
<1>1. PICK y : y = Cat(w, r)
  OBVIOUS
<1>2. /\ y \in Seq(Line) /\ Len(y) = Len(w) + Len(r) /\ Len(w) \in Nat /\ Len(r) \in Nat
      /\ \A i \in 1 .. Len(w) : y[i] = w[i]
      /\ \A i \in 1 .. Len(r) : y[Len(w) + i] = r[i]
  BY <1>1, CatLines, ZenonT(30)
<1>3. PICK s : s = Cat(p, y)
  OBVIOUS
<1>4. /\ s \in Seq(Line) /\ Len(s) = Len(p) + Len(y) /\ Len(p) \in Nat
      /\ \A i \in 1 .. Len(p) : s[i] = p[i]
      /\ \A i \in 1 .. Len(y) : s[Len(p) + i] = y[i]
  BY <1>2, <1>3, CatLines, ZenonT(30)
<1>5. ASSUME NEW i \in 1 .. Len(w)
      PROVE  s[Len(p) + i] = w[i]
  BY <1>2, <1>4, i \in 1 .. Len(y)
<1>6. ASSUME NEW i \in 1 .. Len(r)
      PROVE  s[Len(p) + Len(w) + i] = r[i]
  <2>1. Len(w) + i \in 1 .. Len(y) /\ Len(p) + (Len(w) + i) = Len(p) + Len(w) + i
    BY <1>2, <1>4
  <2>2. QED
    BY <1>2, <1>4, <2>1
<1>7. Len(s) = Len(p) + Len(w) + Len(r)
  BY <1>2, <1>4
<1>8. Threaded(s, p, w, r)
  BY <1>2, <1>4, <1>5, <1>6, <1>7 DEF Threaded
<1>9. QED
  BY <1>1, <1>3, <1>8, Zenon

\* Each line of such a text is one of a piece.
OfPiece(s, i, p, w, r) ==
  \/ i \in 1 .. Len(p) /\ s[i] = p[i]
  \/ \E k \in 1 .. Len(w) : i = Len(p) + k /\ s[i] = w[k]
  \/ \E k \in 1 .. Len(r) : i = Len(p) + Len(w) + k /\ s[i] = r[k]

LEMMA PieceAt ==
  ASSUME NEW s, NEW p, NEW w, NEW r, Threaded(s, p, w, r), NEW i \in 1 .. Len(s)
  PROVE  OfPiece(s, i, p, w, r)
<1>1. PICK a \in Nat, b \in Nat, c \in Nat : a = Len(p) /\ b = Len(w) /\ c = Len(r) /\ Len(s) = a + b + c
  BY DEF Threaded
<1>2. CASE i =< a
  BY <1>1, <1>2 DEF Threaded, OfPiece
<1>3. CASE a < i /\ i =< a + b
  <2>1. PICK k \in 1 .. b : i = a + k
    <3>1. i - a \in 1 .. b /\ i = a + (i - a)
      BY <1>1, <1>3
    <3>2. QED
      BY <3>1
  <2>2. s[i] = w[k]
    BY <1>1, <2>1 DEF Threaded
  <2>3. QED
    BY <1>1, <2>1, <2>2 DEF OfPiece
<1>4. CASE a + b < i
  <2>1. PICK k \in 1 .. c : i = a + b + k
    <3>1. i - (a + b) \in 1 .. c /\ i = a + b + (i - (a + b))
      BY <1>1, <1>4
    <3>2. QED
      BY <3>1
  <2>2. s[i] = r[k]
    BY <1>1, <2>1 DEF Threaded
  <2>3. QED
    BY <1>1, <2>1, <2>2 DEF OfPiece
<1>5. QED
  BY <1>1, <1>2, <1>3, <1>4 DEF OfPiece

LEMMA SpoilSlips ==
  ASSUME NEW ls \in Seq(Line), NEW i \in 1 .. Len(ls), NEW x \in Line
  PROVE  Slipped([ls EXCEPT ![i] = x], ls, i, <<x>>)
<1>1. PICK new : new = [ls EXCEPT ![i] = x]
  OBVIOUS
<1>2. /\ new \in Seq(Line) /\ Len(new) = Len(ls)
      /\ \A j \in 1 .. Len(ls) : new[j] = IF j = i THEN x ELSE ls[j]
  BY <1>1, ExceptSeq
<1>3. PICK w : w = <<x>>
  OBVIOUS
<1>4. PICK o : o = <<ls[i]>>
  OBVIOUS
<1>5. w \in Seq(Line) /\ Len(w) = 1 /\ w[1] = x
  BY <1>3, TwoLines
<1>6. o \in Seq(Line) /\ Len(o) = 1
  BY <1>4, TwoLines
<1>7. ASSUME NEW p \in Seq(Line), NEW r \in Seq(Line), Len(p) = i - 1, ls = Cat(p, Cat(o, r))
      PROVE  new = Cat(p, Cat(w, r))
  <2>1. PICK s : s = Cat(p, Cat(w, r))
    OBVIOUS
  <2>2. Threaded(ls, p, o, r)
    BY <1>6, <1>7, ThreePieces
  <2>3. Threaded(s, p, w, r)
    BY <1>5, <2>1, ThreePieces
  <2>4. Len(s) = Len(new) /\ s \in Seq(Line)
    BY <1>2, <1>5, <1>6, <2>2, <2>3 DEF Threaded
  <2>5. ASSUME NEW j \in 1 .. Len(s)
        PROVE  new[j] = s[j]
    <3>1. j \in 1 .. Len(ls) /\ Len(p) \in Nat /\ i = Len(p) + 1
      BY <1>2, <1>7, <2>4
    <3>2. CASE j \in 1 .. Len(p) /\ s[j] = p[j]
      <4>1. ls[j] = p[j] /\ j # i
        BY <2>2, <3>1, <3>2 DEF Threaded
      <4>2. QED
        BY <1>2, <3>1, <3>2, <4>1
    <3>3. ASSUME NEW k \in 1 .. Len(w), j = Len(p) + k, s[j] = w[k]
          PROVE  new[j] = s[j]
      <4>1. k = 1 /\ j = i
        BY <1>5, <3>1, <3>3
      <4>2. QED
        BY <1>2, <1>5, <3>1, <3>3, <4>1
    <3>4. ASSUME NEW k \in 1 .. Len(r), j = Len(p) + Len(w) + k, s[j] = r[k]
          PROVE  new[j] = s[j]
      <4>1. j # i
        BY <1>5, <3>1, <3>4
      <4>2. ls[j] = r[k]
        BY <1>5, <1>6, <2>2, <3>4 DEF Threaded
      <4>3. QED
        BY <1>2, <3>1, <3>4, <4>1, <4>2
    <3>5. OfPiece(s, j, p, w, r)
      BY <2>3, PieceAt
    <3>6. QED
      BY <3>2, <3>3, <3>4, <3>5 DEF OfPiece
  <2>6. new = s
    BY <1>2, <2>4, <2>5, SeqEqual
  <2>7. QED
    BY <2>1, <2>6
<1>8. QED
  BY <1>1, <1>3, <1>4, <1>7 DEF Slipped

\* What is left of a block of the message y when one of its lines was edited.
Scrap(x, y) ==
  /\ x \in Seq(Line)
  /\ \A i \in 1 .. Len(x) : x[i].kind = "heading" => i = 1
  /\ \A i \in 1 .. Len(x) : x[i].kind \in MarkerKind \cup FenceKind => x[i].id = y

\* Lines that a hand puts in the place of the line l.
Slip(w, l) ==
  /\ w \in Seq(Line)
  /\ \A k \in 1 .. Len(w) : w[k].kind \in Control => l.kind \in Control /\ w[k].id = l.id
  /\ \A k \in 1 .. Len(w) : w[k].kind \in MarkerKind \cup FenceKind => l.kind \in MarkerKind \cup FenceKind
  /\ \A k \in 1 .. Len(w) : w[k].kind = "heading" => k = 1 /\ l.kind = "heading"

LEMMA ControlIs == Control = {"heading"} \cup MarkerKind \cup FenceKind
  BY DEF Control, MarkerKind, FenceKind

LEMMA ScrapHolds ==
  ASSUME NEW x, NEW y, Scrap(x, y)
  PROVE  x \in Seq(Line) /\ Heads(x) \subseteq {1} /\ MarkedIds(x) \subseteq {y} /\ FenceIds(x) \subseteq {y}
<1>1. x \in Seq(Line)
  BY DEF Scrap
<1>2. Heads(x) \subseteq {1}
  BY <1>1 DEF Scrap, Heads
<1>3. MarkedIds(x) \subseteq {y} /\ FenceIds(x) \subseteq {y}
  BY <1>1, MarkersAre DEF Scrap
<1>4. QED
  BY <1>1, <1>2, <1>3

LEMMA TidyIsScrap ==
  ASSUME NEW b \in Seq(Line), TidyBlock(b), Heads(b) = {1}
  PROVE  /\ Len(b) >= 2 /\ b[1].kind = "heading" /\ b[2].kind = "marker"
         /\ Scrap(b, b[2].id) /\ b[2].id \in MarkedIds(b)
         /\ \A i \in 3 .. Len(b) : b[i].kind \in Control => b[i].kind \in FenceKind /\ b[i].id = b[2].id
<1>1. /\ Len(b) >= 2 /\ b[2].kind = "marker"
      /\ \A i \in 3 .. Len(b) : b[i].kind \in Control => b[i].kind \in FenceKind /\ b[i].id = b[2].id
  BY DEF TidyBlock, FenceKind
<1>2. b[1].kind = "heading"
  BY DEF Heads
<1>3. \A i \in 1 .. Len(b) : i = 1 \/ i = 2 \/ i \in 3 .. Len(b)
  OBVIOUS
<1>4. ASSUME NEW i \in 1 .. Len(b)
      PROVE  /\ b[i].kind = "heading" => i = 1
             /\ b[i].kind \in MarkerKind \cup FenceKind => b[i].id = b[2].id
  <2>1. CASE i = 1
    BY <1>2, <2>1 DEF MarkerKind, FenceKind
  <2>2. CASE i = 2
    BY <1>1, <2>2
  <2>3. CASE i \in 3 .. Len(b)
    BY <1>1, <2>3, ControlIs DEF FenceKind
  <2>4. QED
    BY <1>3, <2>1, <2>2, <2>3
<1>5. b[2].id \in MarkedIds(b)
  <2>1. 2 \in 1 .. Len(b) /\ b[2].kind \in MarkerKind
    BY <1>1 DEF MarkerKind
  <2>2. QED
    BY <2>1, MarkersAre
<1>6. QED
  BY <1>1, <1>2, <1>4, <1>5 DEF Scrap

\* One line of a block edited.
LEMMA SlipIsScrap ==
  ASSUME NEW b, NEW y, Scrap(b, y), NEW j \in 1 .. Len(b), NEW u \in Seq(Line), NEW v \in Seq(Line),
         b = Cat(u, Cat(<<b[j]>>, v)), Len(u) = j - 1, NEW w, Slip(w, b[j])
  PROVE  Scrap(Cat(u, Cat(w, v)), y)
<1>1. b \in Seq(Line) /\ b[j] \in Line /\ w \in Seq(Line)
  BY DEF Scrap, Slip
<1>2. PICK o : o = <<b[j]>>
  OBVIOUS
<1>3. o \in Seq(Line) /\ Len(o) = 1
  BY <1>1, <1>2, TwoLines
<1>4. PICK x : x = Cat(u, Cat(w, v))
  OBVIOUS
<1>5. Threaded(x, u, w, v)
  BY <1>1, <1>4, ThreePieces
<1>6. Threaded(b, u, o, v)
  <2>1. b = Cat(u, Cat(o, v))
    BY <1>2
  <2>2. QED
    BY <1>3, <2>1, ThreePieces
<1>7. ASSUME NEW i \in 1 .. Len(x)
      PROVE  /\ x[i].kind = "heading" => i = 1
             /\ x[i].kind \in MarkerKind \cup FenceKind => x[i].id = y
  <2>1. Len(u) \in Nat /\ j = Len(u) + 1 /\ Len(b) = Len(u) + 1 + Len(v) /\ Len(v) \in Nat
    BY <1>3, <1>6 DEF Threaded
  <2>2. CASE i \in 1 .. Len(u) /\ x[i] = u[i]
    <3>1. i \in 1 .. Len(b) /\ x[i] = b[i]
      BY <1>6, <2>1, <2>2 DEF Threaded
    <3>2. QED
      BY <3>1 DEF Scrap
  <2>3. ASSUME NEW k \in 1 .. Len(w), i = Len(u) + k, x[i] = w[k]
        PROVE  /\ x[i].kind = "heading" => i = 1
               /\ x[i].kind \in MarkerKind \cup FenceKind => x[i].id = y
    <3>1. x[i].kind \in MarkerKind \cup FenceKind => b[j].id = y /\ x[i].id = b[j].id
      BY <2>3, ControlIs DEF Slip, Scrap
    <3>2. x[i].kind = "heading" => k = 1 /\ j = 1
      BY <2>3 DEF Slip, Scrap
    <3>3. k = 1 /\ j = 1 => i = 1
      BY <2>1, <2>3
    <3>4. QED
      BY <3>1, <3>2, <3>3
  <2>4. ASSUME NEW k \in 1 .. Len(v), i = Len(u) + Len(w) + k, x[i] = v[k]
        PROVE  /\ x[i].kind = "heading" => i = 1
               /\ x[i].kind \in MarkerKind \cup FenceKind => x[i].id = y
    <3>1. PICK n : n = Len(u) + 1 + k
      OBVIOUS
    <3>2. n \in 1 .. Len(b) /\ n # 1
      BY <2>1, <2>4, <3>1, SMTT(30)
    <3>3. x[i] = b[n]
      BY <1>3, <1>6, <2>4, <3>1 DEF Threaded
    <3>4. QED
      BY <3>2, <3>3 DEF Scrap
  <2>5. OfPiece(x, i, u, w, v)
    BY <1>5, PieceAt
  <2>6. QED
    BY <2>2, <2>3, <2>4, <2>5 DEF OfPiece
<1>8. x \in Seq(Line)
  BY <1>5 DEF Threaded
<1>9. QED
  BY <1>4, <1>7, <1>8 DEF Scrap

\* The same of lines that are no control lines.
LEMMA SlipStaysPlain ==
  ASSUME NEW q \in Seq(Line), NoControl(q), NEW j \in 1 .. Len(q), NEW u \in Seq(Line), NEW v \in Seq(Line),
         q = Cat(u, Cat(<<q[j]>>, v)), Len(u) = j - 1, NEW w, Slip(w, q[j])
  PROVE  Cat(u, Cat(w, v)) \in Seq(Line) /\ NoControl(Cat(u, Cat(w, v)))
<1>1. q[j] \in Line /\ w \in Seq(Line)
  BY DEF Slip
<1>2. PICK o : o = <<q[j]>>
  OBVIOUS
<1>3. o \in Seq(Line) /\ Len(o) = 1
  BY <1>1, <1>2, TwoLines
<1>4. PICK x : x = Cat(u, Cat(w, v))
  OBVIOUS
<1>5. Threaded(x, u, w, v)
  BY <1>1, <1>4, ThreePieces
<1>6. Threaded(q, u, o, v)
  <2>1. q = Cat(u, Cat(o, v))
    BY <1>2
  <2>2. QED
    BY <1>3, <2>1, ThreePieces
<1>7. ASSUME NEW i \in 1 .. Len(x)
      PROVE  x[i].kind \notin Control
  <2>1. Len(u) \in Nat /\ Len(q) = Len(u) + 1 + Len(v) /\ Len(v) \in Nat
    BY <1>3, <1>6 DEF Threaded
  <2>2. CASE i \in 1 .. Len(u) /\ x[i] = u[i]
    <3>1. i \in 1 .. Len(q) /\ x[i] = q[i]
      BY <1>6, <2>1, <2>2 DEF Threaded
    <3>2. QED
      BY <3>1 DEF NoControl
  <2>3. ASSUME NEW k \in 1 .. Len(w), i = Len(u) + k, x[i] = w[k]
        PROVE  x[i].kind \notin Control
    BY <2>3 DEF Slip, NoControl
  <2>4. ASSUME NEW k \in 1 .. Len(v), i = Len(u) + Len(w) + k, x[i] = v[k]
        PROVE  x[i].kind \notin Control
    <3>1. PICK n : n = Len(u) + 1 + k
      OBVIOUS
    <3>2. n \in 1 .. Len(q)
      BY <2>1, <2>4, <3>1
    <3>3. x[i] = q[n]
      BY <1>3, <1>6, <2>4, <3>1 DEF Threaded
    <3>4. QED
      BY <3>2, <3>3 DEF NoControl
  <2>5. OfPiece(x, i, u, w, v)
    BY <1>5, PieceAt
  <2>6. QED
    BY <2>2, <2>3, <2>4, <2>5 DEF OfPiece
<1>8. QED
  BY <1>4, <1>5, <1>7 DEF Threaded, NoControl

\* What a hand does to a line.
LEMMA HandSlips ==
  ASSUME lines \in Seq(Line), NEW i \in 1 .. Len(lines), HandAt(i)
  PROVE  \E w \in Seq(Line) : Slip(w, lines[i]) /\ lines' \in {new \in {lines'} : Slipped(new, lines, i, w)}
<1>1. PICK l : l = lines[i]
  OBVIOUS
<1>2. l \in Line
  BY <1>1
<1>3. CASE DeleteLine(i)
  <2>1. lines' = RemoveAt(lines, i)
    BY <1>3, Zenon DEF DeleteLine, Publish
  <2>2. PICK new : new = RemoveAt(lines, i)
    OBVIOUS
  <2>3. Slipped(new, lines, i, <<>>)
    BY <2>2, RemoveSlips
  <2>4. <<>> \in Seq(Line) /\ Slip(<<>>, l)
    BY DEF Slip
  <2>5. QED
    BY <1>1, <2>1, <2>2, <2>3, <2>4, Zenon
<1>4. ASSUME NEW x \in {Blank, Plain("rule")}, InsertLine(i, x)
      PROVE  \E w \in Seq(Line) : Slip(w, l) /\ lines' \in {new \in {lines'} : Slipped(new, lines, i, w)}
  <2>1. lines' = InsertAt(lines, i + 1, x)
    BY <1>4, Zenon DEF InsertLine, Publish
  <2>2. PICK new : new = InsertAt(lines, i + 1, x)
    OBVIOUS
  <2>3. x \in Line /\ x.kind \in {"blank", "rule"}
    <3>1. x \in Idle
      BY DEF Idle
    <3>2. QED
      BY <3>1, IdleIs
  <2>4. PICK o : o = <<l>>
    OBVIOUS
  <2>5. PICK z : z = <<x>>
    OBVIOUS
  <2>6. /\ o \in Seq(Line) /\ Len(o) = 1 /\ o[1] = l
        /\ z \in Seq(Line) /\ Len(z) = 1 /\ z[1] = x
    BY <1>2, <2>3, <2>4, <2>5, TwoLines
  <2>7. PICK w : w = Cat(o, z)
    OBVIOUS
  <2>8. /\ w \in Seq(Line) /\ Len(w) = Len(o) + Len(z)
        /\ \A k \in 1 .. Len(o) : w[k] = o[k]
        /\ \A k \in 1 .. Len(z) : w[Len(o) + k] = z[k]
    BY <2>6, <2>7, CatLines, ZenonT(30)
  <2>9. Len(w) = 2 /\ w[1] = l /\ w[2] = x
    <3>1. 1 \in 1 .. 1 /\ 1 + 1 = 2
      OBVIOUS
    <3>2. QED
      BY <2>6, <2>8, <3>1
  <2>10. \A k \in 1 .. Len(w) : k = 1 \/ k = 2
    BY <2>9
  <2>11. x.kind \notin Control /\ x.kind # "heading" /\ x.kind \notin MarkerKind \cup FenceKind
    BY <2>3 DEF Control, MarkerKind, FenceKind
  <2>12. Slip(w, l)
    BY <2>8, <2>9, <2>10, <2>11 DEF Slip
  <2>13. Slipped(new, lines, i, Cat(<<lines[i]>>, <<x>>))
    BY <2>2, <2>3, InsertSlips
  <2>14. Slipped(new, lines, i, w)
    BY <1>1, <2>4, <2>5, <2>7, <2>13
  <2>15. QED
    BY <2>1, <2>2, <2>8, <2>12, <2>14, Zenon
<1>5. CASE SpoilMarker(i)
  <2>1. PICK x : x = [l EXCEPT !.kind = "spoiled marker"]
    OBVIOUS
  <2>2. l.kind = "marker" /\ lines' = [lines EXCEPT ![i].kind = "spoiled marker"]
    BY <1>1, <1>5, Zenon DEF SpoilMarker, Publish
  <2>3. PICK new : new = [lines EXCEPT ![i] = x]
    OBVIOUS
  <2>4. lines' = new
    BY <1>1, <2>1, <2>2, <2>3
  <2>5. x \in Line /\ x.kind = "spoiled marker" /\ x.id = l.id
    BY <1>2, <2>1 DEF Line, LineKind
  <2>6. PICK w : w = <<x>>
    OBVIOUS
  <2>7. w \in Seq(Line) /\ Len(w) = 1 /\ w[1] = x
    BY <2>5, <2>6, TwoLines
  <2>8. \A k \in 1 .. Len(w) : k = 1
    BY <2>7
  <2>9. l.kind \in Control /\ l.kind \in MarkerKind /\ x.kind # "heading"
    BY <2>2, <2>5 DEF Control, MarkerKind
  <2>10. Slip(w, l)
    BY <2>5, <2>7, <2>8, <2>9 DEF Slip
  <2>11. Slipped(new, lines, i, w)
    BY <2>3, <2>5, <2>6, SpoilSlips
  <2>12. QED
    BY <1>1, <2>4, <2>7, <2>10, <2>11, Zenon
<1>6. QED
  BY <1>1, <1>3, <1>4, <1>5, Zenon DEF HandAt

--------------------------------------------------------------------------------
(* A tidy block with lines of another below it. *)

\* No heading finds its marker across.
LEMMA HeadsAbove ==
  ASSUME NEW s \in Seq(Line), NEW x \in Seq(Line), Heads(x) = {},
         \A h \in 1 .. Len(s) : s[h].kind = "heading" => h + 1 =< Len(s) /\ s[h + 1].kind \in MarkerKind
  PROVE  Heads(Cat(s, x)) = Heads(s)
<1>1. PICK d : d = Cat(s, x)
  OBVIOUS
<1>2. /\ d \in Seq(Line) /\ Len(d) = Len(s) + Len(x) /\ Len(s) \in Nat /\ Len(x) \in Nat
      /\ \A i \in 1 .. Len(s) : d[i] = s[i]
      /\ \A i \in 1 .. Len(x) : d[Len(s) + i] = x[i]
  BY <1>1, CatLines, ZenonT(30)
<1>3. ASSUME NEW e \in Seq(Line), NEW h \in 1 .. Len(e), h + 1 =< Len(e), e[h].kind = "heading", e[h + 1].kind \in MarkerKind
      PROVE  h \in Heads(e)
  <2>1. \A j \in 1 .. Len(e) : ~ (h < j /\ j < h + 1)
    OBVIOUS
  <2>2. h + 1 \in 1 .. Len(e) /\ h < h + 1 /\ h + 1 =< h + 3
    BY <1>3
  <2>3. Marks(e, h, h + 1)
    BY <1>3, <2>1, <2>2 DEF Marks
  <2>4. h + 1 \in MarkerIdx(e, h)
    BY <2>2, <2>3, MarkerIdxIs
  <2>5. QED
    BY <1>3, <2>4 DEF Heads
<1>4. ASSUME NEW h \in 1 .. Len(s)
      PROVE  h \in Heads(d) <=> h \in Heads(s)
  <2>1. CASE s[h].kind = "heading"
    <3>1. h + 1 =< Len(s) /\ s[h + 1].kind \in MarkerKind /\ h + 1 \in 1 .. Len(s)
      BY <2>1
    <3>2. h \in 1 .. Len(d) /\ h + 1 =< Len(d) /\ d[h].kind = "heading" /\ d[h + 1].kind \in MarkerKind
      BY <1>2, <2>1, <3>1
    <3>3. QED
      BY <1>2, <1>3, <2>1, <3>1, <3>2
  <2>2. CASE s[h].kind # "heading"
    BY <1>2, <2>2 DEF Heads
  <2>3. QED
    BY <2>1, <2>2
<1>5. ASSUME NEW h \in Heads(d), h > Len(s)
      PROVE  FALSE
  <2>1. h \in 1 .. Len(d) /\ d[h].kind = "heading"
    BY <1>2, HeadsAreLines DEF Heads
  <2>2. PICK k \in MarkerIdx(d, h) : k \in 1 .. Len(d) /\ Marks(d, h, k)
    BY <1>2, <2>1, MarkerIdxIs DEF Heads
  <2>3. PICK a \in 1 .. Len(x) : h = Len(s) + a
    <3>1. h - Len(s) \in 1 .. Len(x) /\ h = Len(s) + (h - Len(s))
      BY <1>2, <1>5, <2>1
    <3>2. QED
      BY <3>1
  <2>4. PICK b \in 1 .. Len(x) : k = Len(s) + b
    <3>1. h < k
      BY <2>2 DEF Marks
    <3>2. k - Len(s) \in 1 .. Len(x) /\ k = Len(s) + (k - Len(s))
      BY <1>2, <1>5, <2>1, <2>2, <3>1
    <3>3. QED
      BY <3>2
  <2>5. /\ a < b /\ b =< a + 3 /\ x[b].kind \in MarkerKind
    BY <1>2, <2>2, <2>3, <2>4 DEF Marks
  <2>6. ASSUME NEW j \in 1 .. Len(x), a < j, j < b
        PROVE  x[j].kind = "blank"
    <3>1. Len(s) + j \in 1 .. Len(d) /\ h < Len(s) + j /\ Len(s) + j < k
      BY <1>2, <2>3, <2>4, <2>6
    <3>2. d[Len(s) + j].kind = "blank"
      BY <2>2, <3>1 DEF Marks
    <3>3. QED
      BY <1>2, <3>2
  <2>7. Marks(x, a, b)
    BY <2>5, <2>6 DEF Marks
  <2>8. b \in MarkerIdx(x, a)
    BY <2>7, MarkerIdxIs
  <2>9. x[a].kind = "heading"
    BY <1>2, <2>1, <2>3
  <2>10. a \in Heads(x)
    BY <2>8, <2>9 DEF Heads
  <2>11. QED
    BY <2>10
<1>6. Heads(s) \subseteq 1 .. Len(s) /\ Heads(d) \subseteq 1 .. Len(d)
  BY <1>2, HeadsAreLines
<1>7. \A h \in Heads(d) : h \in 1 .. Len(s)
  BY <1>2, <1>5, <1>6
<1>8. Heads(d) = Heads(s)
  BY <1>4, <1>6, <1>7
<1>9. QED
  BY <1>1, <1>8

\* The lines of c stand at the head of d, and nothing below them opens or closes a
\* fence of id.
Tops(d, c, id) ==
  /\ c \in Seq(Line) /\ d \in Seq(Line) /\ Len(c) =< Len(d)
  /\ \A i \in 1 .. Len(c) : d[i] = c[i]
  /\ \A i \in 1 .. Len(d) : d[i] = Of("open", id) \/ d[i] = Of("close", id) => i =< Len(c)

LEMMA ToppedIs ==
  ASSUME NEW c \in Seq(Line), NEW x \in Seq(Line), NEW id \in Nat, id \notin FenceIds(x)
  PROVE  Tops(Cat(c, x), c, id)
<1>1. PICK d : d = Cat(c, x)
  OBVIOUS
<1>2. /\ d \in Seq(Line) /\ Len(d) = Len(c) + Len(x) /\ Len(c) \in Nat /\ Len(x) \in Nat
      /\ \A i \in 1 .. Len(c) : d[i] = c[i]
      /\ \A i \in 1 .. Len(x) : d[Len(c) + i] = x[i]
  BY <1>1, CatLines, ZenonT(30)
<1>3. /\ Of("open", id).kind \in FenceKind /\ Of("open", id).id = id
      /\ Of("close", id).kind \in FenceKind /\ Of("close", id).id = id
  <2>1. "open" \in LineKind /\ "close" \in LineKind
    BY DEF LineKind
  <2>2. QED
    BY <2>1, LineIs DEF FenceKind
<1>4. \A k \in 1 .. Len(x) : x[k] # Of("open", id) /\ x[k] # Of("close", id)
  BY <1>3, MarkersAre
<1>5. ASSUME NEW i \in 1 .. Len(d), d[i] = Of("open", id) \/ d[i] = Of("close", id), ~ (i =< Len(c))
      PROVE  FALSE
  <2>1. i - Len(c) \in 1 .. Len(x) /\ i = Len(c) + (i - Len(c))
    BY <1>2, <1>5
  <2>2. PICK k \in 1 .. Len(x) : i = Len(c) + k
    BY <2>1
  <2>3. QED
    BY <1>2, <1>4, <1>5, <2>2
<1>6. Len(c) =< Len(d)
  BY <1>2
<1>7. Tops(d, c, id)
  BY <1>2, <1>5, <1>6 DEF Tops
<1>8. QED
  BY <1>1, <1>7

\* A stretch of the head of a text.
LEMMA SameStretch ==
  ASSUME NEW c \in Seq(Line), NEW d \in Seq(Line), Len(c) =< Len(d), \A i \in 1 .. Len(c) : d[i] = c[i],
         NEW i \in Nat \ {0}, NEW j \in Int, j =< Len(c)
  PROVE  SubSeq(d, i, j) = SubSeq(c, i, j)
<1>1. CASE j < i
  <2>1. SubSeq(d, i, j) = <<>> /\ SubSeq(c, i, j) = <<>>
    BY <1>1, SubSeqEmpty
  <2>2. QED
    BY <2>1
<1>2. CASE i =< j
  <2>1. j \in Nat /\ j =< Len(d)
    BY <1>2
  <2>2. PICK s : s = SubSeq(c, i, j)
    OBVIOUS
  <2>3. PICK t : t = SubSeq(d, i, j)
    OBVIOUS
  <2>4. s \in Seq(Line) /\ Len(s) = j - i + 1 /\ \A k \in 1 .. (j - i + 1) : s[k] = c[k + i - 1]
    BY <1>2, <2>1, <2>2, StretchIsText
  <2>5. t \in Seq(Line) /\ Len(t) = j - i + 1 /\ \A k \in 1 .. (j - i + 1) : t[k] = d[k + i - 1]
    BY <1>2, <2>1, <2>3, StretchIsText
  <2>6. \A k \in 1 .. (j - i + 1) : k + i - 1 \in 1 .. Len(c)
    BY <1>2, <2>1
  <2>7. \A k \in 1 .. Len(s) : s[k] = t[k]
    BY <2>4, <2>5, <2>6
  <2>8. s = t
    BY <2>4, <2>5, <2>7, SeqEqual
  <2>9. QED
    BY <2>2, <2>3, <2>8
<1>3. QED
  BY <1>1, <1>2

\* What is found in the lines of a block is found there with others below them.
LEMMA LegacyStays ==
  ASSUME NEW c \in Seq(Line), NEW d \in Seq(Line), Len(c) =< Len(d), \A i \in 1 .. Len(c) : d[i] = c[i],
         NEW a \in 3 .. Len(c), NEW b \in (a + 1) .. Len(c), c[a].kind = "blank", c[b].kind = "rule"
  PROVE  LegacyBody(d, 2) = LegacyBody(c, 2)
<1>1. PICK n \in Nat, m \in Nat : n = Len(c) /\ m = Len(d) /\ n =< m /\ DOMAIN c = 1 .. n /\ DOMAIN d = 1 .. m
  OBVIOUS
<1>2. PICK S : S = {i \in DOMAIN c : i > 2 /\ c[i].kind = "blank"} \cup {n + 1}
  OBVIOUS
<1>3. PICK T : T = {i \in DOMAIN d : i > 2 /\ d[i].kind = "blank"} \cup {m + 1}
  OBVIOUS
<1>4. a \in S /\ a \in T /\ S \in SUBSET Nat /\ T \in SUBSET Nat /\ a =< n
  BY <1>1, <1>2, <1>3
<1>5. \A i \in 1 .. n : i \in S <=> i \in T
  BY <1>1, <1>2, <1>3
<1>6. Min(S) \in S /\ \A i \in S : Min(S) =< i
  BY <1>4, LeastOf
<1>7. PICK s \in Nat : s = Min(S) /\ s \in S /\ s =< a /\ \A i \in S : s =< i
  BY <1>4, <1>6
<1>8. s \in 1 .. n
  <2>1. s >= 1
    BY <1>1, <1>2, <1>7
  <2>2. QED
    BY <1>4, <1>7, <2>1
<1>9. s \in T /\ \A i \in T : s =< i
  <2>1. ASSUME NEW i \in T
        PROVE  s =< i
    <3>1. i \in 1 .. n \/ i > n
      BY <1>1, <1>3
    <3>2. QED
      BY <1>1, <1>4, <1>5, <1>7, <1>8, <3>1
  <2>2. QED
    BY <1>5, <1>7, <1>8, <2>1
<1>10. Min(T) = s
  BY <1>4, <1>9, LeastIs
<1>11. PICK U : U = {i \in DOMAIN c : i >= s + 1 /\ c[i].kind = "rule"} \cup {n + 1}
  OBVIOUS
<1>12. PICK V : V = {i \in DOMAIN d : i >= s + 1 /\ d[i].kind = "rule"} \cup {m + 1}
  OBVIOUS
<1>13. b \in 1 .. n /\ b >= s + 1
  BY <1>1, <1>4, <1>7
<1>14. b \in U /\ U \in SUBSET Nat /\ V \in SUBSET Nat
  BY <1>1, <1>11, <1>12, <1>13
<1>15. \A i \in 1 .. n : i \in U <=> i \in V
  BY <1>1, <1>11, <1>12
<1>16. Min(U) \in U /\ \A i \in U : Min(U) =< i
  BY <1>14, LeastOf
<1>17. PICK e \in Nat : e = Min(U) /\ e \in U /\ e =< b /\ \A i \in U : e =< i
  BY <1>14, <1>16
<1>18. e \in 1 .. n
  <2>1. e >= 1
    BY <1>1, <1>11, <1>17
  <2>2. QED
    BY <1>13, <1>17, <2>1
<1>19. e \in V /\ \A i \in V : e =< i
  <2>1. ASSUME NEW i \in V
        PROVE  e =< i
    <3>1. i \in 1 .. n \/ i > n
      BY <1>1, <1>12
    <3>2. QED
      BY <1>1, <1>14, <1>15, <1>17, <1>18, <3>1
  <2>2. QED
    BY <1>15, <1>17, <1>18, <2>1
<1>20. Min(V) = e
  BY <1>14, <1>19, LeastIs
<1>21. SubSeq(d, s + 1, e - 1) = SubSeq(c, s + 1, e - 1)
  <2>1. s + 1 \in Nat \ {0} /\ e - 1 \in Int /\ e - 1 =< Len(c)
    BY <1>1, <1>18
  <2>2. QED
    BY <2>1, SameStretch
<1>22. LegacyBody(c, 2) = Trim(UnwrapArchived(SubSeq(c, s + 1, e - 1)))
  <2>1. Min({i \in DOMAIN c : i > 2 /\ c[i].kind = "blank"} \cup {Len(c) + 1}) + 1 = s + 1
    BY <1>1, <1>2, <1>7
  <2>2. Min({i \in DOMAIN c : i >= s + 1 /\ c[i].kind = "rule"} \cup {Len(c) + 1}) = e
    BY <1>1, <1>11, <1>17
  <2>3. QED
    BY <2>1, <2>2, Zenon DEF LegacyBody
<1>23. LegacyBody(d, 2) = Trim(UnwrapArchived(SubSeq(d, s + 1, e - 1)))
  <2>1. Min({i \in DOMAIN d : i > 2 /\ d[i].kind = "blank"} \cup {Len(d) + 1}) + 1 = s + 1
    BY <1>1, <1>3, <1>10
  <2>2. Min({i \in DOMAIN d : i >= s + 1 /\ d[i].kind = "rule"} \cup {Len(d) + 1}) = e
    BY <1>1, <1>12, <1>20
  <2>3. QED
    BY <2>1, <2>2, Zenon DEF LegacyBody
<1>24. QED
  BY <1>21, <1>22, <1>23, Zenon

LEMMA ExtractStays ==
  ASSUME NEW c, NEW d, NEW id \in Nat, Tops(d, c, id),
         \/ \E i \in 3 .. Len(c) : c[i] = Of("open", id)
         \/ \E i \in 3 .. Len(c) : \E j \in (i + 1) .. Len(c) : c[i].kind = "blank" /\ c[j].kind = "rule"
  PROVE  ExtractBody(d, 2, id) = ExtractBody(c, 2, id)
<1>1. PICK n \in Nat, m \in Nat :
        n = Len(c) /\ m = Len(d) /\ n =< m /\ DOMAIN c = 1 .. n /\ DOMAIN d = 1 .. m
  BY DEF Tops
<1>2. /\ \A i \in 1 .. n : d[i] = c[i]
      /\ \A i \in 1 .. m : d[i] = Of("open", id) \/ d[i] = Of("close", id) => i =< n
  BY <1>1 DEF Tops
<1>3. PICK S : S = {i \in DOMAIN c : i > 2 /\ c[i] = Of("open", id)}
  OBVIOUS
<1>4. S = {i \in DOMAIN d : i > 2 /\ d[i] = Of("open", id)} /\ S \in SUBSET Nat
  BY <1>1, <1>2, <1>3
<1>5. PICK T : T = {i \in DOMAIN c : i > Min(S) /\ c[i] = Of("close", id)}
  OBVIOUS
<1>6. T = {i \in DOMAIN d : i > Min(S) /\ d[i] = Of("close", id)} /\ T \in SUBSET Nat /\ \A i \in T : i =< n
  BY <1>1, <1>2, <1>5
<1>7. CASE S = {}
  <2>1. ExtractBody(c, 2, id) = LegacyBody(c, 2)
    BY <1>3, <1>7, Zenon DEF ExtractBody
  <2>2. ExtractBody(d, 2, id) = LegacyBody(d, 2)
    BY <1>4, <1>7, Zenon DEF ExtractBody
  <2>3. ~ \E i \in 3 .. Len(c) : c[i] = Of("open", id)
    BY <1>1, <1>3, <1>7
  <2>4. PICK a \in 3 .. Len(c) : \E j \in (a + 1) .. Len(c) : c[a].kind = "blank" /\ c[j].kind = "rule"
    BY <2>3
  <2>5. PICK b \in (a + 1) .. Len(c) : c[a].kind = "blank" /\ c[b].kind = "rule"
    BY <2>4
  <2>6. LegacyBody(d, 2) = LegacyBody(c, 2)
    BY <2>5, LegacyStays DEF Tops
  <2>7. QED
    BY <2>1, <2>2, <2>6
<1>8. CASE S # {} /\ T = {}
  <2>1. ExtractBody(c, 2, id) = NoBody
    BY <1>3, <1>5, <1>8, Zenon DEF ExtractBody
  <2>2. ExtractBody(d, 2, id) = NoBody
    BY <1>4, <1>6, <1>8, Zenon DEF ExtractBody
  <2>3. QED
    BY <2>1, <2>2
<1>9. CASE S # {} /\ T # {}
  <2>1. Min(S) \in S
    BY <1>4, <1>9, LeastOf
  <2>2. Max(T) \in T
    BY <1>6, <1>9, GreatestOf
  <2>3. PICK i \in Nat, j \in Nat : i = Min(S) /\ j = Max(T) /\ j =< n
    BY <1>4, <1>6, <2>1, <2>2
  <2>4. ExtractBody(c, 2, id) = AsText(SubSeq(c, i + 1, j - 1))
    BY <1>3, <1>5, <1>9, <2>3, Zenon DEF ExtractBody
  <2>5. ExtractBody(d, 2, id) = AsText(SubSeq(d, i + 1, j - 1))
    BY <1>4, <1>6, <1>9, <2>3, Zenon DEF ExtractBody
  <2>6. SubSeq(d, i + 1, j - 1) = SubSeq(c, i + 1, j - 1)
    <3>1. i + 1 \in Nat \ {0} /\ j - 1 \in Int /\ j - 1 =< Len(c)
      BY <1>1, <2>3
    <3>2. c \in Seq(Line) /\ d \in Seq(Line) /\ Len(c) =< Len(d) /\ \A k \in 1 .. Len(c) : d[k] = c[k]
      BY DEF Tops
    <3>3. QED
      BY <3>1, <3>2, SameStretch
  <2>7. QED
    BY <2>4, <2>5, <2>6, Zenon
<1>10. QED
  BY <1>7, <1>8, <1>9

\* A tidy block with what is left of another below it is read as it was.
LEMMA TidyAbove ==
  ASSUME NEW c \in Seq(Line), TidyBlock(c), Heads(c) = {1},
         NEW x \in Seq(Line), Heads(x) = {}, c[2].id \notin FenceIds(x)
  PROVE  /\ Cat(c, x) \in Seq(Line) /\ Heads(Cat(c, x)) = {1}
         /\ IsMessage(c) /\ IsMessage(Cat(c, x)) /\ ParseMessage(Cat(c, x)) = ParseMessage(c)
         /\ ParseMessage(c).id = c[2].id
<1>1. /\ Len(c) >= 2 /\ c[1].kind = "heading" /\ c[2].kind = "marker"
      /\ \A i \in 3 .. Len(c) : c[i].kind \in Control => c[i].kind \in FenceKind
  BY TidyIsScrap
<1>2. PICK d : d = Cat(c, x)
  OBVIOUS
<1>3. /\ d \in Seq(Line) /\ Len(d) = Len(c) + Len(x) /\ Len(c) \in Nat /\ Len(x) \in Nat
      /\ \A i \in 1 .. Len(c) : d[i] = c[i]
  BY <1>2, CatLines, ZenonT(30)
<1>4. ASSUME NEW h \in 1 .. Len(c), c[h].kind = "heading"
      PROVE  h + 1 =< Len(c) /\ c[h + 1].kind \in MarkerKind
  <2>1. h \notin 3 .. Len(c)
    BY <1>1, <1>4, ControlIs DEF FenceKind
  <2>2. h # 2
    BY <1>1, <1>4
  <2>3. h = 1
    BY <2>1, <2>2
  <2>4. h + 1 = 2 /\ "marker" \in MarkerKind
    BY <2>3 DEF MarkerKind
  <2>5. QED
    BY <1>1, <2>4
<1>5. Heads(d) = {1}
  BY <1>2, <1>4, HeadsAbove
<1>6. PICK id \in Nat : id = c[2].id
  <2>1. c[2] \in Line
    BY <1>1
  <2>2. QED
    BY <2>1 DEF Line
<1>7. Tops(d, c, id)
  BY <1>2, <1>6, ToppedIs
<1>8. ExtractBody(d, 2, id) = ExtractBody(c, 2, id)
  <2>1. \/ \E i \in 3 .. Len(c) : c[i] = Of("open", id)
        \/ \E i \in 3 .. Len(c) : \E j \in (i + 1) .. Len(c) : c[i].kind = "blank" /\ c[j].kind = "rule"
    BY <1>6 DEF TidyBlock
  <2>2. QED
    BY <1>7, <2>1, ExtractStays
<1>9. d[2] = c[2] /\ Len(d) >= 2 /\ d[2].kind = "marker"
  BY <1>1, <1>3
<1>10. /\ IsMessage(c)
       /\ ParseMessage(c) = [id |-> c[2].id, revision |-> c[2].revision, archived |-> c[2].archived,
                             body |-> ExtractBody(c, 2, c[2].id)]
  BY <1>1, SecondMarks
<1>11. /\ IsMessage(d)
       /\ ParseMessage(d) = [id |-> d[2].id, revision |-> d[2].revision, archived |-> d[2].archived,
                             body |-> ExtractBody(d, 2, d[2].id)]
  BY <1>3, <1>9, SecondMarks
<1>12. ParseMessage(d) = ParseMessage(c)
  BY <1>6, <1>8, <1>9, <1>10, <1>11, Zenon
<1>13. ParseMessage(c).id = c[2].id
  BY <1>10
<1>14. QED
  BY <1>2, <1>3, <1>5, <1>10, <1>11, <1>12, <1>13

--------------------------------------------------------------------------------
(* An edit of one line of such a file. *)

\* The messages of the two texts are the same but for those of y.
SameBut(new, ls, y) == \A m : m.id # y => (m \in MessagesIn(ls) <=> m \in MessagesIn(new))

\* The messages of the blocks of p and of r.
MessagesOf(p, r) == {ParseMessage(c) : c \in {d \in Blocks(p) \cup Blocks(r) : IsMessage(d)}}

LEMMA ScrapIsOwn ==
  ASSUME NEW p \in Seq(Line), NEW x, NEW r \in Seq(Line), NEW y, Scrap(x, y), Heads(x) = {1},
         r = <<>> \/ 1 \in Heads(r), NEW m, m.id # y
  PROVE  m \in MessagesIn(Cat(p, Cat(x, r))) <=> m \in MessagesOf(p, r)
<1>1. x \in Seq(Line) /\ MarkedIds(x) \subseteq {y}
  BY ScrapHolds
<1>2. PICK ls : ls = Cat(p, Cat(x, r))
  OBVIOUS
<1>3. Stacked(ls, p, x, r)
  BY <1>1, <1>2, ThreeHold
<1>4. Blocks(ls) = Blocks(p) \cup {x} \cup Blocks(r)
  BY <1>3 DEF Stacked
<1>5. IsMessage(x) => ParseMessage(x).id = y
  BY <1>1, ParseIs
<1>6. m \in MessagesIn(ls) <=> m \in MessagesOf(p, r)
  BY <1>4, <1>5 DEF MessagesIn, MessagesOf
<1>7. QED
  BY <1>2, <1>6

\* The last block of a text, and what stands above it.
LEMMA LastBlock ==
  ASSUME NEW p \in Seq(Line), Heads(p) # {}
  PROVE  \E q, c \in Seq(Line) : p = Cat(q, c) /\ Heads(c) = {1} /\ Blocks(p) = Blocks(q) \cup {c}
<1>1. PICK n \in Nat : n = Len(p) /\ Heads(p) \subseteq 1 .. n
  BY HeadsAreLines
<1>2. Heads(p) \in SUBSET Nat /\ \A k \in Heads(p) : k =< n
  BY <1>1
<1>3. Max(Heads(p)) \in Heads(p) /\ \A k \in Heads(p) : k =< Max(Heads(p))
  BY <1>2, GreatestOf
<1>4. PICK h \in Heads(p) : \A k \in Heads(p) : k =< h
  BY <1>3
<1>5. h \in 1 .. n
  BY <1>1
<1>6. Ends(p, h, n + 1)
  <2>1. \A k \in Heads(p) : ~ (h < k /\ k < n + 1)
    BY <1>1, <1>4, <1>5
  <2>2. h < n + 1
    BY <1>5
  <2>3. QED
    BY <1>1, <2>1, <2>2 DEF Ends
<1>7. BlockEnd(p, h) = n + 1
  <2>1. n + 1 \in 1 .. Len(p) + 1 /\ h \in 1 .. Len(p)
    BY <1>1, <1>5
  <2>2. QED
    BY <1>6, <2>1, BlockEndIs
<1>8. PICK q : q = SubSeq(p, 1, h - 1)
  OBVIOUS
<1>9. PICK c : c = BlockAt(p, h)
  OBVIOUS
<1>10. PICK r : r = SubSeq(p, BlockEnd(p, h), Len(p))
  OBVIOUS
<1>11. /\ q \in Seq(Line) /\ c \in Seq(Line) /\ r \in Seq(Line) /\ p = q \o (c \o r) /\ Heads(c) = {1}
       /\ BlockEnd(p, h) > Len(p) <=> r = <<>>
  BY <1>8, <1>9, <1>10, BlockSplits, Zenon
<1>12. r = <<>>
  BY <1>1, <1>7, <1>11
<1>13. p = Cat(q, c)
  <2>1. p = Cat(q, Cat(c, r))
    BY <1>11, Zenon DEF Cat
  <2>2. Cat(c, r) = c
    BY <1>11, <1>12, CatEmpty
  <2>3. QED
    BY <2>1, <2>2
<1>14. Blocks(p) = Blocks(q) \cup {c}
  <2>1. Blocks(p) = Blocks(q) \cup Blocks(c)
    BY <1>11, <1>13, CutAtHead
  <2>2. QED
    BY <1>11, <2>1, BlocksOfOne
<1>15. QED
  BY <1>11, <1>13, <1>14

\* What is left of a block is read as its message, or within the block above it.
LEMMA ScrapIsLocal ==
  ASSUME NEW p \in Seq(Line), NEW b \in Seq(Line), NEW r \in Seq(Line), NEW ls, ls = Cat(p, Cat(b, r)),
         MarkedOnce(ls), TidyText(ls), Heads(b) = {1}, r = <<>> \/ 1 \in Heads(r),
         NEW x, Scrap(x, b[2].id)
  PROVE  SameBut(Cat(p, Cat(x, r)), ls, b[2].id)
<1>1. PICK y : y = b[2].id
  OBVIOUS
<1>2. PICK new : new = Cat(p, Cat(x, r))
  OBVIOUS
<1>3. Stacked(ls, p, b, r)
  BY ThreeHold
<1>4. /\ Blocks(ls) = Blocks(p) \cup {b} \cup Blocks(r)
      /\ MarkedIds(p) \cap MarkedIds(b) = {}
  BY <1>3 DEF Stacked
<1>5. TidyBlock(b)
  BY <1>4 DEF TidyText
<1>6. Scrap(b, y) /\ y \in MarkedIds(b)
  BY <1>1, <1>5, TidyIsScrap
<1>7. x \in Seq(Line) /\ Heads(x) \subseteq {1} /\ FenceIds(x) \subseteq {y} /\ Scrap(x, y)
  BY <1>1, ScrapHolds
<1>8. ASSUME NEW m, m.id # y
      PROVE  m \in MessagesIn(ls) <=> m \in MessagesOf(p, r)
  BY <1>6, <1>8, ScrapIsOwn
<1>9. CASE Heads(x) = {1}
  <2>1. ASSUME NEW m, m.id # y
        PROVE  m \in MessagesIn(new) <=> m \in MessagesOf(p, r)
    BY <1>2, <1>7, <1>9, <2>1, ScrapIsOwn
  <2>2. QED
    BY <1>1, <1>2, <1>8, <2>1 DEF SameBut
<1>10. CASE Heads(x) = {} /\ Heads(p) = {}
  <2>1. NoControl(p)
    <3>1. PICK s : s = Cat(b, r)
      OBVIOUS
    <3>2. s \in Seq(Line) /\ 1 \in Heads(s)
      BY <3>1, CutAtHead
    <3>3. Led(ls) <=> Led(p)
      BY <3>1, <3>2, LedIs
    <3>4. QED
      BY <1>10, <3>3, LedPlain DEF TidyText
  <2>2. \A h \in 1 .. Len(p) : p[h].kind # "heading"
    BY <2>1, ControlIs DEF NoControl
  <2>3. PICK q : q = Cat(p, x)
    OBVIOUS
  <2>4. q \in Seq(Line)
    BY <1>7, <2>3, CatIs
  <2>5. Heads(q) = {}
    BY <1>7, <1>10, <2>2, <2>3, HeadsAbove
  <2>6. new = Cat(q, r)
    BY <1>2, <1>7, <2>3, CatAssoc
  <2>7. Blocks(new) = Blocks(q) \cup Blocks(r)
    BY <2>4, <2>6, CutAtHead
  <2>8. Blocks(q) = {} /\ Blocks(p) = {}
    BY <1>10, <2>5, NoHeadsNoBlocks
  <2>9. MessagesIn(new) = MessagesOf(p, r)
    BY <2>7, <2>8 DEF MessagesIn, MessagesOf
  <2>10. QED
    BY <1>1, <1>2, <1>8, <2>9 DEF SameBut
<1>11. CASE Heads(x) = {} /\ Heads(p) # {}
  <2>1. PICK q \in Seq(Line), c \in Seq(Line) :
          p = Cat(q, c) /\ Heads(c) = {1} /\ Blocks(p) = Blocks(q) \cup {c}
    BY <1>11, LastBlock
  <2>2. TidyBlock(c)
    BY <1>4, <2>1 DEF TidyText
  <2>3. c[2].id # y
    <3>1. c[2].id \in MarkedIds(c)
      BY <2>1, <2>2, TidyIsScrap
    <3>2. MarkedIds(c) \subseteq MarkedIds(p)
      BY <2>1, CatMarkers
    <3>3. QED
      BY <1>4, <1>6, <3>1, <3>2
  <2>4. PICK d : d = Cat(c, x)
    OBVIOUS
  <2>5. /\ d \in Seq(Line) /\ Heads(d) = {1} /\ IsMessage(c) /\ IsMessage(d)
        /\ ParseMessage(d) = ParseMessage(c)
    BY <1>7, <1>11, <2>1, <2>2, <2>3, <2>4, TidyAbove
  <2>6. new = Cat(q, Cat(d, r))
    <3>1. Cat(x, r) \in Seq(Line)
      BY <1>7, CatIs
    <3>2. new = Cat(q, Cat(c, Cat(x, r)))
      BY <1>2, <2>1, <3>1, CatAssoc
    <3>3. Cat(c, Cat(x, r)) = Cat(d, r)
      BY <1>7, <2>1, <2>4, CatAssoc
    <3>4. QED
      BY <3>2, <3>3
  <2>7. Stacked(new, q, d, r)
    BY <2>1, <2>5, <2>6, ThreeHold
  <2>8. Blocks(new) = Blocks(q) \cup {d} \cup Blocks(r)
    BY <2>7 DEF Stacked
  <2>9. MessagesIn(new) = MessagesOf(p, r)
    BY <2>1, <2>5, <2>8 DEF MessagesIn, MessagesOf
  <2>10. QED
    BY <1>1, <1>2, <1>8, <2>9 DEF SameBut
<1>12. QED
  BY <1>7, <1>9, <1>10, <1>11

\* A line above all blocks.
LEMMA SlipAbove ==
  ASSUME NEW q \in Seq(Line), NEW r \in Seq(Line), Heads(q) = {}, r = <<>> \/ 1 \in Heads(r),
         NEW ls, ls = Cat(q, r), Led(ls), NEW j \in 1 .. Len(q),
         NEW w, Slip(w, ls[j]), NEW new, Slipped(new, ls, j, w)
  PROVE  MessagesIn(new) = MessagesIn(ls)
<1>1. NoControl(q)
  BY LedIs, LedPlain
<1>2. PICK u \in Seq(Line), v \in Seq(Line) : Len(u) = j - 1 /\ q = Cat(u, Cat(<<q[j]>>, v))
  BY LineStands
<1>3. ls[j] = q[j]
  BY CatLines, ZenonT(30)
<1>4. w \in Seq(Line)
  BY DEF Slip
<1>5. PICK o : o = <<q[j]>>
  OBVIOUS
<1>6. o \in Seq(Line) /\ Cat(o, v) \in Seq(Line) /\ Cat(v, r) \in Seq(Line) /\ Cat(w, v) \in Seq(Line)
  <2>1. o \in Seq(Line)
    BY <1>5
  <2>2. QED
    BY <1>4, <2>1, CatIs
<1>7. ls = Cat(u, Cat(o, Cat(v, r)))
  <2>1. ls = Cat(u, Cat(Cat(o, v), r))
    BY <1>2, <1>5, <1>6, CatAssoc
  <2>2. Cat(Cat(o, v), r) = Cat(o, Cat(v, r))
    BY <1>6, CatAssoc
  <2>3. QED
    BY <2>1, <2>2
<1>8. new = Cat(u, Cat(w, Cat(v, r)))
  <2>1. ls = Cat(u, Cat(<<ls[j]>>, Cat(v, r)))
    BY <1>3, <1>5, <1>7
  <2>2. QED
    BY <1>2, <1>6, <2>1 DEF Slipped
<1>9. PICK s : s = Cat(u, Cat(w, v))
  OBVIOUS
<1>10. s \in Seq(Line) /\ NoControl(s)
  BY <1>1, <1>2, <1>3, <1>9, SlipStaysPlain
<1>11. new = Cat(s, r)
  <2>1. Cat(s, r) = Cat(u, Cat(Cat(w, v), r))
    BY <1>6, <1>9, CatAssoc
  <2>2. Cat(Cat(w, v), r) = Cat(w, Cat(v, r))
    BY <1>4, CatAssoc
  <2>3. QED
    BY <1>8, <2>1, <2>2
<1>12. Heads(s) = {}
  BY <1>10, HoldsNothing, ControlIs DEF NoControl
<1>13. Blocks(new) = Blocks(s) \cup Blocks(r) /\ Blocks(ls) = Blocks(q) \cup Blocks(r)
  BY <1>10, <1>11, CutAtHead
<1>14. Blocks(s) = {} /\ Blocks(q) = {}
  BY <1>12, NoHeadsNoBlocks
<1>15. QED
  BY <1>13, <1>14 DEF MessagesIn

\* A line of a block.
LEMMA SlipInBlock ==
  ASSUME NEW p \in Seq(Line), NEW b \in Seq(Line), NEW r \in Seq(Line), NEW ls, ls = Cat(p, Cat(b, r)),
         MarkedOnce(ls), TidyText(ls), Heads(b) = {1}, r = <<>> \/ 1 \in Heads(r),
         NEW j \in 1 .. Len(b), NEW w, Slip(w, b[j]), NEW i, i = Len(p) + j, ls[i] = b[j],
         NEW new, Slipped(new, ls, i, w)
  PROVE  SameBut(new, ls, b[2].id) /\ b[2].id \in MarkedIds(ls)
<1>1. PICK u \in Seq(Line), v \in Seq(Line) : Len(u) = j - 1 /\ b = Cat(u, Cat(<<b[j]>>, v))
  BY LineStands
<1>2. w \in Seq(Line)
  BY DEF Slip
<1>3. PICK o : o = <<b[j]>>
  OBVIOUS
<1>4. PICK pu : pu = Cat(p, u)
  OBVIOUS
<1>5. /\ o \in Seq(Line) /\ Cat(o, v) \in Seq(Line) /\ Cat(v, r) \in Seq(Line) /\ Cat(w, v) \in Seq(Line)
      /\ pu \in Seq(Line)
  <2>1. o \in Seq(Line)
    BY <1>3
  <2>2. QED
    BY <1>2, <1>4, <2>1, CatIs
<1>6. Len(pu) = i - 1
  <2>1. Len(pu) = Len(p) + Len(u) /\ Len(p) \in Nat
    BY <1>4, CatLines
  <2>2. QED
    BY <1>1, <2>1
<1>7. ls = Cat(pu, Cat(o, Cat(v, r)))
  <2>1. Cat(b, r) = Cat(u, Cat(Cat(o, v), r))
    BY <1>1, <1>3, <1>5, CatAssoc
  <2>2. Cat(Cat(o, v), r) = Cat(o, Cat(v, r))
    BY <1>5, CatAssoc
  <2>3. PICK t : t = Cat(o, Cat(v, r))
    OBVIOUS
  <2>4. t \in Seq(Line)
    BY <1>5, <2>3, CatIs
  <2>5. ls = Cat(p, Cat(u, t))
    BY <2>1, <2>2, <2>3
  <2>6. Cat(p, Cat(u, t)) = Cat(pu, t)
    BY <1>4, <2>4, CatAssoc
  <2>7. QED
    BY <2>3, <2>5, <2>6
<1>8. new = Cat(pu, Cat(w, Cat(v, r)))
  <2>1. ls = Cat(pu, Cat(<<ls[i]>>, Cat(v, r)))
    BY <1>3, <1>7
  <2>2. QED
    BY <1>5, <1>6, <2>1 DEF Slipped
<1>9. PICK x : x = Cat(u, Cat(w, v))
  OBVIOUS
<1>10. x \in Seq(Line)
  BY <1>5, <1>9, CatIs
<1>11. new = Cat(p, Cat(x, r))
  <2>1. Cat(w, Cat(v, r)) = Cat(Cat(w, v), r)
    BY <1>2, CatAssoc
  <2>2. PICK t : t = Cat(Cat(w, v), r)
    OBVIOUS
  <2>3. t \in Seq(Line)
    BY <1>5, <2>2, CatIs
  <2>4. new = Cat(p, Cat(u, t))
    BY <1>4, <1>8, <2>1, <2>2, <2>3, CatAssoc
  <2>5. Cat(u, t) = Cat(x, r)
    BY <1>5, <1>9, <2>2, CatAssoc
  <2>6. QED
    BY <2>4, <2>5
<1>12. Stacked(ls, p, b, r)
  BY ThreeHold
<1>13. TidyBlock(b) /\ MarkedIds(b) \subseteq MarkedIds(ls)
  BY <1>12 DEF Stacked, TidyText
<1>14. Scrap(b, b[2].id) /\ b[2].id \in MarkedIds(b)
  BY <1>13, TidyIsScrap
<1>15. Scrap(x, b[2].id)
  BY <1>1, <1>9, <1>14, SlipIsScrap
<1>16. QED
  BY <1>11, <1>13, <1>14, <1>15, ScrapIsLocal

LEMMA SlipIsLocal ==
  ASSUME NEW ls \in Seq(Line), MarkedOnce(ls), TidyText(ls), NEW i \in 1 .. Len(ls),
         NEW w, Slip(w, ls[i]), NEW new, Slipped(new, ls, i, w)
  PROVE  MessagesIn(new) = MessagesIn(ls) \/ \E y \in MarkedIds(ls) : SameBut(new, ls, y)
<1>1. PICK q \in Seq(Line), r \in Seq(Line) :
        ls = Cat(q, r) /\ Heads(q) = {} /\ (r = <<>> \/ 1 \in Heads(r))
  BY FirstHead
<1>2. /\ Len(q) \in Nat /\ Len(r) \in Nat /\ Len(ls) = Len(q) + Len(r)
  BY <1>1, CatLines
<1>3. CASE i =< Len(q)
  <2>1. i \in 1 .. Len(q)
    BY <1>2, <1>3
  <2>2. QED
    BY <1>1, <2>1, SlipAbove DEF TidyText
<1>4. CASE ~ (i =< Len(q))
  <2>1. PICK S : S = {h \in Heads(ls) : h =< i}
    OBVIOUS
  <2>2. Len(q) + 1 \in S
    <3>1. r # <<>>
      BY <1>2, <1>4
    <3>2. Heads(ls) = Heads(q) \cup {Len(q) + k : k \in Heads(r)}
      BY <1>1, CutAtHead
    <3>3. Len(q) + 1 \in Heads(ls)
      BY <1>1, <3>1, <3>2
    <3>4. Len(q) + 1 =< i
      BY <1>2, <1>4
    <3>5. QED
      BY <2>1, <3>3, <3>4
  <2>3. PICK n \in Nat : n = Len(ls) /\ Heads(ls) \subseteq 1 .. n
    BY HeadsAreLines
  <2>4. S \in SUBSET Nat /\ i \in Nat /\ \A h \in S : h =< i
    BY <2>1, <2>3
  <2>5. Max(S) \in S /\ \A h \in S : h =< Max(S)
    BY <2>2, <2>4, GreatestOf
  <2>6. PICK h \in Heads(ls) : h =< i /\ \A k \in Heads(ls) : k =< i => k =< h
    BY <2>1, <2>5
  <2>7. PICK e : e = BlockEnd(ls, h)
    OBVIOUS
  <2>8. h \in 1 .. n /\ e \in 1 .. n + 1 /\ h < e /\ (e = n + 1 \/ e \in Heads(ls))
    BY <2>3, <2>7, BlockEndIs DEF Ends
  <2>9. i < e
    BY <2>3, <2>6, <2>8
  <2>10. PICK p : p = SubSeq(ls, 1, h - 1)
    OBVIOUS
  <2>11. PICK b : b = BlockAt(ls, h)
    OBVIOUS
  <2>12. PICK z : z = SubSeq(ls, BlockEnd(ls, h), Len(ls))
    OBVIOUS
  <2>13. /\ p \in Seq(Line) /\ b \in Seq(Line) /\ z \in Seq(Line) /\ ls = p \o (b \o z)
         /\ Heads(b) = {1} /\ (z = <<>> \/ 1 \in Heads(z))
    BY <2>10, <2>11, <2>12, BlockSplits, Zenon
  <2>14. ls = Cat(p, Cat(b, z))
    BY <2>13, Zenon DEF Cat
  <2>15. Len(p) = h - 1
    <3>1. 1 \in Nat \ {0} /\ h - 1 \in Nat /\ h - 1 =< Len(ls)
      BY <2>3, <2>8
    <3>2. Len(p) = IF 1 =< h - 1 THEN (h - 1) - 1 + 1 ELSE 0
      BY <2>10, <3>1, StretchIsText
    <3>3. QED
      BY <2>8, <3>2
  <2>16. Len(b) = e - h /\ \A k \in 1 .. (e - h) : b[k] = ls[k + h - 1]
    <3>1. h \in Nat \ {0} /\ e - 1 \in Nat /\ e - 1 =< Len(ls) /\ h =< e - 1
      BY <2>3, <2>8
    <3>2. b = SubSeq(ls, h, e - 1)
      BY <2>7, <2>11, Zenon DEF BlockAt
    <3>3. Len(b) = (e - 1) - h + 1 /\ \A k \in 1 .. ((e - 1) - h + 1) : b[k] = ls[k + h - 1]
      BY <3>1, <3>2, StretchIsText
    <3>4. (e - 1) - h + 1 = e - h
      BY <2>8
    <3>5. QED
      BY <3>3, <3>4
  <2>17. PICK j : j = i - h + 1
    OBVIOUS
  <2>18. j \in 1 .. (e - h) /\ i = Len(p) + j /\ j + h - 1 = i
    BY <2>6, <2>8, <2>9, <2>15, <2>17
  <2>19. j \in 1 .. Len(b) /\ b[j] = ls[i]
    BY <2>16, <2>18
  <2>20. Slip(w, b[j])
    BY <2>19
  <2>21. SameBut(new, ls, b[2].id) /\ b[2].id \in MarkedIds(ls)
    BY <2>13, <2>14, <2>18, <2>19, <2>20, SlipInBlock
  <2>22. QED
    BY <2>21
<1>5. QED
  BY <1>3, <1>4

\* The books of two such files.
LEMMA SameBooks ==
  ASSUME NEW ls, Sound(ls), NEW new, Sound(new), NEW y,
         MessagesIn(new) = MessagesIn(ls) \/ SameBut(new, ls, y), NEW id, id # y
  PROVE  /\ id \in DOMAIN ParseChannel(ls) <=> id \in DOMAIN ParseChannel(new)
         /\ id \in DOMAIN ParseChannel(ls) => ParseChannel(ls)[id] = ParseChannel(new)[id]
<1>1. PICK B : B = ParseChannel(ls)
  OBVIOUS
<1>2. PICK C : C = ParseChannel(new)
  OBVIOUS
<1>3. /\ \A n \in DOMAIN B : B[n] \in MessagesIn(ls) /\ B[n].id = n
      /\ \A m \in MessagesIn(ls) : m.id \in DOMAIN B /\ B[m.id] = m
  BY <1>1, BookIs
<1>4. /\ \A n \in DOMAIN C : C[n] \in MessagesIn(new) /\ C[n].id = n
      /\ \A m \in MessagesIn(new) : m.id \in DOMAIN C /\ C[m.id] = m
  BY <1>2, BookIs
<1>5. \A m : m.id = id => (m \in MessagesIn(ls) <=> m \in MessagesIn(new))
  BY DEF SameBut
<1>6. id \in DOMAIN B => id \in DOMAIN C /\ C[id] = B[id]
  BY <1>3, <1>4, <1>5
<1>7. id \in DOMAIN C => id \in DOMAIN B
  BY <1>3, <1>4, <1>5
<1>8. QED
  BY <1>1, <1>2, <1>6, <1>7

\* As long as no hand was at the file, it is tidy.
TidyInv == hand = 0 => TidyText(lines)

\* One edit by hand of a tidy file shows in one message at the most.
LEMMA HandIsLocal ==
  ASSUME FormatInv, TidyText(lines), NEW i \in DOMAIN lines, HandAt(i)
  PROVE  \E id \in Id : \A other \in Id \ {id} :
           /\ other \in DOMAIN book <=> other \in DOMAIN book'
           /\ other \in DOMAIN book => book[other] = book'[other]
<1>1. PICK new : new = lines'
  OBVIOUS
<1>2. Kin(new, lines) /\ book' = ParseChannel(new)
  BY <1>1, HandStep
<1>3. Sound(lines) /\ Sound(new) /\ book = ParseChannel(lines) /\ MarkedIds(lines) \subseteq Id
  BY <1>2 DEF Kin, FormatInv
<1>4. lines \in Seq(Line) /\ MarkedOnce(lines) /\ i \in 1 .. Len(lines)
  BY <1>3 DEF Sound
<1>5. PICK w \in Seq(Line) :
        Slip(w, lines[i]) /\ lines' \in {s \in {lines'} : Slipped(s, lines, i, w)}
  BY <1>4, HandSlips
<1>6. Slipped(new, lines, i, w)
  BY <1>1, <1>5, Zenon
<1>7. MessagesIn(new) = MessagesIn(lines) \/ \E y \in MarkedIds(lines) : SameBut(new, lines, y)
  BY <1>4, <1>5, <1>6, SlipIsLocal
<1>8. PICK y \in Id : MessagesIn(new) = MessagesIn(lines) \/ SameBut(new, lines, y)
  BY <1>3, <1>7, IdAssumption
<1>9. ASSUME NEW other \in Id \ {y}
      PROVE  /\ other \in DOMAIN book <=> other \in DOMAIN book'
             /\ other \in DOMAIN book => book[other] = book'[other]
  <2>1. /\ other \in DOMAIN ParseChannel(lines) <=> other \in DOMAIN ParseChannel(new)
        /\ other \in DOMAIN ParseChannel(lines) => ParseChannel(lines)[other] = ParseChannel(new)[other]
    BY <1>3, <1>8, SameBooks
  <2>2. QED
    BY <1>2, <1>3, <2>1
<1>10. QED
  BY <1>9

LEMMA WroteTidy ==
  ASSUME TidyInv, NEW y, Wrote(y)
  PROVE  TidyInv' /\ hand' = hand
<1>1. PICK new : new = lines'
  OBVIOUS
<1>2. OneChanged(lines, new, y) /\ hand' = hand
  BY <1>1, Zenon DEF Wrote
<1>3. hand = 0 => TidyText(new)
  BY <1>2 DEF OneChanged, TidyInv
<1>4. QED
  BY <1>1, <1>2, <1>3 DEF TidyInv

LEMMA TidyStep ==
  ASSUME FormatInv, TidyInv, [FormatNext]_formatVars
  PROVE  /\ TidyInv'
         /\ hand = 0 /\ hand' = 1 =>
              \E id \in Id : \A other \in Id \ {id} :
                /\ other \in DOMAIN book <=> other \in DOMAIN book'
                /\ other \in DOMAIN book => book[other] = book'[other]
<1> DEFINE Goal ==
      /\ TidyInv'
      /\ hand = 0 /\ hand' = 1 =>
           \E id \in Id : \A other \in Id \ {id} :
             /\ other \in DOMAIN book <=> other \in DOMAIN book'
             /\ other \in DOMAIN book => book[other] = book'[other]
<1>1. ASSUME TidyInv', hand' = hand
      PROVE  Goal
  <2>1. ~ (hand = 0 /\ hand' = 1)
    BY <1>1
  <2>2. QED
    BY <1>1, <2>1
<1>2. ASSUME NEW y, Wrote(y)
      PROVE  Goal
  BY <1>1, <1>2, WroteTidy
<1>3. ASSUME NEW i \in DOMAIN lines, HandAt(i)
      PROVE  Goal
  <2>1. hand' = hand + 1
    BY <1>3, HandStep
  <2>2. hand' # 0
    BY <2>1 DEF FormatInv
  <2>3. TidyInv'
    BY <2>2 DEF TidyInv
  <2>4. hand = 0 => \E id \in Id : \A other \in Id \ {id} :
                      /\ other \in DOMAIN book <=> other \in DOMAIN book'
                      /\ other \in DOMAIN book => book[other] = book'[other]
    BY <1>3, HandIsLocal DEF TidyInv
  <2>5. QED
    BY <2>3, <2>4
<1>4. ASSUME UNCHANGED <<lines, hand>>
      PROVE  Goal
  <2>1. TidyInv'
    BY <1>4 DEF TidyInv
  <2>2. QED
    BY <1>1, <1>4, <2>1
<1> HIDE DEF Goal
<1>5. ASSUME NEW id \in Id, NEW body \in Bodies, AppendMessage(id, body)
      PROVE  Goal
  BY <1>2, <1>5, PostStep
<1>6. ASSUME NEW id \in Id, NEW body \in Bodies, EditMessage(id, body)
      PROVE  Goal
  BY <1>2, <1>6, EditStep
<1>7. ASSUME NEW id \in Id, ArchiveMessage(id)
      PROVE  Goal
  BY <1>2, <1>7, ArchiveStep
<1>8. ASSUME NEW id \in Id, LoseEdit(id)
      PROVE  Goal
  BY <1>4, <1>8 DEF LoseEdit
<1>9. ASSUME UNCHANGED formatVars
      PROVE  Goal
  BY <1>4, <1>9 DEF formatVars
<1>10. Goal
  BY <1>3, <1>5, <1>6, <1>7, <1>8, <1>9, StepIs, Zenon
<1>11. QED
  BY <1>10 DEF Goal

\* The first edit by hand of one line shows in one message, in a project whose file no
\* hand was at before the service first starts: whatever was posted, edited and archived
\* since, and whatever the line is, what is left of its block is read as that block's
\* message, or as nothing within the block above.
THEOREM HandLocal == ASSUME OldIsTidy PROVE FormatSpec => HandStaysLocal
<1>1. FormatInit => FormatInv /\ TidyInv
  <2>1. SUFFICES ASSUME FormatInit
                 PROVE  FormatInv /\ TidyInv
    OBVIOUS
  <2>2. Sound(lines)
    BY <2>1, InitIs DEF FormatInv
  <2>3. Tidy(lines)
    BY <2>1 DEF FormatInit, OldIsTidy
  <2>4. TidyText(lines)
    BY <2>2, <2>3, TidyIs
  <2>5. QED
    BY <2>1, <2>4, InitIs DEF TidyInv
<1>2. FormatInv /\ TidyInv /\ [FormatNext]_formatVars =>
        /\ TidyInv'
        /\ [hand = 0 /\ hand' = 1 =>
              \E id \in Id : \A other \in Id \ {id} :
                /\ other \in DOMAIN book <=> other \in DOMAIN book'
                /\ other \in DOMAIN book => book[other] = book'[other]]_formatVars
  BY TidyStep
<1>3. QED
  BY <1>1, <1>2, FormatCorrect, PTL DEF FormatSpec, HandStaysLocal

--------------------------------------------------------------------------------
(* Rendering once more what was just written. *)

\* Blank edges are taken off once.
LEMMA StripAgain ==
  ASSUME NEW ls \in Seq(Line)
  PROVE  /\ StripBlankEdges(ls) \in Seq(Line)
         /\ StripBlankEdges(StripBlankEdges(ls)) = StripBlankEdges(ls)
<1>1. PICK n \in Nat : n = Len(ls) /\ DOMAIN ls = 1 .. n
  OBVIOUS
<1>2. PICK S : S = {i \in DOMAIN ls : ls[i].kind # "blank"}
  OBVIOUS
<1>3. S \in SUBSET Nat /\ \A i \in S : i =< n
  BY <1>1, <1>2
<1>4. CASE S = {}
  <2>1. StripBlankEdges(ls) = <<>>
    BY <1>2, <1>4, Zenon DEF StripBlankEdges
  <2>2. PICK e : e = <<>>
    OBVIOUS
  <2>3. {i \in DOMAIN e : e[i].kind # "blank"} = {}
    BY <2>2
  <2>4. StripBlankEdges(e) = <<>>
    BY <2>3, Zenon DEF StripBlankEdges
  <2>5. QED
    BY <2>1, <2>2, <2>4
<1>5. CASE S # {}
  <2>1. Min(S) \in S /\ \A i \in S : Min(S) =< i
    BY <1>3, <1>5, LeastOf
  <2>2. Max(S) \in S /\ \A i \in S : i =< Max(S)
    BY <1>3, <1>5, GreatestOf
  <2>15. PICK a \in S : a = Min(S)
    BY <2>1
  <2>16. PICK b \in S : b = Max(S)
    BY <2>2
  <2>17. a =< b
    BY <2>1, <2>15
  <2>18. S \subseteq 1 .. n
    BY <1>1, <1>2
  <2>19. a \in 1 .. n /\ b \in 1 .. n
    BY <2>15, <2>16, <2>18
  <2>3. /\ a = Min(S) /\ b = Max(S) /\ a \in S /\ b \in S /\ 1 =< a /\ a =< b /\ b =< n
        /\ a \in Nat /\ b \in Nat
    BY <2>15, <2>16, <2>17, <2>19
  <2>4. PICK t : t = SubSeq(ls, a, b)
    OBVIOUS
  <2>5. StripBlankEdges(ls) = t
    BY <1>2, <1>5, <2>3, <2>4, Zenon DEF StripBlankEdges
  <2>6. PICK l \in Nat : l = b - a + 1 /\ 1 =< l
    BY <2>3
  <2>7. t \in Seq(Line) /\ Len(t) = l /\ \A k \in 1 .. l : t[k] = ls[k + a - 1]
    BY <1>1, <2>3, <2>4, <2>6, StretchIsText
  <2>8. t[1] = ls[a] /\ t[l] = ls[b]
    <3>1. 1 \in 1 .. l /\ l \in 1 .. l /\ 1 + a - 1 = a /\ l + a - 1 = b
      BY <2>3, <2>6
    <3>2. QED
      BY <2>7, <3>1
  <2>9. PICK T : T = {i \in DOMAIN t : t[i].kind # "blank"}
    OBVIOUS
  <2>10. T \in SUBSET Nat /\ 1 \in T /\ l \in T /\ \A i \in T : 1 =< i /\ i =< l
    <3>1. DOMAIN t = 1 .. l
      BY <2>7
    <3>2. ls[a].kind # "blank" /\ ls[b].kind # "blank"
      BY <1>2, <2>3
    <3>3. QED
      BY <2>6, <2>8, <2>9, <3>1, <3>2
  <2>11. Min(T) = 1 /\ Max(T) = l
    BY <2>10, LeastIs, GreatestIs
  <2>12. SubSeq(t, 1, l) = t
    BY <2>7, SubSeqFull
  <2>13. StripBlankEdges(t) = t
    <3>1. T # {}
      BY <2>10
    <3>2. QED
      BY <2>9, <2>11, <2>12, <3>1, Zenon DEF StripBlankEdges
  <2>14. QED
    BY <2>5, <2>7, <2>13
<1>6. QED
  BY <1>4, <1>5

\* A body that was rendered is rendered as it was.
LEMMA TrimAgain ==
  ASSUME NEW body \in Seq(Line) \cup {NoBody}
  PROVE  Trim(Trim(body)) = Trim(body)
<1>1. PICK o : o = <<Blank>>
  OBVIOUS
<1>2. o \in Seq(Line) /\ Len(o) = 1 /\ o[1].kind = "blank"
  BY <1>1, BlankIs, TwoLines
<1>3. Trim(o) = o
  <2>1. {i \in DOMAIN o : o[i].kind # "blank"} = {}
    BY <1>2
  <2>2. StripBlankEdges(o) = <<>>
    BY <2>1, Zenon DEF StripBlankEdges
  <2>3. Trim(o) = AsText(<<>>)
    BY <1>2, <2>2, TextIsBody
  <2>4. QED
    BY <1>1, <2>3 DEF AsText
<1>4. CASE body = NoBody
  <2>1. Trim(body) = o
    BY <1>1, <1>4, Zenon DEF Trim
  <2>2. QED
    BY <1>3, <2>1
<1>5. CASE body # NoBody
  <2>1. PICK u : u = StripBlankEdges(body)
    OBVIOUS
  <2>2. u \in Seq(Line) /\ StripBlankEdges(u) = u /\ Trim(body) = AsText(u)
    BY <1>5, <2>1, StripAgain, TextIsBody
  <2>3. CASE u = <<>>
    <3>1. Trim(body) = o
      BY <1>1, <2>2, <2>3 DEF AsText
    <3>2. QED
      BY <1>3, <3>1
  <2>4. CASE u # <<>>
    <3>1. AsText(u) = u
      BY <2>4, Zenon DEF AsText
    <3>2. Trim(u) = AsText(u)
      BY <2>2, TextIsBody
    <3>3. QED
      BY <2>2, <3>1, <3>2
  <2>5. QED
    BY <2>3, <2>4
<1>6. QED
  BY <1>4, <1>5

\* What was read of a message rendered is rendered as it was.
LEMMA RenderAgain ==
  ASSUME NEW m \in Message
  PROVE  FormatMessage([m EXCEPT !.body = Trim(m.body)]) = FormatMessage(m)
<1>1. PICK t : t = Trim(m.body)
  OBVIOUS
<1>2. PICK n : n = [m EXCEPT !.body = t]
  OBVIOUS
<1>3. t \in Seq(Line) /\ Trim(t) = t
  BY <1>1, TrimIsText, TrimAgain DEF Message
<1>4. n \in Message /\ n.id = m.id /\ n.revision = m.revision /\ n.archived = m.archived /\ n.body = t
  BY <1>2, <1>3 DEF Message
<1>5. FormatMessage(m) = (Opening(m) \o t) \o Closing(m)
  BY <1>1, <1>3, RenderIs
<1>6. FormatMessage(n) = (Opening(n) \o t) \o Closing(n)
  <2>1. Trim(n.body) = t
    BY <1>3, <1>4
  <2>2. QED
    BY <1>3, <1>4, <2>1, RenderIs
<1>7. HeadOf(n) = HeadOf(m)
  BY <1>4, Zenon DEF HeadOf
<1>8. Opening(n) = Opening(m) /\ Closing(n) = Closing(m)
  BY <1>4, <1>7, Zenon DEF Opening, Closing
<1>9. QED
  BY <1>1, <1>2, <1>5, <1>6, <1>8, Zenon

\* A message rendered into the file ls, where it is found there.
SpliceIn(ls, m) ==
  LET h == FindMessageBlock(ls, m.id)
  IN  SubSeq(ls, 1, h - 1) \o FormatMessage(m)
      \o (IF BlockEnd(ls, h) > Len(ls) THEN <<Blank>> ELSE SubSeq(ls, BlockEnd(ls, h), Len(ls)))

\* What stands below the last block of a file, or does not below another.
TailOf(r) == IF r = <<>> THEN <<Blank>> ELSE <<>>

\* The file ls is p, the block b that the message m is found in, and r; what m is
\* rendered to comes in the place of b.
CutFor(ls, m, p, b, r) ==
  /\ ls = Cat(p, Cat(b, r)) /\ Heads(b) = {1} /\ (r = <<>> \/ 1 \in Heads(r))
  /\ b = BlockAt(ls, FindMessageBlock(ls, m.id)) /\ b \in Blocks(ls)
  /\ SpliceIn(ls, m) = Cat(p, Cat(Cat(FormatMessage(m), TailOf(r)), r))

LEMMA SpliceCuts ==
  ASSUME NEW ls, Sound(ls), NEW m \in Message, m.id \in DOMAIN ParseChannel(ls)
  PROVE  \E p, b, r \in Seq(Line) : CutFor(ls, m, p, b, r)
<1>1. PICK h : h = FindMessageBlock(ls, m.id)
  OBVIOUS
<1>2. PICK b : b = BlockAt(ls, h)
  OBVIOUS
<1>3. h \in Heads(ls) /\ ls \in Seq(Line)
  BY <1>1, FoundIs DEF Sound
<1>4. b \in Blocks(ls)
  BY <1>2, <1>3 DEF Blocks
<1>5. PICK p : p = SubSeq(ls, 1, h - 1)
  OBVIOUS
<1>6. PICK r : r = SubSeq(ls, BlockEnd(ls, h), Len(ls))
  OBVIOUS
<1>7. /\ p \in Seq(Line) /\ b \in Seq(Line) /\ r \in Seq(Line)
      /\ ls = p \o (b \o r)
      /\ Heads(b) = {1} /\ (r = <<>> \/ 1 \in Heads(r))
      /\ BlockEnd(ls, h) > Len(ls) <=> r = <<>>
  BY <1>2, <1>3, <1>5, <1>6, BlockSplits, Zenon
<1>8. ls = Cat(p, Cat(b, r))
  BY <1>7, Zenon DEF Cat
<1>9. PICK g : g = FormatMessage(m)
  OBVIOUS
<1>10. g \in Seq(Line)
  BY <1>9, FormatIsText
<1>11. PICK z : z = TailOf(r)
  OBVIOUS
<1>12. z \in Seq(Line)
  <2>1. CASE r = <<>>
    BY <1>11, <2>1, BlankIs DEF TailOf
  <2>2. CASE r # <<>>
    BY <1>11, <2>2 DEF TailOf
  <2>3. QED
    BY <2>1, <2>2
<1>13. PICK a : a = IF BlockEnd(ls, h) > Len(ls) THEN <<Blank>> ELSE r
  OBVIOUS
<1>14. a = Cat(z, r)
  <2>1. CASE r = <<>>
    <3>1. a = z
      BY <1>7, <1>11, <1>13, <2>1, Zenon DEF TailOf
    <3>2. Cat(z, r) = z
      BY <1>12, <2>1, CatEmpty
    <3>3. QED
      BY <3>1, <3>2
  <2>2. CASE r # <<>>
    <3>1. a = r
      BY <1>7, <1>13, <2>2, Zenon
    <3>2. z = <<>>
      BY <1>11, <2>2, Zenon DEF TailOf
    <3>3. Cat(z, r) = r
      BY <1>7, <3>2, CatEmpty
    <3>4. QED
      BY <3>1, <3>3
  <2>3. QED
    BY <2>1, <2>2
<1>15. SpliceIn(ls, m) = Cat(Cat(p, g), Cat(z, r))
  <2>1. SpliceIn(ls, m) = Cat(Cat(p, g), a)
    BY <1>1, <1>5, <1>6, <1>9, <1>13, Zenon DEF SpliceIn, Cat
  <2>2. QED
    BY <1>14, <2>1
<1>16. Cat(Cat(p, g), Cat(z, r)) = Cat(p, Cat(Cat(g, z), r))
  BY <1>7, <1>10, <1>12, CatFour
<1>17. SpliceIn(ls, m) = Cat(p, Cat(Cat(FormatMessage(m), TailOf(r)), r))
  BY <1>9, <1>11, <1>15, <1>16
<1>18. CutFor(ls, m, p, b, r)
  BY <1>1, <1>2, <1>4, <1>7, <1>8, <1>17 DEF CutFor
<1>19. QED
  BY <1>7, <1>18

\* To render what is read of a message just rendered changes nothing.
LEMMA SpliceAgain ==
  ASSUME NEW ls, Sound(ls), NEW m \in Message, m.id \in DOMAIN ParseChannel(ls),
         NEW new, new = SpliceIn(ls, m), Sound(new), m.id \in DOMAIN ParseChannel(new),
         Heads(Trim(m.body)) = {}
  PROVE  SpliceIn(new, [m EXCEPT !.body = Trim(m.body)]) = new
<1>1. PICK g : g = FormatMessage(m)
  OBVIOUS
<1>2. PICK n : n = [m EXCEPT !.body = Trim(m.body)]
  OBVIOUS
<1>3. n \in Message /\ n.id = m.id /\ FormatMessage(n) = g
  <2>1. Trim(m.body) \in Seq(Line)
    BY TrimIsText DEF Message
  <2>2. n \in Message /\ n.id = m.id
    BY <1>2, <2>1 DEF Message
  <2>3. FormatMessage(n) = g
    BY <1>1, <1>2, RenderAgain
  <2>4. QED
    BY <2>2, <2>3
<1>24. PICK p \in Seq(Line), b \in Seq(Line), r \in Seq(Line) : CutFor(ls, m, p, b, r)
  BY SpliceCuts
<1>4. /\ Heads(b) = {1} /\ (r = <<>> \/ 1 \in Heads(r))
      /\ new = Cat(p, Cat(Cat(g, TailOf(r)), r))
  BY <1>1, <1>24 DEF CutFor
<1>5. PICK z : z = TailOf(r)
  OBVIOUS
<1>6. z \in Seq(Line) /\ Heads(z) = {} /\ MarkedIds(z) = {} /\ FenceIds(z) = {}
  <2>1. z \in Seq(Line) /\ \A i \in 1 .. Len(z) : z[i].kind = "blank"
    <3>1. CASE z = <<>>
      BY <3>1
    <3>2. CASE z = <<Blank>>
      BY <3>2, BlankIs
    <3>3. QED
      BY <1>5, <3>1, <3>2 DEF TailOf
  <2>2. QED
    BY <2>1, HoldsNothing DEF MarkerKind, FenceKind
<1>7. PICK f : f = FormatMessage(m) \o z
  OBVIOUS
<1>8. /\ f \in Seq(Line) /\ f[2] = MarkerOf(m) /\ MarkerIdx(f, 1) = {2} /\ IsMessage(f)
  BY <1>6, <1>7, RoundTrip
<1>9. Heads(f) = {1} /\ m.id \in MarkedIds(f)
  BY <1>6, <1>7, RenderedHolds
<1>10. f = Cat(g, z)
  BY <1>1, <1>7, Zenon DEF Cat
<1>11. new = Cat(p, Cat(f, r))
  BY <1>4, <1>5, <1>10, Zenon
<1>12. new \in Seq(Line) /\ MarkedOnce(new)
  BY DEF Sound
<1>13. f \in Blocks(new)
  BY <1>4, <1>8, <1>9, <1>11, ThreeHold DEF Stacked
<1>25. n.id \in DOMAIN ParseChannel(new)
  BY <1>3
<1>26. PICK q \in Seq(Line), c \in Seq(Line), s \in Seq(Line) : CutFor(new, n, q, c, s)
  BY <1>3, <1>25, SpliceCuts
<1>14. /\ new = Cat(q, Cat(c, s)) /\ Heads(c) = {1} /\ (s = <<>> \/ 1 \in Heads(s))
       /\ c = BlockAt(new, FindMessageBlock(new, m.id)) /\ c \in Blocks(new)
       /\ SpliceIn(new, n) = Cat(q, Cat(Cat(g, TailOf(s)), s))
  BY <1>3, <1>26 DEF CutFor
<1>15. c = f
  <2>1. IsMessage(c) /\ ParseMessage(c).id = m.id
    BY <1>14, FoundIs
  <2>2. m.id \in MarkedIds(c)
    BY <1>14, <2>1, ParseIs
  <2>3. QED
    BY <1>9, <1>12, <1>13, <1>14, <2>2, BlockUnique
<1>16. new = Cat(q, Cat(f, s))
  BY <1>14, <1>15, Zenon
<1>17. 2 \in 1 .. Len(f)
  <2>1. 2 \in MarkerIdx(f, 1)
    BY <1>8
  <2>2. 2 \in DOMAIN f
    BY <2>1, Zenon DEF MarkerIdx
  <2>3. QED
    BY <1>8, <2>2
<1>18. ASSUME NEW u \in Seq(Line), NEW v \in Seq(Line), new = Cat(u, Cat(f, v))
       PROVE  /\ Len(u) + 2 \in MarkerLines(new) /\ new[Len(u) + 2].id = m.id
              /\ Len(u) \in Nat
  <2>1. PICK x : x = Cat(f, v)
    OBVIOUS
  <2>8. f \in Seq(Line)
    BY <1>8
  <2>2. x \in Seq(Line) /\ Len(x) = Len(f) + Len(v) /\ Len(f) \in Nat /\ Len(v) \in Nat /\ x[2] = f[2]
    <3>1. /\ x \in Seq(Line) /\ Len(x) = Len(f) + Len(v) /\ Len(f) \in Nat /\ Len(v) \in Nat
          /\ \A i \in 1 .. Len(f) : x[i] = f[i]
      BY <2>8, <2>1, CatLines, ZenonT(30)
    <3>2. QED
      BY <1>17, <3>1, Zenon
  <2>3. 2 \in 1 .. Len(x)
    BY <1>17, <2>2
  <2>9. new = Cat(u, x) /\ x \in Seq(Line)
    BY <1>18, <2>1, <2>2
  <2>11. PICK w : w = Cat(u, x)
    OBVIOUS
  <2>12. /\ Len(w) = Len(u) + Len(x) /\ Len(u) \in Nat /\ Len(x) \in Nat
         /\ \A i \in 1 .. Len(x) : w[Len(u) + i] = x[i]
    <3>1. u \in Seq(Line) /\ x \in Seq(Line)
      BY <1>18, <2>9
    <3>2. QED
      BY <2>11, <3>1, CatLines, ZenonT(30)
  <2>10. /\ Len(new) = Len(u) + Len(x) /\ Len(u) \in Nat /\ Len(x) \in Nat
         /\ \A i \in 1 .. Len(x) : new[Len(u) + i] = x[i]
    BY <2>9, <2>11, <2>12
  <2>4. new[Len(u) + 2] = x[2] /\ Len(new) = Len(u) + Len(x) /\ Len(u) \in Nat /\ Len(x) \in Nat
    BY <2>3, <2>10, Zenon
  <2>5. Len(u) + 2 \in 1 .. Len(new)
    BY <2>3, <2>4
  <2>6. new[Len(u) + 2].kind = "marker" /\ new[Len(u) + 2].id = m.id
    BY <1>8, <2>2, <2>4 DEF MarkerOf
  <2>7. QED
    <3>1. Len(u) + 2 \in DOMAIN new
      BY <1>12, <2>5
    <3>2. QED
      BY <2>4, <2>6, <3>1 DEF MarkerLines
<1>19. Len(p) = Len(q)
  <2>1. Len(p) + 2 \in MarkerLines(new) /\ new[Len(p) + 2].id = m.id /\ Len(p) \in Nat
    BY <1>11, <1>18
  <2>2. Len(q) + 2 \in MarkerLines(new) /\ new[Len(q) + 2].id = m.id /\ Len(q) \in Nat
    BY <1>16, <1>18
  <2>3. Len(p) + 2 = Len(q) + 2
    BY <1>12, <2>1, <2>2 DEF MarkedOnce
  <2>4. QED
    BY <2>1, <2>2, <2>3
<1>20. p = q /\ r = s
  <2>1. PICK x : x = Cat(f, r)
    OBVIOUS
  <2>2. PICK y : y = Cat(f, s)
    OBVIOUS
  <2>3. x \in Seq(Line) /\ y \in Seq(Line) /\ Cat(p, x) = Cat(q, y)
    BY <1>8, <1>11, <1>16, <2>1, <2>2, CatIs
  <2>4. p = q /\ x = y
    BY <1>19, <2>3, SameSplit
  <2>5. r = s
    BY <1>8, <2>1, <2>2, <2>4, SameSplit
  <2>6. QED
    BY <2>4, <2>5
<1>21. SpliceIn(new, n) = new
  BY <1>4, <1>14, <1>20, Zenon
<1>22. QED
  BY <1>2, <1>21

\* A message that is there, edited or archived, and rendered once more.
LEMMA SpliceSettles ==
  ASSUME Sound(lines), NEW id \in DOMAIN ParseChannel(lines), NEW m \in Message, m.id = id,
         \/ \E body \in Bodies : m.body = body
         \/ m.body = ParseChannel(lines)[id].body /\ m.body # NoBody,
         NEW y, y = [m EXCEPT !.body = Trim(m.body)],
         NEW new, new = SpliceBlock(m)
  PROVE  SpliceIn(new, y) = new
<1>1. OneChanged(lines, new, y)
  BY SpliceChanges
<1>2. y.id = m.id
  BY DEF Message
<1>3. Sound(new) /\ m.id \in DOMAIN ParseChannel(new)
  BY <1>1, <1>2 DEF OneChanged, ButFor
<1>4. Heads(Trim(m.body)) = {}
  <2>1. CASE \E body \in Bodies : m.body = body
    BY <2>1, BodyIsPlain
  <2>2. CASE m.body = ParseChannel(lines)[id].body /\ m.body # NoBody
    BY <2>2, BookHolds
  <2>3. QED
    BY <2>1, <2>2
<1>5. new = SpliceIn(lines, m)
  BY Zenon DEF SpliceBlock, SpliceIn, Before, After
<1>6. QED
  BY <1>3, <1>4, <1>5, SpliceAgain

\* What is read after a write, rendered again.
LEMMA RewriteStep ==
  ASSUME FormatInv, NEW id \in DOMAIN book,
         ArchiveMessage(id) \/ (\E body \in Bodies : EditMessage(id, body))
  PROVE  SpliceBlock(book[id])' = lines'
<1>1. Sound(lines) /\ book = ParseChannel(lines)
  BY DEF FormatInv
<1>2. PICK old : old = book[id]
  OBVIOUS
<1>3. old \in Message /\ old.id = id /\ id \in DOMAIN ParseChannel(lines) /\ old = ParseChannel(lines)[id]
  BY <1>1, <1>2, BookHolds
<1>8. id \in Id
  <2>1. id \in MarkedIds(lines)
    BY <1>1, <1>3, BookHolds
  <2>2. QED
    BY <2>1 DEF FormatInv
<1>4. ASSUME NEW m \in Message, m.id = id,
             \/ \E body \in Bodies : m.body = body
             \/ m.body = old.body /\ m.body # NoBody,
             NEW y, y = [m EXCEPT !.body = Trim(m.body)],
             NEW new, new = SpliceBlock(m), lines' = new, book'[id] = y
      PROVE  SpliceBlock(book[id])' = lines'
  <2>1. SpliceIn(new, y) = new
    BY <1>1, <1>3, <1>4, SpliceSettles
  <2>2. SpliceBlock(book[id])' = SpliceIn(new, y)
    BY <1>4, Zenon DEF SpliceBlock, SpliceIn, Before, After
  <2>3. QED
    BY <1>4, <2>1, <2>2
<1>5. CASE ArchiveMessage(id)
  <2>1. PICK m : m = [book[id] EXCEPT !.archived = TRUE]
    OBVIOUS
  <2>2. PICK new : new = SpliceBlock(m)
    OBVIOUS
  <2>3. lines' = new /\ old.body # NoBody
    BY <1>2, <1>5, <2>1, <2>2, Zenon DEF ArchiveMessage, Publish, Renderable
  <2>4. m \in Message /\ m.id = id /\ m.body = old.body
    BY <1>2, <1>3, <2>1 DEF Message
  <2>5. PICK y : y = [book[id] EXCEPT !.body = Trim(@), !.archived = TRUE]
    OBVIOUS
  <2>6. y = [m EXCEPT !.body = Trim(m.body)]
    BY <1>2, <1>3, <2>1, <2>4, <2>5 DEF Message
  <2>8. Wrote(y) /\ y.id = id
    BY <1>5, <1>8, <2>5, ArchiveStep
  <2>9. book'[id] = y
    BY <2>8 DEF Wrote, ButFor
  <2>10. QED
    BY <1>4, <2>2, <2>3, <2>4, <2>6, <2>9
<1>6. ASSUME NEW body \in Bodies, EditMessage(id, body)
      PROVE  SpliceBlock(book[id])' = lines'
  <2>1. PICK m : m = Edited(book[id], body)
    OBVIOUS
  <2>2. PICK new : new = SpliceBlock(m)
    OBVIOUS
  <2>3. lines' = new
    BY <1>6, <2>1, <2>2, Zenon DEF EditMessage, Publish
  <2>4. body \in Seq(Line)
    BY BodyIsPlain
  <2>5. m = [id |-> old.id, revision |-> old.revision + 1, archived |-> old.archived, body |-> body]
    BY <1>2, <1>3, <2>1 DEF Message, Edited
  <2>6. m \in Message /\ m.id = id /\ m.body = body
    BY <1>3, <2>4, <2>5 DEF Message
  <2>7. PICK y : y = Edited(book[id], Trim(body))
    OBVIOUS
  <2>8. y = [m EXCEPT !.body = Trim(m.body)]
    BY <1>2, <1>3, <2>1, <2>6, <2>7 DEF Message, Edited
  <2>9. Wrote(y) /\ y.id = id
    BY <1>6, <1>8, <2>7, EditStep
  <2>10. book'[id] = y
    BY <2>9 DEF Wrote, ButFor
  <2>11. QED
    BY <1>4, <2>2, <2>3, <2>6, <2>8, <2>10
<1>7. QED
  BY <1>5, <1>6

\* An edit or an archiving settles its block: rendering once more what is then read of
\* the message gives the same file, so that archiving again neither nests the wrapper nor
\* grows the file, and no newline is gained or lost around the block.
THEOREM RewritesStable == FormatSpec => RewritesAreStable
<1>1. ASSUME FormatInv, [FormatNext]_formatVars
      PROVE  [\A id \in DOMAIN book :
                ArchiveMessage(id) \/ (\E body \in Bodies : EditMessage(id, body)) =>
                  SpliceBlock(book[id])' = lines']_formatVars
  BY <1>1, RewriteStep
<1>2. QED
  BY <1>1, FormatCorrect, PTL DEF FormatSpec, RewritesAreStable
================================================================================
