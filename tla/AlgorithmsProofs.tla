-------------------------- MODULE AlgorithmsProofs --------------------------
(***************************************************************************)
(* Theorems about the pure functions of Segmenter, BoundedText and         *)
(* MimeParse, for inputs of any length and any value of their limits.      *)
(***************************************************************************)
EXTENDS MCAlgorithms, Extrema, SequenceTheorems

PartTypes == {"multi", "encrypted", "signed", "plain", "html", "text", "bin"}

\* A part list as mail-parser makes it.
Parts ==
  [type : PartTypes, disp : {"none", "inline", "attachment"}, name : BOOLEAN, size : 0 .. 3, up : Nat]

IsMail(mail) == mail \in Seq(Parts)

(***************************************************************************)
(* MimeParse                                                               *)
(***************************************************************************)

\* A non-empty set of indices has its least element under Min.
LEMMA MinOfIndices ==
  ASSUME NEW S \in SUBSET Nat, S # {}
  PROVE  Min(S) \in S /\ \A y \in S : Min(S) <= y
<1>1. \E x \in S : \A y \in S : x <= y
  BY NatMin
<1> QED
  BY <1>1 DEF Min

\* FirstTextPart names a part of that type, or 0 when there is none.
LEMMA FirstTextPartIs ==
  ASSUME NEW mail, IsMail(mail), NEW type
  PROVE  IF FirstTextPart(mail, type) = 0
           THEN \A i \in DOMAIN mail : mail[i].type # type
           ELSE /\ FirstTextPart(mail, type) \in DOMAIN mail
                /\ mail[FirstTextPart(mail, type)].type = type
                /\ \A i \in DOMAIN mail : mail[i].type = type => FirstTextPart(mail, type) <= i
<1> DEFINE S == {i \in DOMAIN mail : mail[i].type = type}
<1>1. S \in SUBSET (Nat \ {0}) /\ S \in SUBSET Nat
  BY DEF IsMail
<1>2. FirstTextPart(mail, type) = IF S = {} THEN 0 ELSE Min(S)
  BY DEF FirstTextPart
<1>3. S # {} => Min(S) \in S /\ \A y \in S : Min(S) <= y
  <2> HIDE DEF S
  <2> QED  BY <1>1, MinOfIndices
<1>4. CASE S = {}
  BY <1>2, <1>4
<1>5. CASE S # {}
  <2>1. FirstTextPart(mail, type) \in S /\ \A y \in S : FirstTextPart(mail, type) <= y
    BY <1>2, <1>3, <1>5
  <2> QED  BY <1>1, <2>1
<1> QED
  BY <1>4, <1>5

\* A mail that parse calls parsed lost nothing of what it is meant to keep.
THEOREM ParseKeeps ==
  ASSUME NEW mail, IsMail(mail), NEW headers, NEW date
  PROVE  ParsedIsLossless(mail, headers, date)
<1> DEFINE r == Parse(mail, headers, date)
           body == SelectBody(mail)
           plain == FirstTextPart(mail, "plain")
           html == FirstTextPart(mail, "html")
<1> SUFFICES ASSUME r.status = "parsed"
             PROVE  /\ r.body # 0 => mail[r.body].size < 3
                    /\ \A i \in 2 .. Len(mail) :
                         i \in r.atts \/ Multipart(mail[i]) \/ ReadableText(mail[i])
                    /\ r.body = 0 =>
                         \A i \in DOMAIN mail :
                           /\ mail[i].type # "html"
                           /\ mail[i].type = "plain" =>
                                \E j \in 1 .. i : mail[j].type = "plain" /\ mail[j].size = 0
  BY DEF ParsedIsLossless
<1>1. /\ r.body = body /\ r.atts = Enumerate(mail)
      /\ ~(body # 0 /\ mail[body].size = 3) /\ Unnamed(mail) = {}
      /\ mail[1].type # "encrypted"
  BY DEF Parse
<1>2. \A i \in DOMAIN mail :
        /\ mail[i].type \in PartTypes /\ mail[i].disp \in {"none", "inline", "attachment"}
        /\ mail[i].size \in 0 .. 3
  <2>1. \A i \in DOMAIN mail : mail[i] \in Parts
    BY DEF IsMail
  <2> QED  BY <2>1 DEF Parts
<1>3. DOMAIN mail = 1 .. Len(mail)
  BY DEF IsMail
<1>4. body \in {0, plain, html} /\ (body = 0 => html = 0 /\ (plain # 0 => mail[plain].size = 0))
  <2>1. plain # 0 => mail[plain].size \in 0 .. 3
    BY <1>2, FirstTextPartIs
  <2> HIDE DEF plain, html
  <2> QED  BY <2>1 DEF SelectBody, plain, html
<1>5. body # 0 => mail[body].size < 3
  <2>1. body # 0 => body \in DOMAIN mail
    BY <1>4, FirstTextPartIs
  <2> QED  BY <1>1, <1>2, <2>1
<1>6. ASSUME NEW i \in 2 .. Len(mail)
      PROVE  i \in Enumerate(mail) \/ Multipart(mail[i]) \/ ReadableText(mail[i])
  <2>1. i \in DOMAIN mail
    BY <1>3
  <2>2. IsAttachmentPart(mail[i]) => i \in Enumerate(mail)
    BY <1>1 DEF Unnamed, Enumerate
  <2> QED  BY <1>2, <2>1, <2>2 DEF IsAttachmentPart, Multipart, ReadableText, PartTypes
<1>7. ASSUME body = 0, NEW i \in DOMAIN mail
      PROVE  /\ mail[i].type # "html"
             /\ mail[i].type = "plain" => \E j \in 1 .. i : mail[j].type = "plain" /\ mail[j].size = 0
  <2>1. mail[i].type # "html"
    BY <1>4, <1>7, FirstTextPartIs
  <2>2. ASSUME mail[i].type = "plain"
        PROVE  \E j \in 1 .. i : mail[j].type = "plain" /\ mail[j].size = 0
    <3>1. plain # 0 /\ plain \in DOMAIN mail /\ mail[plain].type = "plain" /\ plain <= i
      BY <2>2, FirstTextPartIs
    <3>2. plain \in 1 .. i /\ mail[plain].size = 0
      BY <1>3, <1>4, <1>7, <3>1
    <3> QED  BY <3>1, <3>2
  <2> QED  BY <2>1, <2>2
<1> QED
  BY <1>1, <1>5, <1>6, <1>7

(***************************************************************************)
(* BoundedText                                                             *)
(***************************************************************************)

\* A character takes one byte or two.
LEMMA OffsetFacts ==
  ASSUME NEW b, NEW k \in Nat
  PROVE  /\ Offset(b, k) \in Nat /\ Offset(b, 0) = 0 /\ k <= Offset(b, k) /\ Offset(b, k) <= 2 * k
         /\ Offset(b, k) < Offset(b, k + 1) /\ Offset(b, k + 1) <= Offset(b, k) + 2
<1> DEFINE W(n) == {i \in 1 .. n : b[i] = "w"}
<1>1. \A n \in Nat : IsFiniteSet(W(n)) /\ Cardinality(W(n)) \in Nat /\ Cardinality(W(n)) <= n
  <2> SUFFICES ASSUME NEW n \in Nat
               PROVE  IsFiniteSet(W(n)) /\ Cardinality(W(n)) \in Nat /\ Cardinality(W(n)) <= n
    OBVIOUS
  <2>1. IsFiniteSet(1 .. n) /\ Cardinality(1 .. n) = n
    BY FS_Interval
  <2>2. W(n) \in SUBSET (1 .. n)
    OBVIOUS
  <2> HIDE DEF W
  <2> QED  BY <2>1, <2>2, FS_Subset, FS_CardinalityType
<1>2. Cardinality(W(0)) = 0
  <2>1. W(0) = {}
    OBVIOUS
  <2> QED  BY <2>1, FS_EmptySet
<1>3. Cardinality(W(k + 1)) \in {Cardinality(W(k)), Cardinality(W(k)) + 1}
  <2>1. W(k + 1) = W(k) \/ W(k + 1) = W(k) \cup {k + 1}
    OBVIOUS
  <2> HIDE DEF W
  <2> QED  BY <1>1, <2>1, FS_AddElement
<1>4. \A n \in Nat : Offset(b, n) = n + Cardinality(W(n))
  BY DEF Offset
<1> HIDE DEF W
<1> QED
  BY <1>1, <1>2, <1>3, <1>4

\* Later characters end at later offsets.
LEMMA OffsetMonotone ==
  ASSUME NEW b, NEW j \in Nat, NEW k \in Nat, j <= k
  PROVE  Offset(b, j) <= Offset(b, k)
<1> DEFINE S == {d \in Nat : Offset(b, j) <= Offset(b, j + d)}
<1>1. 0 \in S
  BY OffsetFacts
<1>2. ASSUME NEW d \in Nat, d \in S PROVE d + 1 \in S
  <2>1. /\ Offset(b, j) \in Nat /\ Offset(b, j + d) \in Nat /\ Offset(b, j) <= Offset(b, j + d)
        /\ Offset(b, (j + d) + 1) \in Nat /\ Offset(b, j + d) < Offset(b, (j + d) + 1)
    BY <1>2, OffsetFacts
  <2>2. (j + d) + 1 = j + (d + 1)
    OBVIOUS
  <2> QED  BY <2>1, <2>2
<1>3. Nat \subseteq S
  <2> HIDE DEF S
  <2> QED  BY <1>1, <1>2, NatInductionOnSets
<1>4. k - j \in S /\ j + (k - j) = k
  BY <1>3
<1> QED
  BY <1>4

\* The byte offsets between the characters of b run from 0 to its length in bytes.
LEMMA BoundariesFacts ==
  ASSUME NEW C, NEW b \in Seq(C)
  PROVE  /\ Boundaries(b) \in SUBSET Nat /\ 0 \in Boundaries(b)
         /\ ByteLen(b) \in Nat /\ ByteLen(b) \in Boundaries(b)
         /\ \A o \in Boundaries(b) : o <= ByteLen(b)
<1>1. Len(b) \in Nat /\ 0 \in 0 .. Len(b) /\ Len(b) \in 0 .. Len(b)
  OBVIOUS
<1>2. \A k \in 0 .. Len(b) : Offset(b, k) \in Nat /\ Offset(b, k) <= Offset(b, Len(b))
  BY <1>1, OffsetFacts, OffsetMonotone
<1>3. Offset(b, 0) = 0
  BY OffsetFacts
<1> QED
  BY <1>1, <1>2, <1>3 DEF Boundaries, ByteLen

\* Between two boundaries there is at most one byte that is none: floor_char_boundary
\* and ceil_char_boundary move by one byte at most.
LEMMA FloorFacts ==
  ASSUME NEW C, NEW b \in Seq(C), NEW i \in Nat
  PROVE  /\ Floor(b, i) \in Boundaries(b) /\ Floor(b, i) <= i
         /\ i <= ByteLen(b) => i <= Floor(b, i) + 1
<1> DEFINE S == {o \in Boundaries(b) : o <= i}
<1>1. S \in SUBSET Nat /\ S # {} /\ S \in SUBSET Int
  BY BoundariesFacts
<1>2. IsFiniteSet(S)
  <2>1. S \in SUBSET Nat /\ \A o \in S : o <= i
    BY <1>1
  <2> HIDE DEF S
  <2> QED  BY <2>1, FS_BoundedSetOfNaturals
<1>3. Floor(b, i) \in S /\ \A o \in S : Floor(b, i) >= o
  <2>1. Floor(b, i) = Max(S)
    BY DEF Floor
  <2> HIDE DEF S
  <2>2. \E x \in S : \A y \in S : x >= y
    BY <1>1, <1>2, FiniteMax
  <2> QED  BY <2>1, <2>2 DEF Max
<1>4. ASSUME i <= ByteLen(b) PROVE i <= Floor(b, i) + 1
  <2>1. PICK k \in 0 .. Len(b) : Floor(b, i) = Offset(b, k)
    BY <1>3 DEF Boundaries
  <2>2. CASE k = Len(b)
    BY <1>1, <1>3, <1>4, <2>1, <2>2, BoundariesFacts DEF ByteLen
  <2>3. CASE k < Len(b)
    <3>1. k + 1 \in 0 .. Len(b) /\ k \in Nat
      BY <2>3
    <3>2. Offset(b, k + 1) \in Boundaries(b)
      BY <3>1 DEF Boundaries
    <3>3. /\ Offset(b, k) \in Nat /\ Offset(b, k + 1) \in Nat
          /\ Offset(b, k) < Offset(b, k + 1) /\ Offset(b, k + 1) <= Offset(b, k) + 2
      BY <3>1, OffsetFacts
    <3>4. ~(Offset(b, k + 1) <= i)
      BY <1>3, <2>1, <3>2, <3>3
    <3> QED  BY <2>1, <3>3, <3>4
  <2> QED  BY <2>2, <2>3
<1> QED
  BY <1>3, <1>4

\* Rounding an offset up (window_around) moves it by less than a character of two bytes.
LEMMA CeilFacts ==
  ASSUME NEW C, NEW b \in Seq(C), NEW i \in Nat, i <= ByteLen(b)
  PROVE  Ceil(b, i) \in Boundaries(b) /\ i <= Ceil(b, i) /\ Ceil(b, i) <= i + 1
<1> DEFINE S == {o \in Boundaries(b) : o >= i}
<1>1. S \in SUBSET Nat /\ S # {}
  BY BoundariesFacts
<1>2. Ceil(b, i) \in S /\ \A o \in S : Ceil(b, i) <= o
  <2>1. Ceil(b, i) = Min(S)
    BY DEF Ceil
  <2> HIDE DEF S
  <2> QED  BY <1>1, <2>1, MinOfIndices
<1>3. Ceil(b, i) <= i + 1
  <2>1. PICK k \in 0 .. Len(b) : Ceil(b, i) = Offset(b, k)
    BY <1>2 DEF Boundaries
  <2>2. CASE k = 0
    BY <2>1, <2>2, OffsetFacts
  <2>3. CASE k # 0
    <3>1. k - 1 \in 0 .. Len(b) /\ k - 1 \in Nat /\ (k - 1) + 1 = k
      BY <2>3
    <3>2. Offset(b, k - 1) \in Boundaries(b)
      BY <3>1 DEF Boundaries
    <3>3. /\ Offset(b, k - 1) \in Nat /\ Offset(b, k) \in Nat
          /\ Offset(b, k - 1) < Offset(b, k) /\ Offset(b, k) <= Offset(b, k - 1) + 2
      BY <3>1, OffsetFacts
    <3>4. ~(Offset(b, k - 1) >= i)
      BY <1>2, <2>1, <3>2, <3>3
    <3> QED  BY <2>1, <3>3, <3>4
  <2> QED  BY <2>2, <2>3
<1> QED
  BY <1>2, <1>3

\* enforce_size_cap, for a body of any length and any cap.
THEOREM CapKeeps ==
  ASSUME NEW C, NEW b \in Seq(C)
  PROVE  CapIsTight(b)
<1> SUFFICES ASSUME SentinelBytes <= BodyMaxBytes
             PROVE  /\ CappedBytes(b) <= BodyMaxBytes
                    /\ KeptBytes(b) \in Boundaries(b)
                    /\ ByteLen(b) > BodyMaxBytes => KeptBytes(b) + 1 >= BodyMaxBytes - SentinelBytes
  BY DEF CapIsTight
<1>1. /\ ByteLen(b) \in Nat /\ ByteLen(b) \in Boundaries(b)
      /\ BodyMaxBytes \in Nat /\ SentinelBytes \in Nat
  BY BoundariesFacts, BoundedTextAssumption
<1>2. CASE ByteLen(b) <= BodyMaxBytes
  BY <1>1, <1>2 DEF CappedBytes, KeptBytes
<1>3. CASE ~(ByteLen(b) <= BodyMaxBytes)
  <2>1. PICK i \in Nat : i = BodyMaxBytes - SentinelBytes
    BY <1>1
  <2>2. Larger(BodyMaxBytes - SentinelBytes, 0) = i /\ i < ByteLen(b)
    BY <1>1, <1>3, <2>1 DEF Larger
  <2>3. KeptBytes(b) = Floor(b, i)
    BY <1>1, <1>3, <2>1, <2>2 DEF KeptBytes, Utf8SafeTruncate
  <2>4. Floor(b, i) \in Boundaries(b) /\ Floor(b, i) <= i /\ i <= Floor(b, i) + 1
    BY <1>1, <2>1, <2>2, FloorFacts
  <2>5. Floor(b, i) \in Nat
    BY <2>4, BoundariesFacts
  <2> QED  BY <1>1, <1>3, <2>1, <2>3, <2>4, <2>5 DEF CappedBytes
<1> QED
  BY <1>2, <1>3

(***************************************************************************)
(* Segmenter                                                               *)
(***************************************************************************)

\* One of the breaks is the nearest.
LEMMA NearestIsOne ==
  ASSUME NEW S \in SUBSET Nat, S # {}, NEW target \in Nat
  PROVE  Nearest(S, target) \in S
<1> DEFINE D == {Dist(p, target) : p \in S}
<1>1. D \in SUBSET Nat /\ D # {}
  <2>1. \A p \in S : Dist(p, target) \in Nat
    BY DEF Dist
  <2> QED  BY <2>1
<1>2. PICK d \in D : \A e \in D : d <= e
  <2> HIDE DEF D
  <2> QED  BY <1>1, NatMin
<1> DEFINE T == {p \in S : Dist(p, target) = d}
<1>3. T \in SUBSET Nat /\ T # {}
  BY <1>2
<1>4. PICK p \in T : \A q \in T : p <= q
  <2> HIDE DEF T
  <2> QED  BY <1>3, NatMin
<1>5. \A q \in S : Dist(q, target) \in Nat /\ d <= Dist(q, target) /\ d \in Nat
  BY <1>1, <1>2
<1>6. p \in S /\ \A q \in S : \/ Dist(p, target) < Dist(q, target)
                              \/ Dist(p, target) = Dist(q, target) /\ p <= q
  BY <1>4, <1>5
<1> QED
  BY <1>6 DEF Nearest

\* snap_boundary stays within the window and the cap, and past the window's start.
LEMMA SnapFacts ==
  ASSUME NEW t, NEW start \in Nat, NEW capped \in Nat, NEW target, target = start + Target,
         target < capped, NEW e, e = SnapBoundary(t, start, target, capped)
  PROVE  e \in Nat /\ e > target - Window /\ e <= target + Window /\ e <= capped
<1> DEFINE lo    == Most(Most(target - Window, 0), start + 1)
           hi    == Least(target + Window, capped)
           paras == {i + 2 : i \in {j \in lo .. (hi - 2) : t[j + 1] = "n" /\ t[j + 2] = "n"}}
           lines == {i + 1 : i \in {j \in lo .. (hi - 1) : t[j + 1] = "n"}}
           words == {i + 1 : i \in {j \in lo .. (target - 1) : t[j + 1] \in {"n", "s"}}}
           InWindow(x) == x \in Nat /\ x > lo /\ x <= hi
<1>1. /\ target \in Nat /\ lo \in Nat /\ hi \in Nat /\ lo = target - Window
      /\ target < hi /\ hi <= target + Window /\ hi <= capped /\ lo < target
  BY SegmenterAssumption DEF Least, Most
<1>2. e = IF lo >= hi THEN target
          ELSE IF paras # {} THEN Least(Nearest(paras, target), capped)
          ELSE IF lines # {} THEN Least(Nearest(lines, target), capped)
          ELSE IF words # {} THEN Max(words)
          ELSE target
  BY DEF SnapBoundary
<1>3. /\ paras \in SUBSET Nat /\ \A x \in paras : InWindow(x)
      /\ lines \in SUBSET Nat /\ \A x \in lines : InWindow(x)
      /\ words \in SUBSET Nat /\ \A x \in words : InWindow(x) /\ x <= target
  <2> HIDE DEF lo, hi
  <2> QED  BY <1>1
<1>4. words # {} => Max(words) \in words
  <2> SUFFICES ASSUME words # {} PROVE Max(words) \in words
    OBVIOUS
  <2>1. IsFiniteSet(words)
    <3>1. \A x \in words : x <= target
      BY <1>3
    <3> HIDE DEF words
    <3> QED  BY <1>1, <1>3, <3>1, FS_BoundedSetOfNaturals
  <2>2. words \in SUBSET Int
    BY <1>3
  <2> HIDE DEF words
  <2>3. \E x \in words : \A y \in words : x >= y
    BY <2>1, <2>2, FiniteMax
  <2> QED  BY <2>3 DEF Max
<1>5. /\ paras # {} => Nearest(paras, target) \in paras
      /\ lines # {} => Nearest(lines, target) \in lines
  <2> HIDE DEF paras, lines
  <2> QED  BY <1>1, <1>3, NearestIsOne
<1> HIDE DEF paras, lines, words, lo, hi
<1>6. target \in Nat /\ InWindow(target) /\ ~(lo >= hi)
  BY <1>1
<1>7. \A x : InWindow(x) => Least(x, capped) = x
  BY <1>1 DEF Least
<1>8. InWindow(e)
  <2> HIDE DEF InWindow
  <2>1. CASE paras # {}
    <3>1. e = Least(Nearest(paras, target), capped)
      BY <1>2, <1>6, <2>1
    <3> QED  BY <1>3, <1>5, <1>7, <2>1, <3>1
  <2>2. CASE paras = {} /\ lines # {}
    <3>1. e = Least(Nearest(lines, target), capped)
      BY <1>2, <1>6, <2>2
    <3> QED  BY <1>3, <1>5, <1>7, <2>2, <3>1
  <2>3. CASE paras = {} /\ lines = {} /\ words # {}
    <3>1. e = Max(words)
      BY <1>2, <1>6, <2>3
    <3> QED  BY <1>3, <1>4, <2>3, <3>1
  <2>4. CASE paras = {} /\ lines = {} /\ words = {}
    BY <1>2, <1>6, <2>4
  <2> QED  BY <2>1, <2>2, <2>3, <2>4
<1> QED
  BY <1>1, <1>8, SegmenterAssumption

\* What split_for_index looks at is the document or its first MaxChars characters.
LEMMA CappedFacts ==
  ASSUME NEW C, NEW t \in Seq(C)
  PROVE  Capped(t) \in Nat /\ Capped(t) <= Len(t) /\ Capped(t) <= MaxChars
         /\ (Len(t) <= MaxChars => Capped(t) = Len(t)) /\ (Len(t) > MaxChars => Capped(t) = MaxChars)
BY SegmenterAssumption DEF Capped, Least

\* A segment is not empty, not longer than Target + Window, and the last one or
\* longer than Target - Window.
LEMMA SegmentEndFacts ==
  ASSUME NEW C, NEW t \in Seq(C), NEW start \in Nat, start < Capped(t)
  PROVE  /\ SegmentEnd(t, start) \in Nat /\ start < SegmentEnd(t, start)
         /\ SegmentEnd(t, start) <= Capped(t) /\ SegmentEnd(t, start) <= start + Target + Window
         /\ SegmentEnd(t, start) = Capped(t) \/ SegmentEnd(t, start) > start + Target - Window
<1>1. Capped(t) \in Nat
  BY CappedFacts
<1>2. CASE start + Target < Capped(t)
  <2>1. SegmentEnd(t, start) = SnapBoundary(t, start, start + Target, Capped(t))
    BY <1>1, <1>2, SegmenterAssumption DEF SegmentEnd, Least
  <2>2. /\ SegmentEnd(t, start) \in Nat /\ SegmentEnd(t, start) <= Capped(t)
        /\ SegmentEnd(t, start) > (start + Target) - Window
        /\ SegmentEnd(t, start) <= (start + Target) + Window
    BY <1>1, <1>2, <2>1, SnapFacts
  <2> QED  BY <1>1, <2>1, <2>2, SegmenterAssumption
<1>3. CASE ~(start + Target < Capped(t))
  <2>1. SegmentEnd(t, start) = Capped(t)
    BY <1>1, <1>3, SegmenterAssumption DEF SegmentEnd, Least
  <2> QED  BY <1>1, <1>3, <2>1, SegmenterAssumption
<1> QED
  BY <1>2, <1>3

\* Full segments, as many as are allowed, fit into the cap.
LEMMA MaxSegmentsFacts == MaxSegments \in Nat \ {0} /\ MaxSegments * Target <= MaxChars
<1>1. MaxChars \in Nat /\ Target \in Nat /\ Target > 0 /\ Target <= MaxChars
  BY SegmenterAssumption
<1>2. /\ MaxSegments \in Int
      /\ MaxSegments * Target <= MaxChars /\ MaxChars < (MaxSegments + 1) * Target
  BY <1>1 DEF MaxSegments
<1>3. MaxSegments > 0
  BY <1>1, <1>2
<1> QED
  BY <1>2, <1>3

\* The loop of split_for_index, one segment at a time.
LEMMA OffsetsFacts ==
  ASSUME NEW C, NEW t \in Seq(C)
  PROVE  /\ Offsets(t) \in [0 .. MaxSegments -> 0 .. Capped(t)]
         /\ Offsets(t)[0] = 0
         /\ \A i \in 1 .. MaxSegments :
              Offsets(t)[i] = IF Offsets(t)[i - 1] >= Capped(t) THEN Offsets(t)[i - 1]
                              ELSE SegmentEnd(t, Offsets(t)[i - 1])
<1> DEFINE c == Capped(t)
           V == 0 .. c
           n == MaxSegments
           After(v) == IF v >= c THEN v ELSE SegmentEnd(t, v)
           F == [p \in (1 .. n) \X V |-> After(p[2])]
           Step(f) == [i \in 0 .. n |-> IF i = 0 THEN 0 ELSE After(f[i - 1])]
<1>1. n \in Nat /\ c \in Nat
  BY MaxSegmentsFacts, CappedFacts
<1>2. \A v \in V : After(v) \in V
  <2> HIDE DEF c
  <2> QED  BY <1>1, SegmentEndFacts DEF c
<1>3. 0 \in V /\ StepsWithin(F, n, V)
  <2>1. 0 \in V
    BY <1>1
  <2> HIDE DEF After, V, n
  <2> QED  BY <1>2, <2>1 DEF StepsWithin
<1>4. PICK f : Follows(f, n, V, 0, F)
  <2> HIDE DEF F, V, n
  <2> QED  BY <1>1, <1>3, RecursionExists
<1>5. f = Step(f)
  <2> HIDE DEF After
  <2> USE DEF Follows
  <2>1. \A i \in 1 .. n : i - 1 \in 0 .. n /\ <<i, f[i - 1]>> \in (1 .. n) \X V
    BY <1>1, <1>4
  <2>2. \A i \in 1 .. n : f[i] = After(f[i - 1])
    BY <1>4, <2>1
  <2>3. \A i \in 0 .. n : f[i] = IF i = 0 THEN 0 ELSE After(f[i - 1])
    BY <1>1, <1>4, <2>2
  <2> QED  BY <1>4, <2>3
<1>6. Offsets(t) = CHOOSE g : g = Step(g)
  BY DEF Offsets
<1>7. Offsets(t) = Step(Offsets(t))
  <2> HIDE DEF Step
  <2> QED  BY <1>5, <1>6
<1>8. \A i \in 1 .. n : i \in 0 .. n /\ i - 1 \in 0 .. n /\ i # 0
  BY <1>1
<1>9. /\ Offsets(t)[0] = 0 /\ 0 \in 0 .. n /\ DOMAIN Offsets(t) = 0 .. n
      /\ \A i \in 1 .. n : Offsets(t)[i] = After(Offsets(t)[i - 1])
  <2>1. PICK g : g = Offsets(t)
    OBVIOUS
  <2>2. g = [i \in 0 .. n |-> IF i = 0 THEN 0 ELSE After(g[i - 1])] /\ 0 \in 0 .. n
    BY <1>1, <1>7, <2>1
  <2> HIDE DEF After, n
  <2> QED  BY <1>8, <2>1, <2>2
<1>10. 0 .. n \subseteq {i \in 0 .. n : Offsets(t)[i] \in V}
  <2> DEFINE S == {i \in 0 .. n : Offsets(t)[i] \in V}
  <2>1. 0 \in S
    BY <1>3, <1>9
  <2>2. \A i \in 1 .. n : i - 1 \in S => i \in S
    <3> HIDE DEF After, V, n
    <3> QED  BY <1>2, <1>8, <1>9
  <2> HIDE DEF S
  <2>3. 0 .. n \subseteq S
    BY <1>1, <2>1, <2>2, BoundedInductionOnSets
  <2> QED  BY <2>3 DEF S
<1>11. Offsets(t) \in [0 .. n -> V]
  <2>1. Offsets(t) = [i \in 0 .. n |-> Offsets(t)[i]]
    BY <1>7
  <2> HIDE DEF V, n
  <2> QED  BY <1>10, <2>1
<1> QED
  BY <1>9, <1>11

\* A set of indices without a gap below them is an interval.
LEMMA InitialSegment ==
  ASSUME NEW M \in Nat, NEW D \in SUBSET (1 .. M), \A i \in D : i > 1 => i - 1 \in D
  PROVE  Cardinality(D) \in 0 .. M /\ D = 1 .. Cardinality(D)
<1>1. CASE D = {}
  <2>1. Cardinality(D) = 0
    BY <1>1, FS_EmptySet
  <2> QED  BY <1>1, <2>1
<1>2. CASE D # {}
  <2>1. IsFiniteSet(D) /\ D \in SUBSET Int
    <3>1. IsFiniteSet(1 .. M)
      BY FS_Interval
    <3>2. IsFiniteSet(D)
      BY <3>1, FS_Subset
    <3> QED  BY <3>2
  <2>2. PICK m \in D : \A i \in D : m >= i
    BY <1>2, <2>1, FiniteMax
  <2>3. m \in Nat /\ m >= 1 /\ m <= M
    BY <2>2
  <2> DEFINE S == {d \in Nat : d < m => m - d \in D}
  <2>4. 0 \in S
    BY <2>2, <2>3
  <2>5. ASSUME NEW d \in Nat, d \in S PROVE d + 1 \in S
    <3> SUFFICES ASSUME d + 1 < m PROVE m - (d + 1) \in D
      OBVIOUS
    <3>1. m - d \in D /\ m - d > 1 /\ (m - d) - 1 = m - (d + 1)
      BY <2>3, <2>5
    <3> QED  BY <3>1
  <2>6. Nat \subseteq S
    <3> HIDE DEF S
    <3> QED  BY <2>4, <2>5, NatInductionOnSets
  <2>7. \A i \in 1 .. m : i \in D
    <3> SUFFICES ASSUME NEW i \in 1 .. m PROVE i \in D
      OBVIOUS
    <3>1. m - i \in Nat /\ m - i < m /\ m - (m - i) = i
      BY <2>3
    <3>2. m - i \in S
      BY <2>6, <3>1
    <3> QED  BY <3>1, <3>2
  <2>8. D = 1 .. m
    <3>1. \A i \in D : i \in 1 .. m
      BY <2>2, <2>3
    <3> QED  BY <2>7, <3>1, Zenon
  <2>9. Cardinality(1 .. m) = m
    BY <2>3, FS_Interval
  <2> QED  BY <2>3, <2>8, <2>9
<1> QED
  BY <1>1, <1>2

\* One segment, from a to b, of a document cut at c.
Segment(a, b, c) ==
  /\ a \in Nat /\ b \in Nat /\ a < b /\ b <= c
  /\ b <= a + Target + Window
  /\ b = c \/ b > a + Target - Window

\* n segments between the offsets off, all that fit.
SplitAt(t, n, off, c) ==
  /\ SplitForIndex(t) = [i \in 1 .. n |-> SubSeq(t, off[i - 1] + 1, off[i])]
  /\ n = MaxSegments \/ off[n] >= c
  /\ \A i \in 1 .. n : Segment(off[i - 1], off[i], c)

\* The segments of a document that is longer than one.
LEMMA SplitFacts ==
  ASSUME NEW C, NEW t \in Seq(C), Len(t) > Target, NEW off, off = Offsets(t), NEW c, c = Capped(t)
  PROVE  \E n \in 1 .. MaxSegments : SplitAt(t, n, off, c)
<1> DEFINE M == MaxSegments
           D == {i \in 1 .. M : off[i - 1] < c}
           n == Cardinality(D)
<1>1. M \in Nat /\ M >= 1 /\ c \in Nat /\ c > 0
  BY MaxSegmentsFacts, CappedFacts, SegmenterAssumption
<1>2. /\ off \in [0 .. M -> 0 .. c] /\ off[0] = 0
      /\ \A i \in 1 .. M : off[i] = IF off[i - 1] >= c THEN off[i - 1] ELSE SegmentEnd(t, off[i - 1])
  BY OffsetsFacts
<1>3. \A i \in 0 .. M : off[i] \in Nat /\ off[i] <= c
  BY <1>1, <1>2
<1> HIDE DEF M
<1>4. \A i \in 1 .. M : i \in 0 .. M /\ i - 1 \in 0 .. M
  BY <1>1
<1>5. ASSUME NEW i \in 1 .. M, off[i - 1] < c
      PROVE  Segment(off[i - 1], off[i], c)
  <2>1. off[i - 1] \in Nat /\ off[i] \in Nat
    BY <1>3, <1>4
  <2>2. off[i] = SegmentEnd(t, off[i - 1])
    BY <1>1, <1>2, <1>5, <2>1
  <2> QED  BY <1>5, <2>1, <2>2, SegmentEndFacts DEF Segment
<1>6. ASSUME NEW i \in D, i > 1 PROVE i - 1 \in D
  <2>1. i \in 1 .. M /\ i - 1 \in 1 .. M /\ off[i - 1] < c
    BY <1>1, <1>6
  <2>2. off[i - 1] \in Nat /\ off[(i - 1) - 1] \in Nat
    BY <1>3, <1>4, <2>1
  <2>3. off[(i - 1) - 1] < c
    BY <1>1, <1>2, <2>1, <2>2
  <2> QED  BY <2>1, <2>3
<1>7. n \in 0 .. M /\ D = 1 .. n
  <2>1. D \in SUBSET (1 .. M)
    OBVIOUS
  <2> HIDE DEF D
  <2> QED  BY <1>1, <1>6, <2>1, InitialSegment
<1>8. 1 \in D
  BY <1>1, <1>2
<1>9. n \in 1 .. M
  <2> HIDE DEF D, n
  <2> QED  BY <1>1, <1>7, <1>8
<1>10. SplitForIndex(t) = [i \in 1 .. n |-> SubSeq(t, off[i - 1] + 1, off[i])]
  BY <1>1, SegmenterAssumption DEF SplitForIndex, M
<1>11. n = M \/ off[n] >= c
  <2> SUFFICES ASSUME n # M PROVE off[n] >= c
    OBVIOUS
  <2>1. n + 1 \in 1 .. M /\ (n + 1) - 1 = n /\ n + 1 \notin 1 .. n /\ n \in 0 .. M
    <3> HIDE DEF n, D
    <3> QED  BY <1>1, <1>9
  <2>2. n + 1 \notin D
    <3> HIDE DEF n, D
    <3> QED  BY <1>7, <2>1
  <2>3. ~(off[n] < c)
    <3> HIDE DEF n
    <3> QED  BY <2>1, <2>2
  <2> HIDE DEF n
  <2> QED  BY <1>1, <1>3, <2>1, <2>3
<1>12. \A i \in 1 .. n : i \in 1 .. M /\ off[i - 1] < c
  <2>1. \A i \in D : i \in 1 .. M /\ off[i - 1] < c
    OBVIOUS
  <2> HIDE DEF n, D
  <2> QED  BY <1>7, <2>1
<1> HIDE DEF n
<1>13. \A i \in 1 .. n : Segment(off[i - 1], off[i], c)
  BY <1>5, <1>12
<1> QED
  BY <1>9, <1>10, <1>11, <1>13 DEF M, SplitAt

\* Characters every segment but the last is sure to take, and so all of them together.
PerSegment == Target - Window + 1
Covered == MaxSegments * PerSegment

\* What the segments are certain to cover is within the cap.
LEMMA CoveredFacts ==
  PerSegment \in Nat /\ PerSegment <= Target /\ Covered \in Nat /\ Covered <= MaxChars
<1>1. PerSegment \in Nat /\ PerSegment <= Target /\ Target \in Nat
  BY SegmenterAssumption DEF PerSegment
<1>2. MaxSegments \in Nat /\ MaxSegments * Target <= MaxChars /\ MaxChars \in Nat
  BY MaxSegmentsFacts, SegmenterAssumption
<1>3. \A a, x, y \in Nat : x <= y => a * x <= a * y
  OBVIOUS
<1>4. \A a, x \in Nat : a * x \in Nat
  OBVIOUS
<1> QED
  BY <1>1, <1>2, <1>3, <1>4 DEF Covered

\* n cuts of t at the offsets off, for whatever document.
Cuts(t, n, off) ==
  /\ off \in [0 .. n -> 0 .. Len(t)] /\ off[0] = 0
  /\ SplitForIndex(t) = [i \in 1 .. n |-> SubSeq(t, off[i - 1] + 1, off[i])]
  /\ \A i \in 1 .. n : /\ off[i - 1] <= off[i] /\ (t # <<>> => off[i - 1] < off[i])
                      /\ off[i] <= off[i - 1] + Target + Window
  /\ off[n] >= Least(Len(t), Covered)

\* A document within the target is one segment.
LEMMA ShortCut ==
  ASSUME NEW C, NEW t \in Seq(C), Len(t) <= Target
  PROVE  \E off : Cuts(t, 1, off)
<1> DEFINE off == [i \in 0 .. 1 |-> IF i = 0 THEN 0 ELSE Len(t)]
<1>1. off \in [0 .. 1 -> 0 .. Len(t)] /\ off[0] = 0 /\ off[1] = Len(t) /\ Len(t) \in Nat
  OBVIOUS
<1> HIDE DEF off
<1>2. SplitForIndex(t) = <<t>>
  BY DEF SplitForIndex
<1>3. SubSeq(t, 1, Len(t)) = t
  BY SubSeqFull
<1>4. <<t>> = [i \in 1 .. 1 |-> SubSeq(t, off[i - 1] + 1, off[i])]
  <2>1. [i \in 1 .. 1 |-> SubSeq(t, off[i - 1] + 1, off[i])] = [i \in 1 .. 1 |-> t]
    BY <1>1, <1>3
  <2>2. [i \in 1 .. 1 |-> t] \in Seq({t}) /\ <<t>> \in Seq({t})
    OBVIOUS
  <2>3. <<t>> = [i \in 1 .. 1 |-> t]
    BY <2>2, SeqEqual
  <2> QED  BY <2>1, <2>3
<1>5. t # <<>> => 0 < Len(t)
  BY EmptySeq
<1>6. off[1] >= Least(Len(t), Covered)
  BY <1>1, CoveredFacts DEF Least
<1>7. \A i \in 1 .. 1 : /\ off[i - 1] <= off[i] /\ (t # <<>> => off[i - 1] < off[i])
                       /\ off[i] <= off[i - 1] + Target + Window
  BY <1>1, <1>5, SegmenterAssumption
<1> QED
  BY <1>1, <1>2, <1>4, <1>6, <1>7 DEF Cuts

\* A longer document is cut at increasing offsets, each between target and window of the last.
LEMMA LongCut ==
  ASSUME NEW C, NEW t \in Seq(C), Len(t) > Target
  PROVE  \E n \in 1 .. MaxSegments : \E off : Cuts(t, n, off)
<1>1. PICK o, c : o = Offsets(t) /\ c = Capped(t)
  OBVIOUS
<1>2. PICK n \in 1 .. MaxSegments : SplitAt(t, n, o, c)
  BY <1>1, SplitFacts
<1>3. /\ o \in [0 .. MaxSegments -> 0 .. c] /\ o[0] = 0
      /\ c \in Nat /\ c <= Len(t) /\ (c = Len(t) \/ c = MaxChars)
  BY <1>1, OffsetsFacts, CappedFacts, SegmenterAssumption
<1>4. n \in Nat /\ n >= 1 /\ n <= MaxSegments /\ MaxSegments \in Nat
  BY <1>2, MaxSegmentsFacts
<1>5. PICK k : k = PerSegment /\ k \in Nat
  BY CoveredFacts
<1> DEFINE S == {i \in 0 .. n : o[i] = c \/ o[i] >= i * k}
<1>6. 0 \in S
  BY <1>3, <1>4, <1>5
<1>7. ASSUME NEW i \in 1 .. n, i - 1 \in S PROVE i \in S
  <2>1. /\ o[i - 1] \in Nat /\ o[i] \in Nat /\ o[i - 1] < o[i] /\ o[i] <= c
        /\ o[i] = c \/ o[i] >= o[i - 1] + k
    <3>1. Segment(o[i - 1], o[i], c)
      BY <1>2 DEF SplitAt
    <3> QED  BY <1>5, <3>1, SegmenterAssumption DEF PerSegment, Segment
  <2>2. o[i - 1] >= (i - 1) * k
    BY <1>3, <1>7, <2>1
  <2>3. (i - 1) * k + k = i * k /\ (i - 1) * k \in Int /\ i * k \in Int
    <3>1. \A x, y \in Int : (x - 1) * y + y = x * y /\ x * y \in Int /\ (x - 1) * y \in Int
      OBVIOUS
    <3> QED  BY <1>4, <1>5, <3>1
  <2>4. o[i] = c \/ o[i] >= i * k
    BY <1>5, <2>1, <2>2, <2>3
  <2> QED  BY <1>4, <2>4
<1>8. n \in S
  <2>1. 0 .. n \subseteq S
    <3> HIDE DEF S
    <3> QED  BY <1>4, <1>6, <1>7, BoundedInductionOnSets
  <2>2. n \in 0 .. n
    BY <1>4
  <2> HIDE DEF S
  <2> QED  BY <2>1, <2>2
<1>9. o[n] \in Nat /\ o[n] <= c
  <2>1. Segment(o[n - 1], o[n], c)
    BY <1>2, <1>4 DEF SplitAt
  <2> QED  BY <2>1 DEF Segment
<1>10. o[n] = c \/ o[n] >= Covered
  <2>1. CASE n = MaxSegments
    BY <1>5, <1>8, <2>1 DEF Covered
  <2>2. CASE n # MaxSegments
    BY <1>2, <1>3, <1>9, <2>2 DEF SplitAt
  <2> QED  BY <2>1, <2>2
<1>11. o[n] >= Least(Len(t), Covered)
  BY <1>3, <1>9, <1>10, CoveredFacts, SegmenterAssumption DEF Least
<1> DEFINE off == [i \in 0 .. n |-> o[i]]
<1>12. /\ off \in [0 .. n -> 0 .. Len(t)] /\ off[n] = o[n] /\ off[0] = 0
       /\ \A i \in 1 .. n : off[i] = o[i] /\ off[i - 1] = o[i - 1]
  <2>1. \A i \in 0 .. n : i \in 0 .. MaxSegments
    BY <1>4
  <2>2. \A i \in 0 .. n : o[i] \in 0 .. Len(t)
    BY <1>3, <2>1
  <2>3. off \in [0 .. n -> 0 .. Len(t)]
    BY <2>2
  <2>4. n \in 0 .. n /\ 0 \in 0 .. n /\ \A i \in 1 .. n : i \in 0 .. n /\ i - 1 \in 0 .. n
    BY <1>4
  <2> QED  BY <1>3, <2>3, <2>4
<1> HIDE DEF off
<1>13. SplitForIndex(t) = [i \in 1 .. n |-> SubSeq(t, off[i - 1] + 1, off[i])]
  <2>1. [i \in 1 .. n |-> SubSeq(t, o[i - 1] + 1, o[i])]
          = [i \in 1 .. n |-> SubSeq(t, off[i - 1] + 1, off[i])]
    BY <1>12
  <2> QED  BY <1>2, <2>1 DEF SplitAt
<1>14. \A i \in 1 .. n : /\ off[i - 1] <= off[i] /\ (t # <<>> => off[i - 1] < off[i])
                        /\ off[i] <= off[i - 1] + Target + Window
  <2> SUFFICES ASSUME NEW i \in 1 .. n
               PROVE  /\ off[i - 1] <= off[i] /\ (t # <<>> => off[i - 1] < off[i])
                      /\ off[i] <= off[i - 1] + Target + Window
    OBVIOUS
  <2>1. Segment(o[i - 1], o[i], c)
    BY <1>2 DEF SplitAt
  <2>2. off[i] = o[i] /\ off[i - 1] = o[i - 1]
    BY <1>12
  <2> QED  BY <2>1, <2>2 DEF Segment
<1>15. Cuts(t, n, off)
  BY <1>11, <1>12, <1>13, <1>14 DEF Cuts
<1> QED
  BY <1>15

\* What a cut hands on: a sequence of n segments, each with its length and its place.
LEMMA CutFacts ==
  ASSUME NEW C, NEW t \in Seq(C), NEW n \in 1 .. MaxSegments, NEW off, Cuts(t, n, off),
         NEW s, s = SplitForIndex(t)
  PROVE  /\ n \in Nat /\ n >= 1 /\ Len(s) = n /\ DOMAIN s = 1 .. n
         /\ \A i \in 1 .. n : /\ i \in 0 .. n /\ i - 1 \in 0 .. n
                             /\ off[i - 1] \in 0 .. Len(t) /\ off[i] \in off[i - 1] .. Len(t)
                             /\ s[i] = SubSeq(t, off[i - 1] + 1, off[i])
                             /\ Len(s[i]) = off[i] - off[i - 1]
<1>1. n \in Nat /\ n >= 1 /\ Len(t) \in Nat
  BY MaxSegmentsFacts, LenProperties
<1>2. \A i \in 1 .. n : i \in 0 .. n /\ i - 1 \in 0 .. n
  BY <1>1
<1>3. \A i \in 1 .. n : off[i - 1] \in 0 .. Len(t) /\ off[i] \in off[i - 1] .. Len(t)
  <2> SUFFICES ASSUME NEW i \in 1 .. n PROVE off[i - 1] \in 0 .. Len(t) /\ off[i] \in off[i - 1] .. Len(t)
    OBVIOUS
  <2>1. off[i - 1] \in 0 .. Len(t) /\ off[i] \in 0 .. Len(t) /\ off[i - 1] <= off[i]
    BY <1>2 DEF Cuts
  <2> QED  BY <1>1, <2>1
<1>4. s = [i \in 1 .. n |-> SubSeq(t, off[i - 1] + 1, off[i])]
  BY DEF Cuts
<1>5. ASSUME NEW i \in 1 .. n
      PROVE  SubSeq(t, off[i - 1] + 1, off[i]) \in Seq(C)
             /\ Len(SubSeq(t, off[i - 1] + 1, off[i])) = off[i] - off[i - 1]
  <2>1. PICK a, b : a = off[i - 1] /\ b = off[i]
    OBVIOUS
  <2>2. a \in Nat /\ b \in Nat /\ a <= b /\ b <= Len(t)
    BY <1>1, <1>3, <2>1
  <2>3. \A j \in a + 1 .. b : t[j] \in C
    BY <1>1, <2>2, LenProperties
  <2>4. SubSeq(t, a + 1, b) \in Seq(C) /\ Len(SubSeq(t, a + 1, b)) = IF a + 1 <= b THEN b - (a + 1) + 1 ELSE 0
    BY <2>2, <2>3, SubSeqProperties
  <2> QED  BY <2>1, <2>2, <2>4
<1>6. s \in Seq(Seq(C)) /\ DOMAIN s = 1 .. n
  BY <1>1, <1>4, <1>5
<1>7. Len(s) = n
  BY <1>1, <1>6, LenProperties
<1>8. \A i \in 1 .. n : s[i] = SubSeq(t, off[i - 1] + 1, off[i]) /\ Len(s[i]) = off[i] - off[i - 1]
  BY <1>4, <1>5
<1> QED
  BY <1>1, <1>2, <1>3, <1>6, <1>7, <1>8

\* The concatenation of the segments is the document up to the last offset.
LEMMA Joined ==
  ASSUME NEW C, NEW t \in Seq(C), NEW n \in 1 .. MaxSegments, NEW off, Cuts(t, n, off),
         NEW s, s = SplitForIndex(t)
  PROVE  Concatenation(s) = SubSeq(t, 1, off[n])
<1> DEFINE Step(g) == [i \in 0 .. n |-> IF i = 0 THEN <<>> ELSE g[i - 1] \o s[i]]
           f == [i \in 0 .. n |-> SubSeq(t, 1, off[i])]
           j == CHOOSE g : g = [i \in 0 .. Len(s) |-> IF i = 0 THEN <<>> ELSE g[i - 1] \o s[i]]
<1>c. Concatenation(s) = j[Len(s)]
  BY DEF Concatenation
<1>1. /\ n \in Nat /\ n >= 1 /\ Len(s) = n
      /\ \A i \in 1 .. n : /\ i \in 0 .. n /\ i - 1 \in 0 .. n
                          /\ off[i - 1] \in 0 .. Len(t) /\ off[i] \in off[i - 1] .. Len(t)
                          /\ s[i] = SubSeq(t, off[i - 1] + 1, off[i])
  BY CutFacts
<1>2. SubSeq(t, 1, off[0]) = <<>>
  <2>1. off[0] = 0
    BY DEF Cuts
  <2>2. SubSeq(t, 1, 0) = <<>>
    BY SubSeqEmpty
  <2> QED  BY <2>1, <2>2
<1>3. ASSUME NEW i \in 1 .. n
      PROVE  SubSeq(t, 1, off[i - 1]) \o s[i] = SubSeq(t, 1, off[i])
  <2>1. PICK a, b : a = off[i - 1] /\ b = off[i]
    OBVIOUS
  <2>2. 1 \in 1 .. Len(t) + 1 /\ a \in 1 - 1 .. Len(t) /\ b \in a .. Len(t)
    BY <1>1, <2>1, LenProperties
  <2>3. SubSeq(t, 1, a) \o SubSeq(t, a + 1, b) = SubSeq(t, 1, b)
    BY <2>2, ConcatAdjacentSubSeq
  <2> QED  BY <1>1, <2>1, <2>3
<1>4. f = Step(f)
  <2>1. \A i \in 0 .. n : f[i] = SubSeq(t, 1, off[i])
    OBVIOUS
  <2>2. DOMAIN f = 0 .. n /\ f = [i \in 0 .. n |-> f[i]]
    OBVIOUS
  <2> HIDE DEF f
  <2>3. \A i \in 0 .. n : f[i] = IF i = 0 THEN <<>> ELSE f[i - 1] \o s[i]
    <3> SUFFICES ASSUME NEW i \in 0 .. n PROVE f[i] = IF i = 0 THEN <<>> ELSE f[i - 1] \o s[i]
      OBVIOUS
    <3>1. CASE i = 0
      BY <1>2, <2>1, <3>1
    <3>2. CASE i # 0
      <4>1. i \in 1 .. n
        BY <1>1, <3>2
      <4> QED  BY <1>1, <1>3, <2>1, <3>2, <4>1
    <3> QED  BY <3>1, <3>2
  <2> QED  BY <2>2, <2>3
<1>5. j = Step(j)
  <2>1. j = CHOOSE g : g = Step(g)
    BY <1>1
  <2> HIDE DEF Step, f
  <2> HIDE DEF j
  <2> QED  BY <1>4, <2>1
<1> HIDE DEF j
<1>6. j[0] = <<>> /\ \A i \in 1 .. n : j[i] = j[i - 1] \o s[i]
  <2>1. 0 \in 0 .. n /\ \A i \in 1 .. n : i \in 0 .. n /\ i # 0
    BY <1>1
  <2> QED  BY <1>5, <2>1
<1> DEFINE S == {i \in 0 .. n : j[i] = SubSeq(t, 1, off[i])}
<1>7. 0 \in S
  <2>1. 0 \in 0 .. n
    BY <1>1
  <2>2. j[0] = SubSeq(t, 1, off[0])
    BY <1>2, <1>6, Zenon
  <2> QED  BY <2>1, <2>2
<1>8. \A i \in 1 .. n : i - 1 \in S => i \in S
  BY <1>1, <1>3, <1>6
<1>9. 0 .. n \subseteq S
  <2> HIDE DEF S
  <2> QED  BY <1>1, <1>7, <1>8, BoundedInductionOnSets
<1> QED
  <2>1. n \in S
    <3> HIDE DEF S
    <3> QED  BY <1>1, <1>9
  <2> QED  BY <1>1, <1>c, <2>1

\* The lengths of the segments add up to the last offset.
LEMMA Sized ==
  ASSUME NEW C, NEW t \in Seq(C), NEW n \in 1 .. MaxSegments, NEW off, Cuts(t, n, off),
         NEW s, s = SplitForIndex(t)
  PROVE  TotalLength(s) = off[n]
<1> DEFINE Step(g) == [i \in 0 .. n |-> IF i = 0 THEN 0 ELSE g[i - 1] + Len(s[i])]
           f == [i \in 0 .. n |-> off[i]]
           z == CHOOSE g : g = [i \in 0 .. Len(s) |-> IF i = 0 THEN 0 ELSE g[i - 1] + Len(s[i])]
<1>c. TotalLength(s) = z[Len(s)]
  BY DEF TotalLength
<1>1. /\ n \in Nat /\ n >= 1 /\ Len(s) = n
      /\ \A i \in 1 .. n : /\ i \in 0 .. n /\ i - 1 \in 0 .. n
                          /\ off[i - 1] \in 0 .. Len(t) /\ off[i] \in off[i - 1] .. Len(t)
                          /\ Len(s[i]) = off[i] - off[i - 1]
  BY CutFacts
<1>2. off[0] = 0
  BY DEF Cuts
<1>3. \A i \in 1 .. n : off[i - 1] + Len(s[i]) = off[i]
  <2> SUFFICES ASSUME NEW i \in 1 .. n PROVE off[i - 1] + Len(s[i]) = off[i]
    OBVIOUS
  <2>1. off[i - 1] \in Int /\ off[i] \in Int /\ Len(s[i]) = off[i] - off[i - 1]
    BY <1>1
  <2> QED  BY <2>1
<1>4. f = Step(f)
  <2>1. \A i \in 0 .. n : f[i] = off[i]
    OBVIOUS
  <2>2. DOMAIN f = 0 .. n /\ f = [i \in 0 .. n |-> f[i]]
    OBVIOUS
  <2> HIDE DEF f
  <2>3. \A i \in 0 .. n : f[i] = IF i = 0 THEN 0 ELSE f[i - 1] + Len(s[i])
    <3> SUFFICES ASSUME NEW i \in 0 .. n PROVE f[i] = IF i = 0 THEN 0 ELSE f[i - 1] + Len(s[i])
      OBVIOUS
    <3>1. CASE i = 0
      BY <1>2, <2>1, <3>1
    <3>2. CASE i # 0
      <4>1. i \in 1 .. n
        BY <1>1, <3>2
      <4> QED  BY <1>1, <1>3, <2>1, <3>2, <4>1
    <3> QED  BY <3>1, <3>2
  <2> QED  BY <2>2, <2>3
<1>5. z = Step(z)
  <2>1. z = CHOOSE g : g = Step(g)
    BY <1>1
  <2> HIDE DEF Step, f
  <2> HIDE DEF z
  <2> QED  BY <1>4, <2>1
<1> HIDE DEF z
<1>6. z[0] = 0 /\ \A i \in 1 .. n : z[i] = z[i - 1] + Len(s[i])
  <2>1. 0 \in 0 .. n /\ \A i \in 1 .. n : i \in 0 .. n /\ i # 0
    BY <1>1
  <2> QED  BY <1>5, <2>1
<1> DEFINE S == {i \in 0 .. n : z[i] = off[i]}
<1>7. 0 \in S
  BY <1>1, <1>2, <1>6
<1>8. \A i \in 1 .. n : i - 1 \in S => i \in S
  BY <1>1, <1>3, <1>6
<1>9. 0 .. n \subseteq S
  <2> HIDE DEF S
  <2> QED  BY <1>1, <1>7, <1>8, BoundedInductionOnSets
<1> QED
  <2>1. n \in S
    <3> HIDE DEF S
    <3> QED  BY <1>1, <1>9
  <2> QED  BY <1>1, <1>c, <2>1

\* Every document has its cuts.
LEMMA CutsExist ==
  ASSUME NEW C, NEW t \in Seq(C)
  PROVE  \E n \in 1 .. MaxSegments : \E off : Cuts(t, n, off)
<1>1. Len(t) \in Nat /\ Target \in Nat /\ 1 \in 1 .. MaxSegments
  BY MaxSegmentsFacts, LenProperties, SegmenterAssumption
<1>2. CASE Len(t) <= Target
  BY <1>1, <1>2, ShortCut
<1>3. CASE Len(t) > Target
  BY <1>3, LongCut
<1> QED
  BY <1>1, <1>2, <1>3

\* split_for_index keeps its documented guarantees on every document.
THEOREM SplitKeeps ==
  ASSUME NEW C, NEW t \in Seq(C)
  PROVE  SegmentsBounded(t)
<1>1. PICK n \in 1 .. MaxSegments : \E off : Cuts(t, n, off)
  BY CutsExist
<1>2. PICK off : Cuts(t, n, off)
  BY <1>1
<1>3. PICK s : s = SplitForIndex(t)
  OBVIOUS
<1>4. PICK j : j = Concatenation(s)
  OBVIOUS
<1>5. /\ n \in Nat /\ n >= 1 /\ Len(s) = n /\ DOMAIN s = 1 .. n
      /\ \A i \in 1 .. n : off[i - 1] \in 0 .. Len(t) /\ off[i] \in off[i - 1] .. Len(t)
                           /\ Len(s[i]) = off[i] - off[i - 1]
  BY <1>1, <1>2, <1>3, CutFacts
<1>6. j = SubSeq(t, 1, off[n])
  BY <1>1, <1>2, <1>3, <1>4, Joined
<1>7. j = SubSeq(t, 1, Len(j))
  <2>1. PICK b : b = off[n]
    OBVIOUS
  <2>2. b \in Nat /\ b <= Len(t) /\ Len(t) \in Nat
    <3>1. Len(t) \in Nat /\ off \in [0 .. n -> 0 .. Len(t)] /\ n \in 0 .. n
      BY <1>2, <1>5, LenProperties DEF Cuts
    <3> QED  BY <2>1, <3>1
  <2>3. \A i \in 1 .. b : t[i] \in C
    BY <2>2, LenProperties
  <2>4. Len(SubSeq(t, 1, b)) = IF 1 <= b THEN b - 1 + 1 ELSE 0
    BY <2>2, <2>3, SubSeqProperties
  <2>5. Len(SubSeq(t, 1, b)) = b
    BY <2>2, <2>4
  <2> QED  BY <1>6, <2>1, <2>5
<1>8. ASSUME NEW i \in 1 .. n
      PROVE  Len(s[i]) <= Target + Window /\ (t # <<>> => s[i] # <<>>)
  <2>1. off[i - 1] \in Int /\ off[i] \in Int /\ Len(s[i]) = off[i] - off[i - 1]
    BY <1>5
  <2>2. (t # <<>> => off[i - 1] < off[i]) /\ off[i] <= off[i - 1] + Target + Window
    BY <1>2 DEF Cuts
  <2>3. Len(s[i]) <= Target + Window /\ (t # <<>> => Len(s[i]) # 0)
    BY <2>1, <2>2, SegmenterAssumption
  <2> QED  BY <2>3
<1> QED
  BY <1>1, <1>3, <1>4, <1>5, <1>7, <1>8 DEF SegmentsBounded

\* Only the far end of a long document is left out.
THEOREM SplitCovers ==
  ASSUME NEW C, NEW t \in Seq(C)
  PROVE  SegmentsCover(t)
<1>1. PICK n \in 1 .. MaxSegments : \E off : Cuts(t, n, off)
  BY CutsExist
<1>2. PICK off : Cuts(t, n, off)
  BY <1>1
<1>3. PICK s : s = SplitForIndex(t)
  OBVIOUS
<1>4. TotalLength(s) = off[n]
  BY <1>1, <1>2, <1>3, Sized
<1>5. off[n] >= Least(Len(t), Covered)
  BY <1>2 DEF Cuts
<1> QED
  BY <1>3, <1>4, <1>5 DEF SegmentsCover, Covered, PerSegment

(***************************************************************************)
(* Snippets                                                                *)
(***************************************************************************)

\* k is where the first match begins, and w a slice around it.
Around(b, terms, w, k) ==
  /\ k \in 0 .. Len(b) /\ \E i \in DOMAIN terms : OccursAt(b, terms[i], k)
  /\ \A m \in 0 .. Len(b), i \in DOMAIN terms : m < k => ~OccursAt(b, terms[i], m)
  /\ w[1] <= Offset(b, k)
  /\ w[2] >= Smaller(Offset(b, k) + SnippetChars \div 2, ByteLen(b))

\* The slice is cut between characters and keeps its width.
LEMMA SliceFacts ==
  ASSUME NEW C, NEW b \in Seq(C), NEW terms, NEW w, w = Slice(b, terms)
  PROVE  /\ w[1] \in Boundaries(b) /\ w[2] \in Boundaries(b) /\ w[1] \in Nat /\ w[2] \in Nat
         /\ w[1] <= w[2] /\ w[2] - w[1] <= SnippetChars + 2
         /\ Matches(b, terms) # {} => Around(b, terms, w, Min(Matches(b, terms)))
<1>1. SnippetChars \in Nat /\ ByteLen(b) \in Nat /\ Boundaries(b) \in SUBSET Nat /\ Len(b) \in Nat
  BY BoundariesFacts, BoundedTextAssumption
<1>2. PICK half \in Nat : half = SnippetChars \div 2 /\ 2 * half <= SnippetChars
  BY <1>1
<1>3. CASE Matches(b, terms) = {}
  <2>1. PICK e : e = Smaller(SnippetChars, ByteLen(b))
    OBVIOUS
  <2>2. e \in Nat /\ e <= ByteLen(b) /\ e <= SnippetChars
    BY <1>1, <2>1 DEF Smaller
  <2>3. w = <<0, Ceil(b, e)>>
    BY <1>3, <2>1 DEF Slice, LeadingWindow
  <2>4. Ceil(b, e) \in Boundaries(b) /\ e <= Ceil(b, e) /\ Ceil(b, e) <= e + 1
    BY <2>2, CeilFacts
  <2>5. 0 \in Boundaries(b)
    BY BoundariesFacts
  <2> QED  BY <1>1, <1>3, <2>2, <2>3, <2>4, <2>5
<1>4. CASE Matches(b, terms) # {}
  <2>1. PICK k : k = Min(Matches(b, terms))
    OBVIOUS
  <2>2. Matches(b, terms) \in SUBSET Nat
    BY <1>1 DEF Matches
  <2>3. k \in Matches(b, terms) /\ \A m \in Matches(b, terms) : k <= m
    BY <1>4, <2>1, <2>2, MinOfIndices
  <2>4. k \in 0 .. Len(b) /\ \E i \in DOMAIN terms : OccursAt(b, terms[i], k)
    BY <2>3 DEF Matches
  <2>5. \A m \in 0 .. Len(b), i \in DOMAIN terms : m < k => ~OccursAt(b, terms[i], m)
    <3> SUFFICES ASSUME NEW m \in 0 .. Len(b), NEW i \in DOMAIN terms, m < k, OccursAt(b, terms[i], m)
                 PROVE  FALSE
      OBVIOUS
    <3>1. m \in Matches(b, terms)
      BY DEF Matches
    <3> QED  BY <1>1, <2>3, <2>4, <3>1
  <2>6. PICK pos : pos = Offset(b, k)
    OBVIOUS
  <2>7. pos \in Nat /\ pos <= ByteLen(b)
    <3>1. k \in Nat
      BY <1>1, <2>4
    <3>2. Offset(b, k) \in Nat /\ Offset(b, k) \in Boundaries(b)
      BY <2>4, <3>1, OffsetFacts DEF Boundaries
    <3> QED  BY <2>6, <3>2, BoundariesFacts
  <2>8. PICK l, e : l = Larger(pos - half, 0) /\ e = Smaller(pos + half, ByteLen(b))
    OBVIOUS
  <2>9. /\ l \in Nat /\ l <= pos /\ l >= pos - half
        /\ e \in Nat /\ e <= ByteLen(b) /\ e <= pos + half /\ pos <= e
    BY <1>1, <1>2, <2>7, <2>8 DEF Larger, Smaller
  <2>10. w = <<Floor(b, l), Ceil(b, e)>>
    BY <1>2, <1>4, <2>1, <2>6, <2>8 DEF Slice, WindowAround
  <2>11. Floor(b, l) \in Boundaries(b) /\ Floor(b, l) <= l /\ (l <= ByteLen(b) => l <= Floor(b, l) + 1)
    BY <2>9, FloorFacts
  <2>12. Ceil(b, e) \in Boundaries(b) /\ e <= Ceil(b, e) /\ Ceil(b, e) <= e + 1
    BY <2>9, CeilFacts
  <2>13. w[1] = Floor(b, l) /\ w[2] = Ceil(b, e)
    BY <2>10
  <2>14. w[1] \in Nat /\ w[2] \in Nat
    BY <1>1, <2>11, <2>12, <2>13
  <2>15. w[1] <= w[2] /\ w[2] - w[1] <= SnippetChars + 2 /\ w[1] <= pos /\ w[2] >= e
    BY <1>1, <1>2, <2>7, <2>9, <2>11, <2>12, <2>13, <2>14
  <2>16. Around(b, terms, w, k)
    BY <1>2, <2>4, <2>5, <2>6, <2>8, <2>15 DEF Around
  <2> QED  BY <2>1, <2>11, <2>12, <2>13, <2>14, <2>15, <2>16
<1> QED
  BY <1>3, <1>4

\* The bytes of a term are those of the place where it occurs.
LEMMA OccurrenceBytes ==
  ASSUME NEW C, NEW b \in Seq(C), NEW term \in Seq(C), NEW k \in Nat, OccursAt(b, term, k)
  PROVE  /\ k + Len(term) \in 0 .. Len(b)
         /\ Offset(b, k + Len(term)) = Offset(b, k) + ByteLen(term)
<1>1. Len(b) \in Nat /\ Len(term) \in Nat /\ k + Len(term) <= Len(b)
  BY DEF OccursAt
<1>2. \A i \in 1 .. Len(term) : term[i] = b[k + i]
  <2>1. PICK m : m = k + Len(term)
    OBVIOUS
  <2>2. \A i \in k + 1 .. m : b[i] \in C
    BY <1>1, <2>1, LenProperties
  <2>3. m \in Int /\ k + 1 \in Int /\ m - (k + 1) + 1 = Len(term)
    BY <1>1, <2>1
  <2>4. \A i \in 1 .. m - (k + 1) + 1 : SubSeq(b, k + 1, m)[i] = b[(k + 1) + i - 1]
    BY <2>2, <2>3, SubSeqProperties
  <2>5. SubSeq(b, k + 1, m) = term
    BY <2>1 DEF OccursAt
  <2>6. \A i \in 1 .. Len(term) : (k + 1) + i - 1 = k + i
    OBVIOUS
  <2> QED  BY <2>3, <2>4, <2>5, <2>6
<1> DEFINE W(n) == {i \in 1 .. n : b[i] = "w"}
           T(n) == {i \in 1 .. n : term[i] = "w"}
           S == {n \in 0 .. Len(term) : Cardinality(W(k + n)) = Cardinality(W(k)) + Cardinality(T(n))}
<1>3. \A n \in Nat : IsFiniteSet(W(n)) /\ Cardinality(W(n)) \in Nat
  <2> SUFFICES ASSUME NEW n \in Nat PROVE IsFiniteSet(W(n)) /\ Cardinality(W(n)) \in Nat
    OBVIOUS
  <2>1. IsFiniteSet(1 .. n)
    BY FS_Interval
  <2>2. W(n) \in SUBSET (1 .. n)
    OBVIOUS
  <2> HIDE DEF W
  <2> QED  BY <2>1, <2>2, FS_Subset, FS_CardinalityType
<1>4. \A n \in Nat : IsFiniteSet(T(n)) /\ Cardinality(T(n)) \in Nat
  <2> SUFFICES ASSUME NEW n \in Nat PROVE IsFiniteSet(T(n)) /\ Cardinality(T(n)) \in Nat
    OBVIOUS
  <2>1. IsFiniteSet(1 .. n)
    BY FS_Interval
  <2>2. T(n) \in SUBSET (1 .. n)
    OBVIOUS
  <2> HIDE DEF T
  <2> QED  BY <2>1, <2>2, FS_Subset, FS_CardinalityType
<1>5. 0 \in S
  <2>1. T(0) = {} /\ k + 0 = k /\ 0 \in 0 .. Len(term)
    BY <1>1
  <2>2. Cardinality(T(0)) = 0
    BY <2>1, FS_EmptySet
  <2>3. Cardinality(W(k)) \in Nat
    BY <1>3
  <2> HIDE DEF W, T
  <2> QED  BY <2>1, <2>2, <2>3
<1>6. ASSUME NEW n \in 1 .. Len(term), n - 1 \in S PROVE n \in S
  <2>1. n \in Nat /\ n - 1 \in Nat /\ k + n \in Nat /\ k + (n - 1) \in Nat /\ n \in 0 .. Len(term)
    BY <1>1
  <2>2. Cardinality(W(k + (n - 1))) = Cardinality(W(k)) + Cardinality(T(n - 1))
    BY <1>6
  <2>3. CASE term[n] = "w"
    <3>1. b[k + n] = "w"
      BY <1>2, <2>3
    <3>2. T(n) = T(n - 1) \cup {n} /\ n \notin T(n - 1)
      BY <2>1, <2>3
    <3>3. W(k + n) = W(k + (n - 1)) \cup {k + n} /\ k + n \notin W(k + (n - 1))
      BY <2>1, <3>1
    <3> HIDE DEF W, T
    <3>4. Cardinality(T(n)) = Cardinality(T(n - 1)) + 1
      BY <1>4, <2>1, <3>2, FS_AddElement
    <3>5. Cardinality(W(k + n)) = Cardinality(W(k + (n - 1))) + 1
      BY <1>3, <2>1, <3>3, FS_AddElement
    <3>6. Cardinality(W(k)) \in Nat /\ Cardinality(T(n - 1)) \in Nat
      BY <1>3, <1>4, <2>1
    <3> QED  BY <2>1, <2>2, <3>4, <3>5, <3>6
  <2>4. CASE term[n] # "w"
    <3>1. b[k + n] # "w"
      BY <1>2, <2>4
    <3>2. T(n) = T(n - 1)
      BY <2>1, <2>4
    <3>3. W(k + n) = W(k + (n - 1))
      BY <2>1, <3>1
    <3> HIDE DEF W, T
    <3> QED  BY <2>1, <2>2, <3>2, <3>3
  <2> QED  BY <2>3, <2>4
<1>7. Len(term) \in S
  <2> HIDE DEF S
  <2>1. 0 .. Len(term) \subseteq S
    BY <1>1, <1>5, <1>6, BoundedInductionOnSets
  <2> QED  BY <1>1, <2>1
<1>8. /\ Offset(b, k) = k + Cardinality(W(k))
      /\ Offset(b, k + Len(term)) = k + Len(term) + Cardinality(W(k + Len(term)))
      /\ ByteLen(term) = Len(term) + Cardinality(T(Len(term)))
  BY DEF Offset, ByteLen
<1>9. Cardinality(W(k + Len(term))) = Cardinality(W(k)) + Cardinality(T(Len(term)))
  <2> HIDE DEF W, T
  <2> QED  BY <1>7
<1>10. Cardinality(W(k)) \in Nat /\ Cardinality(T(Len(term))) \in Nat
  BY <1>1, <1>3, <1>4
<1> HIDE DEF W, T, S
<1> QED
  BY <1>1, <1>8, <1>9, <1>10

\* The words of a query: split_whitespace yields no empty one.
Words(terms, C) == terms \in Seq(Seq(C)) /\ \A i \in DOMAIN terms : terms[i] \in Seq(C) /\ Len(terms[i]) >= 1

Scans == [bold : SUBSET Int, upto : Int]

\* The term push_highlighted takes first is one of the terms.
LEMMA FirstFitFacts ==
  ASSUME NEW C, NEW b, NEW terms, Words(terms, C), NEW w, NEW k,
         \E i \in DOMAIN terms : Fits(b, terms, w, i, k)
  PROVE  FirstFit(b, terms, w, k) \in DOMAIN terms
<1> DEFINE S == {i \in DOMAIN terms : Fits(b, terms, w, i, k)}
<1>1. terms \in Seq(Seq(C)) /\ DOMAIN terms = 1 .. Len(terms) /\ Len(terms) \in Nat
  BY DEF Words
<1>2. S \in SUBSET Nat /\ S # {}
  BY <1>1
<1>3. PICK i \in S : \A j \in S : i <= j
  <2> HIDE DEF S
  <2> QED  BY <1>2, NatMin
<1>4. i \in DOMAIN terms /\ Fits(b, terms, w, i, k) /\ \A j \in 1 .. (i - 1) : ~Fits(b, terms, w, j, k)
  <2>1. i \in DOMAIN terms /\ Fits(b, terms, w, i, k) /\ i \in Nat /\ i <= Len(terms)
    BY <1>1, <1>3
  <2>2. ASSUME NEW j \in 1 .. (i - 1), Fits(b, terms, w, j, k) PROVE FALSE
    <3>1. j \in DOMAIN terms /\ ~(i <= j)
      BY <1>1, <2>1
    <3>2. j \in S
      BY <2>2, <3>1
    <3> HIDE DEF S
    <3> QED  BY <1>3, <3>1, <3>2
  <2> QED  BY <2>1, <2>2
<1> HIDE DEF S
<1> QED
  BY <1>4 DEF FirstFit

\* One character of the scan takes p to q.
Pushes(b, terms, w, k, p, q) ==
  /\ q \in Scans /\ p.bold \subseteq q.bold
  /\ (~\E i \in DOMAIN terms : Fits(b, terms, w, i, k)) => q = p
  /\ (\E i \in DOMAIN terms : Fits(b, terms, w, i, k)) /\ p.upto < k => k \in q.bold

\* One round of push_highlighted copies a term in bold or one character as it is.
LEMMA PushFacts ==
  ASSUME NEW C, NEW b, NEW terms, Words(terms, C), NEW w, NEW k \in Nat, NEW p \in Scans
  PROVE  Pushes(b, terms, w, k, p, PushHighlighted(b, terms, w, k, p))
<1>q. PICK q : q = PushHighlighted(b, terms, w, k, p)
  OBVIOUS
<1> SUFFICES Pushes(b, terms, w, k, p, q)
  BY <1>q
<1>1. p.upto \in Int /\ p.bold \in SUBSET Int
  BY DEF Scans
<1>2. CASE p.upto >= k \/ ~\E i \in DOMAIN terms : Fits(b, terms, w, i, k)
  <2>1. q = p
    BY <1>2, <1>q DEF PushHighlighted
  <2> QED  BY <1>1, <1>2, <2>1 DEF Pushes
<1>3. CASE ~(p.upto >= k) /\ \E i \in DOMAIN terms : Fits(b, terms, w, i, k)
  <2>1. FirstFit(b, terms, w, k) \in DOMAIN terms
    BY <1>3, FirstFitFacts
  <2>2. PICK last : last = k + Len(terms[FirstFit(b, terms, w, k)]) - 1
    OBVIOUS
  <2>3. last \in Int /\ k <= last
    <3>1. PICK f : f = terms[FirstFit(b, terms, w, k)]
      OBVIOUS
    <3>2. f \in Seq(C) /\ Len(f) >= 1
      BY <2>1, <3>1 DEF Words
    <3>3. Len(f) \in Nat
      BY <3>2
    <3> QED  BY <2>2, <3>1, <3>2, <3>3
  <2>4. q = [bold |-> p.bold \cup (k .. last), upto |-> last]
    BY <1>3, <1>q, <2>2 DEF PushHighlighted
  <2> QED  BY <1>1, <1>3, <2>3, <2>4 DEF Scans, Pushes
<1> QED
  BY <1>2, <1>3

\* If no term fits before character k and one does there, character k ends up bold.
LEMMA ScanMarks ==
  ASSUME NEW C, NEW b \in Seq(C), NEW terms, Words(terms, C), NEW w, w = Slice(b, terms),
         NEW k \in 1 .. Len(b), \E i \in DOMAIN terms : Fits(b, terms, w, i, k),
         \A m \in 1 .. (k - 1) : ~\E i \in DOMAIN terms : Fits(b, terms, w, i, m)
  PROVE  k \in Highlighted(b, terms)
<1> DEFINE n == Len(b)
           base == [bold |-> {}, upto |-> 0]
           Push(m, p) == PushHighlighted(b, terms, w, m, p)
           F == [x \in (1 .. n) \X Scans |-> Push(x[1], x[2])]
           Step(g) == [m \in 0 .. n |-> IF m = 0 THEN base ELSE Push(m, g[m - 1])]
           j == CHOOSE g : g = Step(g)
<1>1. n \in Nat /\ base \in Scans /\ base.bold = {} /\ base.upto = 0
  BY DEF Scans
<1> HIDE DEF n, base
<1>2. \A m \in 1 .. n, p \in Scans : Push(m, p) \in Scans /\ p.bold \subseteq Push(m, p).bold
  <2> SUFFICES ASSUME NEW m \in 1 .. n, NEW p \in Scans
               PROVE  Push(m, p) \in Scans /\ p.bold \subseteq Push(m, p).bold
    OBVIOUS
  <2>1. m \in Nat
    BY <1>1
  <2>2. Pushes(b, terms, w, m, p, Push(m, p))
    BY <2>1, PushFacts
  <2> HIDE DEF Push
  <2> QED  BY <2>2 DEF Pushes
<1>3. StepsWithin(F, n, Scans)
  <2> HIDE DEF Push
  <2> QED  BY <1>2 DEF StepsWithin
<1>4. PICK f : Follows(f, n, Scans, base, F)
  <2> HIDE DEF F
  <2> QED  BY <1>1, <1>3, RecursionExists
<1>5. f = Step(f)
  <2> HIDE DEF Push
  <2> USE DEF Follows
  <2>1. \A m \in 1 .. n : m - 1 \in 0 .. n /\ <<m, f[m - 1]>> \in (1 .. n) \X Scans
    BY <1>1, <1>4
  <2>2. \A m \in 1 .. n : f[m] = Push(m, f[m - 1])
    BY <1>4, <2>1
  <2>3. \A m \in 0 .. n : f[m] = IF m = 0 THEN base ELSE Push(m, f[m - 1])
    BY <1>1, <1>4, <2>2
  <2> QED  BY <1>4, <2>3
<1>6. j = Step(j)
  <2>1. \E g : g = Step(g)
    <3> HIDE DEF Step
    <3> QED  BY <1>5
  <2> HIDE DEF Step
  <2> QED  BY <2>1
<1>7. Highlighted(b, terms) = j[n].bold
  BY DEF Highlighted, n, base
<1> HIDE DEF j
<1>8. j[0] = base /\ \A m \in 1 .. n : j[m] = Push(m, j[m - 1])
  <2>1. 0 \in 0 .. n /\ \A m \in 1 .. n : m \in 0 .. n /\ m # 0
    BY <1>1
  <2> HIDE DEF Push
  <2> QED  BY <1>6, <2>1
<1> DEFINE S == {m \in 0 .. n : /\ j[m] \in Scans /\ (m < k => j[m] = base)
                              /\ (m >= k => k \in j[m].bold)}
<1>9. 0 \in S
  <2>1. 0 < k /\ ~(0 >= k) /\ 0 \in 0 .. n
    BY <1>1
  <2> QED  BY <1>1, <1>8, <2>1
<1>10. ASSUME NEW m \in 1 .. n, m - 1 \in S PROVE m \in S
  <2>1. m \in 0 .. n /\ m \in Nat /\ k \in Nat
    BY <1>1 DEF n
  <2>2. PICK p, q : p = j[m - 1] /\ q = j[m]
    OBVIOUS
  <2>3. p \in Scans /\ (m - 1 < k => p = base) /\ (m - 1 >= k => k \in p.bold)
    BY <1>10, <2>2
  <2>4. q = PushHighlighted(b, terms, w, m, p)
    BY <1>8, <2>2
  <2>5. /\ q \in Scans /\ p.bold \subseteq q.bold
        /\ (~\E i \in DOMAIN terms : Fits(b, terms, w, i, m)) => q = p
        /\ (\E i \in DOMAIN terms : Fits(b, terms, w, i, m)) /\ p.upto < m => m \in q.bold
    <3>1. Pushes(b, terms, w, m, p, q)
      BY <2>1, <2>3, <2>4, PushFacts
    <3> QED  BY <3>1 DEF Pushes
  <2>6. CASE m < k
    <3>1. m \in 1 .. (k - 1) /\ m - 1 < k /\ ~(m >= k)
      BY <2>1, <2>6
    <3>2. q = base
      BY <2>3, <2>5, <3>1
    <3> QED  BY <2>1, <2>2, <2>5, <3>1, <3>2
  <2>7. CASE m = k
    <3>1. m - 1 < k /\ ~(m < k) /\ 0 < m
      BY <2>1, <2>7
    <3>2. p.upto < m
      BY <1>1, <2>3, <3>1
    <3>3. k \in q.bold
      BY <2>5, <2>7, <3>2
    <3> QED  BY <2>1, <2>2, <2>5, <3>1, <3>3
  <2>8. CASE m > k
    <3>1. m - 1 >= k /\ ~(m < k)
      BY <2>1, <2>8
    <3>2. k \in q.bold
      BY <2>3, <2>5, <3>1
    <3> QED  BY <2>1, <2>2, <2>5, <3>1, <3>2
  <2> QED  BY <2>1, <2>6, <2>7, <2>8
<1>11. n \in S
  <2> HIDE DEF S
  <2>1. 0 .. n \subseteq S
    BY <1>1, <1>9, <1>10, BoundedInductionOnSets
  <2> QED  BY <1>1, <2>1
<1>12. n >= k
  BY <1>1 DEF n
<1> QED
  BY <1>7, <1>11, <1>12

\* render: the snippet is cut between characters and within its width, and shows the
\* first match in bold if the term is no longer than half of it.
THEOREM SnippetKeeps ==
  ASSUME NEW C, NEW b \in Seq(C), NEW terms, Words(terms, C)
  PROVE  SnippetShowsMatch(b, terms)
<1>1. PICK w : w = Slice(b, terms)
  OBVIOUS
<1>2. /\ w[1] \in Boundaries(b) /\ w[2] \in Boundaries(b) /\ w[1] \in Nat /\ w[2] \in Nat
      /\ w[1] <= w[2] /\ w[2] - w[1] <= SnippetChars + 2
      /\ Matches(b, terms) # {} => Around(b, terms, w, Min(Matches(b, terms)))
  BY <1>1, SliceFacts
<1>3. PICK k : k = Min(Matches(b, terms))
  OBVIOUS
<1>4. ASSUME Matches(b, terms) # {}, NEW i \in DOMAIN terms, OccursAt(b, terms[i], k),
             ByteLen(terms[i]) <= SnippetChars \div 2
      PROVE  k + 1 \in Highlighted(b, terms)
  <2>1. Around(b, terms, w, k)
    BY <1>2, <1>3, <1>4
  <2>2. PICK term : term = terms[i]
    OBVIOUS
  <2>3. term \in Seq(C) /\ Len(term) >= 1 /\ Len(term) \in Nat /\ Len(b) \in Nat
    <3>1. term \in Seq(C) /\ Len(term) >= 1
      BY <2>2 DEF Words
    <3> QED  BY <3>1
  <2>4. k \in Nat
    BY <2>1, <2>3 DEF Around
  <2>5. /\ k + Len(term) \in 0 .. Len(b)
        /\ Offset(b, k + Len(term)) = Offset(b, k) + ByteLen(term)
    BY <1>4, <2>2, <2>3, <2>4, OccurrenceBytes
  <2>6. k + 1 \in 1 .. Len(b) /\ (k + 1) - 1 = k /\ (k + 1) + Len(term) - 1 = k + Len(term)
    BY <2>3, <2>4, <2>5
  <2>7. /\ Offset(b, k) \in Nat /\ Offset(b, k + 1) \in Nat /\ Offset(b, k + Len(term)) \in Nat
        /\ Offset(b, (k + Len(term)) - 1) \in Nat
        /\ Offset(b, k) <= Offset(b, (k + Len(term)) - 1)
        /\ Offset(b, k + 1) <= Offset(b, k + Len(term))
    <3>1. k + 1 \in Nat /\ k + Len(term) \in Nat /\ (k + Len(term)) - 1 \in Nat
          /\ k <= (k + Len(term)) - 1 /\ k + 1 <= k + Len(term)
      BY <2>3, <2>4
    <3> QED  BY <2>4, <3>1, OffsetFacts, OffsetMonotone
  <2>8. Offset(b, k + Len(term)) <= ByteLen(b) /\ ByteLen(b) \in Nat
    <3>1. Offset(b, k + Len(term)) \in Boundaries(b)
      BY <2>5 DEF Boundaries
    <3> QED  BY <3>1, BoundariesFacts
  <2>9. Offset(b, k + Len(term)) <= w[2]
    <3>1. PICK half \in Nat : half = SnippetChars \div 2
      BY BoundedTextAssumption
    <3>2. w[2] >= Smaller(Offset(b, k) + half, ByteLen(b))
      BY <2>1, <3>1 DEF Around
    <3>3. ByteLen(term) \in Nat /\ ByteLen(term) <= half
      BY <1>4, <2>2, <2>3, <3>1, BoundariesFacts
    <3>4. Offset(b, k + Len(term)) <= Offset(b, k) + half
      BY <2>5, <2>7, <3>3
    <3> QED  BY <1>2, <2>7, <2>8, <3>1, <3>2, <3>4 DEF Smaller
  <2>10. w[1] <= Offset(b, k)
    BY <2>1 DEF Around
  <2>11. InSlice(b, w, k + 1)
    BY <1>2, <2>6, <2>7, <2>9, <2>10 DEF InSlice
  <2>12. InSlice(b, w, k + Len(term))
    <3>1. Offset(b, (k + Len(term)) - 1) >= w[1]
      BY <1>2, <2>7, <2>10
    <3> QED  BY <2>9, <3>1 DEF InSlice
  <2>13. Fits(b, terms, w, i, k + 1)
    BY <1>4, <2>2, <2>6, <2>11, <2>12 DEF Fits
  <2>14. ASSUME NEW m \in 1 .. ((k + 1) - 1), NEW l \in DOMAIN terms, Fits(b, terms, w, l, m)
         PROVE  FALSE
    <3>1. OccursAt(b, terms[l], m - 1)
      BY <2>14 DEF Fits
    <3>2. m - 1 \in 0 .. Len(b) /\ m - 1 < k
      BY <2>3, <2>4, <2>6
    <3> QED  BY <2>1, <3>1, <3>2 DEF Around
  <2> QED  BY <1>1, <2>6, <2>13, <2>14, ScanMarks
<1> QED
  BY <1>1, <1>2, <1>3, <1>4 DEF SnippetShowsMatch

(***************************************************************************)
(* The depth of a mail                                                     *)
(***************************************************************************)

\* The part list is a tree in which a part comes after the multipart it is in.
Tree(mail) ==
  /\ mail \in Seq(Parts)
  /\ Len(mail) >= 1 => mail[1].up = 0
  /\ \A i \in 2 .. Len(mail) : mail[i].up \in 1 .. (i - 1) /\ Multipart(mail[mail[i].up])

\* In a part tree the multipart a part is in comes before it.
LEMMA TreeFacts ==
  ASSUME NEW mail, Tree(mail), Len(mail) >= 1, NEW n, n = Len(mail)
  PROVE  /\ n \in Nat /\ n >= 1 /\ DOMAIN mail = 1 .. n /\ mail[1].up = 0
         /\ \A i \in 1 .. n : i # 1 => /\ mail[i].up \in 1 .. n /\ mail[i].up < i /\ mail[i].up # 0
                                      /\ Multipart(mail[mail[i].up])
<1>1. n \in Nat /\ n >= 1 /\ DOMAIN mail = 1 .. n /\ mail[1].up = 0
  BY LenProperties DEF Tree
<1>2. ASSUME NEW i \in 1 .. n, i # 1
      PROVE  /\ mail[i].up \in 1 .. n /\ mail[i].up < i /\ mail[i].up # 0 /\ Multipart(mail[mail[i].up])
  <2>1. i \in 2 .. n
    BY <1>1, <1>2
  <2>2. mail[i].up \in 1 .. (i - 1) /\ Multipart(mail[mail[i].up])
    BY <2>1 DEF Tree
  <2> QED  BY <1>1, <2>1, <2>2
<1> QED
  BY <1>1, <1>2

\* One more level up.
Above(mail, v) == v \cup ({mail[j].up : j \in v} \ {0})

\* f collects the chain of part i, level by level.
Climbs(mail, i, n, f) ==
  /\ f \in [0 .. n -> SUBSET (1 .. n)] /\ f[0] = {i} /\ f[n] = Chain(mail, i)
  /\ \A m \in 1 .. n : f[m] = Above(mail, f[m - 1])

\* The parts above a part, in a row that ends at the root.
LEMMA ChainClimbs ==
  ASSUME NEW mail, Tree(mail), Len(mail) >= 1, NEW n, n = Len(mail), NEW i \in 1 .. n
  PROVE  \E f : Climbs(mail, i, n, f)
<1> DEFINE V == SUBSET (1 .. n)
           F == [x \in (1 .. n) \X V |-> Above(mail, x[2])]
           Step(g) == [m \in 0 .. n |-> IF m = 0 THEN {i} ELSE g[m - 1] \cup ({mail[j].up : j \in g[m - 1]} \ {0})]
           h == CHOOSE g : g = Step(g)
<1>1. /\ n \in Nat /\ n >= 1 /\ mail[1].up = 0
      /\ \A x \in 1 .. n : x # 1 => mail[x].up \in 1 .. n
  BY TreeFacts
<1>2. \A v \in V : Above(mail, v) \in V
  BY <1>1 DEF Above
<1>3. StepsWithin(F, n, V) /\ {i} \in V
  <2>1. {i} \in V
    OBVIOUS
  <2> HIDE DEF V
  <2> QED  BY <1>2, <2>1 DEF StepsWithin
<1>4. PICK f : Follows(f, n, V, {i}, F)
  <2> HIDE DEF F, V
  <2> QED  BY <1>1, <1>3, RecursionExists
<1>5. f \in [0 .. n -> V] /\ f[0] = {i} /\ \A m \in 1 .. n : f[m] = Above(mail, f[m - 1])
  <2> HIDE DEF V
  <2> USE DEF Follows
  <2>1. \A m \in 1 .. n : m - 1 \in 0 .. n /\ <<m, f[m - 1]>> \in (1 .. n) \X V
    BY <1>1, <1>4
  <2> QED  BY <1>4, <2>1
<1>6. f = Step(f)
  <2>1. \A m \in 0 .. n : f[m] = IF m = 0 THEN {i} ELSE f[m - 1] \cup ({mail[j].up : j \in f[m - 1]} \ {0})
    <3> SUFFICES ASSUME NEW m \in 0 .. n
                 PROVE  f[m] = IF m = 0 THEN {i} ELSE f[m - 1] \cup ({mail[j].up : j \in f[m - 1]} \ {0})
      OBVIOUS
    <3>1. CASE m = 0
      BY <1>5, <3>1
    <3>2. CASE m # 0
      <4>1. m \in 1 .. n
        BY <1>1, <3>2
      <4> QED  BY <1>5, <3>2, <4>1 DEF Above
    <3> QED  BY <3>1, <3>2
  <2>2. f = [m \in 0 .. n |-> f[m]]
    BY <1>5
  <2> QED  BY <2>1, <2>2
<1>7. h = Step(h)
  <2>1. \E g : g = Step(g)
    <3> HIDE DEF Step
    <3> QED  BY <1>6
  <2> HIDE DEF Step
  <2> QED  BY <2>1
<1>8. Chain(mail, i) = h[n]
  BY DEF Chain
<1> HIDE DEF h
<1>9. h[0] = {i} /\ \A m \in 1 .. n : h[m] = Above(mail, h[m - 1])
  <2>1. 0 \in 0 .. n /\ \A m \in 1 .. n : m \in 0 .. n /\ m # 0
    BY <1>1
  <2> QED  BY <1>7, <2>1 DEF Above
<1> DEFINE S == {m \in 0 .. n : h[m] = f[m]}
<1>10. 0 \in S
  <2>1. 0 \in 0 .. n
    BY <1>1
  <2>2. h[0] = f[0]
    BY <1>5, <1>9
  <2> QED  BY <2>1, <2>2
<1>11. ASSUME NEW m \in 1 .. n, m - 1 \in S PROVE m \in S
  <2>1. m \in 0 .. n /\ h[m - 1] = f[m - 1]
    BY <1>1, <1>11
  <2>2. h[m] = f[m]
    BY <1>5, <1>9, <2>1
  <2> QED  BY <2>1, <2>2
<1>12. n \in S
  <2> HIDE DEF S
  <2>1. 0 .. n \subseteq S
    BY <1>1, <1>10, <1>11, BoundedInductionOnSets
  <2> QED  BY <1>1, <2>1
<1>13. f[n] = Chain(mail, i)
  BY <1>8, <1>12
<1> QED
  BY <1>5, <1>13 DEF Climbs

ClosedUp(mail, A) == \A x \in A : mail[x].up # 0 => mail[x].up \in A

\* The chain of part i contains it, goes up only, and stops at the root only.
LEMMA ChainIsClosed ==
  ASSUME NEW mail, Tree(mail), Len(mail) >= 1, NEW n, n = Len(mail), NEW i \in 1 .. n
  PROVE  i \in Chain(mail, i) /\ Chain(mail, i) \in SUBSET (1 .. i) /\ ClosedUp(mail, Chain(mail, i))
<1>1. PICK f : Climbs(mail, i, n, f)
  BY ChainClimbs
<1>2. /\ n \in Nat /\ n >= 1 /\ mail[1].up = 0
      /\ \A x \in 1 .. n : x # 1 => mail[x].up \in 1 .. n /\ mail[x].up < x
  BY TreeFacts
<1>3. \A m \in 0 .. n : f[m] \in SUBSET (1 .. n)
  BY <1>1 DEF Climbs
<1> DEFINE Near(m, x) == mail[x].up # 0 => mail[x].up \in f[m] \/ x <= i - m
           S == {m \in 0 .. n : i \in f[m] /\ \A x \in f[m] : x <= i /\ Near(m, x)}
<1>4. 0 \in S
  <2>1. f[0] = {i} /\ 0 \in 0 .. n
    BY <1>1, <1>2 DEF Climbs
  <2> QED  BY <1>2, <2>1
<1>5. ASSUME NEW m \in 1 .. n, m - 1 \in S PROVE m \in S
  <2>1. m \in 0 .. n /\ m - 1 \in 0 .. n /\ f[m] = Above(mail, f[m - 1])
    BY <1>1, <1>2 DEF Climbs
  <2>2. i \in f[m - 1] /\ \A x \in f[m - 1] : x <= i /\ Near(m - 1, x)
    BY <1>5
  <2>3. f[m - 1] \subseteq f[m] /\ f[m - 1] \in SUBSET (1 .. n) /\ f[m] \in SUBSET (1 .. n)
    BY <1>3, <2>1 DEF Above
  <2>4. ASSUME NEW x \in f[m] PROVE x <= i /\ Near(m, x)
    <3>1. CASE x \in f[m - 1]
      <4>1. mail[x].up # 0 => mail[x].up \in f[m]
        BY <2>1, <3>1 DEF Above
      <4> QED  BY <2>2, <3>1, <4>1
    <3>2. CASE x \notin f[m - 1]
      <4>1. PICK y \in f[m - 1] : x = mail[y].up /\ x # 0
        BY <2>1, <3>2 DEF Above
      <4>2. y \in 1 .. n /\ x \in 1 .. n /\ x < y /\ y <= i /\ Near(m - 1, y)
        BY <1>2, <2>2, <2>3, <4>1
      <4>3. y <= i - (m - 1)
        BY <3>2, <4>1, <4>2
      <4>4. x <= i /\ x <= i - m
        BY <1>2, <4>2, <4>3
      <4> QED  BY <4>4
    <3> QED  BY <3>1, <3>2
  <2> QED  BY <2>1, <2>2, <2>3, <2>4
<1>6. n \in S
  <2> HIDE DEF S
  <2>1. 0 .. n \subseteq S
    BY <1>2, <1>4, <1>5, BoundedInductionOnSets
  <2> QED  BY <1>2, <2>1
<1>7. f[n] = Chain(mail, i) /\ f[n] \in SUBSET (1 .. n)
  BY <1>1, <1>2, <1>3 DEF Climbs
<1>8. \A x \in f[n] : x \in 1 .. i /\ (mail[x].up # 0 => mail[x].up \in f[n])
  <2> SUFFICES ASSUME NEW x \in f[n] PROVE x \in 1 .. i /\ (mail[x].up # 0 => mail[x].up \in f[n])
    OBVIOUS
  <2>1. x \in 1 .. n /\ x <= i /\ Near(n, x)
    BY <1>6, <1>7
  <2>2. ~(x <= i - n) /\ x \in 1 .. i
    BY <1>2, <2>1
  <2> QED  BY <2>1, <2>2
<1>9. i \in f[n]
  BY <1>6
<1> HIDE DEF S
<1> QED
  BY <1>7, <1>8, <1>9 DEF ClosedUp

\* It is the least such set.
LEMMA ChainIsLeast ==
  ASSUME NEW mail, Tree(mail), Len(mail) >= 1, NEW n, n = Len(mail), NEW i \in 1 .. n,
         NEW A, i \in A, ClosedUp(mail, A)
  PROVE  Chain(mail, i) \subseteq A
<1>1. PICK f : Climbs(mail, i, n, f)
  BY ChainClimbs
<1>2. n \in Nat
  BY TreeFacts
<1> DEFINE S == {m \in 0 .. n : f[m] \subseteq A}
<1>3. 0 \in S
  BY <1>1, <1>2 DEF Climbs
<1>4. ASSUME NEW m \in 1 .. n, m - 1 \in S PROVE m \in S
  <2>1. m \in 0 .. n /\ f[m] = Above(mail, f[m - 1]) /\ f[m - 1] \subseteq A
    BY <1>1, <1>2, <1>4 DEF Climbs
  <2>2. f[m] \subseteq A
    BY <2>1 DEF Above, ClosedUp
  <2> QED  BY <2>1, <2>2
<1>5. n \in S
  <2> HIDE DEF S
  <2>1. 0 .. n \subseteq S
    BY <1>2, <1>3, <1>4, BoundedInductionOnSets
  <2> QED  BY <1>2, <2>1
<1> QED
  BY <1>1, <1>5 DEF Climbs

\* The root is at depth one and a part one below the multipart it is in.
Depth(mail, i) == Cardinality(Chain(mail, i))

\* A part is one level deeper than the multipart it is in.
LEMMA DepthFacts ==
  ASSUME NEW mail, Tree(mail), Len(mail) >= 1, NEW n, n = Len(mail), NEW i \in 1 .. n
  PROVE  /\ Depth(mail, i) \in Nat /\ (i = 1 => Depth(mail, i) = 1)
         /\ i # 1 => Depth(mail, i) = Depth(mail, mail[i].up) + 1
<1>1. /\ n \in Nat /\ n >= 1 /\ mail[1].up = 0
      /\ \A x \in 1 .. n : x # 1 => mail[x].up \in 1 .. n /\ mail[x].up < x /\ mail[x].up # 0
  BY TreeFacts
<1>2. \A x \in 1 .. n : IsFiniteSet(Chain(mail, x)) /\ Depth(mail, x) \in Nat
  <2> SUFFICES ASSUME NEW x \in 1 .. n PROVE IsFiniteSet(Chain(mail, x)) /\ Depth(mail, x) \in Nat
    OBVIOUS
  <2>1. Chain(mail, x) \in SUBSET (1 .. x) /\ x \in Nat
    BY <1>1, ChainIsClosed
  <2>2. IsFiniteSet(1 .. x)
    BY <2>1, FS_Interval
  <2> QED  BY <2>1, <2>2, FS_Subset, FS_CardinalityType DEF Depth
<1>3. CASE i = 1
  <2>1. Chain(mail, i) = {1}
    <3>1. 1 \in Chain(mail, i) /\ Chain(mail, i) \in SUBSET (1 .. i)
      BY <1>3, ChainIsClosed
    <3>2. 1 .. i = {1}
      BY <1>3
    <3> QED  BY <3>1, <3>2
  <2>2. Cardinality({1}) = 1
    BY FS_Singleton
  <2> QED  BY <1>2, <1>3, <2>1, <2>2 DEF Depth
<1>4. CASE i # 1
  <2>1. PICK u : u = mail[i].up
    OBVIOUS
  <2>2. u \in 1 .. n /\ u < i /\ u # 0
    BY <1>1, <1>4, <2>1
  <2>3. /\ i \in Chain(mail, i) /\ ClosedUp(mail, Chain(mail, i))
        /\ u \in Chain(mail, u) /\ Chain(mail, u) \in SUBSET (1 .. u) /\ ClosedUp(mail, Chain(mail, u))
    BY <2>2, ChainIsClosed
  <2>4. Chain(mail, u) \subseteq Chain(mail, i)
    <3>1. u \in Chain(mail, i)
      BY <2>1, <2>2, <2>3 DEF ClosedUp
    <3> QED  BY <2>2, <2>3, <3>1, ChainIsLeast
  <2>5. Chain(mail, i) \subseteq Chain(mail, u) \cup {i}
    <3>1. ClosedUp(mail, Chain(mail, u) \cup {i})
      BY <2>1, <2>3 DEF ClosedUp
    <3>2. i \in Chain(mail, u) \cup {i}
      OBVIOUS
    <3> QED  BY <3>1, <3>2, ChainIsLeast
  <2>6. i \notin Chain(mail, u)
    BY <1>1, <2>2, <2>3
  <2>7. Chain(mail, i) = Chain(mail, u) \cup {i}
    BY <2>3, <2>4, <2>5
  <2> QED  BY <1>2, <1>4, <2>1, <2>2, <2>6, <2>7, FS_AddElement DEF Depth
<1> QED
  BY <1>3, <1>4

\* What the walk returns at part i, given what it returns at the parts in it.
Level(mail, g, i) ==
  IF Multipart(mail[i]) THEN 1 + Max({g[j] : j \in Children(mail, i)} \cup {0}) ELSE 1

\* The parts in a part come after it.
LEMMA ChildrenFacts ==
  ASSUME NEW mail, Tree(mail), Len(mail) >= 1, NEW n, n = Len(mail), NEW i \in 1 .. n
  PROVE  \A j \in Children(mail, i) : j \in 1 .. n /\ j # 1 /\ i < j /\ mail[j].up = i /\ Multipart(mail[i])
<1>1. /\ n \in Nat /\ DOMAIN mail = 1 .. n /\ mail[1].up = 0
      /\ \A x \in 1 .. n : x # 1 => mail[x].up < x /\ Multipart(mail[mail[x].up])
  BY TreeFacts
<1> SUFFICES ASSUME NEW j \in Children(mail, i)
             PROVE  j \in 1 .. n /\ j # 1 /\ i < j /\ mail[j].up = i /\ Multipart(mail[i])
  OBVIOUS
<1>2. j \in 1 .. n /\ mail[j].up = i
  BY <1>1 DEF Children
<1>3. j # 1
  BY <1>1, <1>2
<1> QED
  BY <1>1, <1>2, <1>3

\* A level is one more than the deepest of the parts in it, or one.
LEMMA LevelFacts ==
  ASSUME NEW mail, Tree(mail), Len(mail) >= 1, NEW n, n = Len(mail), NEW i \in 1 .. n,
         NEW g, \A j \in Children(mail, i) : g[j] \in Nat
  PROVE  /\ Level(mail, g, i) \in Nat /\ Level(mail, g, i) >= 1
         /\ \A j \in Children(mail, i) : Level(mail, g, i) >= 1 + g[j]
         /\ Level(mail, g, i) = 1 \/ \E j \in Children(mail, i) : Level(mail, g, i) = 1 + g[j]
<1>1. n \in Nat /\ DOMAIN mail = 1 .. n
  BY TreeFacts
<1>2. \A j \in Children(mail, i) : Multipart(mail[i])
  BY ChildrenFacts
<1>3. CASE ~Multipart(mail[i])
  <2>1. Level(mail, g, i) = 1
    BY <1>3 DEF Level
  <2> QED  BY <1>2, <1>3, <2>1
<1>4. CASE Multipart(mail[i])
  <2> DEFINE K == {g[j] : j \in Children(mail, i)}
             S == K \cup {0}
  <2>1. IsFiniteSet(K)
    <3>1. IsFiniteSet(1 .. n)
      BY <1>1, FS_Interval
    <3>2. Children(mail, i) \in SUBSET (1 .. n)
      BY <1>1 DEF Children
    <3>3. IsFiniteSet(Children(mail, i))
      BY <3>1, <3>2, FS_Subset
    <3>4. [j \in Children(mail, i) |-> g[j]] \in Surjection(Children(mail, i), K)
      BY DEF Surjection
    <3> HIDE DEF K
    <3> QED  BY <3>3, <3>4, FS_Surjection
  <2>2. IsFiniteSet(S) /\ S \in SUBSET Int /\ S # {} /\ S \in SUBSET Nat
    <3>1. K \in SUBSET Nat
      OBVIOUS
    <3> HIDE DEF K
    <3> QED  BY <2>1, <3>1, FS_AddElement
  <2>3. Level(mail, g, i) = 1 + Max(S)
    BY <1>4 DEF Level
  <2>4. Max(S) \in S /\ \A y \in S : Max(S) >= y
    <3> HIDE DEF S
    <3>1. \E x \in S : \A y \in S : x >= y
      BY <2>2, FiniteMax
    <3> QED  BY <3>1 DEF Max
  <2>5. Max(S) \in Nat
    <3> HIDE DEF S
    <3> QED  BY <2>2, <2>4
  <2>6. PICK x : x = Max(S)
    OBVIOUS
  <2>7. /\ x \in Nat /\ (x = 0 \/ \E j \in Children(mail, i) : x = g[j])
        /\ \A j \in Children(mail, i) : x >= g[j]
    BY <2>4, <2>5, <2>6
  <2> HIDE DEF S
  <2>8. Level(mail, g, i) = 1 + x
    BY <2>3, <2>6
  <2> QED  BY <2>7, <2>8
<1> QED
  BY <1>3, <1>4

\* A level depends on the parts after i only.
LEMMA LevelDepends ==
  ASSUME NEW mail, Tree(mail), Len(mail) >= 1, NEW n, n = Len(mail), NEW i \in 1 .. n,
         NEW g, NEW h, \A j \in 1 .. n : i < j => g[j] = h[j]
  PROVE  Level(mail, g, i) = Level(mail, h, i)
<1>1. \A j \in Children(mail, i) : g[j] = h[j]
  BY ChildrenFacts
<1>2. {g[j] : j \in Children(mail, i)} = {h[j] : j \in Children(mail, i)}
  BY <1>1
<1> QED
  BY <1>2 DEF Level

\* h is the result of the walk at every part.
Walks(mail, n, h) ==
  h \in [1 .. n -> Nat] /\ h[1] = Walk(mail) /\ \A i \in 1 .. n : h[i] = Level(mail, h, i)

\* The recursion of the walk in caps.rs has a solution on every part tree.
LEMMA LevelsExist ==
  ASSUME NEW mail, Tree(mail), Len(mail) >= 1, NEW n, n = Len(mail)
  PROVE  \E h \in [1 .. n -> Nat] : \A i \in 1 .. n : h[i] = Level(mail, h, i)
<1> DEFINE V == [1 .. n -> Nat]
           F == [x \in (1 .. n) \X V |-> [x[2] EXCEPT ![n + 1 - x[1]] = Level(mail, x[2], n + 1 - x[1])]]
           base == [i \in 1 .. n |-> 0]
<1>1. n \in Nat /\ n >= 1
  BY TreeFacts
<1>2. ASSUME NEW m \in 1 .. n, NEW g \in V
      PROVE  [g EXCEPT ![n + 1 - m] = Level(mail, g, n + 1 - m)] \in V
  <2>1. PICK i : i = n + 1 - m
    OBVIOUS
  <2>2. i \in 1 .. n
    BY <1>1, <2>1
  <2>3. \A j \in Children(mail, i) : g[j] \in Nat
    BY <2>2, ChildrenFacts
  <2>4. Level(mail, g, i) \in Nat
    BY <2>2, <2>3, LevelFacts
  <2>5. [g EXCEPT ![i] = Level(mail, g, i)] \in V
    BY <2>4
  <2> QED  BY <2>1, <2>5
<1>3. StepsWithin(F, n, V) /\ base \in V
  <2>1. base \in V
    OBVIOUS
  <2> HIDE DEF V, base
  <2> QED  BY <1>2, <2>1 DEF StepsWithin
<1>4. PICK f : Follows(f, n, V, base, F)
  <2> HIDE DEF F, V, base
  <2> QED  BY <1>1, <1>3, RecursionExists
<1>5. /\ f \in [0 .. n -> V]
      /\ \A m \in 1 .. n : f[m] = [f[m - 1] EXCEPT ![n + 1 - m] = Level(mail, f[m - 1], n + 1 - m)]
  <2> HIDE DEF V, base
  <2> USE DEF Follows
  <2>1. \A m \in 1 .. n : m - 1 \in 0 .. n /\ <<m, f[m - 1]>> \in (1 .. n) \X V
    BY <1>1, <1>4
  <2> QED  BY <1>4, <2>1
<1> DEFINE Done(g, m) == \A i \in 1 .. n : i > n - m => g[i] = Level(mail, g, i)
           S == {m \in 0 .. n : Done(f[m], m)}
<1>6. 0 \in S
  BY <1>1
<1>7. ASSUME NEW m \in 1 .. n, m - 1 \in S PROVE m \in S
  <2>1. PICK k, g, h : k = n + 1 - m /\ g = f[m - 1] /\ h = f[m]
    OBVIOUS
  <2>2. k \in 1 .. n /\ m \in 0 .. n /\ m - 1 \in 0 .. n /\ n - (m - 1) = k /\ n - m = k - 1
    BY <1>1, <2>1
  <2>3. g \in V /\ h = [g EXCEPT ![k] = Level(mail, g, k)]
    BY <1>5, <2>1, <2>2
  <2>4. \A i \in 1 .. n : i > k => g[i] = Level(mail, g, i)
    BY <1>7, <2>1, <2>2
  <2>5. /\ h[k] = Level(mail, g, k)
        /\ \A i \in 1 .. n : i # k => h[i] = g[i]
    BY <2>2, <2>3
  <2>6. ASSUME NEW i \in 1 .. n, i >= k PROVE h[i] = Level(mail, h, i)
    <3>1. \A j \in 1 .. n : i < j => g[j] = h[j]
      BY <1>1, <2>2, <2>5, <2>6
    <3>2. Level(mail, g, i) = Level(mail, h, i)
      BY <3>1, LevelDepends
    <3>3. CASE i = k
      BY <2>5, <3>2, <3>3
    <3>4. CASE i # k
      <4>1. i > k
        BY <1>1, <2>2, <2>6, <3>4
      <4> QED  BY <2>4, <2>5, <3>2, <3>4, <4>1
    <3> QED  BY <3>3, <3>4
  <2>7. ASSUME NEW i \in 1 .. n, i > n - m PROVE i >= k
    BY <1>1, <2>2, <2>7
  <2>8. Done(h, m)
    BY <2>6, <2>7
  <2> QED  BY <2>1, <2>2, <2>8
<1>8. n \in S
  <2> HIDE DEF S
  <2>1. 0 .. n \subseteq S
    BY <1>1, <1>6, <1>7, BoundedInductionOnSets
  <2> QED  BY <1>1, <2>1
<1>9. \A i \in 1 .. n : f[n][i] = Level(mail, f[n], i)
  <2>1. \A i \in 1 .. n : i > n - n
    BY <1>1
  <2> QED  BY <1>8, <2>1
<1>10. f[n] \in V
  <2>1. n \in 0 .. n
    BY <1>1
  <2> HIDE DEF V
  <2> QED  BY <1>5, <2>1
<1> QED
  BY <1>9, <1>10

\* The recursive function that models the walk is such a solution.
LEMMA WalkWalks ==
  ASSUME NEW mail, Tree(mail), Len(mail) >= 1, NEW n, n = Len(mail)
  PROVE  \E h : Walks(mail, n, h)
<1> DEFINE Step(g) == [i \in DOMAIN mail |->
                         IF Multipart(mail[i]) THEN 1 + Max({g[j] : j \in Children(mail, i)} \cup {0}) ELSE 1]
           b == CHOOSE g : g = Step(g)
<1>1. n \in Nat /\ n >= 1 /\ DOMAIN mail = 1 .. n
  BY TreeFacts
<1>2. PICK h \in [1 .. n -> Nat] : \A i \in 1 .. n : h[i] = Level(mail, h, i)
  BY LevelsExist
<1>3. \A g : Step(g) = [i \in 1 .. n |-> Level(mail, g, i)]
  BY <1>1 DEF Level
<1> HIDE DEF Step
<1>4. h = Step(h)
  <2>1. h = [i \in 1 .. n |-> h[i]]
    OBVIOUS
  <2> QED  BY <1>2, <1>3, <2>1
<1>5. b = Step(b)
  BY <1>4
<1>6. Walk(mail) = b[1]
  BY DEF Walk, Step
<1> HIDE DEF b
<1>7. \A i \in 1 .. n : b[i] = Level(mail, b, i)
  <2>1. b = [i \in 1 .. n |-> Level(mail, b, i)]
    BY <1>3, <1>5
  <2> QED  BY <2>1
<1> DEFINE S == {m \in 0 .. n : \A i \in 1 .. n : i > n - m => b[i] = h[i]}
<1>8. 0 \in S
  BY <1>1
<1>9. ASSUME NEW m \in 1 .. n, m - 1 \in S PROVE m \in S
  <2>1. \A i \in 1 .. n : i > n - (m - 1) => b[i] = h[i]
    BY <1>9
  <2>2. ASSUME NEW i \in 1 .. n, i > n - m PROVE b[i] = h[i]
    <3>1. \A j \in 1 .. n : i < j => b[j] = h[j]
      <4>1. \A j \in 1 .. n : i < j => j > n - (m - 1)
        BY <1>1, <2>2
      <4> QED  BY <2>1, <4>1
    <3>2. Level(mail, b, i) = Level(mail, h, i)
      BY <3>1, LevelDepends
    <3> QED  BY <1>2, <1>7, <3>2
  <2>3. m \in 0 .. n
    BY <1>1
  <2> QED  BY <2>2, <2>3
<1>10. n \in S
  <2> HIDE DEF S
  <2>1. 0 .. n \subseteq S
    BY <1>1, <1>8, <1>9, BoundedInductionOnSets
  <2> QED  BY <1>1, <2>1
<1>11. b[1] = h[1]
  <2>1. 1 \in 1 .. n /\ 1 > n - n
    BY <1>1
  <2> QED  BY <1>10, <2>1
<1> QED
  BY <1>2, <1>6, <1>11 DEF Walks

\* The walk from the root finds the depth of the deepest part: no part is deeper, and
\* one is as deep.
LEMMA WalkIsDepth ==
  ASSUME NEW mail, Tree(mail), Len(mail) >= 1, NEW n, n = Len(mail)
  PROVE  /\ Walk(mail) \in Nat
         /\ \A i \in 1 .. n : Depth(mail, i) <= Walk(mail)
         /\ \E i \in 1 .. n : Depth(mail, i) = Walk(mail)
<1>1. /\ n \in Nat /\ n >= 1 /\ DOMAIN mail = 1 .. n
      /\ \A i \in 1 .. n : i # 1 => mail[i].up \in 1 .. n /\ mail[i].up < i
  BY TreeFacts
<1>2. PICK h : Walks(mail, n, h)
  BY WalkWalks
<1>3. h \in [1 .. n -> Nat] /\ h[1] = Walk(mail)
  BY <1>2 DEF Walks
<1>4. \A i \in 1 .. n :
        /\ h[i] \in Nat /\ h[i] >= 1
        /\ \A j \in Children(mail, i) : h[i] >= 1 + h[j]
        /\ h[i] = 1 \/ \E j \in Children(mail, i) : h[i] = 1 + h[j]
  <2> SUFFICES ASSUME NEW i \in 1 .. n
               PROVE  /\ h[i] \in Nat /\ h[i] >= 1
                      /\ \A j \in Children(mail, i) : h[i] >= 1 + h[j]
                      /\ h[i] = 1 \/ \E j \in Children(mail, i) : h[i] = 1 + h[j]
    OBVIOUS
  <2>1. \A j \in Children(mail, i) : h[j] \in Nat
    BY <1>3, ChildrenFacts
  <2>2. h[i] = Level(mail, h, i)
    BY <1>2 DEF Walks
  <2>3. /\ Level(mail, h, i) \in Nat /\ Level(mail, h, i) >= 1
        /\ \A j \in Children(mail, i) : Level(mail, h, i) >= 1 + h[j]
        /\ Level(mail, h, i) = 1 \/ \E j \in Children(mail, i) : Level(mail, h, i) = 1 + h[j]
    BY <2>1, LevelFacts
  <2> QED  BY <2>2, <2>3
<1>5. 1 \in 1 .. n
  BY <1>1
<1>6. Walk(mail) \in Nat /\ Depth(mail, 1) = 1
  BY <1>3, <1>4, <1>5, DepthFacts
\* from the root down: what is above a part and what is below it add up to the walk at most
<1> DEFINE Sum(i) == Depth(mail, i) + h[i]
           S == {m \in 0 .. n : \A i \in 1 .. n : i <= m => Sum(i) <= Walk(mail) + 1}
<1>7. 0 \in S
  BY <1>1
<1>8. ASSUME NEW m \in 1 .. n, m - 1 \in S PROVE m \in S
  <2>1. \A i \in 1 .. n : i <= m - 1 => Sum(i) <= Walk(mail) + 1
    BY <1>8
  <2>2. Sum(m) <= Walk(mail) + 1
    <3>1. CASE m = 1
      BY <1>3, <1>6, <3>1
    <3>2. CASE m # 1
      <4>1. PICK u : u = mail[m].up
        OBVIOUS
      <4>2. u \in 1 .. n /\ u < m /\ u <= m - 1
        BY <1>1, <3>2, <4>1
      <4>3. m \in Children(mail, u)
        BY <1>1, <4>1, <4>2 DEF Children
      <4>4. h[u] >= 1 + h[m] /\ h[u] \in Nat /\ h[m] \in Nat
        BY <1>4, <4>2, <4>3
      <4>5. Depth(mail, m) = Depth(mail, u) + 1 /\ Depth(mail, u) \in Nat
        BY <3>2, <4>1, <4>2, DepthFacts
      <4>6. Depth(mail, u) + h[u] <= Walk(mail) + 1
        BY <2>1, <4>2
      <4> QED  BY <1>6, <4>4, <4>5, <4>6
    <3> QED  BY <3>1, <3>2
  <2>3. m \in 0 .. n /\ \A i \in 1 .. n : i <= m => i <= m - 1 \/ i = m
    BY <1>1
  <2> HIDE DEF Sum
  <2> QED  BY <2>1, <2>2, <2>3
<1>9. \A i \in 1 .. n : Sum(i) <= Walk(mail) + 1
  <2>1. n \in S
    <3> HIDE DEF S
    <3>1. 0 .. n \subseteq S
      BY <1>1, <1>7, <1>8, BoundedInductionOnSets
    <3> QED  BY <1>1, <3>1
  <2>2. \A i \in 1 .. n : i <= n
    BY <1>1
  <2> QED  BY <2>1, <2>2
<1>10. ASSUME NEW i \in 1 .. n PROVE Depth(mail, i) <= Walk(mail)
  <2>1. Depth(mail, i) \in Nat /\ h[i] \in Nat /\ h[i] >= 1
    BY <1>4, DepthFacts
  <2>2. Depth(mail, i) + h[i] <= Walk(mail) + 1
    BY <1>9
  <2> QED  BY <1>6, <2>1, <2>2
\* from the leaves up: below every part there is one as deep as the walk says
<1> DEFINE T == {m \in 0 .. n : \A i \in 1 .. n : i > n - m =>
                                  \E j \in 1 .. n : Depth(mail, j) + 1 = Sum(i)}
<1>11. 0 \in T
  BY <1>1
<1>12. ASSUME NEW m \in 1 .. n, m - 1 \in T PROVE m \in T
  <2>1. \A i \in 1 .. n : i > n - (m - 1) => \E j \in 1 .. n : Depth(mail, j) + 1 = Sum(i)
    BY <1>12
  <2>2. ASSUME NEW i \in 1 .. n, i > n - m PROVE \E j \in 1 .. n : Depth(mail, j) + 1 = Sum(i)
    <3>1. CASE h[i] = 1
      BY <3>1
    <3>2. CASE \E j \in Children(mail, i) : h[i] = 1 + h[j]
      <4>1. PICK c \in Children(mail, i) : h[i] = 1 + h[c]
        BY <3>2
      <4>2. c \in 1 .. n /\ c # 1 /\ i < c /\ mail[c].up = i
        BY <4>1, ChildrenFacts
      <4>3. c > n - (m - 1)
        BY <1>1, <2>2, <4>2
      <4>4. Depth(mail, c) = Depth(mail, i) + 1 /\ Depth(mail, i) \in Nat
        BY <4>2, DepthFacts
      <4>5. h[c] \in Nat
        BY <1>4, <4>2
      <4>6. Sum(c) = Sum(i)
        BY <4>1, <4>4, <4>5
      <4> HIDE DEF Sum
      <4> QED  BY <2>1, <4>2, <4>3, <4>6
    <3> QED  BY <1>4, <3>1, <3>2
  <2>3. m \in 0 .. n
    BY <1>1
  <2> HIDE DEF Sum
  <2> QED  BY <2>2, <2>3
<1>13. \E j \in 1 .. n : Depth(mail, j) + 1 = Sum(1)
  <2>1. n \in T
    <3> HIDE DEF T
    <3>1. 0 .. n \subseteq T
      BY <1>1, <1>11, <1>12, BoundedInductionOnSets
    <3> QED  BY <1>1, <3>1
  <2>2. 1 \in 1 .. n /\ 1 > n - n
    BY <1>1
  <2> HIDE DEF Sum
  <2> QED  BY <2>1, <2>2
<1>14. PICK j \in 1 .. n : Depth(mail, j) + 1 = Depth(mail, 1) + h[1]
  BY <1>13
<1>15. Depth(mail, j) = Walk(mail)
  <2>1. Depth(mail, j) \in Nat
    BY DepthFacts
  <2> QED  BY <1>3, <1>6, <1>14, <2>1
<1> QED
  BY <1>6, <1>10, <1>15

\* The depth cap of caps.rs.
THEOREM DepthKeeps ==
  ASSUME NEW mail, Tree(mail)
  PROVE  DepthIsNesting(mail)
<1> SUFFICES ASSUME Len(mail) \in 1 .. MaxParts
             PROVE  CheckCaps(mail, FALSE) = "part-depth"
                      <=> \E i \in DOMAIN mail : Cardinality(Chain(mail, i)) > MaxPartDepth
  BY DEF DepthIsNesting
<1>1. PICK n : n = Len(mail)
  OBVIOUS
<1>2. n \in Nat /\ n >= 1 /\ n <= MaxParts /\ DOMAIN mail = 1 .. n
  <2>1. Len(mail) >= 1 /\ Len(mail) <= MaxParts
    BY MimeAssumption
  <2> QED  BY <1>1, <2>1, TreeFacts
<1>3. /\ Walk(mail) \in Nat
      /\ \A i \in 1 .. n : Depth(mail, i) <= Walk(mail)
      /\ \E i \in 1 .. n : Depth(mail, i) = Walk(mail)
  BY <1>1, <1>2, WalkIsDepth
<1>4. CheckCaps(mail, FALSE) = "part-depth" <=> Walk(mail) > MaxPartDepth
  <2>1. ~(Len(mail) > MaxParts)
    BY <1>1, <1>2, MimeAssumption
  <2> QED  BY <2>1 DEF CheckCaps
<1>5. \A i \in 1 .. n : Depth(mail, i) \in Nat
  BY <1>1, <1>2, DepthFacts
<1>6. Walk(mail) > MaxPartDepth <=> \E i \in 1 .. n : Depth(mail, i) > MaxPartDepth
  BY <1>3, <1>5, MimeAssumption
<1> QED
  BY <1>2, <1>4, <1>6 DEF Depth

(***************************************************************************)
(* The inputs of MCAlgorithms are inputs of the functions                  *)
(***************************************************************************)

DocumentChars == {"n", "s", "x"}
BodyChars == {"s", "x", "y", "w"}

InputOk ==
  /\ kind = "document" => head \in Seq(DocumentChars) /\ input \in Seq(DocumentChars)
  /\ kind = "body" => Words(head, BodyChars) /\ input \in Seq(BodyChars)
  /\ kind = "mail" => IsMail(input) /\ Tree(input)

\* The parts the inputs are put together from have the type of a part.
LEMMA KindsAreParts ==
  /\ \A p \in Roots : p \in Parts /\ p.up = 0
  /\ \A p \in PartKinds, i \in Nat : [p EXCEPT !.up = i] \in Parts
<1>0. \A y \in PartTypes, d \in {"none", "inline", "attachment"}, m \in BOOLEAN, z \in 0 .. 3 :
        Part(y, d, m, z) \in Parts
  BY DEF Parts, Part
<1>1. \A p \in PartKinds : p \in Parts
  <2>1. 0 \in 0 .. 3 /\ 1 \in 0 .. 3 /\ 2 \in 0 .. 3 /\ 3 \in 0 .. 3
    OBVIOUS
  <2> QED  BY <1>0, <2>1, Zenon DEF PartKinds, PartTypes
<1>2. \A p \in Roots : p \in Parts
  <2>1. 0 \in 0 .. 3
    OBVIOUS
  <2> QED  BY <1>0, <1>1, <2>1, Zenon DEF Roots, PartTypes
<1>3. \A p \in Roots : p.up = 0
  <2>1. \A y, d, m, z : Part(y, d, m, z).up = 0
    BY DEF Part
  <2> QED  BY <2>1, Zenon DEF Roots, PartKinds
<1>4. \A p \in Parts, i \in Nat : [p EXCEPT !.up = i] \in Parts
  BY DEF Parts
<1> QED
  BY <1>1, <1>2, <1>3, <1>4

\* The search terms of the inputs are sequences of characters.
LEMMA TermsAreWords == \A h \in Terms : Words(h, BodyChars)
<1> DEFINE Word(u) == u \in Seq(BodyChars) /\ Len(u) >= 1
<1>1. Word(<<"x", "y">>) /\ Word(<<"w">>) /\ Word(<<"x", "x">>) /\ Word(<<"x">>) /\ Word(<<"x", "y", "x">>)
  BY DEF BodyChars
<1>2. Words(<<>>, BodyChars)
  BY DEF Words
<1>3. \A u : Word(u) => Words(<<u>>, BodyChars)
  BY DEF Words
<1>4. \A u, v : Word(u) /\ Word(v) => Words(<<u, v>>, BodyChars)
  BY DEF Words
<1> HIDE DEF Word
<1> QED
  BY <1>1, <1>2, <1>3, <1>4 DEF Terms

\* Every input that is generated has the type the functions expect.
LEMMA InputsAreOk == Spec => []InputOk
<1>1. Init => InputOk
  <2> SUFFICES ASSUME Init PROVE InputOk
    OBVIOUS
  <2>1. CASE kind = "document" /\ head \in {<<>>, <<"x">>} /\ input = <<>>
    <3>1. <<>> \in Seq(DocumentChars) /\ <<"x">> \in Seq(DocumentChars)
      BY DEF DocumentChars
    <3> QED  BY <2>1, <3>1 DEF InputOk
  <2>2. CASE kind = "body" /\ head \in Terms /\ input = <<>>
    BY <2>2, TermsAreWords DEF InputOk
  <2>3. CASE kind = "mail" /\ input \in {<<r>> : r \in Roots} \cup {<<>>}
    <3>1. \A r \in Parts : <<r>> \in Seq(Parts)
      OBVIOUS
    <3>2. <<>> \in Seq(Parts)
      OBVIOUS
    <3>3. \A r \in Parts : r.up = 0 => Tree(<<r>>)
      BY <3>1 DEF Tree
    <3>4. Tree(<<>>)
      BY <3>2 DEF Tree
    <3> QED  BY <2>3, <3>1, <3>2, <3>3, <3>4, KindsAreParts DEF InputOk, IsMail
  <2> QED  BY <2>1, <2>2, <2>3 DEF Init
<1>2. InputOk /\ [Next]_vars => InputOk'
  <2> SUFFICES ASSUME InputOk, [Next]_vars PROVE InputOk'
    OBVIOUS
  <2> USE DEF InputOk
  <2>1. CASE GrowDocument /\ UNCHANGED <<kind, head>>
    BY <2>1 DEF GrowDocument, DocumentChars
  <2>2. CASE GrowBody /\ UNCHANGED <<kind, head>>
    BY <2>2 DEF GrowBody, BodyChars
  <2>3. CASE GrowMail /\ UNCHANGED <<kind, head>>
    <3>1. kind = "mail" /\ input \in Seq(Parts)
      BY <2>3 DEF GrowMail, IsMail
    <3>2. PICK p \in PartKinds, i \in DOMAIN input :
            Multipart(input[i]) /\ input' = Append(input, [p EXCEPT !.up = i])
      BY <2>3 DEF GrowMail
    <3>3. PICK q : q = [p EXCEPT !.up = i]
      OBVIOUS
    <3>4. q \in Parts /\ q.up = i
      <4>1. i \in Nat /\ \A y \in Parts : y.up \in Nat
        BY <3>1, <3>2 DEF Parts
      <4>2. q \in Parts
        BY <3>3, <4>1, KindsAreParts
      <4>3. p \in Parts
        BY KindsAreParts DEF Roots
      <4> QED  BY <3>3, <4>2, <4>3 DEF Parts
    <3>5. PICK n : n = Len(input) /\ n \in Nat /\ i \in 1 .. n
      BY <3>1, <3>2
    <3>6. /\ input' \in Seq(Parts) /\ Len(input') = n + 1 /\ input'[n + 1] = q
          /\ \A j \in 1 .. n : input'[j] = input[j]
      BY <3>1, <3>2, <3>3, <3>4, <3>5
    <3>7. input[1].up = 0 /\ input'[1].up = 0
      BY <3>1, <3>5, <3>6 DEF Tree
    <3>8. ASSUME NEW j \in 2 .. (n + 1)
          PROVE  input'[j].up \in 1 .. (j - 1) /\ Multipart(input'[input'[j].up])
      <4>1. CASE j = n + 1
        BY <3>2, <3>4, <3>5, <3>6, <4>1
      <4>2. CASE j # n + 1
        <5>1. j \in 2 .. n /\ j \in 1 .. n
          BY <3>5, <4>2
        <5>2. input[j].up \in 1 .. (j - 1) /\ Multipart(input[input[j].up])
          BY <3>1, <3>5, <5>1 DEF Tree
        <5>3. input[j].up \in 1 .. n
          BY <3>5, <5>1, <5>2
        <5> QED  BY <3>6, <5>1, <5>2, <5>3
      <4> QED  BY <4>1, <4>2
    <3>9. Tree(input')
      BY <3>6, <3>7, <3>8 DEF Tree
    <3> QED  BY <2>3, <3>1, <3>6, <3>9 DEF IsMail
  <2>4. CASE UNCHANGED vars
    BY <2>4 DEF vars
  <2> QED  BY <2>1, <2>2, <2>3, <2>4 DEF Next
<1> QED
  BY <1>1, <1>2, PTL DEF Spec

\* What the tools and the drainer pass on is a document of the same characters.
LEMMA DocumentIsText ==
  ASSUME InputOk, kind = "document"
  PROVE  Document \in Seq(DocumentChars)
<1>1. <<"x">> \in Seq(DocumentChars) /\ <<"n", "n">> \in Seq(DocumentChars) /\ <<>> \in Seq(DocumentChars)
  BY DEF DocumentChars
<1>2. \A a, b \in Seq(DocumentChars) : a \o b \in Seq(DocumentChars)
  OBVIOUS
<1>3. head \in Seq(DocumentChars) /\ input \in Seq(DocumentChars)
  BY DEF InputOk
<1> QED
  BY <1>1, <1>2, <1>3 DEF Document, BuildDocument, FromDisplay

(***************************************************************************)
(* Theorems                                                                *)
(***************************************************************************)

\* split_for_index, for every target, window and cap with 0 < SNAP_WINDOW <
\* SEGMENT_TARGET_CHARS <= SEGMENT_MAX_CHARS and documents of any length: the segments
\* are the document from its beginning without a gap or an overlap, between one and
\* MaxSegments of them, none longer than target and window together, none empty.
THEOREM SegmentsAreBounded == Spec => []SegmentGuarantees
<1>1. InputOk => SegmentGuarantees
  BY DocumentIsText, SplitKeeps DEF SegmentGuarantees
<1> QED
  BY <1>1, InputsAreOk, PTL

\* split_for_index leaves out nothing before MaxSegments * (target - window + 1)
\* characters of a document, whatever the breaks it snapped to.
THEOREM SegmentsReachFar == Spec => []SegmentCoverage
<1>1. InputOk => SegmentCoverage
  BY DocumentIsText, SplitCovers DEF SegmentCoverage
<1> QED
  BY <1>1, InputsAreOk, PTL

\* enforce_size_cap with room for its sentinel: whatever the body, the result is within
\* BODY_MAX_BYTES, cut between characters, and less than a character short of the cap.
THEOREM CapIsKept == Spec => []CapGuarantees
<1>1. InputOk => CapGuarantees
  BY CapKeeps DEF InputOk, CapGuarantees
<1> QED
  BY <1>1, InputsAreOk, PTL

\* render, for bodies and words of any length and any width of a snippet: the slice is
\* cut between characters and within its width, and a term no longer than half a
\* snippet that is the first to occur is inside it and in bold.
THEOREM SnippetShowsTheMatch == Spec => []SnippetGuarantees
<1>1. InputOk => SnippetGuarantees
  BY SnippetKeeps DEF InputOk, SnippetGuarantees
<1> QED
  BY <1>1, InputsAreOk, PTL

\* check_caps, for part trees of any shape and any caps: a mail is refused for its
\* depth exactly when some part is inside more than MAX_PART_DEPTH levels.
THEOREM DepthIsCounted == Spec => []DepthGuarantees
<1>1. InputOk => DepthGuarantees
  BY DepthKeeps DEF InputOk, DepthGuarantees
<1> QED
  BY <1>1, InputsAreOk, PTL

\* parse, for mails of any shape and any caps: one that comes back parsed and not
\* degraded has its body whole, its named parts listed and its readable text found.
THEOREM ParseIsLossless == Spec => []ParseGuarantees
<1>1. InputOk => ParseGuarantees
  BY ParseKeeps DEF InputOk, ParseGuarantees
<1> QED
  BY <1>1, InputsAreOk, PTL
=============================================================================
