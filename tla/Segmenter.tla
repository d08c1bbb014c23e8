----------------------------- MODULE Segmenter -----------------------------
(***************************************************************************)
(* split_for_index: a document is cut into bounded segments, each one a    *)
(* witchcraft document of its own.  Characters are classes: "n" a newline, *)
(* "s" other white space, "x" anything else.  Offsets count from 0, as in  *)
(* the code: character i of the document is t[i + 1].                      *)
(*                                                                         *)
(* Source: crates/scryd-search/src/document.rs.                            *)
(***************************************************************************)
EXTENDS Integers, Sequences, FiniteSets, FiniteSetsExt

CONSTANTS
  Target,    \* SEGMENT_TARGET_CHARS
  MaxChars,  \* SEGMENT_MAX_CHARS
  Window     \* SNAP_WINDOW

ASSUME SegmenterAssumption ==
  /\ Target \in Nat \ {0} /\ MaxChars \in Nat /\ Window \in Nat \ {0}
  /\ Window < Target /\ Target <= MaxChars

Least(a, b) == IF a < b THEN a ELSE b
Most(a, b)  == IF a > b THEN a ELSE b
Dist(a, b)  == IF a > b THEN a - b ELSE b - a

MaxSegments == MaxChars \div Target

\* subject, sender and body with a blank line between them; an empty subject is
\* left out, and a missing or blank name leaves the address alone.
FromDisplay(addr, name) == IF name = <<>> THEN addr ELSE name \o <<"s", "x">> \o addr \o <<"x">>
BuildDocument(subject, addr, name, body) ==
  LET blank == <<"n", "n">>
  IN  (IF subject = <<>> THEN <<>> ELSE subject \o blank) \o FromDisplay(addr, name) \o blank \o body

\* The break nearest to the target; the earlier one of two as near.
Nearest(S, target) ==
  CHOOSE p \in S : \A q \in S : \/ Dist(p, target) < Dist(q, target)
                                \/ Dist(p, target) = Dist(q, target) /\ p <= q

\* Mutant of SnapBoundary: the window is too wide and the farthest break is taken.
SnapBoundaryAnywhere(t, start, target, capped) ==
  LET lo == Most(target - Window - 2, 0)
      breaks == {i + 1 : i \in {j \in lo .. (target - 1) : t[j + 1] \in {"n", "s"}}}
  IN  IF breaks = {} THEN target ELSE Min(breaks)

\* Mutant of SnapBoundary: the search for a newline is not bounded by the window.
SnapBoundaryUnbounded(t, start, target, capped) ==
  LET lines == {i + 1 : i \in {j \in (target - 1) .. (capped - 1) : t[j + 1] = "n"}}
  IN  IF lines = {} THEN target ELSE Nearest(lines, target)

\* A blank line, else a newline, on either side of the target; else white space
\* before it; else the target.
SnapBoundary(t, start, target, capped) ==
  LET lo    == Most(Most(target - Window, 0), start + 1)
      hi    == Least(target + Window, capped)
      paras == {i + 2 : i \in {j \in lo .. (hi - 2) : t[j + 1] = "n" /\ t[j + 2] = "n"}}
      lines == {i + 1 : i \in {j \in lo .. (hi - 1) : t[j + 1] = "n"}}
      words == {i + 1 : i \in {j \in lo .. (target - 1) : t[j + 1] \in {"n", "s"}}}
  IN  IF lo >= hi THEN target
      ELSE IF paras # {} THEN Least(Nearest(paras, target), capped)
      ELSE IF lines # {} THEN Least(Nearest(lines, target), capped)
      ELSE IF words # {} THEN Max(words)
      ELSE target

Capped(t) == Least(Len(t), MaxChars)

\* Where the segment that begins at start ends.
SegmentEnd(t, start) ==
  LET target == Least(start + Target, Capped(t))
  IN  IF target >= Capped(t) THEN Capped(t) ELSE SnapBoundary(t, start, target, Capped(t))

\* The loop: offsets reached after 0, 1, ... segments.
Offsets(t) ==
  LET off[i \in 0 .. MaxSegments] ==
        IF i = 0 THEN 0
        ELSE IF off[i - 1] >= Capped(t) THEN off[i - 1] ELSE SegmentEnd(t, off[i - 1])
  IN  off

\* An empty or short document is one segment as it is.
SplitForIndex(t) ==
  IF Len(t) <= Target THEN <<t>>
  ELSE LET off == Offsets(t)
           n   == Cardinality({i \in 1 .. MaxSegments : off[i - 1] < Capped(t)})
       IN  [i \in 1 .. n |-> SubSeq(t, off[i - 1] + 1, off[i])]

(***************************************************************************)
(* Properties of a document                                                *)
(***************************************************************************)

Concatenation(s) ==
  LET joined[i \in 0 .. Len(s)] == IF i = 0 THEN <<>> ELSE joined[i - 1] \o s[i] IN joined[Len(s)]

TotalLength(s) ==
  LET size[i \in 0 .. Len(s)] == IF i = 0 THEN 0 ELSE size[i - 1] + Len(s[i]) IN size[Len(s)]

\* The segments are a prefix of the document in order, at least one and at most
\* MaxSegments, none of them empty unless the document is, and none longer than
\* Target + Window: the bounds on the time one embedding call holds the mutex, and
\* on the segment ids that remove enumerates.
SegmentsBounded(t) ==
  LET s == SplitForIndex(t)
  IN  /\ Len(s) \in 1 .. MaxSegments
      /\ Concatenation(s) = SubSeq(t, 1, Len(Concatenation(s)))
      /\ \A i \in DOMAIN s : Len(s[i]) <= Target + Window /\ (t # <<>> => s[i] # <<>>)

\* What the segments leave out is the end of a long document only: snapping back
\* costs at most Window - 1 characters a segment, so that everything up to
\* MaxSegments * (Target - Window + 1) characters is indexed.  (Not everything up
\* to MaxChars: a document of MaxChars characters may lose its tail.)
SegmentsCover(t) ==
  TotalLength(SplitForIndex(t)) >= Least(Len(t), MaxSegments * (Target - Window + 1))

=============================================================================
