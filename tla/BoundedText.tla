---------------------------- MODULE BoundedText ----------------------------
(***************************************************************************)
(* Cutting UTF-8 text by byte offsets: the search snippet and the size cap *)
(* of a body.  A string is a sequence of characters; "w" takes two bytes,  *)
(* every other character one.  Slicing off a character boundary panics.    *)
(*                                                                         *)
(* Sources: crates/scryd-search/src/snippet.rs, crates/scryd-mime/src/     *)
(* body.rs (enforce_size_cap, utf8_safe_truncate).                         *)
(***************************************************************************)
EXTENDS Integers, Sequences, FiniteSets, FiniteSetsExt

CONSTANTS
  SnippetChars,  \* SNIPPET_CHARS
  BodyMaxBytes,  \* BODY_MAX_BYTES
  SentinelBytes  \* TRUNCATION_SENTINEL.len()

ASSUME BoundedTextAssumption ==
  /\ SnippetChars \in Nat /\ BodyMaxBytes \in Nat /\ SentinelBytes \in Nat

Smaller(a, b) == IF a < b THEN a ELSE b
Larger(a, b)  == IF a > b THEN a ELSE b

\* Byte offset of the end of the first k characters.
Offset(b, k) == k + Cardinality({i \in 1 .. k : b[i] = "w"})
ByteLen(b) == Offset(b, Len(b))
Boundaries(b) == {Offset(b, k) : k \in 0 .. Len(b)}

\* Stepping back, or on, to a character boundary.
Floor(b, i) == Max({o \in Boundaries(b) : o <= i})
Ceil(b, i)  == Min({o \in Boundaries(b) : o >= i})

(***************************************************************************)
(* snippet::render                                                         *)
(***************************************************************************)

\* term occurs in b after its first k characters.
OccursAt(b, term, k) == k + Len(term) <= Len(b) /\ SubSeq(b, k + 1, k + Len(term)) = term

\* find_first_match: characters before the earliest occurrence of any term.
Matches(b, terms) == {k \in 0 .. Len(b) : \E i \in DOMAIN terms : OccursAt(b, terms[i], k)}

\* Mutant of WindowAround: the window ends at the match.
WindowAroundBefore(b, pos) == <<Floor(b, Larger(pos - SnippetChars, 0)), pos>>

WindowAround(b, pos) ==
  LET half == SnippetChars \div 2
  IN  <<Floor(b, Larger(pos - half, 0)), Ceil(b, Smaller(pos + half, ByteLen(b)))>>

LeadingWindow(b) == <<0, Ceil(b, Smaller(SnippetChars, ByteLen(b)))>>

Slice(b, terms) ==
  IF Matches(b, terms) = {} THEN LeadingWindow(b)
  ELSE WindowAround(b, Offset(b, Min(Matches(b, terms))))

\* push_highlighted: term i occurs from character k on, inside the slice w.
InSlice(b, w, k) == Offset(b, k - 1) >= w[1] /\ Offset(b, k) <= w[2]
Fits(b, terms, w, i, k) ==
  OccursAt(b, terms[i], k - 1) /\ InSlice(b, w, k) /\ InSlice(b, w, k + Len(terms[i]) - 1)
FirstFit(b, terms, w, k) ==
  CHOOSE i \in DOMAIN terms : Fits(b, terms, w, i, k) /\ \A j \in 1 .. (i - 1) : ~Fits(b, terms, w, j, k)

\* One character of the scan: p.bold are the characters in bold so far, p.upto the
\* last character consumed.  The first term that fits is made bold and skipped.
PushHighlighted(b, terms, w, k, p) ==
  IF p.upto >= k \/ ~\E i \in DOMAIN terms : Fits(b, terms, w, i, k) THEN p
  ELSE LET last == k + Len(terms[FirstFit(b, terms, w, k)]) - 1
       IN  [bold |-> p.bold \cup (k .. last), upto |-> last]

Highlighted(b, terms) ==
  LET w == Slice(b, terms)
      scan[k \in 0 .. Len(b)] ==
        IF k = 0 THEN [bold |-> {}, upto |-> 0] ELSE PushHighlighted(b, terms, w, k, scan[k - 1])
  IN  scan[Len(b)].bold

(***************************************************************************)
(* enforce_size_cap                                                        *)
(***************************************************************************)

\* Mutant of Utf8SafeTruncate: the cut is rounded up.
TruncateUp(b, bytes) == IF bytes >= ByteLen(b) THEN ByteLen(b) ELSE Ceil(b, bytes)

Utf8SafeTruncate(b, bytes) == IF bytes >= ByteLen(b) THEN ByteLen(b) ELSE Floor(b, bytes)

\* Bytes kept of a body, and bytes of the result.
KeptBytes(b) ==
  IF ByteLen(b) <= BodyMaxBytes THEN ByteLen(b)
  ELSE Utf8SafeTruncate(b, Larger(BodyMaxBytes - SentinelBytes, 0))
CappedBytes(b) == KeptBytes(b) + (IF ByteLen(b) <= BodyMaxBytes THEN 0 ELSE SentinelBytes)

(***************************************************************************)
(* Properties of a body                                                    *)
(***************************************************************************)

\* A snippet is at most SnippetChars bytes and the rest of the character at each
\* end, cut between characters; and when a query term occurs and is no longer than
\* half a snippet, its first occurrence is inside and bold.
SnippetShowsMatch(b, terms) ==
  LET w == Slice(b, terms)
      k == Min(Matches(b, terms))
  IN  /\ {w[1], w[2]} \subseteq Boundaries(b) /\ w[1] <= w[2]
      /\ w[2] - w[1] <= SnippetChars + 2
      /\ Matches(b, terms) # {}
           => \A i \in DOMAIN terms :
                OccursAt(b, terms[i], k) /\ ByteLen(terms[i]) <= SnippetChars \div 2
                  => k + 1 \in Highlighted(b, terms)

\* A capped body never exceeds BodyMaxBytes (given room for the sentinel), is cut
\* between characters, and gives up less than one character more than it must.
CapIsTight(b) ==
  SentinelBytes <= BodyMaxBytes =>
    /\ CappedBytes(b) <= BodyMaxBytes
    /\ KeptBytes(b) \in Boundaries(b)
    /\ ByteLen(b) > BodyMaxBytes => KeptBytes(b) + 1 >= BodyMaxBytes - SentinelBytes

=============================================================================
