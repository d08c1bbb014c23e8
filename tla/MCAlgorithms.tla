---------------------------- MODULE MCAlgorithms ----------------------------
(***************************************************************************)
(* Every document, body and mail up to a length, one character or part at  *)
(* a time, through the functions of Segmenter, BoundedText and MimeParse.  *)
(***************************************************************************)
EXTENDS Segmenter, BoundedText, MimeParse

CONSTANTS
  MaxDocument,  \* bound: characters of an indexed body
  MaxBody,      \* bound: characters of a body a snippet is cut from
  MaxMail       \* bound: parts of a mail

VARIABLES
  kind,   \* which function the input is for
  head,   \* the subject, the query terms, or the headers and date of a mail
  input

vars == <<kind, head, input>>

\* One word, a word with a wide character, and two words that overlap in a body.
Terms == {<<>>, <<<<"x", "y">>>>, <<<<"w">>, <<"x", "x">>>>, <<<<"x">>, <<"x", "y", "x">>>>}

Part(type, disp, name, size) == [type |-> type, disp |-> disp, name |-> name, size |-> size, up |-> 0]

PartKinds ==
  {Part("multi", "none", FALSE, 0),
   Part("plain", "none", FALSE, 0), Part("plain", "none", FALSE, 1), Part("plain", "none", FALSE, 2),
   Part("plain", "attachment", TRUE, 2), Part("html", "none", FALSE, 3), Part("html", "inline", TRUE, 1),
   Part("text", "none", FALSE, 2), Part("bin", "attachment", FALSE, 2), Part("bin", "inline", TRUE, 2)}

Roots == PartKinds \cup {Part("encrypted", "none", FALSE, 0), Part("signed", "none", FALSE, 0)}

Init ==
  \/ kind = "document" /\ head \in {<<>>, <<"x">>} /\ input = <<>>
  \/ kind = "body" /\ head \in Terms /\ input = <<>>
  \/ /\ kind = "mail" /\ head \in BOOLEAN \X {"header", "internal", "now"}
     /\ input \in {<<r>> : r \in Roots} \cup {<<>>}

GrowDocument ==
  /\ kind = "document" /\ Len(input) < MaxDocument
  /\ \E c \in {"n", "s", "x"} : input' = Append(input, c)

GrowBody ==
  /\ kind = "body" /\ Len(input) < MaxBody
  /\ \E c \in {"s", "x", "y", "w"} : input' = Append(input, c)

GrowMail ==
  /\ kind = "mail" /\ Len(input) < MaxMail
  /\ \E p \in PartKinds, i \in DOMAIN input :
       Multipart(input[i]) /\ input' = Append(input, [p EXCEPT !.up = i])

Next == (GrowDocument \/ GrowBody \/ GrowMail) /\ UNCHANGED <<kind, head>>

Spec == Init /\ [][Next]_vars

Document == BuildDocument(head, <<"x">>, <<>>, input)

\* SegmentsBounded of every document: split_for_index keeps its documented
\* guarantees.
SegmentGuarantees == kind = "document" => SegmentsBounded(Document)

\* SegmentsCover of every document: only the far end of a long one goes unindexed.
SegmentCoverage == kind = "document" => SegmentsCover(Document)

\* SnippetShowsMatch of every body and query: the snippet of search shows what matched.
SnippetGuarantees == kind = "body" => SnippetShowsMatch(input, head)

\* CapIsTight of every body: the 1 MB cap neither splits a character nor overshoots.
CapGuarantees == kind = "body" => CapIsTight(input)

\* DepthIsNesting of every mail: the depth cap of caps.rs counts what it says.
DepthGuarantees == kind = "mail" => DepthIsNesting(input)

\* ParsedIsLossless of every mail: one that is parsed and not degraded has its body
\* whole and every part that is not readable text listed.
ParseGuarantees == kind = "mail" => ParsedIsLossless(input, head[1], head[2])
=============================================================================
