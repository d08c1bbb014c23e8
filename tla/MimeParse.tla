----------------------------- MODULE MimeParse -----------------------------
(***************************************************************************)
(* scryd_mime::parse: from the part list of mail-parser to the outcome the *)
(* sink branches on.  A mail is a sequence of parts, part 1 the root; a    *)
(* part is a record                                                        *)
(*   type  "multi" | "encrypted" | "signed" (multipart), "plain" | "html"  *)
(*         (text/plain, text/html), "text" (other text), "bin" (the rest)  *)
(*   up    the multipart it is in (0 for the root)                         *)
(*   disp  Content-Disposition: "none" | "inline" | "attachment"           *)
(*   name  it has a decodable file name                                    *)
(*   size  0 empty, 1 below MIN_PLAIN_BYTES, 2 up to BODY_MAX_BYTES, 3     *)
(*         above; for "html" that of the Markdown made of it               *)
(* and headers is TRUE when a header block exceeds its cap.  The empty     *)
(* sequence stands for bytes that mail-parser refuses.                     *)
(*                                                                         *)
(* Sources: crates/scryd-mime/src (parse.rs, caps.rs, body.rs,             *)
(* attachments.rs, encryption.rs, inline_images.rs, html_clean.rs).        *)
(***************************************************************************)
EXTENDS Integers, Sequences, FiniteSets, FiniteSetsExt

CONSTANTS
  MaxParts,      \* MAX_PARTS
  MaxPartDepth   \* MAX_PART_DEPTH

ASSUME MimeAssumption == MaxParts \in Nat \ {0} /\ MaxPartDepth \in Nat \ {0}

Multipart(p) == p.type \in {"multi", "encrypted", "signed"}

(***************************************************************************)
(* Caps                                                                    *)
(***************************************************************************)

Children(mail, i) == {j \in DOMAIN mail : mail[j].up = i /\ j # i}

\* Mutant of Walk: a container is not counted.
WalkLeaves(mail) ==
  LET below[i \in DOMAIN mail] ==
        IF Multipart(mail[i]) THEN Max({below[j] : j \in Children(mail, i)} \cup {1}) ELSE 1
  IN  below[1]

\* The depth of the tree, following the children of each multipart.
Walk(mail) ==
  LET below[i \in DOMAIN mail] ==
        IF Multipart(mail[i]) THEN 1 + Max({below[j] : j \in Children(mail, i)} \cup {0}) ELSE 1
  IN  below[1]

\* The cap that is exceeded first, or "none".
CheckCaps(mail, headers) ==
  IF Len(mail) > MaxParts THEN "part-count"
  ELSE IF headers THEN "header-bytes-per-part"
  ELSE IF Walk(mail) > MaxPartDepth THEN "part-depth"
  ELSE "none"

(***************************************************************************)
(* Body and attachments                                                    *)
(***************************************************************************)

\* The first part of that text type, whatever its disposition; 0 when there is none.
FirstTextPart(mail, type) ==
  LET S == {i \in DOMAIN mail : mail[i].type = type} IN IF S = {} THEN 0 ELSE Min(S)

\* The part whose text becomes the body: a plain text that is long enough, else
\* HTML, else a short plain text, else none.
SelectBody(mail) ==
  LET plain == FirstTextPart(mail, "plain")
      html  == FirstTextPart(mail, "html")
  IN  IF plain # 0 /\ mail[plain].size >= 2 THEN plain
      ELSE IF html # 0 THEN html
      ELSE IF plain # 0 /\ mail[plain].size > 0 THEN plain
      ELSE 0

IsAttachmentPart(p) ==
  \/ p.disp = "attachment"
  \/ p.disp = "inline" /\ p.name
  \/ p.type = "bin"

\* Mutant of Unnamed: a part without a name is passed over.
UnnamedIgnored(mail) == {}

\* The root is never an attachment; a part without a name is a fault, not an entry.
Unnamed(mail) == {i \in 2 .. Len(mail) : IsAttachmentPart(mail[i]) /\ ~mail[i].name}
Enumerate(mail) == {i \in 2 .. Len(mail) : IsAttachmentPart(mail[i]) /\ mail[i].name}

(***************************************************************************)
(* parse                                                                   *)
(***************************************************************************)

\* date: "header", "internal" (INTERNALDATE) or "now".
Parse(mail, headers, date) ==
  LET cap   == IF mail = <<>> THEN "outer-parse" ELSE CheckCaps(mail, headers)
      body  == SelectBody(mail)
      pgp   == mail[1].type = "encrypted"
      faults ==
        (IF date = "header" THEN {} ELSE {"DateFallback"})
        \cup (IF pgp THEN {"EncryptedNotIndexed"}
              ELSE (IF body # 0 /\ mail[body].size = 3 THEN {"BodyTruncated"} ELSE {})
                   \cup (IF Unnamed(mail) = {} THEN {} ELSE {"AttachmentNameUndecodable"}))
  IN  IF cap # "none" THEN [status |-> "unparseable", faults |-> {cap}, body |-> 0, atts |-> {}]
      ELSE [status |-> IF faults = {} THEN "parsed" ELSE "degraded",
            faults |-> faults,
            body   |-> IF pgp THEN 0 ELSE body,
            atts   |-> IF pgp THEN {} ELSE Enumerate(mail)]

(***************************************************************************)
(* Properties of a mail                                                    *)
(***************************************************************************)

\* The multiparts a part is in, itself included.
Chain(mail, i) ==
  LET up[n \in 0 .. Len(mail)] ==
        IF n = 0 THEN {i} ELSE up[n - 1] \cup ({mail[j].up : j \in up[n - 1]} \ {0})
  IN  up[Len(mail)]

\* A mail is refused for its depth exactly when some part is inside more than
\* MaxPartDepth levels, itself counted: the recursion from the root finds the
\* deepest part wherever it is in the flat list.
DepthIsNesting(mail) ==
  Len(mail) \in 1 .. MaxParts =>
    (CheckCaps(mail, FALSE) = "part-depth"
       <=> \E i \in DOMAIN mail : Cardinality(Chain(mail, i)) > MaxPartDepth)

\* Text of whatever subtype that is not marked as an attachment.
ReadableText(p) == p.type \in {"plain", "html", "text"} /\ p.disp # "attachment"

\* A mail that comes back parsed and not degraded lost nothing on the way that parse
\* is meant to keep: its body is whole, every part below the root that is neither
\* text to read nor a container is listed as an attachment, and it has a body unless
\* it has no HTML and its first plain text is empty (a later one is not looked at).
ParsedIsLossless(mail, headers, date) ==
  LET r == Parse(mail, headers, date)
  IN  r.status = "parsed" =>
        /\ r.body # 0 => mail[r.body].size < 3
        /\ \A i \in 2 .. Len(mail) :
             i \in r.atts \/ Multipart(mail[i]) \/ ReadableText(mail[i])
        /\ r.body = 0 =>
             \A i \in DOMAIN mail :
               /\ mail[i].type # "html"
               /\ mail[i].type = "plain" => \E j \in 1 .. i : mail[j].type = "plain" /\ mail[j].size = 0

=============================================================================
