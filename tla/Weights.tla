------------------------------ MODULE Weights ------------------------------
(***************************************************************************)
(* The asset bundle of the embedder: ensure_weights_present tests that the *)
(* files exist and otherwise runs scryd-fetch-weights, which downloads a   *)
(* tarball, compares its hash and unpacks it in place.  Each part may be   *)
(* cut short by an error or by the end of the process, and what is on disk *)
(* stays.  One helper runs at a time, and it ends with the host or with    *)
(* the daemon that started it.                                             *)
(*                                                                         *)
(* Sources: crates/scryd-fetch-weights/src/main.rs and the functions       *)
(* ensure_weights_present and auto_fetch_weights of                        *)
(* crates/scryd-runtime/src/serve.rs.                                      *)
(***************************************************************************)
EXTENDS Integers, FiniteSets

CONSTANT
  Required  \* REQUIRED_FILES, all of them in the bundle

ASSUME WeightsAssumption == IsFiniteSet(Required)

VARIABLES
  asset,    \* [Required -> "absent", "torn" (partly written) or "whole"]
  tarball,  \* .fetch-tmp.tar.gz: "absent", "bad" (another hash) or "good"
  fetch,    \* the helper
  done      \* files tar has written

weightVars == <<asset, tarball, fetch, done>>

\* exists(): a torn file passes.
AllPresent == \A f \in Required : asset[f] # "absent"

Fetch(from, to) == fetch = from /\ fetch' = to

\* Mutant of FetchStart: the helper downloads whether or not the files are there.
FetchStartAgain ==
  /\ Fetch("idle", "download")
  /\ done' = {}
  /\ UNCHANGED <<asset, tarball>>

\* The helper starts and looks at the files itself: all there, torn or not, is
\* success.
FetchStart ==
  /\ Fetch("idle", IF AllPresent THEN "ok" ELSE "download")
  /\ done' = {}
  /\ UNCHANGED <<asset, tarball>>

\* The response, whatever it is, replaces the file.
Download ==
  /\ Fetch("download", "verify")
  /\ tarball' \in {"good", "bad"}
  /\ UNCHANGED <<asset, done>>

\* No response, an error status, or an error while the file is written.
DownloadFails ==
  /\ Fetch("download", "failed")
  /\ tarball' \in {tarball, "bad"}
  /\ UNCHANGED <<asset, done>>

VerifyHash ==
  /\ tarball = "good"
  /\ Fetch("verify", "extract")
  /\ UNCHANGED <<asset, tarball, done>>

\* The file is removed; an error of the removal is ignored.
HashMismatch ==
  /\ tarball = "bad"
  /\ Fetch("verify", "failed")
  /\ tarball' \in {"absent", "bad"}
  /\ UNCHANGED <<asset, done>>

\* tar has finished f.
Unpacked(f) == f \in done /\ asset[f] = "whole"

\* tar creates a file anew (it unlinks an old one), then completes it.
ExtractBegin ==
  /\ fetch = "extract"
  /\ \A f \in done : asset[f] = "whole"
  /\ \E f \in Required \ done :
       /\ ~Unpacked(f)
       /\ asset' = [asset EXCEPT ![f] = "torn"] /\ done' = done \cup {f}
  /\ UNCHANGED <<tarball, fetch>>

ExtractEnd ==
  /\ fetch = "extract"
  /\ \E f \in done : asset[f] = "torn" /\ asset' = [asset EXCEPT ![f] = "whole"]
  /\ UNCHANGED <<tarball, fetch, done>>

\* tar exits with an error (no space): what it wrote stays.
ExtractFails ==
  /\ Fetch("extract", "failed")
  /\ UNCHANGED <<asset, tarball, done>>

\* tar is done: the tarball is removed and the files are looked for once more.
ExtractDone ==
  /\ \A f \in Required : Unpacked(f)
  /\ Fetch("extract", IF AllPresent THEN "ok" ELSE "failed")
  /\ tarball' \in {"absent", tarball}
  /\ UNCHANGED <<asset, done>>

FetchStep ==
  FetchStart \/ Download \/ VerifyHash \/ HashMismatch \/ ExtractBegin \/ ExtractEnd \/ ExtractDone
FetchFault == DownloadFails \/ ExtractFails

\* The helper has exited and its caller has looked at the status.
FetchReturns ==
  /\ fetch \in {"ok", "failed"} /\ fetch' = "idle"
  /\ UNCHANGED <<asset, tarball, done>>

Whole == \A f \in Required : asset[f] = "whole"

WeightsTypeOK ==
  /\ asset \in [Required -> {"absent", "torn", "whole"}]
  /\ tarball \in {"absent", "bad", "good"}
  /\ fetch \in {"idle", "download", "verify", "extract", "ok", "failed"}
  /\ done \subseteq Required

WeightsInit ==
  /\ asset = [f \in Required |-> "absent"]
  /\ tarball = "absent" /\ fetch = "idle" /\ done = {}
=============================================================================
