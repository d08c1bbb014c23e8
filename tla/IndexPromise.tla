----------------------------- MODULE IndexPromise -----------------------------
(***************************************************************************)
(* What the index queue promises to whoever enqueues a message: the request *)
(* stays pending until the whole message is in the index, the indexer has  *)
(* given up on it, or there turns out to be no such message.               *)
(***************************************************************************)

CONSTANTS Messages,  \* message_ids
          Orphans    \* message_ids under which no messages row exists

VARIABLES status,    \* [Messages -> Statuses]
          full       \* messages all of whose segments are in the index

Statuses == {"absent", "pending", "failed"}

PromiseInit ==
  /\ status = [id \in Messages |-> "absent"]
  /\ full = {}

\* A request; it is absorbed while an earlier one is pending or has failed.
Request(id) ==
  /\ status[id] = "absent"
  /\ status' = [status EXCEPT ![id] = "pending"]
  /\ UNCHANGED full

Index(id) ==
  /\ status[id] = "pending" /\ id \notin Orphans
  /\ full' = full \cup {id}
  /\ UNCHANGED status

\* The request is honoured.
Finish(id) ==
  /\ status[id] = "pending" /\ id \in full
  /\ status' = [status EXCEPT ![id] = "absent"]
  /\ UNCHANGED full

\* There is nothing to index.
Discard(id) ==
  /\ status[id] = "pending" /\ id \in Orphans
  /\ status' = [status EXCEPT ![id] = "absent"]
  /\ UNCHANGED full

GiveUp(id) ==
  /\ status[id] = "pending"
  /\ status' = [status EXCEPT ![id] = "failed"]
  /\ UNCHANGED full

PromiseNext ==
  \E id \in Messages :
    Request(id) \/ Index(id) \/ Finish(id) \/ Discard(id) \/ GiveUp(id)

PromiseSpec == PromiseInit /\ [][PromiseNext]_<<status, full>>

=============================================================================
