----------------------------- MODULE FileLifecycle -----------------------------
(***************************************************************************)
(* What DocFlow promises about a file, without handlers, workers, locks,   *)
(* queues or faults: chunks are received once each; a complete set of them *)
(* is finalized or fails; what is offered for download is the chunks in    *)
(* order; a deleted file is gone for good.                                 *)
(***************************************************************************)
EXTENDS Naturals

CONSTANTS
  Files,
  Orders,           \* what an upload may be announced as
  Index, Payloads,  \* the chunks it may consist of
  NoOrder, None,
  Complete(_, _),   \* are these chunks what was announced?
  InOrder(_, _),    \* their bytes as one file
  Exclusive         \* requests come one at a time and no message twice

VARIABLES
  status,           \* as a client sees it
  order,            \* the announced figures
  received,         \* the chunks accepted so far
  content           \* the bytes offered for download, or None

vars == <<status, order, received, content>>

Init ==
  /\ status = [f \in Files |-> "none"]
  /\ order = [f \in Files |-> NoOrder]
  /\ received = [f \in Files |-> [i \in Index |-> None]]
  /\ content = [f \in Files |-> None]

Announce(f) ==
  /\ status[f] = "none"
  /\ status' = [status EXCEPT ![f] = "pending"]
  /\ \E o \in Orders : order' = [order EXCEPT ![f] = o]
  /\ UNCHANGED <<received, content>>

\* A chunk on its way when its file is deleted may still be recorded.
Receive(f) ==
  /\ status[f] \in {"pending", "deleted"}
  /\ \E i \in Index, p \in Payloads :
       /\ received[f][i] = None
       /\ received' = [received EXCEPT ![f][i] = p]
  /\ UNCHANGED <<status, order, content>>

\* Concurrent completions and retries may start over what has been settled.
Start(f) ==
  /\ status[f] \in {"pending", "failed"} \/ (~Exclusive /\ status[f] = "available")
  /\ Complete(received[f], order[f])
  /\ status' = [status EXCEPT ![f] = "processing"]
  /\ content' = [content EXCEPT ![f] = None]
  /\ UNCHANGED <<order, received>>

Offer(f) ==
  /\ status[f] = "processing"
  /\ status' = [status EXCEPT ![f] = "available"]
  /\ content' = [content EXCEPT ![f] = InOrder(received[f], order[f])]
  /\ UNCHANGED <<order, received>>

Fail(f) ==
  /\ status[f] = "processing" \/ (~Exclusive /\ status[f] = "available")
  /\ status' = [status EXCEPT ![f] = "failed"]
  /\ content' = [content EXCEPT ![f] = None]
  /\ UNCHANGED <<order, received>>

Delete(f) ==
  /\ status[f] \notin {"none", "deleted"}
  /\ status' = [status EXCEPT ![f] = "deleted"]
  /\ content' = [content EXCEPT ![f] = None]
  /\ UNCHANGED <<order, received>>

Next ==
  \E f \in Files : Announce(f) \/ Receive(f) \/ Start(f) \/ Offer(f) \/ Fail(f) \/ Delete(f)

Spec == Init /\ [][Next]_vars
===============================================================================
