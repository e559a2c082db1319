------------------------------- MODULE FifoQueue -------------------------------
(***************************************************************************)
(* What the queue of a logging thread promises, without blocks, indices or *)
(* wrap-around: messages, numbered as they are sent, are delivered whole,  *)
(* once, and in that order.  LogQueue implements this specification.       *)
(***************************************************************************)
EXTENDS Naturals, Sequences

VARIABLES
  queue,     \* the messages sent and not delivered, by their numbers
  sent,      \* number of messages sent
  delivered  \* the message delivered last

Init == queue = << >> /\ sent = 0 /\ delivered = 0

Send ==
  /\ sent' = sent + 1
  /\ queue' = Append(queue, sent')
  /\ UNCHANGED delivered

Deliver ==
  /\ queue # << >>
  /\ delivered' = Head(queue)
  /\ queue' = Tail(queue)
  /\ UNCHANGED sent

Next == Send \/ Deliver

Spec == Init /\ [][Next]_<<queue, sent, delivered>>
=============================================================================
