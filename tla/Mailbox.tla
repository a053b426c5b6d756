------------------------------- MODULE Mailbox ------------------------------
(***************************************************************************)
(* What a hand-over of items between threads promises: items come out one  *)
(* at a time, in the order they went in, each exactly once.  The hand-over *)
(* of the server's inbox to the main thread (ZServer) implements it, and   *)
(* so does the round trip of wait nodes by the worker (DBSqlThread).       *)
(***************************************************************************)
EXTENDS Naturals, Sequences

CONSTANTS
  Item,     \* what is handed over
  NoItem    \* not an item

VARIABLES
  queue,    \* items put in and not yet taken out
  taken     \* the item taken out last, NoItem before the first

Init == queue = <<>> /\ taken = NoItem

Put ==
  /\ Len(queue') = Len(queue) + 1
  /\ SubSeq(queue', 1, Len(queue)) = queue
  /\ queue'[Len(queue')] \in Item
  /\ UNCHANGED taken

Take ==
  /\ queue # <<>>
  /\ taken' = Head(queue)
  /\ queue' = Tail(queue)

Next == Put \/ Take

Spec == Init /\ [][Next]_<<queue, taken>>
=============================================================================
