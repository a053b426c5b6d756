---------------------------- MODULE AnswerService ---------------------------
(***************************************************************************)
(* What a server that answers requests one at a time promises: a mailbox   *)
(* whose items are requests, each answered, if its kind has an answer,     *)
(* before the next is taken.  The account server implements it with two    *)
(* threads, a registry of clients and a lookup per answer (ZServer).       *)
(*                                                                         *)
(* An item that is not numbered is not a request that was asked: it may be *)
(* answered in any way.  Where peers share an identity, an answer may go   *)
(* to any of them.                                                         *)
(***************************************************************************)
EXTENDS Mailbox

CONSTANTS
  Peer,       \* who asks
  Request,    \* what may be asked
  Answer,     \* what may be answered
  Sender(_),  \* of an item, its peer
  Number(_)   \* of an item, the number of the request among its peer's, or 0

VARIABLES
  asked,      \* the requests of each peer
  due,        \* the item taken last is still to be answered
  replies,    \* what each peer was sent
  shared      \* peers share identities

serviceVars == <<queue, taken, asked, due, replies, shared>>

\* The answers of the protocol to a request; to the others there is none.
AnswersTo(r) ==
  CASE r.kind = "C2ZS_R_LOGIN" -> {"ZS2C_A_LOGIN"}
    [] r.kind = "DS2ZS_R_CHECKDYNMICCODE" -> {"CHECK_DYNMIC_CODE_OK", "CHECK_DYNMIC_CODE_FAIL"}
    [] OTHER -> {}

RequestOf(item) == asked[Sender(item)][Number(item)]

ServiceInit ==
  /\ Init
  /\ asked = [p \in Peer |-> <<>>] /\ replies = [p \in Peer |-> <<>>]
  /\ due = FALSE /\ shared = FALSE

Ask ==
  /\ \E p \in Peer, r \in Request : asked' = [asked EXCEPT ![p] = Append(@, r)]
  /\ UNCHANGED <<queue, taken, due, replies, shared>>

Receive == Put /\ UNCHANGED <<asked, due, replies, shared>>

\* The next item is taken only when nothing is due.
Serve ==
  /\ ~due
  /\ Take
  /\ due' \in BOOLEAN
  /\ Number(taken') # 0 =>
       /\ Number(taken') \in DOMAIN asked[Sender(taken')]
       /\ due' <=> AnswersTo(RequestOf(taken')) # {}
  /\ UNCHANGED <<asked, replies, shared>>

Reply ==
  /\ due /\ due' = FALSE
  /\ \E p \in Peer, a \in Answer :
       /\ p = Sender(taken) \/ shared
       /\ Number(taken) # 0 => a \in AnswersTo(RequestOf(taken))
       /\ replies' = [replies EXCEPT ![p] =
                        Append(@, [src |-> Sender(taken), n |-> Number(taken), ans |-> a])]
  /\ UNCHANGED <<queue, taken, asked, shared>>

Share == shared' = TRUE /\ UNCHANGED <<queue, taken, asked, due, replies>>

ServiceNext == Ask \/ Receive \/ Serve \/ Reply \/ Share

ServiceSpec == ServiceInit /\ [][ServiceNext]_serviceVars
=============================================================================
