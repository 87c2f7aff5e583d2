------------------------------ MODULE Exchange ------------------------------
(***************************************************************************)
(* The exchange and the network in front of it, as far as the client can   *)
(* tell: what may happen to an order request once it is on the wire, and   *)
(* what a query by client order id may answer.  The exchange itself is not *)
(* part of the program; this is the environment its error handling names.  *)
(***************************************************************************)
EXTENDS BinanceClient

CONSTANTS
  DryRun,       \* BINANCE_DRY_RUN: orders are validated, never created
  LateArrival,  \* an order may be created after the client gave up on it
  BookStatuses  \* the statuses orders take on this exchange

ASSUME ExchangeAssumption ==
  /\ DryRun \in BOOLEAN
  /\ LateArrival \in BOOLEAN
  /\ BookStatuses \subseteq BinanceStatuses \ {"DRY_RUN_VALIDATED", ""}

VARIABLES
  wire,   \* wire[c]: is a POST for client order id c on its way?
  book,   \* book[c]: the order with client order id c
  reply,  \* reply[c]: what came back for it, not yet read by the client
  posts   \* posts[c]: how many POSTs were ever sent (history)

exchangeVars == <<wire, book, reply, posts>>

\* "open": somebody waits for the answer; "orphan": nobody does any more.
WireStates == {"idle", "open", "orphan"}

LiveStatuses == {"NEW", "PENDING_NEW", "PARTIALLY_FILLED", "PENDING_CANCEL"}

Live(order) == order.status \in LiveStatuses

\* The filled quantity an order of each status can have.
WellFormed(order) ==
  /\ order.status \in BookStatuses
  /\ order.status \in {"NEW", "PENDING_NEW", "REJECTED"}
       => order.executed_quantity = 0
  /\ order.status = "PARTIALLY_FILLED" => order.executed_quantity \in 1..(Qty - 1)
  /\ order.status = "FILLED" => order.executed_quantity = Qty
  /\ order.status \in {"CANCELED", "PENDING_CANCEL", "EXPIRED", "EXPIRED_IN_MATCH"}
       => order.executed_quantity < Qty

Orders == {order \in Order : WellFormed(order)}

\* A later report of the same order: fills only accumulate, an order never
\* returns to the queue, and a finished order no longer moves.
Advances(old, new) ==
  /\ Live(old)
  /\ old # new
  /\ old.executed_quantity <= new.executed_quantity
  /\ new.status \in {"NEW", "PENDING_NEW"} => old.status \in {"NEW", "PENDING_NEW"}
  /\ new.status # "REJECTED"
  /\ old.status = "PENDING_CANCEL" => ~Live(new)
-----------------------------------------------------------------------------
ExchangeInit ==
  /\ wire  = [c \in Digests |-> "idle"]
  /\ book  = [c \in Digests |-> None]
  /\ reply = [c \in Digests |-> None]
  /\ posts = [c \in Digests |-> 0]

(* The client's ends of the wire.                                          *)

Send(c) ==
  /\ wire'  = [wire  EXCEPT ![c] = "open"]
  /\ reply' = [reply EXCEPT ![c] = None]
  /\ posts' = [posts EXCEPT ![c] = @ + 1]
  /\ UNCHANGED book

\* The client has read the answer, timed out or died.
Close(c) ==
  /\ wire'  = [wire  EXCEPT ![c] = IF @ = "open" THEN "orphan" ELSE @]
  /\ reply' = [reply EXCEPT ![c] = None]
  /\ UNCHANGED <<book, posts>>

\* Mutant: the client stops waiting while the request is under way.
Arrivals_Impatient(c) ==
  IF reply[c] # None THEN {reply[c]}
  ELSE {NoResponse("timeout"), NoResponse("transport_error")}

(* What the client waiting on c may find: an answer, or a timeout or a     *)
(* broken connection.  Without LateArrival the wait outlives the request:  *)
(* the exchange has acted on it, or it will never reach the exchange.      *)
Arrivals(c) ==
  IF reply[c] # None THEN {reply[c]}
  ELSE IF wire[c] = "open" /\ ~LateArrival THEN {}
  ELSE {NoResponse("timeout"), NoResponse("transport_error")}

\* What a query by client order id can return.
Answers(c) ==
  (IF book[c] = None
     THEN {Response(400, ORDER_DOES_NOT_EXIST_CODE, TRUE, None)}
     ELSE {Response(200, None, TRUE, book[c])})
  \cup { Response(503, None, FALSE, None), Response(429, -1003, TRUE, None),
         NoResponse("timeout"), NoResponse("connect_error") }
-----------------------------------------------------------------------------
(* The exchange's steps.                                                   *)

\* A server in between answers for the exchange.
ServerError == Response(503, None, FALSE, None)

\* What may come back for a request that was accepted: the order, an error
\* of a server in between, or something unreadable.
Acceptances(order) ==
  { Response(200, None, TRUE, IF DryRun THEN None ELSE order),
    ServerError, Response(200, None, FALSE, None) }

\* ... and for one that was refused or never reached the exchange.
Refusals ==
  { Response(400, -2010, TRUE, None), Response(401, -2015, TRUE, None),
    Response(429, -1003, TRUE, None), Response(418, None, FALSE, None),
    ServerError, NoResponse("connect_error") }

\* Only a client that still waits gets the reply; None: it is lost.
Deliver(c, a) ==
  IF wire[c] = "open" THEN reply' = [reply EXCEPT ![c] = a]
                      ELSE UNCHANGED reply

Execute(c) ==
  /\ wire[c] # "idle"
  /\ \E order \in Orders :
       /\ IF DryRun THEN UNCHANGED book
          ELSE book[c] = None /\ book' = [book EXCEPT ![c] = order]
       /\ \E a \in Acceptances(order) \cup {None} : Deliver(c, a)
  /\ wire' = [wire EXCEPT ![c] = "idle"]
  /\ UNCHANGED posts

Refuse(c) ==
  /\ wire[c] # "idle"
  /\ \E a \in Refusals \cup {None} : Deliver(c, a)
  /\ wire' = [wire EXCEPT ![c] = "idle"]
  /\ UNCHANGED <<book, posts>>

\* A server in between gives up on a request the exchange acts on later.
Stall(c) ==
  /\ LateArrival
  /\ wire[c] = "open"
  /\ reply' = [reply EXCEPT ![c] = ServerError]
  /\ wire'  = [wire  EXCEPT ![c] = "orphan"]
  /\ UNCHANGED <<book, posts>>

\* An order on the book fills, expires or is cancelled.
Progress(c) ==
  /\ book[c] # None
  /\ \E order \in Orders :
       /\ Advances(book[c], order)
       /\ book' = [book EXCEPT ![c] = order]
  /\ UNCHANGED <<wire, reply, posts>>

ExchangeStep == \E c \in Digests : Execute(c) \/ Refuse(c) \/ Stall(c) \/ Progress(c)
=============================================================================
