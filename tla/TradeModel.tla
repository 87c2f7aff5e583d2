----------------------------- MODULE TradeModel -----------------------------
(***************************************************************************)
(* The vocabulary shared by the modules about trades: the status           *)
(* enumerations, the row of the trades table, and the way the ORM writes a *)
(* changed row back.                                                       *)
(*                                                                         *)
(* Data is abstracted to what the properties tell apart.  A timestamp      *)
(* column is modelled by whether it IS NOT NULL, an error code by its      *)
(* class, the two quantities a fill reports by one number of units.        *)
(* Columns fixed by the INSERT that no control flow reads (symbol, side,   *)
(* quantity, user_id) and binance_order_id, which is always written with   *)
(* binance_status, are left out.                                           *)
(***************************************************************************)
EXTENDS Integers, FiniteSets

CONSTANTS
  Signals,    \* signal_id values the webhook receives
  TradeIds,   \* primary keys the trades table may hand out
  Digests,    \* client order ids
  Hash,       \* the truncated SHA-256 behind a client order id
  Qty,        \* the ordered quantity, in units filled one by one
  None        \* SQL NULL, Python None

(* A key column is never NULL.                                             *)
ASSUME KeyAssumption ==
  /\ TradeIds \subseteq Nat
  /\ Hash \in [Signals -> Digests]
  /\ Qty \in Nat \ {0}
  /\ None \notin TradeIds

-----------------------------------------------------------------------------
(* Statuses                                                                *)

TradeStatus == { "PENDING", "UNKNOWN", "NEW", "PARTIALLY_FILLED", "FILLED",
                 "CANCELLED", "REJECTED", "EXPIRED", "FAILED" }

TERMINAL_STATUSES == { "FILLED", "CANCELLED", "REJECTED", "EXPIRED", "FAILED" }

\* Mutant: UNKNOWN trades are forgotten.
RECONCILABLE_WithoutUnknown == { "PENDING", "NEW", "PARTIALLY_FILLED" }

RECONCILABLE_STATUSES == { "PENDING", "UNKNOWN", "NEW", "PARTIALLY_FILLED" }

\* Statuses Binance reports; PENDING_NEW stands for those the map lacks.
BinanceStatuses ==
  { "NEW", "PENDING_NEW", "PARTIALLY_FILLED", "FILLED", "CANCELED",
    "PENDING_CANCEL", "REJECTED", "EXPIRED", "EXPIRED_IN_MATCH",
    "DRY_RUN_VALIDATED", "" }

\* Mutant: a partial fill counts as filled.
BINANCE_STATUS_MAP_PartialIsFilled(s) ==
  CASE s \in {"PARTIALLY_FILLED", "FILLED", "DRY_RUN_VALIDATED"} -> "FILLED"
    [] s \in {"CANCELED", "PENDING_CANCEL"}                      -> "CANCELLED"
    [] s = "REJECTED"                                            -> "REJECTED"
    [] s \in {"EXPIRED", "EXPIRED_IN_MATCH"}                     -> "EXPIRED"
    [] OTHER                                                     -> "NEW"

\* BINANCE_STATUS_MAP.get(s, TradeStatus.NEW)
BINANCE_STATUS_MAP(s) ==
  CASE s = "PARTIALLY_FILLED"                     -> "PARTIALLY_FILLED"
    [] s \in {"FILLED", "DRY_RUN_VALIDATED"}      -> "FILLED"
    [] s \in {"CANCELED", "PENDING_CANCEL"}       -> "CANCELLED"
    [] s = "REJECTED"                             -> "REJECTED"
    [] s \in {"EXPIRED", "EXPIRED_IN_MATCH"}      -> "EXPIRED"
    [] OTHER                                      -> "NEW"

-----------------------------------------------------------------------------
(* Rows and orders                                                         *)

\* The client order id is a function of the signal alone.
build_client_order_id(s) == Hash[s]

\* What an exchange reports of an order: BinanceOrderResult.
Order == [status : BinanceStatuses, executed_quantity : 0..Qty]

ErrorCodes == {"rate_limit", "rejected", "unavailable", "uncertain",
               "order_not_found"}

Row == [ signal_id         : Signals,
         client_order_id   : Digests,
         status            : TradeStatus,
         submitted_at      : BOOLEAN,
         binance_status    : BinanceStatuses \cup {None},
         executed_quantity : (0..Qty) \cup {None},
         error_code        : ErrorCodes \cup {None},
         reconciled_at     : BOOLEAN ]

(* NULL differs from every row, order, code and status: it can be told     *)
(* apart.                                                                  *)
ASSUME NullAssumption ==
  None \notin Row /\ None \notin Order /\ None \notin ErrorCodes \cup BinanceStatuses

\* The row _create_pending_trade inserts.
PendingRow(s) ==
  [ signal_id |-> s, client_order_id |-> build_client_order_id(s),
    status |-> "PENDING", submitted_at |-> FALSE, binance_status |-> None,
    executed_quantity |-> None, error_code |-> None, reconciled_at |-> FALSE ]

is_terminal(row) == row.status \in TERMINAL_STATUSES

(* The UPDATE a session emits sets only the columns whose value in memory  *)
(* differs from the value it loaded; the others keep whatever another      *)
(* session committed meanwhile.  There is no version column.               *)
Dirty(new, loaded, stored) == IF new # loaded THEN new ELSE stored

Flush(row, loaded, new) ==
  [row EXCEPT
     !.status = Dirty(new.status, loaded.status, row.status),
     !.binance_status =
        Dirty(new.binance_status, loaded.binance_status, row.binance_status),
     !.executed_quantity =
        Dirty(new.executed_quantity, loaded.executed_quantity,
              row.executed_quantity),
     !.error_code = Dirty(new.error_code, loaded.error_code, row.error_code),
     !.reconciled_at =
        Dirty(new.reconciled_at, loaded.reconciled_at, row.reconciled_at)]

\* Mutant: the ordered quantity is recorded as executed.
Mirror_OrderedQuantity(row, order) ==
  [row EXCEPT !.binance_status = order.status,
              !.executed_quantity = Qty,
              !.status = BINANCE_STATUS_MAP(order.status)]

\* Mutant: the exchange's status is stored as it came.
Mirror_RawStatus(row, order) ==
  [row EXCEPT !.binance_status = order.status,
              !.executed_quantity = order.executed_quantity,
              !.status = order.status]

\* Copying an order onto a trade object.
Mirror(row, order) ==
  [row EXCEPT !.binance_status = order.status,
              !.executed_quantity = order.executed_quantity,
              !.status = BINANCE_STATUS_MAP(order.status)]
=============================================================================
