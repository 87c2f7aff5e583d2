--------------------------- MODULE BinanceClient ---------------------------
(***************************************************************************)
(* How the client turns one HTTP attempt into an outcome its callers act   *)
(* on.  Everything here is a pure function of the attempt: what was tried, *)
(* and when, is the business of the modules that EXTEND this one.          *)
(*                                                                         *)
(* An attempt ends in the transport or with a response.  payload is the    *)
(* order object in the body, None for any other JSON; code is the error    *)
(* code of an error body, None when there is none.                         *)
(***************************************************************************)
EXTENDS TradeModel

Transport == {"connected", "connect_error", "timeout", "transport_error"}

HttpStatuses == {200, 400, 401, 403, 418, 429, 500, 503}

ORDER_DOES_NOT_EXIST_CODE == -2013

\* The codes that mean the API key or the signature was refused.
AuthCodes == {-2014, -2015, -1022}

\* INSUFFICIENT_BALANCE and TOO_MANY_REQUESTS stand for the other codes.
BinanceCodes == {ORDER_DOES_NOT_EXIST_CODE, -2010, -1003} \cup AuthCodes

Attempt == [ transport   : Transport,
             status_code : HttpStatuses,
             code        : BinanceCodes \cup {None},
             json        : BOOLEAN,
             payload     : Order \cup {None} ]

Response(status_code, code, json, payload) ==
  [ transport |-> "connected", status_code |-> status_code, code |-> code,
    json |-> json, payload |-> payload ]

\* The fields of the response are meaningless when there is none.
NoResponse(transport) ==
  [ transport |-> transport, status_code |-> 500, code |-> None,
    json |-> FALSE, payload |-> None ]

(***************************************************************************)
(* The classes of BinanceError, "ok" where none is raised.  RateLimit and  *)
(* Auth are subclasses of Rejected.                                        *)
(***************************************************************************)
OutcomeKinds ==
  {"ok", "rate_limit", "auth", "rejected", "unavailable", "uncertain"}

RejectedErrors == {"rate_limit", "auth", "rejected"}

\* Mutant: a 5xx counts as a refusal.
handle_response_ServerErrorRefuses(a) ==
  IF a.status_code \in {429, 418}        THEN "rate_limit"
  ELSE IF a.status_code >= 400
       THEN IF a.status_code \in {401, 403} \/ a.code \in AuthCodes
            THEN "auth" ELSE "rejected"
  ELSE IF ~a.json                        THEN "uncertain"
  ELSE "ok"

handle_response(a) ==
  IF a.status_code >= 500                 THEN "uncertain"
  ELSE IF a.status_code \in {429, 418}    THEN "rate_limit"
  ELSE IF a.status_code >= 400
       THEN IF a.status_code \in {401, 403} \/ a.code \in AuthCodes
            THEN "auth" ELSE "rejected"
  ELSE IF ~a.json                         THEN "uncertain"
  ELSE "ok"

\* Mutant: every timeout counts as a failure to connect.
request_TimeoutIsUnavailable(a) ==
  CASE a.transport \in {"connect_error", "timeout"} -> "unavailable"
    [] a.transport = "transport_error"             -> "uncertain"
    [] a.transport = "connected"                   -> handle_response(a)

\* ConnectError and ConnectTimeout happen before any byte is sent; every
\* other timeout or transport error may follow a request that was acted on.
request(a) ==
  CASE a.transport = "connect_error"                  -> "unavailable"
    [] a.transport \in {"timeout", "transport_error"} -> "uncertain"
    [] a.transport = "connected"                      -> handle_response(a)

\* A body that is no order object yields an empty status and no quantity.
from_payload(payload) ==
  IF payload = None THEN [status |-> "", executed_quantity |-> 0]
                    ELSE payload

DryRunResult == [status |-> "DRY_RUN_VALIDATED", executed_quantity |-> 0]

\* What a successful place_market_order returns; POST /api/v3/order/test
\* validates without creating an order and its result is synthesised.
place_market_order(a, dry_run) ==
  IF dry_run THEN DryRunResult ELSE from_payload(a.payload)

\* Mutant: any refusal of the query is taken for the absence of the order.
NoSuchOrder_AnyRefusal(a) == request(a) \in RejectedErrors

(***************************************************************************)
(* get_order answers with the order, with the knowledge that there is      *)
(* none, or raises: then the caller has learnt nothing.                    *)
(***************************************************************************)
NoSuchOrder(a) ==
  request(a) \in RejectedErrors /\ a.code = ORDER_DOES_NOT_EXIST_CODE

Answered(a) == request(a) = "ok" \/ NoSuchOrder(a)

get_order(a) == IF NoSuchOrder(a) THEN None ELSE from_payload(a.payload)
=============================================================================
