------------------------ MODULE ReconciliationProofs ------------------------
(***************************************************************************)
(* Two specifications share their lemmas here.  First TradingService alone *)
(* for any number of signals, submitters and trades: types, at most one    *)
(* POST per client order id, and the write-ahead rule.                     *)
(*                                                                         *)
(* Then reconciliation beside the service, as the code stands: any number  *)
(* of runs at any time, orders that arrive late.  What survives without    *)
(* any discipline of the operator: types, one POST per client order id,    *)
(* the write-ahead rule, and the truth of every refusal that was recorded. *)
(***************************************************************************)
EXTENDS Reconciliation, TLAPS

(* What a commit writes is a row again, with the same keys.                *)
LEMMA FlushIsRow ==
  ASSUME NEW row \in Row, NEW loaded \in Row, NEW new \in Row
  PROVE  /\ Flush(row, loaded, new) \in Row
         /\ Flush(row, loaded, new).signal_id = row.signal_id
         /\ Flush(row, loaded, new).client_order_id = row.client_order_id
         /\ Flush(row, loaded, new).submitted_at = row.submitted_at
<1> DEFINE d1 == Dirty(new.status, loaded.status, row.status)
           d2 == Dirty(new.binance_status, loaded.binance_status, row.binance_status)
           d3 == Dirty(new.executed_quantity, loaded.executed_quantity,
                       row.executed_quantity)
           d4 == Dirty(new.error_code, loaded.error_code, row.error_code)
           d5 == Dirty(new.reconciled_at, loaded.reconciled_at, row.reconciled_at)
<1>1. d1 \in TradeStatus
  BY DEF Dirty, Row
<1>2. d2 \in BinanceStatuses \cup {None}
  BY DEF Dirty, Row
<1>3. d3 \in (0..Qty) \cup {None}
  BY DEF Dirty, Row
<1>4. d4 \in ErrorCodes \cup {None}
  BY DEF Dirty, Row
<1>5. d5 \in BOOLEAN
  BY DEF Dirty, Row
<1>6. Flush(row, loaded, new) =
        [row EXCEPT !.status = d1, !.binance_status = d2, !.executed_quantity = d3,
                    !.error_code = d4, !.reconciled_at = d5]
  BY DEF Flush
<1> HIDE DEF d1, d2, d3, d4, d5
<1> QED BY <1>1, <1>2, <1>3, <1>4, <1>5, <1>6 DEF Row

(* The statuses the two maps produce are TradeStatus members.              *)
LEMMA MappedStatus ==
  ASSUME NEW s
  PROVE  BINANCE_STATUS_MAP(s) \in TradeStatus
BY DEF BINANCE_STATUS_MAP, TradeStatus

(* Copying an order of the exchange onto a row yields a row.              *)
LEMMA MirrorIsRow ==
  ASSUME NEW row \in Row, NEW order \in Order
  PROVE  Mirror(row, order) \in Row
BY MappedStatus DEF Mirror, Row, Order

(* So does recording what reconcile_trade found.                          *)
LEMMA ReconciledIsRow ==
  ASSUME NEW row \in Row, NEW found \in Order \cup {None}
  PROVE  Reconciled(row, found) \in Row
<1>1. CASE found = None
  BY <1>1 DEF Reconciled, Row, TradeStatus, ErrorCodes
<1>2. CASE found # None
  <2>1. Mirror(row, found) \in Row
    BY <1>2, MirrorIsRow
  <2>2. Reconciled(row, found) =
          [Mirror(row, found) EXCEPT
             !.error_code = IF Mirror(row, found).status \in {"REJECTED", "FAILED"}
                              THEN @ ELSE None,
             !.reconciled_at = TRUE]
    BY <1>2 DEF Reconciled
  <2> QED BY <2>1, <2>2 DEF Row
<1> QED BY <1>1, <1>2

(* _create_pending_trade inserts a row with the id of its signal.         *)
LEMMA PendingIsRow ==
  ASSUME NEW s \in Signals
  PROVE  /\ PendingRow(s) \in Row
         /\ PendingRow(s).client_order_id = Hash[s]
         /\ PendingRow(s).submitted_at = FALSE
BY KeyAssumption DEF PendingRow, Row, build_client_order_id, TradeStatus

(* What the exchange sends, and what a client without an answer notes, are *)
(* attempts.                                                               *)
LEMMA AttemptTypes ==
  /\ \A o \in Order : Acceptances(o) \subseteq Attempt
  /\ Refusals \subseteq Attempt
  /\ ServerError \in Attempt
  /\ {NoResponse("timeout"), NoResponse("transport_error")} \subseteq Attempt
<1>1. ASSUME NEW o \in Order
      PROVE  Acceptances(o) \subseteq Attempt
  BY DEF Acceptances, ServerError, Response, Attempt, Transport, HttpStatuses
<1>2. Refusals \subseteq Attempt
  BY DEF Refusals, ServerError, NoResponse, Response, Attempt, Transport,
         HttpStatuses, BinanceCodes, AuthCodes
<1>3. ServerError \in Attempt
  BY DEF ServerError, Response, Attempt, Transport, HttpStatuses
<1>4. {NoResponse("timeout"), NoResponse("transport_error")} \subseteq Attempt
  BY DEF NoResponse, Attempt, Transport, HttpStatuses
<1> QED BY <1>1, <1>2, <1>3, <1>4

(* Whatever came back, the client makes an order of it, or finds none.    *)
LEMMA ResultIsOrder ==
  ASSUME NEW a \in Attempt, NEW dry \in BOOLEAN
  PROVE  /\ place_market_order(a, dry) \in Order
         /\ get_order(a) \in Order \cup {None}
<1>1. 0 \in 0..Qty
  BY KeyAssumption
<1>2. DryRunResult \in Order /\ [status |-> "", executed_quantity |-> 0] \in Order
  BY <1>1 DEF DryRunResult, Order, BinanceStatuses
<1>3. a.payload \in Order \cup {None}
  BY DEF Attempt
<1>4. from_payload(a.payload) \in Order
  BY <1>2, <1>3 DEF from_payload
<1> QED BY <1>2, <1>4 DEF place_market_order, get_order
-----------------------------------------------------------------------------
(* Steps that neither create, claim nor send.                              *)

\* The rows keep their keys and their submitted_at.
SameKeys ==
  \A t \in TradeIds :
    /\ db'[t] = None <=> db[t] = None
    /\ db[t] # None => /\ db'[t].client_order_id = db[t].client_order_id
                       /\ db'[t].submitted_at = db[t].submitted_at

\* What is on the wire or on the book can be traced to what was there.
NoNewRequest ==
  /\ posts' = posts
  /\ \A c \in Digests : wire'[c] # "idle" \/ book'[c] # None
                          => wire[c] # "idle" \/ book[c] # None

\* Sessions end, or go on with the trade they hold.
GoesOn(w) ==
  /\ sub[w].pc # "idle"
  /\ sub'[w].tid = sub[w].tid
  /\ sub'[w].pc = "claimed" => sub[w].pc = "claimed"
  /\ sub'[w].pc # "claimed" =>
       sub'[w].obj # None /\ sub'[w].obj.client_order_id = Cid(sub[w].tid)

SessionsGoOn == \A w \in Submitters : sub'[w].pc = "idle" \/ GoesOn(w)

(* Such a step preserves the invariant.                                   *)
LEMMA KeepingKeysPreservesIInv ==
  ASSUME IInv, TypeOK', SameKeys, NoNewRequest, SessionsGoOn
  PROVE  IInv'
<1>1. Used' = Used
  BY DEF Used, SameKeys
<1>2. \A t \in Used : Cid(t)' = Cid(t) /\ db'[t].submitted_at = db[t].submitted_at
  BY DEF Used, SameKeys, Cid
<1>3. SessionsHoldRows'
  BY <1>1, <1>2 DEF IInv, SessionsHoldRows, SessionsGoOn, GoesOn
<1>4. OneHolder'
  BY DEF IInv, OneHolder, SessionsGoOn, GoesOn
<1>5. UniqueCids'
  BY <1>1, <1>2 DEF IInv, UniqueCids
<1>6. SentIsClaimed'
  <2>1. ASSUME NEW t \in Used', ~db'[t].submitted_at
        PROVE  posts'[Cid(t)'] = 0
    BY <1>1, <1>2, <2>1 DEF IInv, SentIsClaimed, NoNewRequest
  <2>2. ASSUME NEW w \in Submitters, sub'[w].pc = "claimed"
        PROVE  posts'[db'[sub'[w].tid].client_order_id] = 0
    <3>1. sub[w].pc = "claimed" /\ sub'[w].tid = sub[w].tid /\ sub[w].tid \in Used
      BY <2>2 DEF IInv, SessionsHoldRows, SessionsGoOn, GoesOn
    <3>2. db'[sub[w].tid].client_order_id = db[sub[w].tid].client_order_id
      BY <1>2, <3>1 DEF Cid
    <3> QED BY <3>1, <3>2 DEF IInv, SentIsClaimed, NoNewRequest, Cid
  <2> QED BY <2>1, <2>2 DEF SentIsClaimed, Cid
<1>7. OneOrderPerSignal'
  BY DEF IInv, OneOrderPerSignal, NoNewRequest
<1>8. WriteAhead'
  BY <1>1, <1>2 DEF IInv, WriteAhead, NoNewRequest
<1> QED BY <1>3, <1>4, <1>5, <1>6, <1>7, <1>8 DEF IInv
-----------------------------------------------------------------------------
(* The exchange's steps.                                                   *)

(* Delivering an attempt keeps the replies typed.                         *)
LEMMA DeliverKeepsType ==
  ASSUME NEW c \in Digests, NEW a \in Attempt \cup {None}, Deliver(c, a),
         reply \in [Digests -> Attempt \cup {None}]
  PROVE  reply' \in [Digests -> Attempt \cup {None}]
BY DEF Deliver

(* No step of the exchange disturbs the invariant: it acts on requests    *)
(* that were sent, and sends none.                                        *)
LEMMA ExchangePreservesIInv ==
  ASSUME IInv, Exchanging
  PROVE  IInv'
<1> USE DEF IInv
<1>1. PICK c \in Digests : Execute(c) \/ Refuse(c) \/ Stall(c) \/ Progress(c)
  BY DEF Exchanging, ExchangeStep
<1>2. UNCHANGED <<db, sub>>
  BY DEF Exchanging, submitterVars
<1>3. /\ wire' \in [Digests -> WireStates]
      /\ book' \in [Digests -> Order \cup {None}]
      /\ reply' \in [Digests -> Attempt \cup {None}]
      /\ NoNewRequest
  <2>1. CASE Execute(c)
    <3>1. PICK order \in Orders :
            /\ IF DryRun THEN UNCHANGED book
               ELSE book[c] = None /\ book' = [book EXCEPT ![c] = order]
            /\ \E a \in Acceptances(order) \cup {None} : Deliver(c, a)
      BY <2>1 DEF Execute
    <3>2. order \in Order
      BY DEF Orders
    <3>3. reply' \in [Digests -> Attempt \cup {None}]
      BY <3>1, <3>2, AttemptTypes, DeliverKeepsType DEF TypeOK
    <3>4. /\ wire[c] # "idle"
          /\ wire' = [wire EXCEPT ![c] = "idle"]
          /\ posts' = posts
      BY <2>1 DEF Execute
    <3> QED BY <3>1, <3>2, <3>3, <3>4 DEF TypeOK, WireStates, NoNewRequest
  <2>2. CASE Refuse(c)
    <3>1. /\ wire' = [wire EXCEPT ![c] = "idle"]
          /\ UNCHANGED <<book, posts>>
      BY <2>2 DEF Refuse
    <3>2. reply' \in [Digests -> Attempt \cup {None}]
      BY <2>2, AttemptTypes, DeliverKeepsType DEF TypeOK, Refuse
    <3> QED BY <3>1, <3>2 DEF TypeOK, WireStates, NoNewRequest
  <2>3. CASE Stall(c)
    BY <2>3, AttemptTypes DEF Stall, TypeOK, WireStates, NoNewRequest
  <2>4. CASE Progress(c)
    BY <2>4 DEF Progress, Orders, TypeOK, NoNewRequest
  <2> QED BY <1>1, <2>1, <2>2, <2>3, <2>4
<1>4. TypeOK'
  BY <1>2, <1>3 DEF TypeOK, NoNewRequest
<1>5. SameKeys
  BY <1>2 DEF SameKeys
<1>6. SessionsGoOn
  BY <1>2 DEF SessionsGoOn, GoesOn, SessionsHoldRows
<1> QED BY <1>3, <1>4, <1>5, <1>6, KeepingKeysPreservesIInv
-----------------------------------------------------------------------------
(* The steps of a session after it has sent.                               *)

(* A commit of a session never touches a key or submitted_at.             *)
LEMMA CommitKeepsKeys ==
  ASSUME NEW t \in Used, NEW loaded \in Row, NEW new \in Row, TypeOK,
         Commit(t, loaded, new)
  PROVE  /\ db' \in [TradeIds -> Row \cup {None}]
         /\ SameKeys
<1>1. db[t] \in Row /\ t \in TradeIds
  BY DEF TypeOK, Used
<1>2. CASE UNCHANGED db
  BY <1>2 DEF TypeOK, SameKeys
<1>3. CASE db' = [db EXCEPT ![t] = Flush(@, loaded, new)]
  <2> DEFINE row == Flush(db[t], loaded, new)
  <2>1. /\ row \in Row
        /\ row.client_order_id = db[t].client_order_id
        /\ row.submitted_at = db[t].submitted_at
    BY <1>1, FlushIsRow
  <2>2. db' = [db EXCEPT ![t] = row]
    BY <1>3
  <2> HIDE DEF row
  <2> QED BY <1>1, <2>1, <2>2, NullAssumption DEF TypeOK, SameKeys
<1> QED BY <1>2, <1>3 DEF Commit

(* Giving up on a request creates none.                                   *)
LEMMA CloseKeepsRequests ==
  ASSUME NEW c \in Digests, TypeOK, Close(c)
  PROVE  /\ wire' \in [Digests -> WireStates]
         /\ book' \in [Digests -> Order \cup {None}]
         /\ reply' \in [Digests -> Attempt \cup {None}]
         /\ posts' \in [Digests -> Nat]
         /\ NoNewRequest
BY DEF TypeOK, Close, WireStates, NoNewRequest

(* The end of one session leaves the others as they were.                 *)
LEMMA LeavingGoesOn ==
  ASSUME NEW w \in Submitters, TypeOK, SessionsHoldRows, Leave(w)
  PROVE  /\ sub' \in [Submitters -> Session]
         /\ SessionsGoOn
<1>1. NoSession \in Session
  BY DEF NoSession, Session, Phases
<1>2. sub' \in [Submitters -> Session]
  BY <1>1 DEF TypeOK, Leave
<1>3. sub'[w].pc = "idle"
  BY DEF TypeOK, Leave, NoSession
<1>4. \A v \in Submitters \ {w} : sub'[v] = sub[v]
  BY DEF TypeOK, Leave
<1>5. \A v \in Submitters \ {w} : sub[v].pc = "idle" \/ GoesOn(v)
  BY <1>4 DEF GoesOn, SessionsHoldRows
<1> QED BY <1>2, <1>3, <1>4, <1>5 DEF SessionsGoOn

(* What a session that has sent knows of its trade.                        *)
LEMMA SentSession ==
  ASSUME NEW w \in Submitters, IInv, sub[w].pc \in {"posting", "uncertain", "asked"}
  PROVE  /\ sub[w].tid \in Used
         /\ sub[w].obj \in Row
         /\ sub[w].obj.client_order_id \in Digests
         /\ sub[w].obj.client_order_id = Cid(sub[w].tid)
         /\ sub[w].found \in Order \cup {None}
<1>1. sub[w].tid \in Used /\ sub[w].obj # None
      /\ sub[w].obj.client_order_id = Cid(sub[w].tid)
  BY DEF IInv, SessionsHoldRows
<1>2. sub[w].obj \in Row \cup {None} /\ sub[w].found \in Order \cup {None}
  BY DEF IInv, TypeOK, Session
<1> QED BY <1>1, <1>2 DEF Row

(* A step that commits a row, closes or keeps the wire and ends a session. *)
LEMMA FinishingPreservesIInv ==
  ASSUME NEW w \in Submitters, NEW new \in Row, IInv,
         sub[w].pc \in {"posting", "uncertain", "asked"},
         Commit(sub[w].tid, sub[w].obj, new),
         Close(sub[w].obj.client_order_id) \/ UNCHANGED exchangeVars,
         Leave(w)
  PROVE  IInv'
<1>1. /\ db' \in [TradeIds -> Row \cup {None}]
      /\ SameKeys
  BY SentSession, CommitKeepsKeys DEF IInv
<1>2. /\ wire' \in [Digests -> WireStates]
      /\ book' \in [Digests -> Order \cup {None}]
      /\ reply' \in [Digests -> Attempt \cup {None}]
      /\ posts' \in [Digests -> Nat]
      /\ NoNewRequest
  <2>1. CASE Close(sub[w].obj.client_order_id)
    BY <2>1, SentSession, CloseKeepsRequests DEF IInv
  <2>2. CASE UNCHANGED exchangeVars
    BY <2>2 DEF IInv, TypeOK, exchangeVars, NoNewRequest
  <2> QED BY <2>1, <2>2
<1>3. sub' \in [Submitters -> Session] /\ SessionsGoOn
  BY LeavingGoesOn DEF IInv
<1>4. TypeOK'
  BY <1>1, <1>2, <1>3 DEF TypeOK
<1> QED BY <1>1, <1>2, <1>3, <1>4, KeepingKeysPreservesIInv

(* What a waiting client finds is an attempt.                             *)
LEMMA ArrivalIsAttempt ==
  ASSUME TypeOK, NEW c \in Digests, NEW a \in Arrivals(c)
  PROVE  a \in Attempt
<1>1. CASE reply[c] # None
  BY <1>1 DEF Arrivals, TypeOK
<1>2. CASE reply[c] = None
  BY <1>2, AttemptTypes DEF Arrivals
<1> QED BY <1>1, <1>2

(* _finalise_success and _finalise_failure.                                *)
LEMMA FinalisePreservesIInv ==
  ASSUME IInv, NEW w \in Submitters, sub[w].pc = "posting", NEW a \in Attempt,
         finalise_success(w, a) \/ finalise_failure(w, a)
  PROVE  IInv'
<1>1. sub[w].obj \in Row
  BY SentSession
<1>2. Leave(w) /\ Close(sub[w].obj.client_order_id)
  BY DEF finalise_success, finalise_failure, EndOfWait
<1>3. CASE finalise_success(w, a)
  <2> DEFINE order == place_market_order(a, DryRun)
             mirrored == Mirror(sub[w].obj, order)
             new == [mirrored EXCEPT !.error_code = None]
  <2>1. order \in Order
    BY ResultIsOrder, ExchangeAssumption
  <2>2. mirrored \in Row
    BY <1>1, <2>1, MirrorIsRow
  <2>3. Commit(sub[w].tid, sub[w].obj, new)
    BY <1>3 DEF finalise_success
  <2>4. new \in Row
    <3> HIDE DEF mirrored
    <3> QED BY <2>2 DEF Row
  <2> HIDE DEF new
  <2> QED BY <1>2, <2>3, <2>4, FinishingPreservesIInv
<1>4. CASE finalise_failure(w, a)
  <2> DEFINE verdict == Refusal(request(a))
             new == [sub[w].obj EXCEPT !.status = verdict[1], !.error_code = verdict[2]]
  <2>1. verdict[1] \in TradeStatus /\ verdict[2] \in ErrorCodes
    <3>1. request(a) \in {"rate_limit", "auth", "rejected", "unavailable"}
      BY <1>4 DEF finalise_failure
    <3> QED BY <3>1 DEF Refusal, TradeStatus, ErrorCodes
  <2>2. Commit(sub[w].tid, sub[w].obj, new)
    BY <1>4 DEF finalise_failure
  <2>3. new \in Row
    <3> HIDE DEF verdict
    <3> QED BY <1>1, <2>1 DEF Row
  <2> HIDE DEF new
  <2> QED BY <1>2, <2>2, <2>3, FinishingPreservesIInv
<1> QED BY <1>3, <1>4

(* _handle_uncertain_outcome: the session ends, or goes on to ask.         *)
LEMMA UncertainPreservesIInv ==
  ASSUME IInv, NEW w \in Submitters, sub[w].pc = "posting", NEW a \in Attempt,
         handle_uncertain_outcome(w, a)
  PROVE  IInv'
<1> DEFINE old == sub[w].obj
           new == [old EXCEPT !.status = "UNKNOWN", !.error_code = "uncertain"]
<1>1. /\ sub[w].tid \in Used
      /\ old \in Row
      /\ old.client_order_id \in Digests
      /\ old.client_order_id = Cid(sub[w].tid)
  BY SentSession
<1>2. /\ new \in Row
      /\ new.client_order_id = old.client_order_id
  <2> HIDE DEF old
  <2> QED BY <1>1 DEF Row, TradeStatus, ErrorCodes
<1>3. Close(old.client_order_id)
  BY DEF handle_uncertain_outcome, EndOfWait
<1>4. CASE Commit(sub[w].tid, old, new) /\ Leave(w)
  <2> HIDE DEF new
  <2> QED BY <1>2, <1>3, <1>4, FinishingPreservesIInv
<1>5. CASE /\ db' = [db EXCEPT ![sub[w].tid] = Flush(@, old, new)]
           /\ sub' = [sub EXCEPT ![w].pc = "uncertain", ![w].obj = new]
  <2> HIDE DEF new
  <2>1. Commit(sub[w].tid, old, new)
    BY <1>5 DEF Commit
  <2>2. /\ db' \in [TradeIds -> Row \cup {None}]
        /\ SameKeys
    BY <1>1, <1>2, <2>1, CommitKeepsKeys DEF IInv
  <2>3. /\ wire' \in [Digests -> WireStates]
        /\ book' \in [Digests -> Order \cup {None}]
        /\ reply' \in [Digests -> Attempt \cup {None}]
        /\ posts' \in [Digests -> Nat]
        /\ NoNewRequest
    BY <1>1, <1>3, CloseKeepsRequests DEF IInv
  <2>4. sub' \in [Submitters -> Session]
    <3> DEFINE session == [sub[w] EXCEPT !.pc = "uncertain", !.obj = new]
    <3>1. sub \in [Submitters -> Session] /\ sub[w] \in Session
      BY DEF IInv, TypeOK
    <3>2. session \in Session
      BY <1>2, <3>1 DEF Session, Phases
    <3>3. sub' = [sub EXCEPT ![w] = session]
      BY <1>5, <3>1
    <3> HIDE DEF session
    <3> QED BY <3>1, <3>2, <3>3
  <2>5. /\ sub'[w].pc = "uncertain" /\ sub'[w].tid = sub[w].tid /\ sub'[w].obj = new
        /\ \A v \in Submitters \ {w} : sub'[v] = sub[v]
    BY <1>5 DEF IInv, TypeOK, Session
  <2>6. GoesOn(w)
    BY <1>1, <1>2, <2>5, NullAssumption DEF GoesOn
  <2>7. \A v \in Submitters \ {w} : sub'[v].pc = "idle" \/ GoesOn(v)
    BY <2>5 DEF GoesOn, IInv, SessionsHoldRows
  <2>8. TypeOK' /\ SessionsGoOn
    BY <2>2, <2>3, <2>4, <2>6, <2>7 DEF TypeOK, SessionsGoOn
  <2> QED BY <2>2, <2>3, <2>8, KeepingKeysPreservesIInv
<1> QED BY <1>4, <1>5 DEF handle_uncertain_outcome

(* An answer that counts as one yields an order of the exchange or None.   *)
LEMMA AnswersAreKnown ==
  ASSUME TypeOK, NEW c \in Digests, NEW a \in Answers(c)
  PROVE  get_order(a) \in Order \cup {None}
<1>1. a.payload \in Order \cup {None}
  BY DEF Answers, Response, NoResponse, ServerError, TypeOK
<1>2. from_payload(a.payload) \in Order
  <2>1. 0 \in 0..Qty
    BY KeyAssumption
  <2>2. [status |-> "", executed_quantity |-> 0] \in Order
    BY <2>1 DEF Order, BinanceStatuses
  <2> QED BY <1>1, <2>2 DEF from_payload
<1> QED BY <1>2 DEF get_order

\* The query that follows: nothing but the session changes.
LEMMA AskPreservesIInv ==
  ASSUME IInv, NEW w \in Submitters, ask_at_once(w)
  PROVE  IInv'
<1>1. sub[w].pc = "uncertain" /\ UNCHANGED <<db, wire, book, reply, posts>>
  BY DEF ask_at_once, exchangeVars
<1>2. /\ sub[w].tid \in Used
      /\ sub[w].obj # None
      /\ sub[w].obj.client_order_id = Cid(sub[w].tid)
      /\ sub[w].obj.client_order_id \in Digests
  BY <1>1, SentSession, NullAssumption
<1>3. PICK a \in Answers(sub[w].obj.client_order_id) :
        IF Answered(a)
          THEN sub' = [sub EXCEPT ![w].pc = "asked", ![w].found = get_order(a)]
          ELSE Leave(w)
  BY DEF ask_at_once
<1>4. SameKeys /\ NoNewRequest
  BY <1>1 DEF SameKeys, NoNewRequest
<1>5. CASE Leave(w)
  <2>1. sub' \in [Submitters -> Session] /\ SessionsGoOn
    BY <1>5, LeavingGoesOn DEF IInv
  <2>2. TypeOK'
    BY <1>1, <2>1 DEF IInv, TypeOK
  <2> QED BY <1>4, <2>1, <2>2, KeepingKeysPreservesIInv
<1>6. CASE sub' = [sub EXCEPT ![w].pc = "asked", ![w].found = get_order(a)]
  <2> DEFINE answer == get_order(a)
  <2>1. answer \in Order \cup {None}
    BY <1>2, <1>3, AnswersAreKnown DEF IInv
  <2>2. sub' \in [Submitters -> Session]
    <3>1. sub' = [sub EXCEPT ![w].pc = "asked", ![w].found = answer]
      BY <1>6
    <3> HIDE DEF answer
    <3>2. [sub[w] EXCEPT !.pc = "asked", !.found = answer] \in Session
      <4>1. sub[w] \in Session
        BY DEF IInv, TypeOK
      <4> QED BY <2>1, <4>1 DEF Session, Phases
    <3> QED BY <3>1, <3>2 DEF IInv, TypeOK
  <2>3. /\ sub'[w].pc = "asked" /\ sub'[w].tid = sub[w].tid /\ sub'[w].obj = sub[w].obj
        /\ \A v \in Submitters \ {w} : sub'[v] = sub[v]
    BY <1>6 DEF IInv, TypeOK, Session
  <2>4. GoesOn(w)
    BY <1>1, <1>2, <2>3 DEF GoesOn
  <2>5. \A v \in Submitters \ {w} : sub'[v].pc = "idle" \/ GoesOn(v)
    BY <2>3 DEF GoesOn, IInv, SessionsHoldRows
  <2>6. SessionsGoOn
    BY <2>4, <2>5 DEF SessionsGoOn
  <2>7. TypeOK'
    BY <1>1, <2>2 DEF IInv, TypeOK
  <2> QED BY <1>4, <2>6, <2>7, KeepingKeysPreservesIInv
<1> QED BY <1>3, <1>5, <1>6

(* The answer of reconcile_trade is recorded and the session ends.        *)
LEMMA RecordAnswerPreservesIInv ==
  ASSUME IInv, NEW w \in Submitters, record_answer(w)
  PROVE  IInv'
<1> DEFINE new == Reconciled(sub[w].obj, sub[w].found)
<1>1. sub[w].pc = "asked" /\ Commit(sub[w].tid, sub[w].obj, new) /\ Leave(w)
      /\ UNCHANGED exchangeVars
  BY DEF record_answer
<1>2. new \in Row
  BY <1>1, SentSession, ReconciledIsRow
<1> HIDE DEF new
<1> QED BY <1>1, <1>2, FinishingPreservesIInv

(* A session that is killed or cancelled leaves its claimed row behind.   *)
LEMMA AbandonPreservesIInv ==
  ASSUME IInv, NEW w \in Submitters, Abandon(w)
  PROVE  IInv'
<1>1. Leave(w) /\ UNCHANGED db
  BY DEF Abandon
<1>2. /\ wire' \in [Digests -> WireStates]
      /\ book' \in [Digests -> Order \cup {None}]
      /\ reply' \in [Digests -> Attempt \cup {None}]
      /\ posts' \in [Digests -> Nat]
      /\ NoNewRequest
  <2>1. CASE sub[w].pc = "posting"
    BY <2>1, SentSession, CloseKeepsRequests DEF IInv, Abandon
  <2>2. CASE sub[w].pc # "posting"
    BY <2>2 DEF IInv, TypeOK, Abandon, exchangeVars, NoNewRequest
  <2> QED BY <2>1, <2>2
<1>3. sub' \in [Submitters -> Session] /\ SessionsGoOn
  BY <1>1, LeavingGoesOn DEF IInv
<1>4. TypeOK' /\ SameKeys
  BY <1>1, <1>2, <1>3 DEF IInv, TypeOK, SameKeys
<1> QED BY <1>2, <1>3, <1>4, KeepingKeysPreservesIInv
-----------------------------------------------------------------------------
(* The steps that insert, claim and send.                                  *)

\* A new row has never been seen by the exchange: WriteAhead says that a
\* POST implies a row, and the index says that there was none.
LEMMA CreatePreservesIInv ==
  ASSUME IInv, NEW s \in Signals, create_pending_trade(s)
  PROVE  IInv'
<1> DEFINE row == PendingRow(s)
<1>1. PICK t \in TradeIds \ Used : db' = [db EXCEPT ![t] = row]
  BY DEF create_pending_trade
<1>2. /\ UNCHANGED <<sub, wire, book, reply, posts>>
      /\ \A u \in Used : Cid(u) # row.client_order_id
  BY DEF create_pending_trade, exchangeVars, ViolatesUnique, Cid
<1>3. /\ row \in Row
      /\ row.client_order_id \in Digests
      /\ row.submitted_at = FALSE
      /\ row # None
  BY PendingIsRow, KeyAssumption, NullAssumption
<1>4. posts[row.client_order_id] = 0
  BY <1>2, <1>3 DEF IInv, WriteAhead, TypeOK
<1> HIDE DEF row
<1>5. /\ Used' = Used \cup {t}
      /\ \A u \in Used : db'[u] = db[u] /\ Cid(u)' = Cid(u)
      /\ db'[t] = row /\ Cid(t)' = row.client_order_id
      /\ t \notin Used
  BY <1>1, <1>3 DEF IInv, TypeOK, Used, Cid
<1>6. TypeOK'
  BY <1>1, <1>2, <1>3 DEF IInv, TypeOK
<1>7. SessionsHoldRows'
  BY <1>2, <1>5 DEF IInv, SessionsHoldRows
<1>8. OneHolder'
  BY <1>2 DEF IInv, OneHolder
<1>9. UniqueCids'
  BY <1>2, <1>5 DEF IInv, UniqueCids
<1>10. SentIsClaimed'
  <2>1. \A u \in Used' : ~db'[u].submitted_at => posts'[Cid(u)'] = 0
    BY <1>2, <1>4, <1>5 DEF IInv, SentIsClaimed
  <2>2. \A w \in Submitters : sub'[w].pc = "claimed" => posts'[db'[sub'[w].tid].client_order_id] = 0
    <3>1. SUFFICES ASSUME NEW w \in Submitters, sub[w].pc = "claimed"
                   PROVE  posts[db'[sub[w].tid].client_order_id] = 0
      BY <1>2
    <3>2. sub[w].tid \in Used
      BY <3>1 DEF IInv, SessionsHoldRows
    <3> QED BY <3>1, <3>2, <1>5 DEF IInv, SentIsClaimed, Cid
  <2> QED BY <2>1, <2>2 DEF SentIsClaimed, Cid
<1>11. OneOrderPerSignal'
  BY <1>2 DEF IInv, OneOrderPerSignal
<1>12. WriteAhead'
  BY <1>2, <1>5 DEF IInv, WriteAhead
<1> QED BY <1>6, <1>7, <1>8, <1>9, <1>10, <1>11, <1>12 DEF IInv

\* Only one session can make the row say that it was submitted, and nothing
\* was sent for the row while it did not.
LEMMA ClaimPreservesIInv ==
  ASSUME IInv, NEW w \in Submitters, NEW t \in TradeIds, claim_for_submission(w, t)
  PROVE  IInv'
<1> DEFINE row == [db[t] EXCEPT !.submitted_at = TRUE]
           claimed == [NoSession EXCEPT !.pc = "claimed", !.tid = t]
<1>1. /\ sub[w].pc = "idle"
      /\ db[t] # None /\ t \in Used
      /\ ~db[t].submitted_at
      /\ db' = [db EXCEPT ![t] = row]
      /\ sub' = [sub EXCEPT ![w] = claimed] \/ sub' = sub
      /\ UNCHANGED <<wire, book, reply, posts>>
  BY DEF claim_for_submission, Claimable, exchangeVars, Used
<1>2. row \in Row /\ row.submitted_at /\ row.client_order_id = Cid(t) /\ row # None
  BY <1>1, NullAssumption DEF IInv, TypeOK, Row, Cid
<1>3. claimed \in Session /\ claimed.pc = "claimed" /\ claimed.tid = t
  BY DEF NoSession, Session, Phases
<1> HIDE DEF row, claimed
<1>4. /\ Used' = Used
      /\ \A u \in Used : Cid(u)' = Cid(u)
      /\ \A u \in Used \ {t} : db'[u] = db[u]
      /\ db'[t].submitted_at
  BY <1>1, <1>2 DEF IInv, TypeOK, Used, Cid
<1>5. \A v \in Submitters :
        \/ sub'[v] = sub[v]
        \/ v = w /\ sub'[v].pc = "claimed" /\ sub'[v].tid = t
  BY <1>1, <1>3 DEF IInv, TypeOK
<1>6. \A v \in Submitters : sub[v].pc # "idle" => sub[v].tid # t
  BY <1>1 DEF IInv, SessionsHoldRows
<1>7. TypeOK'
  BY <1>1, <1>2, <1>3 DEF IInv, TypeOK
<1>8. SessionsHoldRows'
  <2>1. SUFFICES ASSUME NEW v \in Submitters, sub'[v].pc # "idle"
                 PROVE  /\ sub'[v].tid \in Used'
                        /\ db'[sub'[v].tid].submitted_at
                        /\ sub'[v].pc # "claimed" =>
                             /\ sub'[v].obj # None
                             /\ sub'[v].obj.client_order_id
                                  = db'[sub'[v].tid].client_order_id
    BY DEF SessionsHoldRows, Cid
  <2>2. CASE sub'[v] = sub[v]
    BY <1>4, <2>1, <2>2 DEF IInv, SessionsHoldRows, Cid
  <2>3. CASE sub'[v].pc = "claimed" /\ sub'[v].tid = t
    BY <1>1, <1>4, <2>3
  <2> QED BY <1>5, <2>2, <2>3
<1>9. OneHolder'
  <2>1. SUFFICES ASSUME NEW u \in Submitters, NEW v \in Submitters,
                        sub'[u].pc # "idle", sub'[v].pc # "idle",
                        sub'[u].tid = sub'[v].tid
                 PROVE  u = v
    BY DEF OneHolder
  <2> QED BY <1>5, <1>6, <2>1 DEF IInv, OneHolder
<1>10. UniqueCids'
  BY <1>4 DEF IInv, UniqueCids
<1>11. SentIsClaimed'
  <2>1. \A u \in Used' : ~db'[u].submitted_at => posts'[Cid(u)'] = 0
    BY <1>1, <1>4 DEF IInv, SentIsClaimed
  <2>2. ASSUME NEW v \in Submitters, sub'[v].pc = "claimed"
        PROVE  posts'[db'[sub'[v].tid].client_order_id] = 0
    <3>1. posts[Cid(t)] = 0
      BY <1>1 DEF IInv, SentIsClaimed
    <3>2. CASE sub'[v] = sub[v]
      BY <1>1, <1>4, <2>2, <3>2 DEF IInv, SentIsClaimed, SessionsHoldRows, Cid
    <3>3. CASE sub'[v].tid = t
      BY <1>1, <1>4, <3>1, <3>3 DEF Cid
    <3> QED BY <1>5, <3>2, <3>3
  <2> QED BY <2>1, <2>2 DEF SentIsClaimed, Cid
<1>12. OneOrderPerSignal'
  BY <1>1 DEF IInv, OneOrderPerSignal
<1>13. WriteAhead'
  BY <1>1, <1>4 DEF IInv, WriteAhead
<1> QED BY <1>7, <1>8, <1>9, <1>10, <1>11, <1>12, <1>13 DEF IInv

\* The POST: its session is the only one that holds the row, the row says
\* that it was submitted, and nothing was sent for it before.
LEMMA SubmitPreservesIInv ==
  ASSUME IInv, NEW w \in Submitters, submit_to_binance(w)
  PROVE  IInv'
<1> DEFINE tid == sub[w].tid
           row == db[tid]
           c == row.client_order_id
           posting == [sub[w] EXCEPT !.pc = "posting", !.obj = row]
<1>1. /\ sub[w].pc = "claimed"
      /\ wire' = [wire EXCEPT ![c] = "open"]
      /\ reply' = [reply EXCEPT ![c] = None]
      /\ posts' = [posts EXCEPT ![c] = @ + 1]
      /\ sub' = [sub EXCEPT ![w] = posting]
      /\ UNCHANGED <<book, db>>
  BY DEF submit_to_binance, Send
<1>2. tid \in Used /\ row.submitted_at /\ row \in Row /\ row # None /\ c = Cid(tid)
  BY <1>1 DEF IInv, TypeOK, SessionsHoldRows, Used, Cid
<1>3. c \in Digests
  BY <1>2 DEF Row
<1>4. posts[c] = 0
  BY <1>1, <1>2 DEF IInv, SentIsClaimed
<1>5. posting \in Session /\ posting.pc = "posting" /\ posting.tid = tid
      /\ posting.obj = row
  <2> HIDE DEF row
  <2> QED BY <1>2 DEF IInv, TypeOK, Session, Phases
<1> HIDE DEF posting
<1>6. /\ sub' \in [Submitters -> Session]
      /\ sub'[w] = posting
      /\ \A v \in Submitters \ {w} : sub'[v] = sub[v]
  BY <1>1, <1>5 DEF IInv, TypeOK
<1>7. \A v \in Submitters : sub'[v].tid = sub[v].tid /\ (sub'[v].pc # "idle" => sub[v].pc # "idle")
  BY <1>1, <1>5, <1>6
<1>8. /\ posts'[c] = 1
      /\ \A d \in Digests \ {c} : posts'[d] = posts[d] /\ wire'[d] = wire[d]
      /\ posts' \in [Digests -> Nat]
      /\ wire' \in [Digests -> WireStates]
  BY <1>1, <1>3, <1>4 DEF IInv, TypeOK, WireStates
<1>9. Used' = Used /\ \A t \in Used : Cid(t)' = Cid(t)
  BY <1>1 DEF Used, Cid
<1>10. TypeOK'
  BY <1>1, <1>3, <1>6, <1>8 DEF IInv, TypeOK
<1>11. SessionsHoldRows'
  BY <1>1, <1>2, <1>5, <1>6, <1>9 DEF IInv, SessionsHoldRows, Cid
<1>12. OneHolder'
  BY <1>7 DEF IInv, OneHolder
<1>13. UniqueCids'
  BY <1>9 DEF IInv, UniqueCids
<1>14. SentIsClaimed'
  <2>1. ASSUME NEW t \in Used, ~db[t].submitted_at
        PROVE  posts'[Cid(t)] = 0
    <3>1. t # tid /\ Cid(t) # c
      BY <1>2, <2>1 DEF IInv, UniqueCids
    <3>2. Cid(t) \in Digests
      BY DEF IInv, TypeOK, Used, Row, Cid
    <3> QED BY <1>8, <2>1, <3>1, <3>2 DEF IInv, SentIsClaimed
  <2>2. ASSUME NEW v \in Submitters, sub'[v].pc = "claimed"
        PROVE  posts'[Cid(sub[v].tid)] = 0
    <3>1. v # w /\ sub[v].pc = "claimed"
      BY <1>5, <1>6, <2>2
    <3>2. sub[v].tid \in Used /\ sub[v].tid # tid
      BY <1>1, <3>1 DEF IInv, SessionsHoldRows, OneHolder
    <3>3. Cid(sub[v].tid) # c
      BY <1>2, <3>2 DEF IInv, UniqueCids
    <3>4. Cid(sub[v].tid) \in Digests
      BY <3>2 DEF IInv, TypeOK, Used, Row, Cid
    <3> QED BY <1>8, <3>1, <3>3, <3>4 DEF IInv, SentIsClaimed
  <2> QED BY <1>1, <1>7, <1>9, <2>1, <2>2 DEF SentIsClaimed, Cid
<1>15. OneOrderPerSignal'
  BY <1>8 DEF IInv, OneOrderPerSignal
<1>16. WriteAhead'
  <2>1. ASSUME NEW d \in Digests, wire'[d] # "idle" \/ book'[d] # None \/ posts'[d] > 0
        PROVE  \E t \in Used : Cid(t) = d /\ db[t].submitted_at
    <3>1. CASE d = c
      BY <1>2, <3>1
    <3>2. CASE d # c
      BY <1>1, <1>8, <2>1, <3>2 DEF IInv, WriteAhead
    <3> QED BY <3>1, <3>2
  <2> QED BY <1>1, <1>9, <2>1 DEF WriteAhead
<1> QED BY <1>10, <1>11, <1>12, <1>13, <1>14, <1>15, <1>16 DEF IInv
-----------------------------------------------------------------------------
(* The theorems.                                                           *)

\* An empty table and a silent wire satisfy the invariant.
LEMMA InitEstablishesIInv ==
  ASSUME Init
  PROVE  IInv
<1>1. NoSession \in Session
  BY DEF NoSession, Session, Phases
<1>2. TypeOK
  BY <1>1 DEF Init, ExchangeInit, TypeOK, WireStates
<1>3. Used = {} /\ \A w \in Submitters : sub[w].pc = "idle"
  BY DEF Init, Used, NoSession
<1>4. WriteAhead /\ OneOrderPerSignal
  BY DEF Init, ExchangeInit, WriteAhead, OneOrderPerSignal
<1> QED BY <1>2, <1>3, <1>4
        DEF IInv, SessionsHoldRows, OneHolder, UniqueCids, SentIsClaimed

\* Every step preserves it.
LEMMA NextPreservesIInv ==
  ASSUME IInv, [Next]_vars
  PROVE  IInv'
<1>1. CASE UNCHANGED vars
  <2>1. SameKeys /\ NoNewRequest /\ TypeOK'
    BY <1>1 DEF vars, IInv, TypeOK, SameKeys, NoNewRequest
  <2>2. SessionsGoOn
    BY <1>1 DEF vars, IInv, SessionsHoldRows, SessionsGoOn, GoesOn
  <2> QED BY <2>1, <2>2, KeepingKeysPreservesIInv
<1>2. CASE \E s \in Signals : create_pending_trade(s)
  BY <1>2, CreatePreservesIInv
<1>3. CASE Exchanging
  BY <1>3, ExchangePreservesIInv
<1>4. ASSUME NEW w \in Submitters, Submit(w)
      PROVE  IInv'
  <2>1. CASE \E t \in TradeIds : claim_for_submission(w, t)
    BY <2>1, ClaimPreservesIInv
  <2>2. CASE submit_to_binance(w)
    BY <2>2, SubmitPreservesIInv
  <2>3. CASE Record(w)
    <3>1. PICK a \in Arrivals(sub[w].obj.client_order_id) :
            \/ finalise_success(w, a)
            \/ finalise_failure(w, a)
            \/ handle_uncertain_outcome(w, a)
      BY <2>3 DEF Record
    <3>2. sub[w].pc = "posting" /\ a \in Attempt
      BY <2>3, SentSession, ArrivalIsAttempt DEF Record, IInv
    <3> QED BY <3>1, <3>2, FinalisePreservesIInv, UncertainPreservesIInv
  <2>4. CASE ask_at_once(w)
    BY <2>4, AskPreservesIInv
  <2>5. CASE record_answer(w)
    BY <2>5, RecordAnswerPreservesIInv
  <2>6. CASE Abandon(w)
    BY <2>6, AbandonPreservesIInv
  <2> QED BY <1>4, <2>1, <2>2, <2>3, <2>4, <2>5, <2>6 DEF Submit
<1> QED BY <1>1, <1>2, <1>3, <1>4 DEF Next

(* The invariant behind the three that follow: a row says it was submitted *)
(* before anything is sent for it, and only the session that made it say   *)
(* so sends.                                                               *)
THEOREM Inductive == Spec => []IInv
<1>1. Init => IInv
  BY InitEstablishesIInv
<1>2. IInv /\ [Next]_vars => IInv'
  BY NextPreservesIInv
<1> QED BY <1>1, <1>2, PTL DEF Spec

(* Every column, session and message stays in its type.                    *)
THEOREM TypeCorrect == Spec => []TypeOK
<1>1. IInv => TypeOK
  BY DEF IInv
<1> QED BY <1>1, Inductive, PTL

(* One POST at most for each client order id, for any number of repeated   *)
(* signals, submitters, crashes and lost answers: submit_to_binance runs   *)
(* only behind a committed claim and nothing re-sends.                     *)
THEOREM OneOrder == Spec => []OneOrderPerSignal
<1>1. IInv => OneOrderPerSignal
  BY DEF IInv
<1> QED BY <1>1, Inductive, PTL

(* Whatever is on the wire or the book has a committed row that says it    *)
(* was submitted: the row is durable before the POST.                      *)
THEOREM WriteAheadHolds == Spec => []WriteAhead
<1>1. IInv => WriteAhead
  BY DEF IInv
<1> QED BY <1>1, Inductive, PTL

-----------------------------------------------------------------------------
(* Reconciliation.                                                         *)

(* The inductive invariant.                                                *)

\* What a run has loaded are rows that exist, under their own keys.
RunsHoldRows ==
  \A r \in Reconcilers : \A t \in Todo(r) :
    t \in Used /\ rec[r].todo[t].client_order_id = Cid(t)

\* Nothing is known of a client order id before its POST, and the book has
\* nothing while the POST is under way.
QuietBeforePost ==
  \A c \in Digests :
    /\ posts[c] = 0 => wire[c] = "idle" /\ book[c] = None /\ reply[c] = None
    /\ wire[c] # "idle" => book[c] = None

RefusalKinds == {"rate_limit", "auth", "rejected", "unavailable"}

\* A refusal on its way to the client is true.
RefusedReplies ==
  \A c \in Digests :
    reply[c] # None /\ request(reply[c]) \in RefusalKinds => NoOrder(c)

RefusalCodes == {"rate_limit", "rejected", "unavailable"}

\* No order for c, and its only POST lies in the past.
NeverAny(c) == NoOrder(c) /\ posts[c] > 0

\* So is a refusal that was recorded.
RefusedRows == \A t \in Used : db[t].error_code \in RefusalCodes => NeverAny(Cid(t))

RIInv ==
  /\ RTypeOK
  /\ IInv
  /\ RunsHoldRows
  /\ QuietBeforePost
  /\ RefusedReplies
  /\ RefusedRows
-----------------------------------------------------------------------------
(* What a step does to the wire.                                           *)

WireMoves ==
  \/ UNCHANGED exchangeVars
  \/ \E c \in Digests : Close(c)
  \/ \E c \in Digests : posts[c] = 0 /\ Send(c)
  \/ ExchangeStep

\* A step of the service sends, stops waiting, or leaves the wire alone;
\* what it sends it sends for the first time.
LEMMA ServiceMovesWire ==
  ASSUME IInv, [Next]_vars
  PROVE  WireMoves
<1>1. CASE UNCHANGED vars
  BY <1>1 DEF vars, WireMoves, exchangeVars
<1>2. CASE \E s \in Signals : create_pending_trade(s)
  BY <1>2 DEF create_pending_trade, WireMoves
<1>3. CASE Exchanging
  BY <1>3 DEF Exchanging, WireMoves
<1>4. ASSUME NEW w \in Submitters, Submit(w)
      PROVE  WireMoves
  <2>1. CASE \E t \in TradeIds : claim_for_submission(w, t)
    BY <2>1 DEF claim_for_submission, WireMoves
  <2>2. CASE submit_to_binance(w)
    <3>1. sub[w].pc = "claimed" /\ Send(Cid(sub[w].tid))
      BY <2>2 DEF submit_to_binance, Cid
    <3>2. sub[w].tid \in Used /\ posts[Cid(sub[w].tid)] = 0
      BY <3>1 DEF IInv, SessionsHoldRows, SentIsClaimed
    <3>3. Cid(sub[w].tid) \in Digests
      BY <3>2 DEF IInv, TypeOK, Used, Row, Cid
    <3> QED BY <3>1, <3>2, <3>3 DEF WireMoves
  <2>3. CASE Record(w)
    <3>1. sub[w].pc = "posting" /\ Close(sub[w].obj.client_order_id)
      BY <2>3 DEF Record, finalise_success, finalise_failure, handle_uncertain_outcome,
                  EndOfWait
    <3> QED BY <3>1, SentSession DEF WireMoves
  <2>4. CASE ask_at_once(w) \/ record_answer(w)
    BY <2>4 DEF ask_at_once, record_answer, WireMoves
  <2>5. CASE Abandon(w)
    <3>1. CASE sub[w].pc = "posting"
      BY <2>5, <3>1, SentSession DEF Abandon, WireMoves
    <3>2. CASE sub[w].pc # "posting"
      BY <2>5, <3>2 DEF Abandon, WireMoves
    <3> QED BY <3>1, <3>2
  <2> QED BY <1>4, <2>1, <2>2, <2>3, <2>4, <2>5 DEF Submit
<1> QED BY <1>1, <1>2, <1>3, <1>4 DEF Next

\* How the client reads what comes back for a request that was accepted,
\* or that nobody answered.
LEMMA NoFalseRefusal ==
  /\ \A o : \A a \in Acceptances(o) : request(a) \notin RefusalKinds
  /\ request(ServerError) = "uncertain"
  /\ request(NoResponse("timeout")) = "uncertain"
  /\ request(NoResponse("transport_error")) = "uncertain"
<1>1. request(ServerError) = "uncertain"
  BY DEF request, handle_response, ServerError, Response
<1>2. ASSUME NEW o, NEW a \in Acceptances(o)
      PROVE  request(a) \in {"ok", "uncertain"}
  <2>1. \/ a = ServerError
        \/ \E p, j : a = Response(200, None, j, p)
    BY ZenonT(30) DEF Acceptances
  <2>2. ASSUME NEW p, NEW j, a = Response(200, None, j, p)
        PROVE  request(a) \in {"ok", "uncertain"}
    <3>1. a.transport = "connected" /\ a.status_code = 200
      BY <2>2 DEF Response
    <3> QED BY <3>1 DEF request, handle_response
  <2> QED BY <1>1, <2>1, <2>2
<1>3. /\ request(NoResponse("timeout")) = "uncertain"
      /\ request(NoResponse("transport_error")) = "uncertain"
  BY DEF request, NoResponse
<1> QED BY <1>1, <1>2, <1>3 DEF RefusalKinds

\* What such a step keeps: silence before the POST, true refusals, and the
\* absence of an order that no POST can bring about any more.
LEMMA WireKeepsRefusals ==
  ASSUME TypeOK, QuietBeforePost, RefusedReplies, WireMoves
  PROVE  /\ QuietBeforePost' /\ RefusedReplies'
         /\ \A c \in Digests : NeverAny(c) => NeverAny(c)'
<1>1. CASE UNCHANGED exchangeVars
  BY <1>1 DEF exchangeVars, QuietBeforePost, RefusedReplies, NeverAny, NoOrder
<1>2. ASSUME NEW c \in Digests, Close(c)
      PROVE  /\ QuietBeforePost' /\ RefusedReplies'
             /\ \A d \in Digests : NeverAny(d) => NeverAny(d)'
  BY <1>2 DEF Close, TypeOK, QuietBeforePost, RefusedReplies, NeverAny, NoOrder
<1>3. ASSUME NEW c \in Digests, posts[c] = 0, Send(c)
      PROVE  /\ QuietBeforePost' /\ RefusedReplies'
             /\ \A d \in Digests : NeverAny(d) => NeverAny(d)'
  <2>1. /\ posts'[c] = 1 /\ reply'[c] = None /\ book' = book
        /\ \A d \in Digests \ {c} :
             posts'[d] = posts[d] /\ reply'[d] = reply[d] /\ wire'[d] = wire[d]
    BY <1>3 DEF Send, TypeOK
  <2> QED BY <1>3, <2>1 DEF TypeOK, QuietBeforePost, RefusedReplies, NeverAny, NoOrder
<1>4. ASSUME NEW c \in Digests, Execute(c) \/ Refuse(c) \/ Stall(c) \/ Progress(c)
      PROVE  /\ QuietBeforePost' /\ RefusedReplies'
             /\ \A d \in Digests : NeverAny(d) => NeverAny(d)'
  <2>1. CASE Execute(c)
    <3>0. PICK order \in Orders :
            /\ book' = book \/ book' = [book EXCEPT ![c] = order]
            /\ \E a \in Acceptances(order) \cup {None} : Deliver(c, a)
      BY <2>1 DEF Execute
    <3>1. PICK a \in Acceptances(order) \cup {None} :
            reply' = [reply EXCEPT ![c] = a] \/ reply' = reply
      BY <3>0 DEF Deliver
    <3>2. /\ wire[c] # "idle"
          /\ posts' = posts
          /\ wire' = [wire EXCEPT ![c] = "idle"]
      BY <2>1 DEF Execute
    <3>3. reply'[c] \in {a, reply[c]} /\ ~NoOrder(c) /\ posts[c] # 0
      BY <3>1, <3>2 DEF TypeOK, NoOrder, QuietBeforePost
    <3>4. reply'[c] # None => request(reply'[c]) \notin RefusalKinds
      BY <3>1, <3>3, NoFalseRefusal DEF RefusedReplies
    <3>5. \A d \in Digests \ {c} :
            book'[d] = book[d] /\ reply'[d] = reply[d] /\ wire'[d] = wire[d]
      BY <3>0, <3>1, <3>2 DEF TypeOK
    <3>6. wire'[c] = "idle"
      BY <3>2 DEF TypeOK
    <3> QED BY <3>2, <3>3, <3>4, <3>5, <3>6
            DEF QuietBeforePost, RefusedReplies, NeverAny, NoOrder
  <2>2. CASE Refuse(c)
    <3>1. /\ wire[c] # "idle"
          /\ posts' = posts /\ book' = book
          /\ wire' = [wire EXCEPT ![c] = "idle"]
          /\ \A d \in Digests \ {c} : reply'[d] = reply[d]
      BY <2>2 DEF Refuse, Deliver, TypeOK
    <3>2. /\ wire'[c] = "idle" /\ book'[c] = None /\ posts[c] # 0
          /\ \A d \in Digests \ {c} : wire'[d] = wire[d]
      BY <3>1 DEF TypeOK, QuietBeforePost
    <3> QED BY <3>1, <3>2 DEF QuietBeforePost, RefusedReplies, NeverAny, NoOrder
  <2>3. CASE Stall(c)
    <3>1. /\ wire[c] # "idle"
          /\ posts' = posts /\ book' = book
          /\ reply'[c] = ServerError /\ wire'[c] = "orphan"
          /\ \A d \in Digests \ {c} : reply'[d] = reply[d] /\ wire'[d] = wire[d]
      BY <2>3 DEF Stall, TypeOK
    <3>2. request(reply'[c]) \notin RefusalKinds
      BY <3>1, NoFalseRefusal DEF RefusalKinds
    <3> QED BY <3>1, <3>2 DEF QuietBeforePost, RefusedReplies, NeverAny, NoOrder
  <2>4. CASE Progress(c)
    <3>1. /\ book[c] # None
          /\ UNCHANGED <<wire, reply, posts>>
          /\ \A d \in Digests \ {c} : book'[d] = book[d]
      BY <2>4 DEF Progress, TypeOK
    <3> QED BY <3>1 DEF QuietBeforePost, RefusedReplies, NeverAny, NoOrder
  <2> QED BY <1>4, <2>1, <2>2, <2>3, <2>4
<1> QED BY <1>1, <1>2, <1>3, <1>4 DEF WireMoves, ExchangeStep
-----------------------------------------------------------------------------
(* What a step does to the table.                                          *)

\* A commit of a row somebody loaded before: a refusal it brings in is true.
Writes(t, loaded, new) ==
  /\ t \in Used
  /\ db' = [db EXCEPT ![t] = Flush(@, loaded, new)]
  /\ new.error_code \in RefusalCodes => new.error_code = loaded.error_code \/ NeverAny(Cid(t))

RowsMove ==
  \/ UNCHANGED db
  \/ \E s \in Signals, t \in TradeIds \ Used : db' = [db EXCEPT ![t] = PendingRow(s)]
  \/ \E t \in Used : db' = [db EXCEPT ![t].submitted_at = TRUE]
  \/ \E t \in Used, loaded, new \in Row : Writes(t, loaded, new)

\* Rows are never deleted and keep their keys; a row that holds a refusal
\* held it before, or the refusal is true.
LEMMA RowsMoveKeys ==
  ASSUME TypeOK, RowsMove
  PROVE  /\ Used \subseteq Used'
         /\ \A t \in Used : Cid(t)' = Cid(t)
         /\ \A t \in Used' : db'[t].error_code \in RefusalCodes =>
              t \in Used /\ (db[t].error_code \in RefusalCodes \/ NeverAny(Cid(t)))
<1>1. CASE UNCHANGED db
  BY <1>1 DEF Used, Cid
<1>2. ASSUME NEW s \in Signals, NEW t \in TradeIds \ Used,
             db' = [db EXCEPT ![t] = PendingRow(s)]
      PROVE  /\ Used \subseteq Used'
             /\ \A u \in Used : Cid(u)' = Cid(u)
             /\ \A u \in Used' : db'[u].error_code \in RefusalCodes =>
                  u \in Used /\ (db[u].error_code \in RefusalCodes \/ NeverAny(Cid(u)))
  <2>1. db'[t] = PendingRow(s) /\ \A u \in TradeIds \ {t} : db'[u] = db[u]
    BY <1>2 DEF TypeOK
  <2>2. PendingRow(s).error_code = None /\ None \notin RefusalCodes
    BY NullAssumption DEF PendingRow, RefusalCodes, ErrorCodes
  <2> QED BY <2>1, <2>2 DEF Used, Cid
<1>3. ASSUME NEW t \in Used, db' = [db EXCEPT ![t].submitted_at = TRUE]
      PROVE  /\ Used \subseteq Used'
             /\ \A u \in Used : Cid(u)' = Cid(u)
             /\ \A u \in Used' : db'[u].error_code \in RefusalCodes =>
                  u \in Used /\ (db[u].error_code \in RefusalCodes \/ NeverAny(Cid(u)))
  <2> DEFINE row == [db[t] EXCEPT !.submitted_at = TRUE]
  <2>1. row \in Row /\ row.error_code = db[t].error_code /\ row.client_order_id = Cid(t)
    BY DEF TypeOK, Used, Row, Cid
  <2>2. db' = [db EXCEPT ![t] = row]
    BY <1>3
  <2> HIDE DEF row
  <2>3. db'[t] = row /\ \A u \in TradeIds \ {t} : db'[u] = db[u]
    BY <2>2 DEF TypeOK, Used
  <2> QED BY <2>1, <2>3, NullAssumption DEF Used, Cid
<1>4. ASSUME NEW t \in Used, NEW loaded \in Row, NEW new \in Row, Writes(t, loaded, new)
      PROVE  /\ Used \subseteq Used'
             /\ \A u \in Used : Cid(u)' = Cid(u)
             /\ \A u \in Used' : db'[u].error_code \in RefusalCodes =>
                  u \in Used /\ (db[u].error_code \in RefusalCodes \/ NeverAny(Cid(u)))
  <2> DEFINE row == Flush(db[t], loaded, new)
  <2>1. db[t] \in Row
    BY DEF TypeOK, Used
  <2>2. row \in Row /\ row.client_order_id = Cid(t)
    BY <2>1, FlushIsRow DEF Cid
  <2>3. row.error_code = Dirty(new.error_code, loaded.error_code, db[t].error_code)
    BY <2>1 DEF Flush, Row
  <2>4. row.error_code = db[t].error_code
        \/ (row.error_code = new.error_code /\ new.error_code # loaded.error_code)
    BY <2>3 DEF Dirty
  <2>5. db' = [db EXCEPT ![t] = row]
    BY <1>4 DEF Writes
  <2> HIDE DEF row
  <2>6. db'[t] = row /\ \A u \in TradeIds \ {t} : db'[u] = db[u]
    BY <2>5 DEF TypeOK, Used
  <2>7. row.error_code \in RefusalCodes => db[t].error_code \in RefusalCodes \/ NeverAny(Cid(t))
    BY <1>4, <2>4 DEF Writes
  <2> QED BY <2>2, <2>6, <2>7, NullAssumption DEF Used, Cid
<1> QED BY <1>1, <1>2, <1>3, <1>4 DEF RowsMove

\* A commit that may raise writes the row or changes nothing.
LEMMA CommitMovesRows ==
  ASSUME NEW t \in Used, NEW loaded \in Row, NEW new \in Row, Commit(t, loaded, new),
         new.error_code \in RefusalCodes => new.error_code = loaded.error_code \/ NeverAny(Cid(t))
  PROVE  RowsMove
BY DEF Commit, RowsMove, Writes

\* What reconcile_trade makes of an answer brings in no refusal.
LEMMA ReconciledKeepsError ==
  ASSUME NEW row \in Row, NEW found \in Order \cup {None}
  PROVE  Reconciled(row, found).error_code \in {row.error_code, None, "order_not_found"}
<1>1. CASE found = None
  BY <1>1 DEF Reconciled, Row
<1>2. CASE found # None
  <2>1. Mirror(row, found) \in Row /\ Mirror(row, found).error_code = row.error_code
    BY <1>2, MirrorIsRow DEF Mirror, Row
  <2>2. Reconciled(row, found) =
          [Mirror(row, found) EXCEPT
             !.error_code = IF Mirror(row, found).status \in {"REJECTED", "FAILED"}
                              THEN @ ELSE None,
             !.reconciled_at = TRUE]
    BY <1>2 DEF Reconciled
  <2> QED BY <2>1, <2>2 DEF Row
<1> QED BY <1>1, <1>2

\* The submitter's three ways to record an outcome.
LEMMA RecordMovesRows ==
  ASSUME IInv, QuietBeforePost, RefusedReplies, NEW w \in Submitters, Record(w)
  PROVE  RowsMove
<1> DEFINE t == sub[w].tid
           trade == sub[w].obj
           c == trade.client_order_id
<1>1. sub[w].pc = "posting"
  BY DEF Record
<1>2. t \in Used /\ trade \in Row /\ c \in Digests /\ c = Cid(t)
  BY <1>1, SentSession
<1> HIDE DEF t, trade
<1>3. PICK a \in Arrivals(c) : \/ finalise_success(w, a)
                               \/ finalise_failure(w, a)
                               \/ handle_uncertain_outcome(w, a)
  BY DEF Record, trade
<1>4. a \in Attempt
  BY <1>2, ArrivalIsAttempt DEF IInv
<1>5. None \notin RefusalCodes /\ "uncertain" \notin RefusalCodes
  BY NullAssumption DEF RefusalCodes, ErrorCodes
<1>6. CASE finalise_success(w, a)
  <2> DEFINE mirrored == Mirror(trade, place_market_order(a, DryRun))
             new == [mirrored EXCEPT !.error_code = None]
  <2>1. mirrored \in Row
    BY <1>2, <1>4, ResultIsOrder, ExchangeAssumption, MirrorIsRow
  <2>2. Commit(t, trade, new)
    BY <1>6 DEF finalise_success, t, trade
  <2>3. new \in Row /\ new.error_code = None
    <3> HIDE DEF mirrored
    <3> QED BY <2>1 DEF Row
  <2> HIDE DEF new
  <2> QED BY <1>2, <1>5, <2>2, <2>3, CommitMovesRows
<1>7. CASE finalise_failure(w, a)
  <2> DEFINE verdict == Refusal(request(a))
             new == [trade EXCEPT !.status = verdict[1], !.error_code = verdict[2]]
  <2>1. request(a) \in RefusalKinds /\ Commit(t, trade, new)
    BY <1>7 DEF finalise_failure, RefusalKinds, t, trade
  <2>2. a # NoResponse("timeout") /\ a # NoResponse("transport_error")
    BY <2>1, NoFalseRefusal DEF RefusalKinds
  <2>3. reply[c] # None /\ a = reply[c]
    BY <2>2 DEF Arrivals
  <2>4. NeverAny(Cid(t))
    <3>1. NoOrder(c)
      BY <1>2, <2>1, <2>3 DEF RefusedReplies
    <3>2. posts[c] # 0 /\ posts[c] \in Nat
      BY <1>2, <2>3 DEF QuietBeforePost, IInv, TypeOK
    <3> QED BY <1>2, <3>1, <3>2 DEF NeverAny
  <2>5. verdict[1] \in TradeStatus /\ verdict[2] \in ErrorCodes
    BY <2>1 DEF RefusalKinds, Refusal, TradeStatus, ErrorCodes
  <2>6. new \in Row
    <3> HIDE DEF verdict
    <3> QED BY <1>2, <2>5 DEF Row
  <2> HIDE DEF new
  <2> QED BY <1>2, <2>1, <2>4, <2>6, CommitMovesRows
<1>8. CASE handle_uncertain_outcome(w, a)
  <2> DEFINE new == [trade EXCEPT !.status = "UNKNOWN", !.error_code = "uncertain"]
  <2>1. Commit(t, trade, new)
    BY <1>8 DEF handle_uncertain_outcome, Commit, t, trade
  <2>2. new \in Row /\ new.error_code = "uncertain"
    BY <1>2 DEF Row, TradeStatus, ErrorCodes
  <2> HIDE DEF new
  <2> QED BY <1>2, <1>5, <2>1, <2>2, CommitMovesRows
<1> QED BY <1>3, <1>6, <1>7, <1>8

LEMMA ServiceMovesRows ==
  ASSUME IInv, QuietBeforePost, RefusedReplies, [Next]_vars
  PROVE  RowsMove
<1>1. CASE UNCHANGED vars
  BY <1>1 DEF vars, RowsMove
<1>2. CASE \E s \in Signals : create_pending_trade(s)
  BY <1>2 DEF create_pending_trade, RowsMove
<1>3. CASE Exchanging
  BY <1>3 DEF Exchanging, submitterVars, RowsMove
<1>4. ASSUME NEW w \in Submitters, Submit(w)
      PROVE  RowsMove
  <2>1. CASE \E t \in TradeIds : claim_for_submission(w, t)
    BY <2>1 DEF claim_for_submission, Claimable, Used, RowsMove
  <2>2. CASE submit_to_binance(w) \/ ask_at_once(w) \/ Abandon(w)
    BY <2>2 DEF submit_to_binance, ask_at_once, Abandon, RowsMove
  <2>3. CASE Record(w)
    BY <2>3, RecordMovesRows
  <2>4. CASE record_answer(w)
    <3> DEFINE new == Reconciled(sub[w].obj, sub[w].found)
    <3>1. sub[w].pc = "asked" /\ Commit(sub[w].tid, sub[w].obj, new)
      BY <2>4 DEF record_answer
    <3>2. sub[w].tid \in Used /\ sub[w].obj \in Row /\ sub[w].found \in Order \cup {None}
      BY <3>1, SentSession
    <3>3. new \in Row /\ new.error_code \in {sub[w].obj.error_code, None, "order_not_found"}
      BY <3>2, ReconciledIsRow, ReconciledKeepsError
    <3>4. new.error_code \in RefusalCodes => new.error_code = sub[w].obj.error_code
      BY <3>3, NullAssumption DEF RefusalCodes, ErrorCodes
    <3> HIDE DEF new
    <3> QED BY <3>1, <3>2, <3>3, <3>4, CommitMovesRows
  <2> QED BY <1>4, <2>1, <2>2, <2>3, <2>4 DEF Submit
<1> QED BY <1>1, <1>2, <1>3, <1>4 DEF Next
-----------------------------------------------------------------------------
(* The steps of a run.                                                     *)

\* What a run knows of a trade it has loaded.
LEMMA LoadedTrade ==
  ASSUME RTypeOK, RunsHoldRows, NEW r \in Reconcilers, NEW t \in Todo(r)
  PROVE  /\ t \in Used
         /\ rec[r].todo[t] \in Row
         /\ rec[r].todo[t].client_order_id \in Digests
         /\ rec[r].todo[t].client_order_id = Cid(t)
         /\ rec[r].found \in Order \cup {None}
<1>1. rec[r] \in Run
  BY DEF RTypeOK
<1>2. rec[r].todo[t] \in Row
  BY <1>1 DEF Todo, Run
<1> QED BY <1>1, <1>2 DEF RunsHoldRows, Run, Row

\* Of a run changes only what it holds, and that shrinks.
Shrinks(r) ==
  /\ rec' \in [Reconcilers -> Run]
  /\ \A q \in Reconcilers \ {r} : rec'[q] = rec[q]
  /\ \A t \in TradeIds : rec'[r].todo[t] \in {rec[r].todo[t], None}

LEMMA EndedRunShrinks ==
  ASSUME RTypeOK, NEW r \in Reconcilers, EndRun(r)
  PROVE  Shrinks(r)
<1>1. NoRun \in Run /\ \A u \in TradeIds : NoRun.todo[u] = None
  BY DEF NoRun, Run
<1> QED BY <1>1 DEF EndRun, RTypeOK, Shrinks

LEMMA RunShrinks ==
  ASSUME RTypeOK, NEW r \in Reconcilers, NEW t \in Todo(r), NEW answer \in Order \cup {None},
         \/ Advance(r, t)
         \/ rec' = [rec EXCEPT ![r].pc = "asked", ![r].found = answer]
  PROVE  Shrinks(r)
<1>1. rec[r] \in Run /\ t \in TradeIds
  BY DEF RTypeOK, Todo
<1>2. CASE Advance(r, t)
  <2> DEFINE run == [ pc    |-> IF Todo(r) = {t} THEN "idle" ELSE "ready",
                      todo  |-> [rec[r].todo EXCEPT ![t] = None],
                      found |-> None ]
  <2>1. run \in Run /\ \A u \in TradeIds : run.todo[u] \in {rec[r].todo[u], None}
    BY <1>1 DEF Run
  <2>2. rec' = [rec EXCEPT ![r] = run]
    BY <1>2 DEF Advance
  <2> HIDE DEF run
  <2> QED BY <2>1, <2>2 DEF RTypeOK, Shrinks
<1>3. CASE rec' = [rec EXCEPT ![r].pc = "asked", ![r].found = answer]
  <2> DEFINE run == [rec[r] EXCEPT !.pc = "asked", !.found = answer]
  <2>1. run \in Run /\ run.todo = rec[r].todo
    BY <1>1 DEF Run
  <2>2. rec' = [rec EXCEPT ![r] = run]
    BY <1>3
  <2> HIDE DEF run
  <2> QED BY <2>1, <2>2 DEF RTypeOK, Shrinks
<1> QED BY <1>2, <1>3

\* A run that loads nothing new and writes at most one row it had loaded.
LEMMA ShrinkingPreservesRIInv ==
  ASSUME RIInv, NEW r \in Reconcilers, Shrinks(r), RowsMove, SameKeys,
         db' \in [TradeIds -> Row \cup {None}], UNCHANGED <<sub, exchangeVars>>
  PROVE  RIInv'
<1>1. /\ TypeOK /\ RTypeOK /\ IInv /\ QuietBeforePost /\ RefusedReplies
      /\ UNCHANGED <<sub, wire, book, reply, posts>>
  BY DEF RIInv, IInv, exchangeVars
<1>2. TypeOK' /\ RTypeOK'
  BY <1>1 DEF TypeOK, RTypeOK, Shrinks
<1>3. IInv'
  <2>1. NoNewRequest
    BY <1>1 DEF NoNewRequest
  <2>2. SessionsGoOn
    BY <1>1 DEF IInv, SessionsHoldRows, SessionsGoOn, GoesOn
  <2> QED BY <1>1, <1>2, <2>1, <2>2, KeepingKeysPreservesIInv
<1>4. /\ Used \subseteq Used'
      /\ \A t \in Used : Cid(t)' = Cid(t)
      /\ \A t \in Used' : db'[t].error_code \in RefusalCodes =>
           t \in Used /\ (db[t].error_code \in RefusalCodes \/ NeverAny(Cid(t)))
  BY <1>1, RowsMoveKeys
<1>5. QuietBeforePost' /\ RefusedReplies' /\ \A c \in Digests : NeverAny(c)' <=> NeverAny(c)
  BY <1>1 DEF QuietBeforePost, RefusedReplies, NeverAny, NoOrder
<1>6. RefusedRows'
  <2>1. \A t \in Used : Cid(t) \in Digests
    BY <1>1 DEF TypeOK, Used, Row, Cid
  <2> QED BY <1>4, <1>5, <2>1 DEF RIInv, RefusedRows
<1>7. RunsHoldRows'
  <2>1. SUFFICES ASSUME NEW q \in Reconcilers, NEW t \in TradeIds, rec'[q].todo[t] # None
                 PROVE  t \in Used' /\ rec'[q].todo[t].client_order_id = Cid(t)'
    BY DEF RunsHoldRows, Todo
  <2>2. rec'[q].todo[t] = rec[q].todo[t]
    BY <2>1 DEF Shrinks
  <2> QED BY <1>4, <2>1, <2>2 DEF RIInv, RunsHoldRows, Todo
<1> QED BY <1>2, <1>3, <1>5, <1>6, <1>7 DEF RIInv

\* Loading: the objects are the rows.
LEMMA LoadPreservesRIInv ==
  ASSUME RIInv, NEW r \in Reconcilers, NEW batch \in SUBSET Used, Load(r, batch)
  PROVE  RIInv'
<1> DEFINE run == [ pc    |-> "ready",
                    todo  |-> [t \in TradeIds |-> IF t \in batch THEN db[t] ELSE None],
                    found |-> None ]
<1>1. rec' = [rec EXCEPT ![r] = run] /\ UNCHANGED <<db, sub, wire, book, reply, posts>>
  BY DEF Load, vars
<1>2. /\ run \in Run
      /\ \A t \in TradeIds : run.todo[t] # None => t \in Used /\ run.todo[t] = db[t]
  BY DEF RIInv, RTypeOK, TypeOK, Run
<1> HIDE DEF run
<1>3. rec' \in [Reconcilers -> Run] /\ rec'[r] = run /\ \A q \in Reconcilers \ {r} : rec'[q] = rec[q]
  BY <1>1, <1>2 DEF RIInv, RTypeOK
<1>4. TypeOK' /\ RTypeOK' /\ QuietBeforePost' /\ RefusedReplies' /\ RefusedRows'
  BY <1>1, <1>3 DEF RIInv, RTypeOK, TypeOK, QuietBeforePost, RefusedReplies, RefusedRows,
                    NeverAny, NoOrder, Used, Cid
<1>5. IInv'
  <2>1. UNCHANGED vars
    BY <1>1 DEF vars
  <2> QED BY <2>1, NextPreservesIInv DEF RIInv
<1>6. RunsHoldRows'
  <2>1. SUFFICES ASSUME NEW q \in Reconcilers, NEW t \in TradeIds, rec'[q].todo[t] # None
                 PROVE  t \in Used /\ rec'[q].todo[t].client_order_id = Cid(t)
    BY <1>1 DEF RunsHoldRows, Todo, Used, Cid
  <2>2. CASE q = r
    BY <1>2, <1>3, <2>1, <2>2 DEF Cid
  <2>3. CASE q # r
    BY <1>3, <2>1, <2>3 DEF RIInv, RunsHoldRows, Todo
  <2> QED BY <2>2, <2>3
<1> QED BY <1>4, <1>5, <1>6 DEF RIInv

\* reconcile_trade, for a trade the run has loaded.
LEMMA ReconcileTradePreservesRIInv ==
  ASSUME RIInv, NEW r \in Reconcilers, NEW t \in Todo(r), reconcile_trade(r, t)
  PROVE  RIInv'
<1> DEFINE loaded == rec[r].todo[t]
<1>1. /\ t \in Used
      /\ loaded \in Row
      /\ loaded.client_order_id \in Digests
      /\ rec[r].found \in Order \cup {None}
  BY LoadedTrade DEF RIInv
<1>2. TypeOK /\ RTypeOK
  BY DEF RIInv, RTypeOK
<1>3. CASE /\ UNCHANGED vars
           /\ \E answer \in Order \cup {None} :
                \/ Advance(r, t)
                \/ rec' = [rec EXCEPT ![r].pc = "asked", ![r].found = answer]
  <2>1. Shrinks(r)
    BY <1>2, <1>3, RunShrinks
  <2>2. UNCHANGED <<db, sub, exchangeVars>>
    BY <1>3 DEF vars, exchangeVars
  <2>3. SameKeys /\ RowsMove /\ db' \in [TradeIds -> Row \cup {None}]
    BY <1>2, <2>2 DEF SameKeys, RowsMove, TypeOK
  <2> QED BY <2>1, <2>2, <2>3, ShrinkingPreservesRIInv
<1>4. CASE skip_terminal(r, t)
  BY <1>3, <1>4 DEF skip_terminal
<1>5. ASSUME NEW a \in Answers(loaded.client_order_id), ask(r, t, a)
      PROVE  RIInv'
  <2>1. get_order(a) \in Order \cup {None}
    BY <1>1, <1>2, AnswersAreKnown
  <2> QED BY <1>3, <1>5, <2>1 DEF ask
<1>6. CASE record(r, t) \/ record_raises(r, t)
  <2> DEFINE new == Reconciled(loaded, rec[r].found)
  <2>1. /\ Commit(t, loaded, new)
        /\ Advance(r, t) \/ EndRun(r)
        /\ UNCHANGED <<sub, exchangeVars>>
    BY <1>6 DEF record, record_raises, Outcome, Commit
  <2>2. new \in Row /\ new.error_code \in {loaded.error_code, None, "order_not_found"}
    BY <1>1, ReconciledIsRow, ReconciledKeepsError
  <2>3. new.error_code \in RefusalCodes => new.error_code = loaded.error_code
    BY <2>2, NullAssumption DEF RefusalCodes, ErrorCodes
  <2> HIDE DEF new, loaded
  <2>4. RowsMove
    BY <1>1, <2>1, <2>2, <2>3, CommitMovesRows
  <2>5. db' \in [TradeIds -> Row \cup {None}] /\ SameKeys
    BY <1>1, <1>2, <2>1, <2>2, CommitKeepsKeys
  <2>6. Shrinks(r)
    BY <1>1, <1>2, <2>1, RunShrinks, EndedRunShrinks
  <2> QED BY <2>1, <2>4, <2>5, <2>6, ShrinkingPreservesRIInv
<1> QED BY <1>4, <1>5, <1>6 DEF reconcile_trade
-----------------------------------------------------------------------------
(* The theorems.                                                           *)

LEMMA RInitEstablishesRIInv ==
  ASSUME RInit
  PROVE  RIInv
<1>1. Init /\ IInv
  BY InitEstablishesIInv DEF RInit
<1>2. NoRun \in Run /\ \A t \in TradeIds : NoRun.todo[t] = None
  BY DEF NoRun, Run
<1>3. RTypeOK
  BY <1>1, <1>2 DEF RInit, RTypeOK, IInv
<1>4. RunsHoldRows
  BY <1>2 DEF RInit, RunsHoldRows, Todo
<1>5. QuietBeforePost /\ RefusedReplies
  BY <1>1 DEF Init, ExchangeInit, QuietBeforePost, RefusedReplies
<1>6. RefusedRows
  BY <1>1 DEF Init, Used, RefusedRows
<1> QED BY <1>1, <1>3, <1>4, <1>5, <1>6 DEF RIInv

LEMMA RNextPreservesRIInv ==
  ASSUME RIInv, [RNext]_rvars
  PROVE  RIInv'
<1>1. CASE [Next]_vars /\ UNCHANGED rec
  <2>1. IInv /\ TypeOK /\ QuietBeforePost /\ RefusedReplies
    BY DEF RIInv, IInv
  <2>2. IInv' /\ TypeOK'
    BY <1>1, <2>1, NextPreservesIInv DEF IInv
  <2>3. WireMoves
    BY <1>1, <2>1, ServiceMovesWire
  <2>4. /\ QuietBeforePost' /\ RefusedReplies'
        /\ \A c \in Digests : NeverAny(c) => NeverAny(c)'
    BY <2>1, <2>3, WireKeepsRefusals
  <2>5. RowsMove
    BY <1>1, <2>1, ServiceMovesRows
  <2>6. /\ Used \subseteq Used'
        /\ \A t \in Used : Cid(t)' = Cid(t)
        /\ \A t \in Used' : db'[t].error_code \in RefusalCodes =>
             t \in Used /\ (db[t].error_code \in RefusalCodes \/ NeverAny(Cid(t)))
    BY <2>1, <2>5, RowsMoveKeys
  <2>7. RefusedRows'
    <3>1. \A t \in Used : Cid(t) \in Digests
      BY <2>1 DEF TypeOK, Used, Row, Cid
    <3> QED BY <2>4, <2>6, <3>1 DEF RIInv, RefusedRows
  <2>8. RunsHoldRows' /\ RTypeOK'
    BY <1>1, <2>2, <2>6 DEF RIInv, RTypeOK, RunsHoldRows, Todo
  <2> QED BY <2>2, <2>4, <2>7, <2>8 DEF RIInv
<1>2. ASSUME NEW r \in Reconcilers, Reconcile(r)
      PROVE  RIInv'
  <2>1. CASE \E cutoff \in TradeIds : find_reconcilable_trades(r, cutoff)
    <3>1. PICK cutoff \in TradeIds : Load(r, Oldest(InFlight(cutoff), Limit))
      BY <2>1 DEF find_reconcilable_trades
    <3>2. Oldest(InFlight(cutoff), Limit) \in SUBSET Used
      BY DEF Oldest, InFlight
    <3> QED BY <3>1, <3>2, LoadPreservesRIInv
  <2>2. CASE \E t \in TradeIds : get_trade_for_user(r, t)
    <3>1. PICK t \in TradeIds : t \in Used /\ Load(r, {t})
      BY <2>2 DEF get_trade_for_user
    <3> QED BY <3>1, LoadPreservesRIInv
  <2>3. CASE \E t \in Todo(r) : reconcile_trade(r, t)
    BY <2>3, ReconcileTradePreservesRIInv
  <2>4. CASE Interrupt(r)
    <3>1. Shrinks(r)
      BY <2>4, EndedRunShrinks DEF Interrupt, RIInv
    <3>2. UNCHANGED <<db, sub, exchangeVars>>
      BY <2>4 DEF Interrupt, vars, exchangeVars
    <3>3. SameKeys /\ RowsMove /\ db' \in [TradeIds -> Row \cup {None}]
      BY <3>2 DEF SameKeys, RowsMove, RIInv, RTypeOK, TypeOK
    <3> QED BY <3>1, <3>2, <3>3, ShrinkingPreservesRIInv
  <2> QED BY <1>2, <2>1, <2>2, <2>3, <2>4 DEF Reconcile
<1>3. CASE UNCHANGED rvars
  BY <1>1, <1>3 DEF rvars, vars
<1> QED BY <1>1, <1>2, <1>3 DEF RNext

(* The invariant behind the theorems that follow: the service's own, and   *)
(* that a refusal means no order, on its way to the client and in the row. *)
THEOREM AnyTimeInductive == RSpec => []RIInv
<1>1. RInit => RIInv
  BY RInitEstablishesRIInv
<1>2. RIInv /\ [RNext]_rvars => RIInv'
  BY RNextPreservesRIInv
<1> QED BY <1>1, <1>2, PTL DEF RSpec

(* Rows, sessions, messages and runs stay in their types.                  *)
THEOREM AnyTimeTypeCorrect == RSpec => []RTypeOK
<1>1. RIInv => RTypeOK
  BY DEF RIInv
<1> QED BY <1>1, AnyTimeInductive, PTL

(* Reconciliation beside the service sends nothing: one POST at most for a *)
(* client order id still, however many runs there are.                     *)
THEOREM AnyTimeOneOrder == RSpec => []OneOrderPerSignal
<1>1. RIInv => OneOrderPerSignal
  BY DEF RIInv, IInv
<1> QED BY <1>1, AnyTimeInductive, PTL

(* ... and whatever is sent can be traced to a row that says so, whatever  *)
(* the runs write over it.                                                 *)
THEOREM AnyTimeWriteAhead == RSpec => []WriteAhead
<1>1. RIInv => WriteAhead
  BY DEF RIInv, IInv
<1> QED BY <1>1, AnyTimeInductive, PTL

(* A refusal or a failed connection that _finalise_failure recorded is     *)
(* true for good: no stale object, late order or repeated submission makes *)
(* it false.                                                               *)
THEOREM RefusalIsTrue == RSpec => []RefusalMeansNoOrder
<1>1. RIInv => RefusalMeansNoOrder
  BY DEF RIInv, RefusedRows, RefusalMeansNoOrder, RefusalCodes, NeverAny
<1> QED BY <1>1, AnyTimeInductive, PTL
=============================================================================
