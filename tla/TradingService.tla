--------------------------- MODULE TradingService ---------------------------
(***************************************************************************)
(* The path of a trade from a signal to a settled row: the INSERT of the   *)
(* PENDING row, the claim, the POST to the exchange, and the three ways an *)
(* outcome is recorded, including the query that follows a doubtful one.   *)
(*                                                                         *)
(* A submitter is whoever runs claim_for_submission and submit_to_binance: *)
(* an executor worker or, with WEBHOOK_ASYNC_EXECUTION off, a webhook      *)
(* request.  Which trade id reaches which submitter is left open here, so  *)
(* whatever the queue does (lose an id, hold it twice, hand it out after a *)
(* restart) is a behaviour of this module.                                 *)
(*                                                                         *)
(* One action is what a submitter does between two awaits that matter: the *)
(* code from one answer of the database or the exchange to the next call.  *)
(***************************************************************************)
EXTENDS Exchange

CONSTANT Submitters

ASSUME SubmitterAssumption == None \notin Submitters

VARIABLES
  db,    \* the trades table: db[t] is the row with primary key t
  sub    \* sub[w]: the database session of submitter w

submitterVars == <<db, sub>>
vars == <<db, sub, wire, book, reply, posts>>

Phases == {"idle", "claimed", "posting", "uncertain", "asked"}

(* tid: the trade claimed.  obj: the Trade object of this session, which   *)
(* nothing refreshes after it was loaded.  found: what get_order returned. *)
Session == [ pc : Phases, tid : TradeIds \cup {None},
             obj : Row \cup {None}, found : Order \cup {None} ]

NoSession == [pc |-> "idle", tid |-> None, obj |-> None, found |-> None]

TypeOK ==
  /\ db \in [TradeIds -> Row \cup {None}]
  /\ sub \in [Submitters -> Session]
  /\ wire \in [Digests -> WireStates]
  /\ book \in [Digests -> Order \cup {None}]
  /\ reply \in [Digests -> Attempt \cup {None}]
  /\ posts \in [Digests -> Nat]

Init ==
  /\ db  = [t \in TradeIds |-> None]
  /\ sub = [w \in Submitters |-> NoSession]
  /\ ExchangeInit
-----------------------------------------------------------------------------
Used == {t \in TradeIds : db[t] # None}

\* Both unique indexes: signal_id and client_order_id.
ViolatesUnique(row) ==
  \E t \in Used : \/ db[t].signal_id = row.signal_id
                  \/ db[t].client_order_id = row.client_order_id

(* _create_pending_trade: the INSERT either commits a fresh row or raises, *)
(* in which case nothing changed.  Primary keys grow; failed inserts and   *)
(* rollbacks leave gaps.  A commit that is applied but reported as an      *)
(* error looks the same from here: the row is there.                       *)
create_pending_trade(s) ==
  /\ ~ViolatesUnique(PendingRow(s))
  /\ \E t \in TradeIds \ Used :
       /\ \A u \in Used : u < t
       /\ db' = [db EXCEPT ![t] = PendingRow(s)]
  /\ UNCHANGED <<sub, exchangeVars>>

\* Mutant: the claim does not ask whether the trade was claimed before.
Claimable_Again(row) == row # None /\ row.status = "PENDING"

\* The WHERE clause of the claim.
Claimable(row) == row # None /\ row.status = "PENDING" /\ ~row.submitted_at

\* Mutant: a select-then-send claim that writes nothing.
claim_for_submission_NoUpdate(w, t) ==
  /\ sub[w].pc = "idle"
  /\ Claimable(db[t])
  /\ sub' = [sub EXCEPT ![w] = [NoSession EXCEPT !.pc = "claimed", !.tid = t]]
  /\ UNCHANGED <<db, exchangeVars>>

(* claim_for_submission: one conditional UPDATE, then a commit.  A lost    *)
(* claim changes nothing.  If the commit is applied but reported as an     *)
(* error, the row is claimed and no submitter holds it.                    *)
claim_for_submission(w, t) ==
  /\ sub[w].pc = "idle"
  /\ Claimable(db[t])
  /\ db' = [db EXCEPT ![t].submitted_at = TRUE]
  /\ \/ sub' = [sub EXCEPT ![w] = [NoSession EXCEPT !.pc = "claimed", !.tid = t]]
     \/ UNCHANGED sub
  /\ UNCHANGED exchangeVars

\* The claimed row is loaded (its status is not looked at again) and sent.
submit_to_binance(w) ==
  /\ sub[w].pc = "claimed"
  /\ Send(db[sub[w].tid].client_order_id)
  /\ sub' = [sub EXCEPT ![w].pc = "posting", ![w].obj = db[sub[w].tid]]
  /\ UNCHANGED db

\* A commit writes back what differs between the loaded and the new object,
\* or raises and leaves the row alone.
Commit(t, loaded, new) ==
  \/ db' = [db EXCEPT ![t] = Flush(@, loaded, new)]
  \/ UNCHANGED db

Leave(w) == sub' = [sub EXCEPT ![w] = NoSession]

\* w has just read (or given up on) the answer to its POST.
EndOfWait(w) == Close(sub[w].obj.client_order_id)

\* A commit that raises ends the session: the worker logs and moves on.
finalise_success(w, a) ==
  /\ EndOfWait(w)
  /\ request(a) = "ok"
  /\ LET trade == sub[w].obj
         order == place_market_order(a, DryRun)
     IN Commit(sub[w].tid, trade, [Mirror(trade, order) EXCEPT !.error_code = None])
  /\ Leave(w)

\* Mutant: status and error code are swapped.
Refusal_Swapped(kind) ==
  CASE kind = "rate_limit"            -> <<"rate_limit", "REJECTED">>
    [] kind \in {"auth", "rejected"}  -> <<"rejected", "REJECTED">>
    [] kind = "unavailable"           -> <<"unavailable", "FAILED">>

\* The error class decides between REJECTED and FAILED.
Refusal(kind) ==
  CASE kind = "rate_limit"            -> <<"REJECTED", "rate_limit">>
    [] kind \in {"auth", "rejected"}  -> <<"REJECTED", "rejected">>
    [] kind = "unavailable"           -> <<"FAILED", "unavailable">>

finalise_failure(w, a) ==
  /\ EndOfWait(w)
  /\ request(a) \in {"rate_limit", "auth", "rejected", "unavailable"}
  /\ LET trade == sub[w].obj
         verdict == Refusal(request(a))
     IN Commit(sub[w].tid, trade,
               [trade EXCEPT !.status = verdict[1], !.error_code = verdict[2]])
  /\ Leave(w)

\* Mutant: FAILED until the exchange says otherwise.
handle_uncertain_outcome_AssumeFailed(w, a) ==
  /\ EndOfWait(w)
  /\ request(a) = "uncertain"
  /\ LET new == [sub[w].obj EXCEPT !.status = "FAILED", !.error_code = "uncertain"]
     IN /\ db' = [db EXCEPT ![sub[w].tid] = Flush(@, sub[w].obj, new)]
        /\ sub' = [sub EXCEPT ![w].pc = "uncertain", ![w].obj = new]

(* handle_uncertain_outcome: UNKNOWN is committed first; if that commit    *)
(* raises, nobody asks.                                                    *)
handle_uncertain_outcome(w, a) ==
  /\ EndOfWait(w)
  /\ request(a) = "uncertain"
  /\ LET new == [sub[w].obj EXCEPT !.status = "UNKNOWN", !.error_code = "uncertain"]
     IN \/ /\ Commit(sub[w].tid, sub[w].obj, new)
           /\ Leave(w)
        \/ /\ db' = [db EXCEPT ![sub[w].tid] = Flush(@, sub[w].obj, new)]
           /\ sub' = [sub EXCEPT ![w].pc = "uncertain", ![w].obj = new]

(* What reconcile_trade makes of the answer.  A trade the exchange has     *)
(* REJECTED keeps the error it had.                                        *)
Reconciled(trade, found) ==
  IF found = None
    THEN [trade EXCEPT !.status = "FAILED", !.error_code = "order_not_found",
                       !.reconciled_at = TRUE]
    ELSE LET new == Mirror(trade, found)
         IN [new EXCEPT !.error_code = IF new.status \in {"REJECTED", "FAILED"}
                                         THEN @ ELSE None,
                        !.reconciled_at = TRUE]

\* reconcile_trade, called at once on the trade just marked UNKNOWN: an
\* error leaves it alone, whatever the error.
ask_at_once(w) ==
  /\ sub[w].pc = "uncertain"
  /\ \E a \in Answers(sub[w].obj.client_order_id) :
       IF Answered(a)
         THEN sub' = [sub EXCEPT ![w].pc = "asked", ![w].found = get_order(a)]
         ELSE Leave(w)
  /\ UNCHANGED <<db, exchangeVars>>

record_answer(w) ==
  /\ sub[w].pc = "asked"
  /\ Commit(sub[w].tid, sub[w].obj, Reconciled(sub[w].obj, sub[w].found))
  /\ Leave(w)
  /\ UNCHANGED exchangeVars

(* Whatever ends a session early: the process is killed or restarted, the  *)
(* worker is cancelled while the executor stops, a query raises.           *)
Abandon(w) ==
  /\ sub[w].pc # "idle"
  /\ Leave(w)
  /\ IF sub[w].pc = "posting" THEN Close(sub[w].obj.client_order_id)
                              ELSE UNCHANGED exchangeVars
  /\ UNCHANGED db

Record(w) ==
  /\ sub[w].pc = "posting"
  /\ \E a \in Arrivals(sub[w].obj.client_order_id) :
       \/ finalise_success(w, a)
       \/ finalise_failure(w, a)
       \/ handle_uncertain_outcome(w, a)

Submit(w) ==
  \/ \E t \in TradeIds : claim_for_submission(w, t)
  \/ submit_to_binance(w)
  \/ Record(w)
  \/ ask_at_once(w)
  \/ record_answer(w)
  \/ Abandon(w)

Exchanging == ExchangeStep /\ UNCHANGED submitterVars

Next ==
  \/ \E s \in Signals : create_pending_trade(s)
  \/ \E w \in Submitters : Submit(w)
  \/ Exchanging

Spec == Init /\ [][Next]_vars
-----------------------------------------------------------------------------
(* Properties                                                              *)

Cid(t) == db[t].client_order_id

(* However many times a signal arrives, whichever submitters hold its id,  *)
(* and wherever the process dies, one POST at most is sent for it: the     *)
(* claim commits before the POST and nothing is ever re-sent.              *)
OneOrderPerSignal == \A c \in Digests : posts[c] <= 1

(* "Durable before any money moves": whatever is on the wire or on the     *)
(* book can be traced to a committed row that says it was submitted.       *)
WriteAhead ==
  \A c \in Digests :
    wire[c] # "idle" \/ book[c] # None \/ posts[c] > 0
      => \E t \in Used : Cid(t) = c /\ db[t].submitted_at

\* No order exists for c and none can still be created.
NoOrder(c) == book[c] = None /\ wire[c] = "idle"

\* What the row says of the order.
Mirrored(row) ==
  [status |-> row.binance_status, executed_quantity |-> row.executed_quantity]

(* A trade that has settled tells the truth: it carries the final report   *)
(* of its order, or there is no order and there never will be one.         *)
SettledMatchesExchange ==
  \A t \in Used :
    is_terminal(db[t]) =>
      \/ DryRun /\ Mirrored(db[t]) = DryRunResult
      \/ db[t].binance_status = None /\ NoOrder(Cid(t))
      \/ Mirrored(db[t]) = book[Cid(t)] /\ ~Live(book[Cid(t)])

(* A row mirrors a report the exchange really made of this order, as a     *)
(* whole: its status and its quantity belong together, and the order has   *)
(* since moved on from there or not at all.                                *)
MirrorNeverAhead ==
  \A t \in Used :
    db[t].binance_status # None =>
      \/ DryRun /\ Mirrored(db[t]) = DryRunResult
      \/ /\ book[Cid(t)] # None
         /\ \/ Mirrored(db[t]) = book[Cid(t)]
            \/ Advances(Mirrored(db[t]), book[Cid(t)])

(* "terminal: we know for certain no order exists": no order is on the     *)
(* book of a FAILED trade and none can still get there.                    *)
FailedMeansNoOrder ==
  \A t \in Used : db[t].status = "FAILED" => NoOrder(Cid(t))

(* A refusal or a failed connection the submitter itself recorded is       *)
(* always true, whatever reconciliation does meanwhile.                    *)
RefusalMeansNoOrder ==
  \A t \in Used :
    db[t].error_code \in {"rate_limit", "rejected", "unavailable"}
      => NoOrder(Cid(t))

(* "Terminal - never change again": no step rewrites a settled row.        *)
TerminalIsFinal ==
  [][\A t \in Used : is_terminal(db[t]) => db'[t] = db[t]]_vars

(* Why: the inductive invariant behind OneOrderPerSignal and WriteAhead.   *)

(* A session under way holds a claimed row; once it has sent, its object   *)
(* names the row's client order id.                                        *)
SessionsHoldRows ==
  \A w \in Submitters : sub[w].pc # "idle" =>
    /\ sub[w].tid \in Used
    /\ db[sub[w].tid].submitted_at
    /\ sub[w].pc # "claimed" =>
         sub[w].obj # None /\ sub[w].obj.client_order_id = Cid(sub[w].tid)

\* Two sessions never hold the same trade.
OneHolder ==
  \A v, w \in Submitters :
    sub[v].pc # "idle" /\ sub[w].pc # "idle" /\ sub[v].tid = sub[w].tid => v = w

\* What the index on client_order_id guarantees.
UniqueCids == \A t, u \in Used : Cid(t) = Cid(u) => t = u

\* Nothing was sent for a row that is not claimed, or claimed and not sent.
SentIsClaimed ==
  /\ \A t \in Used : ~db[t].submitted_at => posts[Cid(t)] = 0
  /\ \A w \in Submitters : sub[w].pc = "claimed" => posts[Cid(sub[w].tid)] = 0

(* Held together by the claim: a row says it was submitted before anything *)
(* is sent for it, and only the session that made it say so sends.         *)
IInv ==
  /\ TypeOK
  /\ SessionsHoldRows
  /\ OneHolder
  /\ UniqueCids
  /\ SentIsClaimed
  /\ OneOrderPerSignal
  /\ WriteAhead

(* The refinement mapping: a signal's row, and its order, as the promise   *)
(* sees them.                                                              *)
RowsOf(s) == {t \in Used : db[t].signal_id = s}

StageOf(s) == IF RowsOf(s) = {} THEN "unseen"
              ELSE IF \E t \in RowsOf(s) : db[t].submitted_at THEN "submitted"
              ELSE "recorded"

OrderOf(s) == IF \A t \in RowsOf(s) : book[Cid(t)] = None THEN "none"
              ELSE IF \E t \in RowsOf(s) : Live(book[Cid(t)]) THEN "live"
              ELSE "done"

VerdictOf(s) == IF \A t \in RowsOf(s) : ~is_terminal(db[t]) THEN "open"
                ELSE IF \A t \in RowsOf(s) : db[t].binance_status = None
                THEN "refused" ELSE "traded"

Ledger == INSTANCE SignalLedger WITH
  stage   <- [s \in Signals |-> StageOf(s)],
  order   <- [s \in Signals |-> OrderOf(s)],
  verdict <- [s \in Signals |-> VerdictOf(s)]

(* The service keeps its promise: every step of it is a step of            *)
(* SignalLedger or changes nothing the promise speaks of.                  *)
ImplementsLedger == Ledger!LedgerSpec
=============================================================================
