--------------------------- MODULE Reconciliation ---------------------------
(***************************************************************************)
(* Reconciliation beside a running service: the batch job                  *)
(* (scripts/reconcile.py) and POST /trades/{id}/reconcile both load trades *)
(* into a session of their own, ask the exchange, and write the answer     *)
(* over the row.  Nothing keeps them from each other or from a submitter.  *)
(* AfterSubmitters and OneAtATime are what an operator could promise       *)
(* instead; with both FALSE this is the code as it stands.                 *)
(***************************************************************************)
EXTENDS TradingService

CONSTANTS
  Reconcilers,
  Limit,            \* the LIMIT of find_reconcilable_trades
  AfterSubmitters,  \* only trades whose submission is over are reconciled
  OneAtATime        \* no trade is reconciled by two runs at once

ASSUME ReconcilerAssumption ==
  /\ Limit \in Nat \ {0}
  /\ AfterSubmitters \in BOOLEAN
  /\ OneAtATime \in BOOLEAN

(* rec[r].todo[t] is the Trade object for t this run has loaded and not    *)
(* dealt with yet; found is what get_order returned for the current one.   *)
VARIABLE rec

rvars == <<db, sub, wire, book, reply, posts, rec>>

Run == [ pc    : {"idle", "ready", "asked"},
         todo  : [TradeIds -> Row \cup {None}],
         found : Order \cup {None} ]

NoRun == [pc |-> "idle", todo |-> [t \in TradeIds |-> None], found |-> None]

RTypeOK == TypeOK /\ rec \in [Reconcilers -> Run]

RInit == Init /\ rec = [r \in Reconcilers |-> NoRun]

Todo(r) == {t \in TradeIds : rec[r].todo[t] # None}

\* Sent, the request has ended, and the submitter has left.
Over(t) ==
  /\ db[t].submitted_at
  /\ wire[Cid(t)] = "idle"
  /\ \A w \in Submitters : sub[w].tid # t

Allowed(r, t) ==
  /\ AfterSubmitters => Over(t)
  /\ OneAtATime => \A q \in Reconcilers \ {r} : t \notin Todo(q)

Load(r, batch) ==
  /\ rec[r].pc = "idle"
  /\ batch # {}
  /\ \A t \in batch : Allowed(r, t)
  /\ rec' = [rec EXCEPT ![r] =
       [ pc    |-> "ready",
         todo  |-> [t \in TradeIds |-> IF t \in batch THEN db[t] ELSE None],
         found |-> None ]]
  /\ UNCHANGED vars

\* Rows in flight among those older than the cutoff.
InFlight(cutoff) ==
  {t \in Used : t <= cutoff /\ db[t].status \in RECONCILABLE_STATUSES}

\* Oldest first.  The age of a row grows with its primary key.
Oldest(S, n) == {t \in S : Cardinality({u \in S : u < t}) < n}

find_reconcilable_trades(r, cutoff) ==
  Load(r, Oldest(InFlight(cutoff), Limit))

\* POST /trades/{id}/reconcile: any trade, whatever its age and status.
get_trade_for_user(r, t) == t \in Used /\ Load(r, {t})

\* The loop over the list: the oldest trade not dealt with.
Current(r, t) == t \in Todo(r) /\ \A u \in Todo(r) : t <= u

\* Done with t; the run ends with its last trade.
Advance(r, t) ==
  rec' = [rec EXCEPT ![r] = [ pc    |-> IF Todo(r) = {t} THEN "idle" ELSE "ready",
                              todo  |-> [rec[r].todo EXCEPT ![t] = None],
                              found |-> None ]]

EndRun(r) == rec' = [rec EXCEPT ![r] = NoRun]

\* is_terminal looks at the object as it was loaded.
skip_terminal(r, t) ==
  /\ rec[r].pc = "ready"
  /\ Current(r, t)
  /\ is_terminal(rec[r].todo[t])
  /\ Advance(r, t)
  /\ UNCHANGED vars

\* Mutant: settled trades are queried again.
ask_Settled(r, t, a) ==
  /\ rec[r].pc = "ready"
  /\ Current(r, t)
  /\ a \in Answers(rec[r].todo[t].client_order_id)
  /\ IF Answered(a)
       THEN rec' = [rec EXCEPT ![r].pc = "asked", ![r].found = get_order(a)]
       ELSE Advance(r, t)
  /\ UNCHANGED vars

\* An error of any kind leaves the trade as it is.
ask(r, t, a) ==
  /\ rec[r].pc = "ready"
  /\ Current(r, t)
  /\ ~is_terminal(rec[r].todo[t])
  /\ a \in Answers(rec[r].todo[t].client_order_id)
  /\ IF Answered(a)
       THEN rec' = [rec EXCEPT ![r].pc = "asked", ![r].found = get_order(a)]
       ELSE Advance(r, t)
  /\ UNCHANGED vars

Outcome(r, t) == Reconciled(rec[r].todo[t], rec[r].found)

record(r, t) ==
  /\ rec[r].pc = "asked"
  /\ Current(r, t)
  /\ db' = [db EXCEPT ![t] = Flush(@, rec[r].todo[t], Outcome(r, t))]
  /\ Advance(r, t)
  /\ UNCHANGED <<sub, exchangeVars>>

\* A commit that raises, applied or not, ends the whole run.
record_raises(r, t) ==
  /\ rec[r].pc = "asked"
  /\ Current(r, t)
  /\ Commit(t, rec[r].todo[t], Outcome(r, t))
  /\ EndRun(r)
  /\ UNCHANGED <<sub, exchangeVars>>

\* The job or the request is killed, or a query raises.
Interrupt(r) ==
  /\ rec[r].pc # "idle"
  /\ EndRun(r)
  /\ UNCHANGED vars

reconcile_trade(r, t) ==
  \/ skip_terminal(r, t)
  \/ \E a \in Answers(rec[r].todo[t].client_order_id) : ask(r, t, a)
  \/ record(r, t)
  \/ record_raises(r, t)

Reconcile(r) ==
  \/ \E cutoff \in TradeIds : find_reconcilable_trades(r, cutoff)
  \/ \E t \in TradeIds : get_trade_for_user(r, t)
  \/ \E t \in Todo(r) : reconcile_trade(r, t)
  \/ Interrupt(r)

RNext ==
  \/ Next /\ UNCHANGED rec
  \/ \E r \in Reconcilers : Reconcile(r)

RSpec == RInit /\ [][RNext]_rvars

(***************************************************************************)
(* Fairness.  Requests end: the client's timeout sees to it.  A worker     *)
(* that holds a trade goes on with it, unless its session ends.  The job   *)
(* runs again and again, the exchange answers it now and then, and so does *)
(* the database: strong fairness, because any one try may fail.            *)
(***************************************************************************)
RequestsEnd ==
  \A c \in Digests : WF_rvars((Execute(c) \/ Refuse(c)) /\ UNCHANGED <<submitterVars, rec>>)

WorkersProceed ==
  \A w \in Submitters :
    WF_rvars((submit_to_binance(w) \/ Record(w) \/ ask_at_once(w) \/ record_answer(w))
             /\ UNCHANGED rec)

RunsSucceed ==
  \A r \in Reconcilers, t \in TradeIds :
    /\ SF_rvars(/\ t \in Todo(r)
                /\ \E a \in Answers(Cid(t)) : Answered(a) /\ ask(r, t, a))
    /\ SF_rvars(record(r, t))
    /\ SF_rvars(skip_terminal(r, t))

JobKeepsRunning ==
  \A r \in Reconcilers, t \in TradeIds : SF_rvars(find_reconcilable_trades(r, t))

LiveSpec ==
  RSpec /\ RequestsEnd /\ WorkersProceed /\ RunsSucceed /\ JobKeepsRunning
-----------------------------------------------------------------------------
(* Properties                                                              *)

(* No row is ever ahead of the exchange, in the code as it stands, with    *)
(* any number of runs and submitters writing columns of the same row over  *)
(* each other: an order is recorded only if there is one, no more of it as *)
(* executed than was, and as filled or expired only if it is.              *)
NeverAheadOfExchange ==
  \A t \in Used : ~DryRun =>
    LET order == book[Cid(t)]
    IN /\ db[t].binance_status # None => order # None
       /\ db[t].executed_quantity # None =>
            order # None /\ db[t].executed_quantity <= order.executed_quantity
       /\ db[t].status = "FILLED" => order # None /\ order.status = "FILLED"
       /\ db[t].status = "EXPIRED" =>
            order # None /\ order.status \in {"EXPIRED", "EXPIRED_IN_MATCH"}

(* A trade nobody has sent waits as PENDING for the queue, a resume or a   *)
(* reconciliation run to pick it up.                                       *)
UnsentStaysOpen ==
  \A t \in Used : ~db[t].submitted_at => db[t].status = "PENDING"

(* A trade that was sent does not stay in doubt: from some point on the    *)
(* row has the exchange's word for what became of it, or a refusal.        *)
InDoubt(t) == t \in Used /\ db[t].submitted_at /\ db[t].status \in {"PENDING", "UNKNOWN"}

DoubtEnds == \A t \in TradeIds : InDoubt(t) ~> []~InDoubt(t)
=============================================================================
