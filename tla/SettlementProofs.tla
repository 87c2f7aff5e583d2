-------------------------- MODULE SettlementProofs --------------------------
(***************************************************************************)
(* What the service and the reconciliation job promise together when the   *)
(* job keeps to trades whose submission is over and no trade is in two     *)
(* runs at once: settled rows tell the truth, rows mirror what the         *)
(* exchange reported, a settled row never changes, and every step is one   *)
(* of SignalLedger.  Without this discipline each of the first two fails   *)
(* (runs FailedWithOrder and MixedRow).  What is left then is proved last: *)
(* no row is ever ahead of the exchange.                                   *)
(***************************************************************************)
EXTENDS ReconciliationProofs

(* The discipline, an exchange that has acted on a request when its client *)
(* stops waiting, and one that does not use PENDING_CANCEL, a live status  *)
(* the code takes for a settled one.                                       *)
Discipline ==
  /\ AfterSubmitters
  /\ OneAtATime
  /\ ~LateArrival
  /\ "PENDING_CANCEL" \notin BookStatuses

(* The inductive invariant.                                                *)

\* The exchange has reported o of the order, which may have moved on since.
Reported(c, o) ==
  /\ o \in Orders
  /\ book[c] \in Orders
  /\ o = book[c] \/ Advances(o, book[c])

\* What get_order returned is still so.
Known(c, found) == IF found = None THEN book[c] = None ELSE Reported(c, found)

BookRight == \A c \in Digests : book[c] = None \/ (~DryRun /\ book[c] \in Orders)

\* An answer that waits for its client is the end of its request, and an
\* order in it was really reported.
ReplyRight(c) ==
  reply[c] # None =>
    /\ wire[c] = "idle"
    /\ request(reply[c]) = "ok" /\ ~DryRun =>
         reply[c].payload # None /\ Reported(c, reply[c].payload)

RepliesRight == \A c \in Digests : ReplyRight(c)

\* What a row may say of the order c: a settled row without a report knows
\* that there is none; a report is a real one and gives the row its status.
RowRight(row, c) ==
  /\ is_terminal(row) /\ row.binance_status = None => NoOrder(c)
  /\ row.binance_status # None =>
       /\ row.status = BINANCE_STATUS_MAP(row.binance_status)
       /\ \/ DryRun /\ Mirrored(row) = DryRunResult
          \/ Reported(c, Mirrored(row))

RowsRight == \A t \in Used : RowRight(db[t], Cid(t))

\* Nothing was written on a row before it was claimed.
UnsentRight ==
  \A t \in Used : ~db[t].submitted_at => db[t].status = "PENDING" /\ db[t].binance_status = None

\* The object of a session is the row as it stands, and its request is over
\* once it has given up on the answer.
SessionRight(s) ==
  s.pc # "idle" =>
    /\ db[s.tid].binance_status = None
    /\ s.pc \in {"claimed", "posting"} => db[s.tid].status = "PENDING"
    /\ s.pc \in {"uncertain", "asked"} => db[s.tid].status = "UNKNOWN" /\ wire[Cid(s.tid)] = "idle"
    /\ s.pc # "claimed" => s.obj = db[s.tid]
    /\ s.pc = "posting" => wire[Cid(s.tid)] # "orphan"
    /\ s.pc = "asked" => Known(Cid(s.tid), s.found)

SessionsRight == \A w \in Submitters : SessionRight(sub[w])

\* So are the objects of a run; nobody else works on their trades.
RunRight(r, t) ==
  /\ rec[r].todo[t] = db[t]
  /\ db[t].submitted_at
  /\ wire[Cid(t)] = "idle"
  /\ \A w \in Submitters : sub[w].tid # t
  /\ \A q \in Reconcilers \ {r} : rec[q].todo[t] = None
  /\ rec[r].pc = "asked" /\ Current(r, t) =>
       ~is_terminal(db[t]) /\ Known(Cid(t), rec[r].found)

RunsRight == \A r \in Reconcilers : \A t \in Todo(r) : RunRight(r, t)

\* What the index on signal_id guarantees.
UniqueSignals == \A t, u \in Used : db[t].signal_id = db[u].signal_id => t = u

SInv ==
  /\ RIInv
  /\ BookRight
  /\ RepliesRight
  /\ RowsRight
  /\ UnsentRight
  /\ SessionsRight
  /\ RunsRight
  /\ UniqueSignals
-----------------------------------------------------------------------------
(* Orders and the book.                                                    *)

\* Reports of one order follow each other.
LEMMA AdvancesFollow ==
  ASSUME NEW a \in Orders, NEW b \in Orders, NEW c \in Orders,
         Advances(a, b), Advances(b, c)
  PROVE  a = c \/ Advances(a, c)
<1>1. /\ a.executed_quantity \in Int
      /\ b.executed_quantity \in Int
      /\ c.executed_quantity \in Int
  BY KeyAssumption DEF Orders, Order
<1> QED BY <1>1 DEF Advances

\* What a step does to the book: nothing, an order moves on, or a request
\* under way creates one.
BookMoves(c) ==
  \/ book'[c] = book[c]
  \/ book[c] \in Orders /\ book'[c] \in Orders /\ Advances(book[c], book'[c])
  \/ book[c] = None /\ wire[c] # "idle" /\ ~DryRun /\ book'[c] \in Orders

LEMMA BookStepMoves ==
  ASSUME TypeOK, BookRight, WireMoves
  PROVE  BookRight' /\ \A c \in Digests : BookMoves(c)
<1>1. ASSUME NEW c \in Digests, Execute(c) \/ Progress(c)
      PROVE  BookRight' /\ \A d \in Digests : BookMoves(d)
  <2>1. CASE book' = book
    BY <2>1 DEF BookRight, BookMoves
  <2>2. CASE Execute(c) /\ book' # book
    <3>1. PICK order \in Orders : book' = [book EXCEPT ![c] = order]
      BY <2>2 DEF Execute
    <3>2. book[c] = None /\ ~DryRun /\ wire[c] # "idle"
      BY <2>2 DEF Execute
    <3>3. book'[c] = order /\ \A d \in Digests \ {c} : book'[d] = book[d]
      BY <3>1 DEF TypeOK
    <3> QED BY <3>2, <3>3 DEF BookRight, BookMoves
  <2>3. CASE Progress(c)
    <3>1. PICK order \in Orders :
            Advances(book[c], order) /\ book' = [book EXCEPT ![c] = order]
      BY <2>3 DEF Progress
    <3>2. book[c] \in Orders /\ ~DryRun
      BY <2>3 DEF Progress, BookRight
    <3>3. book'[c] = order /\ \A d \in Digests \ {c} : book'[d] = book[d]
      BY <3>1 DEF TypeOK
    <3> QED BY <3>1, <3>2, <3>3 DEF BookRight, BookMoves
  <2> QED BY <1>1, <2>1, <2>2, <2>3
<1>2. CASE book' = book
  BY <1>2 DEF BookRight, BookMoves
<1>3. \/ book' = book
      \/ \E c \in Digests : Execute(c) \/ Progress(c)
  BY DEF WireMoves, exchangeVars, Close, Send, ExchangeStep, Refuse, Stall
<1> QED BY <1>1, <1>2, <1>3

\* What was reported stays reported, what is known stays known.
LEMMA ReportsStay ==
  ASSUME NEW c \in Digests, BookMoves(c)
  PROVE  /\ \A o : Reported(c, o) => Reported(c, o)'
         /\ \A f : Known(c, f) /\ wire[c] = "idle" => Known(c, f)'
         /\ NoOrder(c) /\ wire'[c] = "idle" => NoOrder(c)'
<1>1. ASSUME NEW o, Reported(c, o)
      PROVE  Reported(c, o)'
  <2>1. CASE book'[c] = book[c]
    BY <1>1, <2>1 DEF Reported
  <2>2. CASE book[c] \in Orders /\ book'[c] \in Orders /\ Advances(book[c], book'[c])
    <3>1. o \in Orders
      BY <1>1 DEF Reported
    <3>2. o = book'[c] \/ Advances(o, book'[c])
      BY <1>1, <2>2, <3>1, AdvancesFollow DEF Reported
    <3> QED BY <2>2, <3>1, <3>2 DEF Reported
  <2>3. book[c] # None
    BY <1>1, NullAssumption DEF Reported, Orders
  <2> QED BY <2>1, <2>2, <2>3 DEF BookMoves
<1>2. ASSUME wire[c] = "idle", book[c] = None
      PROVE  book'[c] = None
  BY <1>2, NullAssumption DEF BookMoves, Orders
<1>3. ASSUME NEW f, Known(c, f), wire[c] = "idle"
      PROVE  Known(c, f)'
  BY <1>1, <1>2, <1>3 DEF Known
<1>4. NoOrder(c) /\ wire'[c] = "idle" => NoOrder(c)'
  BY <1>2 DEF NoOrder
<1> QED BY <1>1, <1>3, <1>4

\* How the client reads an answer to a request that was accepted.
LEMMA AcceptedReply ==
  ASSUME ~DryRun, NEW o \in Orders, NEW a \in Acceptances(o), request(a) = "ok"
  PROVE  a.payload = o /\ o # None
<1>1. a # ServerError
  BY NoFalseRefusal
<1>2. a # Response(200, None, FALSE, None)
  <2>1. request(Response(200, None, FALSE, None)) = "uncertain"
    BY DEF request, handle_response, Response
  <2> QED BY <2>1
<1>3. a = Response(200, None, TRUE, o)
  BY <1>1, <1>2 DEF Acceptances
<1> QED BY <1>3, NullAssumption DEF Response, Orders

\* ... and to one that was not.
LEMMA RefusedReply ==
  ASSUME NEW a \in Refusals
  PROVE  request(a) # "ok"
<1>1. CASE a = ServerError
  BY <1>1, NoFalseRefusal
<1>2. CASE a = NoResponse("connect_error")
  BY <1>2 DEF NoResponse, request
<1>3. CASE a.transport = "connected" /\ a.status_code \in {400, 401, 429, 418}
  <2>1. request(a) = handle_response(a)
    BY <1>3 DEF request
  <2>2. handle_response(a) # "ok"
    BY <1>3 DEF handle_response
  <2> QED BY <2>1, <2>2
<1>4. \/ a = ServerError \/ a = NoResponse("connect_error")
      \/ a.transport = "connected" /\ a.status_code \in {400, 401, 429, 418}
  BY DEF Refusals, Response
<1> QED BY <1>1, <1>2, <1>3, <1>4
-----------------------------------------------------------------------------
(* The exchange's steps.                                                   *)

\* Requests that were under way end; the answers are right.
LEMMA ExchangeKeepsReplies ==
  ASSUME SInv, Discipline, ExchangeStep
  PROVE  /\ RepliesRight'
         /\ \A c \in Digests : wire'[c] \in {wire[c], "idle"}
<1>1. TypeOK /\ QuietBeforePost /\ RepliesRight /\ BookRight /\ WireMoves
  BY DEF SInv, RIInv, RTypeOK, WireMoves
<1>2. \A d \in Digests : BookMoves(d)
  BY <1>1, BookStepMoves
<1>3. PICK c \in Digests : Execute(c) \/ Refuse(c) \/ Progress(c)
  BY DEF ExchangeStep, Stall, Discipline
<1>4. ASSUME NEW d \in Digests, wire'[d] = wire[d], reply'[d] = reply[d]
      PROVE  ReplyRight(d)'
  BY <1>1, <1>2, <1>4, ReportsStay DEF RepliesRight, ReplyRight
<1>5. CASE Progress(c)
  <2>1. \A d \in Digests : wire'[d] = wire[d] /\ reply'[d] = reply[d]
    BY <1>5 DEF Progress
  <2> QED BY <1>4, <2>1 DEF RepliesRight
<1>6. CASE Execute(c) \/ Refuse(c)
  <2>1. wire[c] # "idle" /\ wire' = [wire EXCEPT ![c] = "idle"] /\ reply[c] = None
    BY <1>1, <1>6 DEF Execute, Refuse, RepliesRight, ReplyRight
  <2>2. wire'[c] = "idle" /\ \A d \in Digests \ {c} : wire'[d] = wire[d]
    BY <1>1, <2>1 DEF TypeOK
  <2>3. \A d \in Digests \ {c} : reply'[d] = reply[d]
    BY <1>1, <1>6 DEF Execute, Refuse, Deliver, TypeOK
  <2>4. reply'[c] # None /\ request(reply'[c]) = "ok" /\ ~DryRun =>
          reply'[c].payload # None /\ Reported(c, reply[c].payload)'
    <3>1. SUFFICES ASSUME reply'[c] # None, request(reply'[c]) = "ok", ~DryRun
                   PROVE  reply'[c].payload # None /\ Reported(c, reply[c].payload)'
      OBVIOUS
    <3>2. CASE Execute(c)
      <4>1. PICK order \in Orders :
              /\ book' = [book EXCEPT ![c] = order]
              /\ \E a \in Acceptances(order) \cup {None} : Deliver(c, a)
        BY <3>1, <3>2 DEF Execute
      <4>2. reply'[c] \in Acceptances(order)
        BY <1>1, <2>1, <3>1, <4>1 DEF Deliver, TypeOK
      <4>3. reply'[c].payload = order /\ order # None
        BY <3>1, <4>2, AcceptedReply
      <4>4. book'[c] = order
        BY <1>1, <4>1 DEF TypeOK
      <4> QED BY <4>3, <4>4 DEF Reported
    <3>3. CASE Refuse(c)
      <4>1. reply'[c] \in Refusals
        BY <1>1, <2>1, <3>1, <3>3 DEF Refuse, Deliver, TypeOK
      <4> QED BY <3>1, <4>1, RefusedReply
    <3> QED BY <1>6, <3>2, <3>3
  <2>5. ReplyRight(c)'
    BY <2>2, <2>4 DEF ReplyRight
  <2> QED BY <1>4, <2>2, <2>3, <2>5 DEF RepliesRight
<1> QED BY <1>3, <1>5, <1>6

LEMMA ExchangePreservesSInv ==
  ASSUME SInv, RIInv', Discipline, Exchanging, UNCHANGED rec
  PROVE  SInv'
<1>1. /\ UNCHANGED <<db, sub, rec>> /\ TypeOK /\ WireMoves
      /\ BookRight /\ RowsRight /\ UnsentRight /\ SessionsRight /\ RunsRight /\ UniqueSignals
  BY DEF SInv, RIInv, RTypeOK, Exchanging, submitterVars, WireMoves
<1>2. BookRight' /\ \A c \in Digests : BookMoves(c)
  BY <1>1, BookStepMoves
<1>3. RepliesRight' /\ \A c \in Digests : wire'[c] \in {wire[c], "idle"}
  BY ExchangeKeepsReplies DEF Exchanging
<1>4. Used' = Used /\ \A t \in Used : Cid(t)' = Cid(t) /\ Cid(t) \in Digests
  BY <1>1 DEF Used, Cid, TypeOK, Row
<1>5. /\ \A c \in Digests : \A o : Reported(c, o) => Reported(c, o)'
      /\ \A c \in Digests : \A f : Known(c, f) /\ wire[c] = "idle" => Known(c, f)'
      /\ \A c \in Digests : NoOrder(c) => NoOrder(c)'
  <2>1. \A c \in Digests : NoOrder(c) => wire'[c] = "idle"
    BY <1>3 DEF NoOrder
  <2> QED BY <1>2, <2>1, ReportsStay
<1>6. RowsRight'
  <2>1. SUFFICES ASSUME NEW t \in Used
                 PROVE  RowRight(db[t], Cid(t))'
    BY <1>4 DEF RowsRight
  <2>2. RowRight(db[t], Cid(t)) /\ db'[t] = db[t] /\ Cid(t)' = Cid(t) /\ Cid(t) \in Digests
    BY <1>1, <1>4 DEF RowsRight
  <2>3. Mirrored(db[t])' = Mirrored(db[t])
    BY <1>1 DEF Mirrored
  <2> QED BY <1>5, <2>2, <2>3 DEF RowRight
<1>7. UnsentRight' /\ UniqueSignals'
  BY <1>1, <1>4 DEF UnsentRight, UniqueSignals
<1>8. SessionsRight'
  <2>1. SUFFICES ASSUME NEW w \in Submitters, sub[w].pc # "idle"
                 PROVE  SessionRight(sub[w])'
    BY <1>1 DEF SessionsRight, SessionRight
  <2>2. sub[w].tid \in Used /\ SessionRight(sub[w])
    BY <1>1, <2>1 DEF SInv, RIInv, IInv, SessionsHoldRows, SessionsRight
  <2>3. Cid(sub[w].tid)' = Cid(sub[w].tid) /\ Cid(sub[w].tid) \in Digests
    BY <1>1, <1>4, <2>2
  <2> QED BY <1>1, <1>3, <1>5, <2>2, <2>3 DEF SessionRight
<1>9. RunsRight'
  <2>1. SUFFICES ASSUME NEW r \in Reconcilers, NEW t \in Todo(r)
                 PROVE  RunRight(r, t)'
    BY <1>1 DEF RunsRight, Todo
  <2>2. RunRight(r, t) /\ t \in Used
    BY <1>1 DEF SInv, RIInv, RunsHoldRows, RunsRight
  <2>3. Current(r, t)' <=> Current(r, t)
    BY <1>1 DEF Current, Todo
  <2> QED BY <1>1, <1>3, <1>4, <1>5, <2>2, <2>3 DEF RunRight
<1> QED BY <1>2, <1>3, <1>6, <1>7, <1>8, <1>9 DEF SInv
-----------------------------------------------------------------------------
(* Steps of the service and of the runs.                                   *)

\* The step is about the trade t alone.
OnlyTrade(t) ==
  /\ t \in Used' /\ Used \subseteq Used' /\ Used' \subseteq Used \cup {t}
  /\ \A u \in TradeIds \ {t} : db'[u] = db[u]
  /\ book' = book
  /\ \A d \in Digests : d # Cid(t)' => wire'[d] = wire[d] /\ reply'[d] = reply[d]
  /\ \A w \in Submitters :
       /\ sub'[w] = sub[w] \/ sub'[w].pc = "idle" \/ sub'[w].tid = t
       /\ sub'[w].tid \in {sub[w].tid, None, t}
  /\ \A r \in Reconcilers :
       /\ rec'[r] = rec[r] \/ rec'[r].pc # "asked"
       /\ \A u \in TradeIds : rec'[r].todo[u] \in {rec[r].todo[u], None}

\* What the invariant says of t.
TradeRight(t) ==
  /\ ReplyRight(Cid(t))
  /\ RowRight(db[t], Cid(t))
  /\ ~db[t].submitted_at => db[t].status = "PENDING" /\ db[t].binance_status = None
  /\ \A u \in Used : db[u].signal_id = db[t].signal_id => u = t
  /\ \A w \in Submitters : sub[w].tid = t => SessionRight(sub[w])
  /\ \A r \in Reconcilers : t \in Todo(r) => RunRight(r, t)

\* What such a step leaves alone stays right.
LEMMA OneTradeAtATime ==
  ASSUME SInv, RIInv', NEW t \in TradeIds, OnlyTrade(t), TradeRight(t)'
  PROVE  SInv'
<1>1. /\ TypeOK /\ BookRight /\ RepliesRight /\ RowsRight /\ UnsentRight
      /\ SessionsRight /\ RunsRight /\ UniqueSignals
  BY DEF SInv, RIInv, RTypeOK
<1>2. \A u \in Used' \ {t} : /\ u \in Used /\ u \in TradeIds
                             /\ db'[u] = db[u] /\ Cid(u)' = Cid(u)
                             /\ Cid(u) \in Digests
                             /\ Cid(u) # Cid(t)'
  <2>1. UniqueCids' /\ t \in Used'
    BY DEF RIInv, IInv, OnlyTrade
  <2>2. ASSUME NEW u \in Used' \ {t}
        PROVE  u \in Used /\ u \in TradeIds /\ db'[u] = db[u] /\ Cid(u)' = Cid(u)
    BY DEF OnlyTrade, Used, Cid
  <2>3. ASSUME NEW u \in Used' \ {t}
        PROVE  Cid(u)' # Cid(t)'
    BY <2>1 DEF UniqueCids
  <2>4. \A u \in Used : Cid(u) \in Digests
    BY <1>1 DEF TypeOK, Used, Row, Cid
  <2> QED BY <2>2, <2>3, <2>4
<1>3. /\ \A c, o : Reported(c, o)' <=> Reported(c, o)
      /\ \A c, f : Known(c, f)' <=> Known(c, f)
  BY DEF OnlyTrade, Reported, Known
<1>4. BookRight'
  BY <1>1 DEF OnlyTrade, BookRight
<1>5. RepliesRight'
  <2>1. SUFFICES ASSUME NEW d \in Digests, d # Cid(t)'
                 PROVE  ReplyRight(d)'
    BY DEF RepliesRight, TradeRight
  <2>2. wire'[d] = wire[d] /\ reply'[d] = reply[d] /\ ReplyRight(d)
    BY <1>1, <2>1 DEF OnlyTrade, RepliesRight
  <2> QED BY <1>3, <2>2 DEF ReplyRight
<1>6. RowsRight'
  <2>1. SUFFICES ASSUME NEW u \in Used' \ {t}
                 PROVE  RowRight(db[u], Cid(u))'
    BY DEF RowsRight, TradeRight
  <2>2. /\ db'[u] = db[u] /\ Cid(u)' = Cid(u) /\ Cid(u) \in Digests
        /\ wire'[Cid(u)] = wire[Cid(u)] /\ RowRight(db[u], Cid(u))
    BY <1>1, <1>2, <2>1 DEF OnlyTrade, RowsRight
  <2>3. Mirrored(db[u])' = Mirrored(db[u]) /\ (NoOrder(Cid(u))' <=> NoOrder(Cid(u)))
    BY <2>2 DEF Mirrored, NoOrder, OnlyTrade
  <2> QED BY <1>3, <2>2, <2>3 DEF RowRight
<1>7. UnsentRight' /\ UniqueSignals'
  <2>1. UnsentRight'
    BY <1>1, <1>2 DEF UnsentRight, TradeRight
  <2>2. UniqueSignals'
    BY <1>1, <1>2 DEF UniqueSignals, TradeRight
  <2> QED BY <2>1, <2>2
<1>8. SessionsRight'
  <2>1. SUFFICES ASSUME NEW w \in Submitters, sub'[w].pc # "idle", sub'[w].tid # t
                 PROVE  SessionRight(sub[w])'
    BY DEF SessionsRight, SessionRight, TradeRight
  <2>2. sub'[w] = sub[w]
    BY <2>1 DEF OnlyTrade
  <2>3. sub[w].tid \in Used' \ {t}
    BY <2>1, <2>2 DEF RIInv, IInv, SessionsHoldRows
  <2>4. /\ db'[sub[w].tid] = db[sub[w].tid] /\ Cid(sub[w].tid)' = Cid(sub[w].tid)
        /\ wire'[Cid(sub[w].tid)] = wire[Cid(sub[w].tid)]
        /\ SessionRight(sub[w])
    BY <1>1, <1>2, <2>2, <2>3 DEF OnlyTrade, SessionsRight
  <2> QED BY <1>3, <2>2, <2>4 DEF SessionRight
<1>9. RunsRight'
  <2>1. SUFFICES ASSUME NEW r \in Reconcilers, NEW u \in Todo(r)', u # t
                 PROVE  RunRight(r, u)'
    BY DEF RunsRight, TradeRight
  <2>2. u \in TradeIds /\ u \in Used' \ {t}
    BY <2>1 DEF RIInv, RunsHoldRows, Todo
  <2>3. rec'[r].todo[u] = rec[r].todo[u] /\ u \in Todo(r)
    BY <2>1, <2>2 DEF OnlyTrade, Todo
  <2>4. /\ db'[u] = db[u] /\ Cid(u)' = Cid(u)
        /\ wire'[Cid(u)] = wire[Cid(u)]
        /\ RunRight(r, u)
    BY <1>1, <1>2, <2>2, <2>3 DEF OnlyTrade, RunsRight
  <2>5. \A w \in Submitters : sub'[w].tid # u
    BY <2>1, <2>2, <2>4, KeyAssumption DEF OnlyTrade, RunRight
  <2>6. \A q \in Reconcilers \ {r} : rec'[q].todo[u] = None
    BY <2>2, <2>4 DEF OnlyTrade, RunRight
  <2>7. rec'[r].pc = "asked" /\ Current(r, u)' =>
          ~is_terminal(db[u])' /\ Known(Cid(u), rec[r].found)'
    <3>1. SUFFICES ASSUME rec'[r].pc = "asked", Current(r, u)'
                   PROVE  ~is_terminal(db[u])' /\ Known(Cid(u), rec[r].found)'
      OBVIOUS
    <3>2. rec'[r] = rec[r]
      BY <3>1 DEF OnlyTrade
    <3>3. Current(r, u)
      BY <3>1, <3>2 DEF Current, Todo
    <3>4. is_terminal(db[u])' <=> is_terminal(db[u])
      BY <2>4 DEF is_terminal
    <3> QED BY <1>3, <2>4, <3>1, <3>2, <3>3, <3>4 DEF RunRight
  <2> QED BY <2>3, <2>4, <2>5, <2>6, <2>7 DEF RunRight
<1> QED BY <1>4, <1>5, <1>6, <1>7, <1>8, <1>9 DEF SInv
-----------------------------------------------------------------------------
(* What is written on a row.                                               *)

\* Two rows of the same trade, claimed or not alike.
Keeps(row, new) ==
  /\ new.signal_id = row.signal_id
  /\ new.client_order_id = row.client_order_id
  /\ new.submitted_at = row.submitted_at

\* A session whose object is the row as it stands writes what it means.
LEMMA FlushLoaded ==
  ASSUME NEW row \in Row, NEW new \in Row, Keeps(row, new)
  PROVE  Flush(row, row, new) = new
<1>1. \A a, b : Dirty(a, b, b) = a
  BY DEF Dirty
<1>2. Flush(row, row, new) =
        [row EXCEPT !.status = new.status, !.binance_status = new.binance_status,
                    !.executed_quantity = new.executed_quantity,
                    !.error_code = new.error_code, !.reconciled_at = new.reconciled_at]
  BY <1>1 DEF Flush
<1> QED BY <1>2 DEF Row, Keeps

\* The exchange's final statuses, and only those, settle a trade.
LEMMA FinalStatuses ==
  ASSUME Discipline, NEW o \in Orders
  PROVE  BINANCE_STATUS_MAP(o.status) \in TERMINAL_STATUSES <=> ~Live(o)
<1>1. /\ o.status \in BinanceStatuses \ {"DRY_RUN_VALIDATED", ""}
      /\ o.status # "PENDING_CANCEL"
  BY ExchangeAssumption DEF Orders, WellFormed, Discipline
<1> QED BY <1>1 DEF BinanceStatuses, BINANCE_STATUS_MAP, TERMINAL_STATUSES, Live, LiveStatuses

\* A row that carries a report: what Mirror leaves.
LEMMA MirroredRow ==
  ASSUME NEW row \in Row, NEW o \in Order
  PROVE  /\ Mirror(row, o).status = BINANCE_STATUS_MAP(o.status)
         /\ Mirror(row, o).binance_status = o.status
         /\ Mirror(row, o).binance_status # None
         /\ Mirrored(Mirror(row, o)) = o
         /\ Mirror(row, o).error_code = row.error_code
         /\ Keeps(row, Mirror(row, o))
<1>1. o.status # None
  BY NullAssumption DEF Order
<1>2. /\ Mirror(row, o).status = BINANCE_STATUS_MAP(o.status)
      /\ Mirror(row, o).binance_status = o.status
      /\ Mirror(row, o).executed_quantity = o.executed_quantity
      /\ Mirror(row, o).error_code = row.error_code
      /\ Keeps(row, Mirror(row, o))
  BY DEF Mirror, Row, Keeps
<1>3. Mirrored(Mirror(row, o)) = o
  BY <1>2 DEF Mirrored, Order
<1> QED BY <1>1, <1>2, <1>3

\* What reconcile_trade writes is right, whichever session it runs in.
LEMMA ReconciledRight ==
  ASSUME NEW row \in Row, NEW c \in Digests, NEW found \in Order \cup {None},
         RowRight(row, c), ~is_terminal(row), wire[c] = "idle", Known(c, found)
  PROVE  /\ Reconciled(row, found) \in Row
         /\ Keeps(row, Reconciled(row, found))
         /\ RowRight(Reconciled(row, found), c)
<1>1. Reconciled(row, found) \in Row
  BY ReconciledIsRow
<1>2. CASE found = None
  <2>1. /\ Reconciled(row, found).binance_status = row.binance_status
        /\ Keeps(row, Reconciled(row, found))
    BY <1>2 DEF Reconciled, Row, Keeps
  <2>2. row.binance_status = None
    <3>1. SUFFICES ASSUME row.binance_status # None PROVE FALSE
      OBVIOUS
    <3>2. book[c] \notin Orders
      BY <1>2, NullAssumption DEF Known, Orders
    <3>3. Mirrored(row) = DryRunResult /\ row.status = BINANCE_STATUS_MAP(row.binance_status)
      BY <3>1, <3>2 DEF RowRight, Reported
    <3>4. row.binance_status = "DRY_RUN_VALIDATED"
      BY <3>3 DEF Mirrored, DryRunResult
    <3>5. is_terminal(row)
      BY <3>3, <3>4 DEF BINANCE_STATUS_MAP, is_terminal, TERMINAL_STATUSES
    <3> QED BY <3>5
  <2>3. NoOrder(c)
    BY <1>2 DEF Known, NoOrder
  <2> QED BY <1>1, <2>1, <2>2, <2>3 DEF RowRight
<1>3. CASE found # None
  <2> DEFINE m == Mirror(row, found)
  <2>1. m \in Row
    BY <1>3, MirrorIsRow
  <2>2. /\ m.status = BINANCE_STATUS_MAP(m.binance_status) /\ m.binance_status # None
        /\ Mirrored(m) = found /\ Keeps(row, m)
    BY <1>3, MirroredRow
  <2>3. Reconciled(row, found) =
          [m EXCEPT !.error_code = IF m.status \in {"REJECTED", "FAILED"} THEN @ ELSE None,
                    !.reconciled_at = TRUE]
    BY <1>3 DEF Reconciled
  <2> HIDE DEF m
  <2>4. /\ Reconciled(row, found).status = m.status
        /\ Reconciled(row, found).binance_status = m.binance_status
        /\ Reconciled(row, found).executed_quantity = m.executed_quantity
        /\ Keeps(m, Reconciled(row, found))
    BY <2>1, <2>3 DEF Row, Keeps
  <2>5. Mirrored(Reconciled(row, found)) = found /\ Keeps(row, Reconciled(row, found))
    BY <2>2, <2>4 DEF Mirrored, Keeps
  <2>6. Reported(c, found)
    BY <1>3 DEF Known
  <2> QED BY <1>1, <2>2, <2>4, <2>5, <2>6 DEF RowRight
<1> QED BY <1>2, <1>3
-----------------------------------------------------------------------------
(* The submitter's steps after the claim.                                  *)

\* w works on the trade it holds: it may write the row, read or send, go on
\* or leave.
SessionStep(w, t, row) ==
  /\ sub[w].pc # "idle" /\ sub[w].tid = t
  /\ db' = [db EXCEPT ![t] = row]
  /\ UNCHANGED <<book, rec>>
  /\ \A d \in Digests \ {Cid(t)} : wire'[d] = wire[d] /\ reply'[d] = reply[d]
  /\ \A v \in Submitters \ {w} : sub'[v] = sub[v]
  /\ sub'[w].tid \in {t, None}

LEMMA SessionStepPreservesSInv ==
  ASSUME SInv, RIInv', NEW w \in Submitters, NEW t, NEW row \in Row,
         SessionStep(w, t, row), Keeps(db[t], row),
         RowRight(row, Cid(t))', ReplyRight(Cid(t))', SessionRight(sub[w])'
  PROVE  SInv'
<1>1. /\ TypeOK /\ UnsentRight /\ RunsRight /\ UniqueSignals /\ OneHolder
      /\ SessionsHoldRows
  BY DEF SInv, RIInv, RTypeOK, IInv
<1>2. t \in Used /\ t \in TradeIds /\ db[t].submitted_at /\ Used \subseteq TradeIds
  BY <1>1 DEF SessionStep, SessionsHoldRows, Used
<1>3. db'[t] = row /\ \A u \in TradeIds \ {t} : db'[u] = db[u]
  BY <1>1, <1>2 DEF SessionStep, TypeOK
<1>4. Used' = Used /\ Cid(t)' = Cid(t) /\ db'[t].submitted_at
  BY <1>2, <1>3, NullAssumption DEF Used, Cid, Keeps
<1>5. OnlyTrade(t)
  <2>1. \A d \in Digests : d # Cid(t)' => wire'[d] = wire[d] /\ reply'[d] = reply[d]
    BY <1>4 DEF SessionStep
  <2>2. \A v \in Submitters : /\ sub'[v] = sub[v] \/ sub'[v].pc = "idle" \/ sub'[v].tid = t
                              /\ sub'[v].tid \in {sub[v].tid, None, t}
    <3>1. RIInv' => \A v \in Submitters : sub'[v].pc # "idle" => sub'[v].tid # None
      BY <1>4, KeyAssumption DEF RIInv, IInv, SessionsHoldRows, Used
    <3> QED BY <3>1 DEF SessionStep
  <2>3. UNCHANGED <<book, rec>>
    BY DEF SessionStep
  <2> QED BY <1>2, <1>3, <1>4, <2>1, <2>2, <2>3 DEF OnlyTrade
<1>6. TradeRight(t)'
  <2>1. ReplyRight(Cid(t))' /\ RowRight(db[t], Cid(t))'
    BY <1>3
  <2>2. \A u \in Used' : db'[u].signal_id = db'[t].signal_id => u = t
    BY <1>1, <1>2, <1>3, <1>4 DEF UniqueSignals, Keeps
  <2>3. \A v \in Submitters : sub'[v].tid = t => SessionRight(sub[v])'
    <3>1. SUFFICES ASSUME NEW v \in Submitters \ {w}, sub'[v].tid = t, sub'[v].pc # "idle"
                   PROVE  FALSE
      BY DEF SessionRight
    <3>2. sub[v].tid = t /\ sub[v].pc # "idle" /\ sub[w].tid = t /\ sub[w].pc # "idle"
      BY <3>1 DEF SessionStep
    <3> QED BY <1>1, <3>2 DEF OneHolder
  <2>4. \A r \in Reconcilers : t \notin Todo(r)'
    <3>1. \A r \in Reconcilers : t \notin Todo(r)
      BY <1>1 DEF RunsRight, RunRight, SessionStep
    <3> QED BY <3>1 DEF Todo, SessionStep
  <2> QED BY <1>4, <2>1, <2>2, <2>3, <2>4 DEF TradeRight
<1> QED BY <1>2, <1>5, <1>6, OneTradeAtATime

\* Most of them write a row that is right, find the wire quiet and leave it
\* so, and go on with a right session or leave.
QuietStep(w, t, row) ==
  /\ SessionStep(w, t, row)
  /\ \A d \in Digests : wire'[d] = wire[d]
  /\ reply'[Cid(t)] \in {reply[Cid(t)], None}

LEMMA QuietStepPreservesSInv ==
  ASSUME SInv, RIInv', NEW w \in Submitters, NEW t, NEW row \in Row,
         QuietStep(w, t, row), Keeps(db[t], row), RowRight(row, Cid(t)),
         SessionRight(sub[w])'
  PROVE  SInv'
<1>1. TypeOK /\ RepliesRight /\ SessionsHoldRows
  BY DEF SInv, RIInv, RTypeOK, IInv
<1>2. t \in Used /\ t \in TradeIds /\ Cid(t) \in Digests
  BY <1>1 DEF QuietStep, SessionStep, SessionsHoldRows, TypeOK, Used, Row, Cid
<1>3. db'[t] = row /\ Cid(t)' = Cid(t) /\ book' = book
  BY <1>1, <1>2 DEF QuietStep, SessionStep, TypeOK, Cid, Keeps
<1>4. /\ \A c, o : Reported(c, o)' <=> Reported(c, o)
      /\ NoOrder(Cid(t))' <=> NoOrder(Cid(t))
  BY <1>2, <1>3 DEF Reported, NoOrder, QuietStep
<1>5. RowRight(row, Cid(t))'
  BY <1>3, <1>4 DEF RowRight, Mirrored
<1>6. ReplyRight(Cid(t))'
  <2>1. ReplyRight(Cid(t)) /\ wire'[Cid(t)] = wire[Cid(t)]
    BY <1>1, <1>2 DEF RepliesRight, QuietStep
  <2> QED BY <1>3, <1>4, <2>1 DEF ReplyRight, QuietStep
<1> QED BY <1>5, <1>6, SessionStepPreservesSInv DEF QuietStep

(* What a step does to rows and orders.                                    *)

Concludes(t, row) ==
  /\ t \in Used
  /\ db[t].submitted_at /\ ~is_terminal(db[t])
  /\ Keeps(db[t], row) /\ RowRight(row, Cid(t))
  /\ db' = [db EXCEPT ![t] = row]

Claims(t) ==
  /\ t \in Used
  /\ ~db[t].submitted_at /\ db[t].status = "PENDING"
  /\ db' = [db EXCEPT ![t].submitted_at = TRUE]

Creates(s, t) ==
  /\ t \notin Used
  /\ ~ViolatesUnique(PendingRow(s))
  /\ db' = [db EXCEPT ![t] = PendingRow(s)]

Effect ==
  \/ UNCHANGED <<db, book>>
  \/ UNCHANGED db /\ ExchangeStep
  \/ UNCHANGED book /\ \E s \in Signals, t \in TradeIds : Creates(s, t)
  \/ UNCHANGED book /\ \E t \in TradeIds : Claims(t)
  \/ UNCHANGED book /\ \E t \in TradeIds, row \in Row : Concludes(t, row)

\* The trade of a session is sent, unsettled and right.
LEMMA HeldTrade ==
  ASSUME SInv, NEW w \in Submitters, sub[w].pc # "idle", NEW t, t = sub[w].tid
  PROVE  /\ t \in Used /\ t \in TradeIds /\ db[t] \in Row /\ Cid(t) \in Digests
         /\ db[t].submitted_at /\ ~is_terminal(db[t]) /\ db[t].binance_status = None
         /\ RowRight(db[t], Cid(t)) /\ SessionRight(sub[w]) /\ sub[w] \in Session
<1>1. TypeOK /\ SessionsHoldRows /\ RowsRight /\ SessionsRight
  BY DEF SInv, RIInv, RTypeOK, IInv
<1>2. t \in Used /\ t \in TradeIds /\ db[t] \in Row /\ db[t].submitted_at
  BY <1>1 DEF SessionsHoldRows, TypeOK, Used
<1>3. SessionRight(sub[w]) /\ sub[w] \in Session /\ RowRight(db[t], Cid(t))
  BY <1>1, <1>2 DEF SessionsRight, RowsRight, TypeOK
<1>4. db[t].binance_status = None /\ db[t].status \in {"PENDING", "UNKNOWN"}
  BY <1>3 DEF SessionRight, Session, Phases
<1> QED BY <1>2, <1>3, <1>4 DEF is_terminal, TERMINAL_STATUSES, Row, Cid

\* A commit by a session that holds the row as it stands.
LEMMA LoadedCommit ==
  ASSUME TypeOK, NEW t \in Used, NEW new \in Row, Keeps(db[t], new), Commit(t, db[t], new)
  PROVE  \E row \in {new, db[t]} : db' = [db EXCEPT ![t] = row]
<1>1. db[t] \in Row
  BY DEF TypeOK, Used
<1>2. Flush(db[t], db[t], new) = new
  BY <1>1, FlushLoaded
<1>3. db = [db EXCEPT ![t] = db[t]]
  BY DEF TypeOK
<1> QED BY <1>2, <1>3 DEF Commit

LEMMA LeftSession ==
  ASSUME TypeOK, NEW w \in Submitters, Leave(w)
  PROVE  /\ sub'[w].tid = None /\ sub'[w].pc = "idle"
         /\ \A v \in Submitters \ {w} : sub'[v] = sub[v]
         /\ SessionRight(sub[w])'
<1>1. /\ sub'[w].tid = None /\ sub'[w].pc = "idle"
      /\ \A v \in Submitters \ {w} : sub'[v] = sub[v]
  BY DEF TypeOK, Leave, NoSession
<1> QED BY <1>1 DEF SessionRight

\* The last step of a session.
LEMMA LastStepPreservesSInv ==
  ASSUME SInv, RIInv', NEW w \in Submitters, sub[w].pc # "idle", NEW t, t = sub[w].tid,
         NEW new \in Row, Keeps(db[t], new), RowRight(new, Cid(t)),
         Commit(t, db[t], new), Leave(w), UNCHANGED <<book, rec>>,
         \A d \in Digests : wire'[d] = wire[d],
         \A d \in Digests \ {Cid(t)} : reply'[d] = reply[d],
         reply'[Cid(t)] \in {reply[Cid(t)], None}
  PROVE  SInv' /\ Effect
<1>1. TypeOK
  BY DEF SInv, RIInv, RTypeOK
<1>2. /\ t \in Used /\ t \in TradeIds /\ db[t] \in Row /\ Cid(t) \in Digests
      /\ db[t].submitted_at /\ ~is_terminal(db[t]) /\ RowRight(db[t], Cid(t))
  BY HeldTrade
<1>3. PICK row \in {new, db[t]} : db' = [db EXCEPT ![t] = row]
  BY <1>1, <1>2, LoadedCommit
<1>4. row \in Row /\ Keeps(db[t], row) /\ RowRight(row, Cid(t))
  BY <1>2 DEF Keeps
<1>5. /\ sub'[w].tid = None
      /\ \A v \in Submitters \ {w} : sub'[v] = sub[v]
      /\ SessionRight(sub[w])'
  BY <1>1, LeftSession
<1>6. QuietStep(w, t, row)
  BY <1>3, <1>5 DEF QuietStep, SessionStep
<1>7. SInv'
  BY <1>4, <1>5, <1>6, QuietStepPreservesSInv
<1>8. Concludes(t, row)
  BY <1>2, <1>3, <1>4 DEF Concludes
<1> QED BY <1>2, <1>4, <1>7, <1>8 DEF Effect

\* When the client reads an answer or gives up, its request has ended.
LEMMA RecordFindsQuiet ==
  ASSUME SInv, Discipline, NEW w \in Submitters, Record(w), NEW t, t = sub[w].tid
  PROVE  /\ sub[w].pc = "posting" /\ sub[w].obj = db[t]
         /\ wire[Cid(t)] = "idle"
         /\ \A d \in Digests : wire'[d] = wire[d]
         /\ \A d \in Digests \ {Cid(t)} : reply'[d] = reply[d]
         /\ reply'[Cid(t)] = None
         /\ book' = book
         /\ \E a \in Arrivals(Cid(t)) :
              /\ \/ finalise_success(w, a)
                 \/ finalise_failure(w, a)
                 \/ handle_uncertain_outcome(w, a)
              /\ request(a) # "uncertain" => reply[Cid(t)] # None /\ a = reply[Cid(t)]
<1>1. TypeOK /\ RepliesRight
  BY DEF SInv, RIInv, RTypeOK
<1>2. sub[w].pc = "posting"
  BY DEF Record
<1>3. Cid(t) \in Digests /\ SessionRight(sub[w])
  BY <1>2, HeldTrade
<1>4. sub[w].obj = db[t] /\ wire[Cid(t)] # "orphan"
  BY <1>2, <1>3 DEF SessionRight
<1>5. PICK a \in Arrivals(Cid(t)) : \/ finalise_success(w, a)
                                   \/ finalise_failure(w, a)
                                   \/ handle_uncertain_outcome(w, a)
  BY <1>4 DEF Record, Cid
<1>6. Close(Cid(t))
  BY <1>4, <1>5 DEF finalise_success, finalise_failure, handle_uncertain_outcome, EndOfWait, Cid
<1>7. wire[Cid(t)] = "idle"
  <2>1. CASE reply[Cid(t)] # None
    BY <1>1, <1>3, <2>1 DEF RepliesRight, ReplyRight
  <2>2. CASE reply[Cid(t)] = None
    <3>1. wire[Cid(t)] # "open"
      BY <1>5, <2>2 DEF Arrivals, Discipline
    <3> QED BY <1>1, <1>3, <1>4, <3>1 DEF TypeOK, WireStates
  <2> QED BY <2>1, <2>2
<1>8. /\ \A d \in Digests : wire'[d] = wire[d]
      /\ \A d \in Digests \ {Cid(t)} : reply'[d] = reply[d]
      /\ reply'[Cid(t)] = None
      /\ book' = book
  BY <1>1, <1>3, <1>6, <1>7 DEF Close, TypeOK
<1>9. request(a) # "uncertain" => reply[Cid(t)] # None /\ a = reply[Cid(t)]
  BY <1>5, NoFalseRefusal DEF Arrivals
<1> QED BY <1>2, <1>4, <1>5, <1>7, <1>8, <1>9

LEMMA RecordPreservesSInv ==
  ASSUME SInv, RIInv', Discipline, NEW w \in Submitters, Record(w), UNCHANGED rec
  PROVE  SInv' /\ Effect
<1> DEFINE t == sub[w].tid
           c == Cid(t)
<1>1. /\ TypeOK /\ RepliesRight /\ RefusedReplies
      /\ \A d \in Digests : reply[d] \in Attempt \cup {None}
  BY DEF SInv, RIInv, RTypeOK, TypeOK
<1>2. /\ sub[w].pc = "posting" /\ sub[w].obj = db[t]
      /\ wire[c] = "idle"
      /\ \A d \in Digests : wire'[d] = wire[d]
      /\ \A d \in Digests \ {c} : reply'[d] = reply[d]
      /\ reply'[c] = None
      /\ book' = book
  BY RecordFindsQuiet
<1>3. /\ t \in Used /\ t \in TradeIds /\ db[t] \in Row /\ c \in Digests
      /\ ~is_terminal(db[t]) /\ db[t].binance_status = None /\ db[t].submitted_at
      /\ RowRight(db[t], c) /\ sub[w] \in Session
  BY <1>2, HeldTrade
<1>4. PICK a \in Arrivals(c) :
        /\ \/ finalise_success(w, a)
           \/ finalise_failure(w, a)
           \/ handle_uncertain_outcome(w, a)
        /\ request(a) # "uncertain" => reply[c] # None /\ a = reply[c]
  BY RecordFindsQuiet
<1> HIDE DEF c
<1>5. CASE finalise_success(w, a)
  <2> DEFINE order == place_market_order(a, DryRun)
             m == Mirror(db[t], order)
             new == [m EXCEPT !.error_code = None]
  <2>1. request(a) = "ok" /\ Commit(t, db[t], new) /\ Leave(w)
    BY <1>2, <1>5 DEF finalise_success
  <2>2. reply[c] # None /\ a = reply[c] /\ a \in Attempt
    BY <1>1, <1>3, <1>4, <2>1
  <2>3. order \in Order
    BY <2>2, ResultIsOrder, ExchangeAssumption
  <2>4. ~DryRun => Reported(c, order)
    <3>1. ~DryRun => a.payload # None /\ Reported(c, a.payload)
      BY <1>1, <1>3, <2>1, <2>2 DEF RepliesRight, ReplyRight
    <3> QED BY <3>1 DEF place_market_order, from_payload
  <2>5. DryRun => order = DryRunResult
    BY DEF place_market_order
  <2> HIDE DEF order
  <2>6. /\ m.status = BINANCE_STATUS_MAP(m.binance_status) /\ m.binance_status # None
        /\ Mirrored(m) = order /\ Keeps(db[t], m) /\ m \in Row
    BY <1>3, <2>3, MirroredRow, MirrorIsRow
  <2> HIDE DEF m
  <2>7. /\ new \in Row /\ Keeps(db[t], new) /\ Mirrored(new) = order
        /\ new.status = BINANCE_STATUS_MAP(new.binance_status) /\ new.binance_status # None
    BY <2>6 DEF Row, Keeps, Mirrored
  <2> HIDE DEF new
  <2>8. RowRight(new, c)
    BY <2>4, <2>5, <2>7, ExchangeAssumption DEF RowRight
  <2> QED BY <1>2, <2>1, <2>7, <2>8, LastStepPreservesSInv DEF c
<1>6. CASE finalise_failure(w, a)
  <2> DEFINE verdict == Refusal(request(a))
             new == [db[t] EXCEPT !.status = verdict[1], !.error_code = verdict[2]]
  <2>1. request(a) \in RefusalKinds /\ Commit(t, db[t], new) /\ Leave(w)
    BY <1>2, <1>6 DEF finalise_failure, RefusalKinds
  <2>2. NoOrder(c)
    BY <1>1, <1>3, <1>4, <2>1 DEF RefusedReplies, RefusalKinds
  <2>3. verdict[1] \in TradeStatus /\ verdict[2] \in ErrorCodes
    BY <2>1 DEF RefusalKinds, Refusal, TradeStatus, ErrorCodes
  <2> HIDE DEF verdict
  <2>4. new \in Row /\ Keeps(db[t], new) /\ new.binance_status = None
    BY <1>3, <2>3 DEF Row, Keeps
  <2> HIDE DEF new
  <2>5. RowRight(new, c)
    BY <2>2, <2>4 DEF RowRight
  <2> QED BY <1>2, <2>1, <2>4, <2>5, LastStepPreservesSInv DEF c
<1>7. CASE handle_uncertain_outcome(w, a)
  <2> DEFINE new == [db[t] EXCEPT !.status = "UNKNOWN", !.error_code = "uncertain"]
  <2>1. \/ Commit(t, db[t], new) /\ Leave(w)
        \/ /\ db' = [db EXCEPT ![t] = Flush(@, db[t], new)]
           /\ sub' = [sub EXCEPT ![w].pc = "uncertain", ![w].obj = new]
    BY <1>2, <1>7 DEF handle_uncertain_outcome
  <2>2. new \in Row /\ Keeps(db[t], new) /\ new.binance_status = None /\ new.status = "UNKNOWN"
    BY <1>3 DEF Row, Keeps, TradeStatus, ErrorCodes
  <2> HIDE DEF new
  <2>3. RowRight(new, c)
    BY <2>2 DEF RowRight, is_terminal, TERMINAL_STATUSES
  <2>4. CASE Commit(t, db[t], new) /\ Leave(w)
    BY <1>2, <2>2, <2>3, <2>4, LastStepPreservesSInv DEF c
  <2>5. CASE /\ db' = [db EXCEPT ![t] = Flush(@, db[t], new)]
             /\ sub' = [sub EXCEPT ![w].pc = "uncertain", ![w].obj = new]
    <3> DEFINE next == [sub[w] EXCEPT !.pc = "uncertain", !.obj = new]
    <3>1. db' = [db EXCEPT ![t] = new]
      BY <1>3, <2>2, <2>5, FlushLoaded
    <3>2. sub' = [sub EXCEPT ![w] = next]
      BY <2>5
    <3>3. next.pc = "uncertain" /\ next.obj = new /\ next.tid = t
      BY <1>3 DEF Session
    <3> HIDE DEF next
    <3>4. sub'[w] = next /\ \A v \in Submitters \ {w} : sub'[v] = sub[v]
      BY <1>1, <3>2 DEF TypeOK
    <3>5. db'[t] = new /\ new.client_order_id = c
      BY <1>1, <1>3, <2>2, <3>1 DEF TypeOK, Cid, Keeps, c
    <3>6. SessionRight(sub[w])'
      <4>1. /\ sub'[w].tid = t /\ sub'[w].pc = "uncertain" /\ sub'[w].obj = db'[t]
            /\ db'[t].status = "UNKNOWN" /\ db'[t].binance_status = None
        BY <2>2, <3>3, <3>4, <3>5
      <4>2. Cid(sub[w].tid)' = c /\ wire'[c] = "idle"
        BY <1>2, <1>3, <3>5, <4>1 DEF Cid
      <4> HIDE DEF t
      <4> QED BY <4>1, <4>2 DEF SessionRight
    <3>7. QuietStep(w, t, new)
      BY <1>2, <3>1, <3>3, <3>4 DEF QuietStep, SessionStep, c
    <3>8. SInv'
      BY <2>2, <2>3, <3>6, <3>7, QuietStepPreservesSInv DEF c
    <3>9. Concludes(t, new)
      BY <1>3, <2>2, <2>3, <3>1 DEF Concludes, c
    <3> QED BY <1>2, <1>3, <2>2, <3>8, <3>9 DEF Effect
  <2> QED BY <2>1, <2>4, <2>5
<1> QED BY <1>4, <1>5, <1>6, <1>7

\* What a query tells is so.
LEMMA AnswersAreTrue ==
  ASSUME TypeOK, BookRight, NEW c \in Digests, NEW a \in Answers(c), Answered(a)
  PROVE  Known(c, get_order(a)) /\ get_order(a) \in Order \cup {None}
<1>2. get_order(a) \in Order \cup {None}
  BY AnswersAreKnown
<1>3. /\ request(Response(503, None, FALSE, None)) = "uncertain"
      /\ request(NoResponse("timeout")) = "uncertain"
  BY NoFalseRefusal DEF ServerError
<1>4. request(NoResponse("connect_error")) = "unavailable"
  BY DEF request, NoResponse
<1>5. request(a) # "uncertain" /\ request(a) # "unavailable"
  BY DEF Answered, NoSuchOrder, RejectedErrors
<1> DEFINE only == IF book[c] = None THEN {Response(400, ORDER_DOES_NOT_EXIST_CODE, TRUE, None)}
                                 ELSE {Response(200, None, TRUE, book[c])}
<1>6. \/ a = Response(503, None, FALSE, None)
      \/ a = NoResponse("timeout")
      \/ a = NoResponse("connect_error")
      \/ a.transport = "connected" /\ a.status_code = 429 /\ a.code # ORDER_DOES_NOT_EXIST_CODE
      \/ a \in only
  BY DEF Answers, Response, ORDER_DOES_NOT_EXIST_CODE
<1>7. ~(a.transport = "connected" /\ a.status_code = 429 /\ a.code # ORDER_DOES_NOT_EXIST_CODE)
  <2>1. SUFFICES ASSUME a.transport = "connected", a.status_code = 429,
                        a.code # ORDER_DOES_NOT_EXIST_CODE
                 PROVE  FALSE
    OBVIOUS
  <2>2. request(a) = "rate_limit"
    BY <2>1 DEF request, handle_response
  <2> QED BY <2>1, <2>2 DEF Answered, NoSuchOrder
<1>8. a \in only
  <2> HIDE DEF only
  <2>1. a # Response(503, None, FALSE, None)
    BY <1>3, <1>5, Zenon
  <2>2. a # NoResponse("timeout")
    BY <1>3, <1>5, Zenon
  <2>3. a # NoResponse("connect_error")
    BY <1>4, <1>5, Zenon
  <2> QED BY <1>6, <1>7, <2>1, <2>2, <2>3
<1>9. CASE book[c] = None
  <2>1. /\ a.transport = "connected" /\ a.status_code = 400
        /\ a.code = ORDER_DOES_NOT_EXIST_CODE
    BY <1>8, <1>9 DEF Response
  <2>2. request(a) \in {"auth", "rejected"}
    BY <2>1 DEF request, handle_response
  <2>3. get_order(a) = None
    BY <2>1, <2>2 DEF get_order, NoSuchOrder, RejectedErrors
  <2> QED BY <1>2, <1>9, <2>3 DEF Known
<1>10. CASE book[c] # None
  <2>1. /\ a.transport = "connected" /\ a.status_code = 200 /\ a.json /\ a.payload = book[c]
    BY <1>8, <1>10 DEF Response
  <2>2. request(a) = "ok"
    BY <2>1 DEF request, handle_response
  <2>3. get_order(a) = book[c]
    BY <1>10, <2>1, <2>2 DEF get_order, NoSuchOrder, RejectedErrors, from_payload
  <2> QED BY <1>2, <1>10, <2>3 DEF Known, Reported, BookRight
<1> QED BY <1>9, <1>10

LEMMA AskPreservesSInv ==
  ASSUME SInv, RIInv', NEW w \in Submitters, ask_at_once(w), UNCHANGED rec
  PROVE  SInv' /\ Effect
<1> DEFINE t == sub[w].tid
           c == Cid(t)
<1>1. TypeOK
  BY DEF SInv, RIInv, RTypeOK
<1>2. /\ sub[w].pc = "uncertain"
      /\ UNCHANGED <<db, wire, book, reply, posts, rec>>
  BY DEF ask_at_once, exchangeVars
<1>3. /\ t \in Used /\ t \in TradeIds /\ db[t] \in Row /\ c \in Digests
      /\ RowRight(db[t], c) /\ SessionRight(sub[w]) /\ sub[w] \in Session
  BY <1>2, HeldTrade
<1>4. sub[w].obj = db[t] /\ db[t].status = "UNKNOWN" /\ wire[c] = "idle"
      /\ db[t].binance_status = None
  BY <1>2, <1>3 DEF SessionRight
<1>5. PICK a \in Answers(c) :
        IF Answered(a)
          THEN sub' = [sub EXCEPT ![w].pc = "asked", ![w].found = get_order(a)]
          ELSE Leave(w)
  BY <1>4 DEF ask_at_once, Cid
<1>6. /\ sub'[w].tid \in {t, None}
      /\ \A v \in Submitters \ {w} : sub'[v] = sub[v]
      /\ SessionRight(sub[w])'
  <2>1. CASE Leave(w)
    BY <1>1, <2>1, LeftSession
  <2>2. CASE Answered(a) /\ sub' = [sub EXCEPT ![w].pc = "asked", ![w].found = get_order(a)]
    <3> DEFINE next == [sub[w] EXCEPT !.pc = "asked", !.found = get_order(a)]
    <3>1. sub' = [sub EXCEPT ![w] = next]
      BY <2>2
    <3>2. next.pc = "asked" /\ next.obj = sub[w].obj /\ next.tid = t /\ next.found = get_order(a)
      BY <1>3 DEF Session
    <3> HIDE DEF next
    <3>3. sub'[w] = next /\ \A v \in Submitters \ {w} : sub'[v] = sub[v]
      BY <1>1, <3>1 DEF TypeOK
    <3>4. Known(c, get_order(a))
      BY <1>1, <1>3, <2>2, AnswersAreTrue DEF SInv
    <3>6. /\ sub'[w].tid = t /\ sub'[w].pc = "asked" /\ sub'[w].obj = db'[t]
          /\ db'[t].status = "UNKNOWN" /\ db'[t].binance_status = None
          /\ sub'[w].found = get_order(a)
      BY <1>2, <1>4, <3>2, <3>3
    <3>7. Cid(sub[w].tid)' = c /\ wire'[c] = "idle"
      BY <1>2, <1>4, <3>6 DEF Cid
    <3>8. Known(Cid(sub[w].tid), sub[w].found)'
      BY <1>2, <3>4, <3>6, <3>7 DEF Known, Reported
    <3> HIDE DEF t, c
    <3>9. SessionRight(sub[w])'
      BY <3>6, <3>7, <3>8 DEF SessionRight
    <3> QED BY <3>3, <3>6, <3>9
  <2> QED BY <1>5, <2>1, <2>2
<1>7. db' = [db EXCEPT ![t] = db[t]]
  BY <1>1, <1>2 DEF TypeOK
<1>8. QuietStep(w, t, db[t]) /\ Keeps(db[t], db[t])
  BY <1>2, <1>6, <1>7 DEF QuietStep, SessionStep, Keeps
<1>9. SInv'
  BY <1>3, <1>6, <1>8, QuietStepPreservesSInv
<1> QED BY <1>2, <1>9 DEF Effect

LEMMA RecordAnswerPreservesSInv ==
  ASSUME SInv, RIInv', NEW w \in Submitters, record_answer(w), UNCHANGED rec
  PROVE  SInv' /\ Effect
<1> DEFINE t == sub[w].tid
           c == Cid(t)
           new == Reconciled(db[t], sub[w].found)
<1>1. /\ sub[w].pc = "asked" /\ Leave(w)
      /\ Commit(t, sub[w].obj, Reconciled(sub[w].obj, sub[w].found))
      /\ UNCHANGED <<wire, book, reply, posts, rec>>
  BY DEF record_answer, exchangeVars
<1>2. /\ db[t] \in Row /\ c \in Digests /\ ~is_terminal(db[t])
      /\ RowRight(db[t], c) /\ SessionRight(sub[w]) /\ sub[w] \in Session
  BY <1>1, HeldTrade
<1>3. sub[w].obj = db[t] /\ wire[c] = "idle" /\ Known(c, sub[w].found)
  BY <1>1, <1>2 DEF SessionRight
<1>4. sub[w].found \in Order \cup {None} /\ Commit(t, db[t], new)
  BY <1>1, <1>2, <1>3 DEF Session
<1>5. new \in Row /\ Keeps(db[t], new) /\ RowRight(new, c)
  BY <1>2, <1>3, <1>4, ReconciledRight
<1> HIDE DEF new
<1> QED BY <1>1, <1>4, <1>5, LastStepPreservesSInv

LEMMA AbandonPreservesSInv ==
  ASSUME SInv, RIInv', NEW w \in Submitters, Abandon(w), UNCHANGED rec
  PROVE  SInv' /\ Effect
<1>1. TypeOK /\ RepliesRight
  BY DEF SInv, RIInv, RTypeOK
<1>2. PICK t : t = sub[w].tid
  OBVIOUS
<1>3. sub[w].pc # "idle" /\ Leave(w) /\ UNCHANGED <<db, rec>>
  BY DEF Abandon
<1>4. /\ t \in Used /\ t \in TradeIds /\ db[t] \in Row /\ Cid(t) \in Digests
      /\ ~is_terminal(db[t]) /\ db[t].binance_status = None /\ SessionRight(sub[w])
  BY <1>2, <1>3, HeldTrade
<1>5. /\ book' = book
      /\ \A d \in Digests \ {Cid(t)} : wire'[d] = wire[d] /\ reply'[d] = reply[d]
      /\ \/ reply'[Cid(t)] = None
         \/ wire'[Cid(t)] = wire[Cid(t)] /\ reply'[Cid(t)] = reply[Cid(t)]
  <2>1. CASE sub[w].pc = "posting"
    <3>1. Close(Cid(t))
      BY <1>2, <1>4, <2>1 DEF Abandon, SessionRight, Cid
    <3> QED BY <1>1, <1>4, <3>1 DEF Close, TypeOK
  <2>2. CASE sub[w].pc # "posting"
    BY <2>2 DEF Abandon, exchangeVars
  <2> QED BY <2>1, <2>2
<1>6. ReplyRight(Cid(t))'
  <2>1. ReplyRight(Cid(t)) /\ Cid(t)' = Cid(t)
    BY <1>1, <1>3, <1>4 DEF RepliesRight, Cid
  <2> QED BY <1>5, <2>1 DEF ReplyRight, Reported
<1>7. /\ sub'[w].tid = None
      /\ \A v \in Submitters \ {w} : sub'[v] = sub[v]
      /\ SessionRight(sub[w])'
  BY <1>1, <1>3, LeftSession
<1>8. db' = [db EXCEPT ![t] = db[t]]
  BY <1>1, <1>3 DEF TypeOK
<1>9. PICK row \in Row : row = db[t]
  BY <1>4
<1>10. SessionStep(w, t, row) /\ Keeps(db[t], row)
  BY <1>2, <1>3, <1>5, <1>7, <1>8, <1>9 DEF SessionStep, Keeps
<1>11. RowRight(row, Cid(t))'
  BY <1>4, <1>9 DEF RowRight, is_terminal
<1>12. SInv'
  BY <1>6, <1>7, <1>10, <1>11, SessionStepPreservesSInv
<1> QED BY <1>3, <1>5, <1>12 DEF Effect

LEMMA SubmitPreservesSInv ==
  ASSUME SInv, RIInv', NEW w \in Submitters, submit_to_binance(w), UNCHANGED rec
  PROVE  SInv' /\ Effect
<1>1. TypeOK
  BY DEF SInv, RIInv, RTypeOK
<1>2. PICK t : t = sub[w].tid
  OBVIOUS
<1>3. sub[w].pc = "claimed" /\ UNCHANGED <<db, rec>> /\ Send(Cid(t))
  BY <1>2 DEF submit_to_binance, Cid
<1>4. /\ t \in Used /\ t \in TradeIds /\ db[t] \in Row /\ Cid(t) \in Digests
      /\ ~is_terminal(db[t]) /\ db[t].binance_status = None
      /\ SessionRight(sub[w]) /\ sub[w] \in Session
  BY <1>2, <1>3, HeldTrade
<1>5. /\ book' = book
      /\ \A d \in Digests \ {Cid(t)} : wire'[d] = wire[d] /\ reply'[d] = reply[d]
      /\ reply'[Cid(t)] = None /\ wire'[Cid(t)] = "open"
  BY <1>1, <1>3, <1>4 DEF Send, TypeOK
<1>6. ReplyRight(Cid(t))'
  BY <1>3, <1>5 DEF ReplyRight, Cid
<1>7. /\ sub'[w].tid = t /\ sub'[w].pc = "posting" /\ sub'[w].obj = db[t]
      /\ \A v \in Submitters \ {w} : sub'[v] = sub[v]
  <2> DEFINE next == [sub[w] EXCEPT !.pc = "posting", !.obj = db[t]]
  <2>1. sub' = [sub EXCEPT ![w] = next]
    BY <1>2 DEF submit_to_binance
  <2>2. next.pc = "posting" /\ next.obj = db[t] /\ next.tid = t
    BY <1>2, <1>4 DEF Session
  <2> HIDE DEF next
  <2> QED BY <1>1, <2>1, <2>2 DEF TypeOK
<1>8. SessionRight(sub[w])'
  <2>1. db'[t].status = "PENDING" /\ db'[t].binance_status = None /\ db'[t] = db[t]
    BY <1>2, <1>3, <1>4 DEF SessionRight
  <2>2. Cid(sub[w].tid)' = Cid(t)
    BY <1>3, <1>7 DEF Cid
  <2> QED BY <1>5, <1>7, <2>1, <2>2 DEF SessionRight
<1>9. db' = [db EXCEPT ![t] = db[t]]
  BY <1>1, <1>3 DEF TypeOK
<1>10. PICK row \in Row : row = db[t]
  BY <1>4
<1>11. SessionStep(w, t, row) /\ Keeps(db[t], row)
  BY <1>2, <1>3, <1>5, <1>7, <1>9, <1>10 DEF SessionStep, Keeps
<1>12. RowRight(row, Cid(t))'
  BY <1>4, <1>10 DEF RowRight, is_terminal
<1>13. SInv'
  BY <1>6, <1>8, <1>11, <1>12, SessionStepPreservesSInv
<1> QED BY <1>3, <1>5, <1>13 DEF Effect
-----------------------------------------------------------------------------
(* The claim and the INSERT.                                               *)

LEMMA ClaimPreservesSInv ==
  ASSUME SInv, RIInv', NEW w \in Submitters, NEW t \in TradeIds, claim_for_submission(w, t),
         UNCHANGED rec
  PROVE  SInv' /\ Effect
<1>1. /\ TypeOK /\ RepliesRight /\ RowsRight /\ UnsentRight /\ RunsRight /\ UniqueSignals
      /\ SessionsHoldRows
  BY DEF SInv, RIInv, RTypeOK, IInv
<1>2. /\ t \in Used /\ db[t] \in Row /\ Cid(t) \in Digests
      /\ ~db[t].submitted_at /\ db[t].status = "PENDING" /\ sub[w].pc = "idle"
      /\ UNCHANGED <<wire, book, reply, posts, rec>>
      /\ db' = [db EXCEPT ![t].submitted_at = TRUE]
  BY <1>1 DEF claim_for_submission, Claimable, Used, TypeOK, Row, Cid, exchangeVars
<1>3. PICK row : row = [db[t] EXCEPT !.submitted_at = TRUE]
  OBVIOUS
<1>4. /\ row \in Row /\ row.signal_id = db[t].signal_id /\ row.client_order_id = Cid(t)
      /\ row.submitted_at /\ row.status = "PENDING" /\ row.binance_status = None
  BY <1>1, <1>2, <1>3 DEF Row, Cid, UnsentRight
<1>5. db'[t] = row /\ \A u \in TradeIds \ {t} : db'[u] = db[u]
  BY <1>1, <1>2, <1>3 DEF TypeOK
<1>6. Used' = Used /\ Cid(t)' = Cid(t)
  BY <1>2, <1>4, <1>5, NullAssumption DEF Used, Cid
<1>7. /\ \A v \in Submitters \ {w} : sub'[v] = sub[v]
      /\ \/ sub'[w] = sub[w]
         \/ sub'[w].pc = "claimed" /\ sub'[w].tid = t
  BY <1>1 DEF claim_for_submission, TypeOK, NoSession
<1>8. OnlyTrade(t)
  BY <1>2, <1>5, <1>6, <1>7 DEF OnlyTrade
<1>9. TradeRight(t)'
  <2>1. ReplyRight(Cid(t))'
    BY <1>1, <1>2, <1>6 DEF RepliesRight, ReplyRight, Reported
  <2>2. RowRight(db[t], Cid(t))' /\ db'[t].submitted_at
    BY <1>4, <1>5 DEF RowRight, is_terminal, TERMINAL_STATUSES
  <2>3. \A u \in Used' : db'[u].signal_id = db'[t].signal_id => u = t
    BY <1>1, <1>2, <1>4, <1>5, <1>6 DEF UniqueSignals, Used
  <2>4. ASSUME NEW v \in Submitters, sub'[v].tid = t
        PROVE  SessionRight(sub[v])'
    <3>1. \/ sub'[v].pc = "idle"
          \/ sub'[v].pc = "claimed" /\ sub'[v].tid = t
      BY <1>1, <1>2, <1>7, <2>4 DEF SessionsHoldRows
    <3> QED BY <1>4, <1>5, <3>1 DEF SessionRight
  <2>5. \A r \in Reconcilers : t \notin Todo(r)'
    <3>1. \A r \in Reconcilers : t \notin Todo(r)
      BY <1>1, <1>2 DEF RunsRight, RunRight
    <3> QED BY <1>2, <3>1 DEF Todo
  <2> QED BY <2>1, <2>2, <2>3, <2>4, <2>5 DEF TradeRight
<1>10. SInv'
  BY <1>8, <1>9, OneTradeAtATime
<1>11. Claims(t)
  BY <1>2 DEF Claims
<1> QED BY <1>2, <1>10, <1>11 DEF Effect

LEMMA CreatePreservesSInv ==
  ASSUME SInv, RIInv', NEW s \in Signals, create_pending_trade(s), UNCHANGED rec
  PROVE  SInv' /\ Effect
<1>1. /\ TypeOK /\ RepliesRight /\ UniqueSignals /\ SessionsHoldRows /\ RunsHoldRows
  BY DEF SInv, RIInv, RTypeOK, IInv
<1>2. PICK t \in TradeIds \ Used : db' = [db EXCEPT ![t] = PendingRow(s)]
  BY DEF create_pending_trade
<1>3. /\ UNCHANGED <<sub, wire, book, reply, posts, rec>>
      /\ \A u \in Used : db[u].signal_id # PendingRow(s).signal_id
  BY DEF create_pending_trade, exchangeVars, ViolatesUnique
<1>4. /\ PendingRow(s) \in Row
      /\ PendingRow(s).status = "PENDING" /\ PendingRow(s).binance_status = None
      /\ PendingRow(s).client_order_id \in Digests
  BY PendingIsRow DEF PendingRow, Row
<1>5. db'[t] = PendingRow(s) /\ \A u \in TradeIds \ {t} : db'[u] = db[u]
  BY <1>1, <1>2 DEF TypeOK
<1>6. Used' = Used \cup {t} /\ Cid(t)' \in Digests
  BY <1>4, <1>5, NullAssumption DEF Used, Cid
<1>7. \A w \in Submitters : sub[w].tid = t => sub[w].pc = "idle"
  BY <1>1 DEF SessionsHoldRows
<1>8. OnlyTrade(t)
  BY <1>3, <1>5, <1>6 DEF OnlyTrade
<1>9. TradeRight(t)'
  <2>1. ReplyRight(Cid(t))'
    BY <1>1, <1>3, <1>6 DEF RepliesRight, ReplyRight, Reported
  <2>2. RowRight(db[t], Cid(t))'
    BY <1>4, <1>5 DEF RowRight, is_terminal, TERMINAL_STATUSES
  <2>3. \A u \in Used' : db'[u].signal_id = db'[t].signal_id => u = t
    BY <1>3, <1>5, <1>6 DEF Used
  <2>4. \A v \in Submitters : sub'[v].tid = t => SessionRight(sub[v])'
    BY <1>3, <1>7 DEF SessionRight
  <2>5. \A r \in Reconcilers : t \notin Todo(r)'
    BY <1>1, <1>3 DEF RunsHoldRows, Todo
  <2> QED BY <1>4, <1>5, <2>1, <2>2, <2>3, <2>4, <2>5 DEF TradeRight
<1>10. SInv'
  BY <1>8, <1>9, OneTradeAtATime
<1>11. Creates(s, t)
  BY <1>2 DEF Creates, create_pending_trade
<1> QED BY <1>3, <1>10, <1>11 DEF Effect
-----------------------------------------------------------------------------
(* The steps of a run.                                                     *)

\* A step that only a run notices.
LEMMA RunsAlone ==
  ASSUME SInv, RIInv', UNCHANGED vars, RunsRight'
  PROVE  SInv' /\ Effect
<1>1. UNCHANGED <<db, sub, wire, book, reply, posts>>
  BY DEF vars
<1>2. BookRight' /\ RepliesRight' /\ UnsentRight' /\ UniqueSignals'
  BY <1>1 DEF SInv, BookRight, RepliesRight, ReplyRight, Reported, UnsentRight, UniqueSignals,
              Used
<1>3. RowsRight'
  BY <1>1 DEF SInv, RowsRight, RowRight, Reported, Used, Cid, NoOrder, Mirrored, is_terminal
<1>4. SessionsRight'
  BY <1>1 DEF SInv, SessionsRight, SessionRight, Known, Reported, Cid
<1> QED BY <1>1, <1>2, <1>3, <1>4 DEF SInv, Effect

\* A run that shrinks and has asked nothing new.
LEMMA ShrunkRunsRight ==
  ASSUME SInv, NEW r \in Reconcilers, Shrinks(r), rec'[r].pc # "asked", UNCHANGED vars
  PROVE  RunsRight'
<1>1. RunsRight /\ UNCHANGED <<db, sub, wire, book, reply, posts>>
  BY DEF SInv, vars
<1>2. SUFFICES ASSUME NEW q \in Reconcilers, NEW t \in Todo(q)'
               PROVE  RunRight(q, t)'
  BY DEF RunsRight
<1>3. \A p \in Reconcilers, u \in TradeIds : rec'[p].todo[u] \in {rec[p].todo[u], None}
  BY DEF Shrinks
<1>4. t \in TradeIds /\ t \in Todo(q) /\ rec'[q].todo[t] = rec[q].todo[t]
  BY <1>2, <1>3 DEF Todo
<1>5. RunRight(q, t)
  BY <1>1, <1>4 DEF RunsRight
<1>6. \A p \in Reconcilers \ {q} : rec'[p].todo[t] = None
  BY <1>3, <1>4, <1>5 DEF RunRight
<1>7. rec'[q].pc = "asked" /\ Current(q, t)' =>
        ~is_terminal(db[t])' /\ Known(Cid(t), rec[q].found)'
  <2>1. SUFFICES ASSUME rec'[q].pc = "asked", Current(q, t)'
                 PROVE  ~is_terminal(db[t])' /\ Known(Cid(t), rec[q].found)'
    OBVIOUS
  <2>2. rec'[q] = rec[q]
    BY <2>1 DEF Shrinks
  <2>3. Current(q, t)
    BY <2>1, <2>2 DEF Current, Todo
  <2> QED BY <1>1, <1>5, <2>1, <2>2, <2>3 DEF RunRight, is_terminal, Known, Reported, Cid
<1>8. RunRight(q, t) /\ Cid(t)' = Cid(t) /\ db'[t] = db[t]
  BY <1>1, <1>5 DEF Cid
<1> QED BY <1>1, <1>4, <1>6, <1>7, <1>8 DEF RunRight

LEMMA AdvancedRun ==
  ASSUME RTypeOK, NEW r \in Reconcilers, NEW t \in Todo(r), Advance(r, t) \/ EndRun(r)
  PROVE  Shrinks(r) /\ rec'[r].pc # "asked" /\ rec'[r].todo[t] = None
<1>1. rec[r] \in Run /\ t \in TradeIds /\ None \in Order \cup {None}
  BY DEF RTypeOK, Todo
<1>2. CASE Advance(r, t)
  <2>1. Shrinks(r)
    BY <1>1, <1>2, RunShrinks
  <2>2. rec'[r].pc # "asked" /\ rec'[r].todo[t] = None
    BY <1>1, <1>2 DEF Advance, RTypeOK, Run
  <2> QED BY <2>1, <2>2
<1>3. CASE EndRun(r)
  <2>1. Shrinks(r)
    BY <1>3, EndedRunShrinks
  <2>2. rec'[r].pc # "asked" /\ rec'[r].todo[t] = None
    BY <1>1, <1>3 DEF EndRun, RTypeOK, NoRun
  <2> QED BY <2>1, <2>2
<1> QED BY <1>2, <1>3

\* What a run knows of a trade it has loaded, as the discipline has it.
LEMMA RunTrade ==
  ASSUME SInv, NEW r \in Reconcilers, NEW t \in Todo(r)
  PROVE  /\ t \in Used /\ t \in TradeIds /\ db[t] \in Row /\ Cid(t) \in Digests
         /\ rec[r].todo[t] = db[t] /\ rec[r].found \in Order \cup {None}
         /\ RowRight(db[t], Cid(t)) /\ RunRight(r, t)
<1>1. TypeOK /\ RTypeOK /\ RunsHoldRows /\ RowsRight /\ RunsRight
  BY DEF SInv, RIInv, RTypeOK
<1>2. t \in Used /\ t \in TradeIds /\ rec[r].found \in Order \cup {None}
  BY <1>1, LoadedTrade DEF Used
<1>3. db[t] \in Row /\ RowRight(db[t], Cid(t)) /\ RunRight(r, t)
  BY <1>1, <1>2 DEF TypeOK, Used, RowsRight, RunsRight
<1> QED BY <1>2, <1>3 DEF RunRight, Row, Cid

LEMMA AskedRunsRight ==
  ASSUME SInv, NEW r \in Reconcilers, NEW t \in Todo(r), NEW a,
         ask(r, t, a), Answered(a)
  PROVE  RunsRight'
<1>1. /\ RunsRight /\ RTypeOK /\ UNCHANGED <<db, sub, wire, book, reply, posts>>
      /\ UNCHANGED vars
  BY DEF SInv, RIInv, ask, vars
<1>2. /\ t \in Used /\ t \in TradeIds /\ Cid(t) \in Digests
      /\ rec[r].todo[t] = db[t] /\ RunRight(r, t)
  BY RunTrade
<1>3. /\ Current(r, t) /\ ~is_terminal(db[t]) /\ a \in Answers(Cid(t))
      /\ rec' = [rec EXCEPT ![r].pc = "asked", ![r].found = get_order(a)]
  BY <1>2 DEF ask, Cid
<1>4. Known(Cid(t), get_order(a))
  BY <1>1, <1>2, <1>3, AnswersAreTrue DEF SInv, RTypeOK
<1>5. /\ rec'[r].todo = rec[r].todo /\ rec'[r].found = get_order(a)
      /\ \A q \in Reconcilers \ {r} : rec'[q] = rec[q]
  <2> DEFINE run == [rec[r] EXCEPT !.pc = "asked", !.found = get_order(a)]
  <2>1. rec' = [rec EXCEPT ![r] = run]
    BY <1>3
  <2>2. run.todo = rec[r].todo /\ run.found = get_order(a)
    BY <1>1 DEF RTypeOK, Run
  <2> HIDE DEF run
  <2> QED BY <1>1, <2>1, <2>2 DEF RTypeOK
<1>6. \A q \in Reconcilers : rec'[q].todo = rec[q].todo /\ Todo(q)' = Todo(q)
  BY <1>5 DEF Todo
<1>7. SUFFICES ASSUME NEW q \in Reconcilers, NEW u \in Todo(q)
               PROVE  RunRight(q, u)'
  BY <1>6 DEF RunsRight
<1>8. RunRight(q, u) /\ Cid(u)' = Cid(u) /\ db'[u] = db[u]
  BY <1>1 DEF RunsRight, Cid
<1>9. rec'[q].pc = "asked" /\ Current(q, u)' =>
        ~is_terminal(db[u])' /\ Known(Cid(u), rec[q].found)'
  <2>1. SUFFICES ASSUME rec'[q].pc = "asked", Current(q, u)'
                 PROVE  ~is_terminal(db[u]) /\ Known(Cid(u), rec'[q].found)
    BY <1>1, <1>8 DEF is_terminal, Known, Reported
  <2>2. Current(q, u)
    BY <1>6, <2>1 DEF Current
  <2>3. CASE q # r
    BY <1>5, <1>8, <2>1, <2>2, <2>3 DEF RunRight
  <2>4. CASE q = r
    <3>1. t <= u /\ u <= t /\ u \in TradeIds
      BY <1>3, <2>2, <2>4 DEF Current, Todo
    <3>2. u = t
      BY <1>2, <3>1, KeyAssumption
    <3> QED BY <1>3, <1>4, <1>5, <2>4, <3>2
  <2> QED BY <2>3, <2>4
<1> QED BY <1>1, <1>6, <1>8, <1>9 DEF RunRight

LEMMA LoadPreservesSInv ==
  ASSUME SInv, RIInv', Discipline, NEW r \in Reconcilers, NEW batch \in SUBSET Used,
         Load(r, batch)
  PROVE  SInv' /\ Effect
<1>1. /\ RunsRight /\ RTypeOK /\ UNCHANGED vars
      /\ UNCHANGED <<db, sub, wire, book, reply, posts>>
  BY DEF SInv, RIInv, Load, vars
<1>2. /\ rec'[r].pc = "ready"
      /\ \A t \in TradeIds : rec'[r].todo[t] = IF t \in batch THEN db[t] ELSE None
      /\ \A q \in Reconcilers \ {r} : rec'[q] = rec[q]
  BY <1>1 DEF Load, RTypeOK
<1>3. \A t \in batch : Over(t) /\ \A q \in Reconcilers \ {r} : t \notin Todo(q)
  BY DEF Load, Allowed, Discipline
<1>4. ASSUME NEW q \in Reconcilers, NEW t \in Todo(q)'
      PROVE  RunRight(q, t)'
  <2>1. t \in TradeIds /\ rec'[q].todo[t] # None /\ db'[t] = db[t] /\ Cid(t)' = Cid(t)
    BY <1>1 DEF Todo, Cid
  <2>2. CASE q = r
    <3>1. t \in batch /\ rec'[r].todo[t] = db[t]
      BY <1>2, <2>1, <2>2
    <3>2. Over(t) /\ \A p \in Reconcilers \ {r} : rec'[p].todo[t] = None
      BY <1>2, <1>3, <2>1, <3>1 DEF Todo
    <3> QED BY <1>1, <1>2, <2>1, <2>2, <3>1, <3>2 DEF RunRight, Over
  <2>3. CASE q # r
    <3>1. rec'[q] = rec[q] /\ t \in Todo(q)
      BY <1>2, <2>1, <2>3 DEF Todo
    <3>2. RunRight(q, t) /\ t \notin batch
      BY <1>1, <1>3, <2>3, <3>1 DEF RunsRight
    <3>3. \A p \in Reconcilers \ {q} : rec'[p].todo[t] = None
      BY <1>2, <2>1, <3>2 DEF RunRight
    <3>4. Current(q, t)' <=> Current(q, t)
      BY <3>1 DEF Current, Todo
    <3>5. Known(Cid(t), rec[q].found)' <=> Known(Cid(t), rec[q].found)
      BY <1>1, <2>1, <3>1 DEF Known, Reported
    <3> QED BY <1>1, <2>1, <3>1, <3>2, <3>3, <3>4, <3>5 DEF RunRight, is_terminal
  <2> QED BY <2>2, <2>3
<1> QED BY <1>1, <1>4, RunsAlone DEF RunsRight

LEMMA RunRecordPreservesSInv ==
  ASSUME SInv, RIInv', NEW r \in Reconcilers, NEW t \in Todo(r),
         record(r, t) \/ record_raises(r, t)
  PROVE  SInv' /\ Effect
<1> DEFINE new == Reconciled(db[t], rec[r].found)
<1>1. TypeOK /\ RTypeOK /\ RepliesRight /\ UniqueSignals
  BY DEF SInv, RIInv, RTypeOK
<1>2. /\ t \in Used /\ t \in TradeIds /\ db[t] \in Row /\ Cid(t) \in Digests
      /\ rec[r].todo[t] = db[t] /\ rec[r].found \in Order \cup {None}
      /\ RowRight(db[t], Cid(t)) /\ RunRight(r, t)
  BY RunTrade
<1>3. /\ rec[r].pc = "asked" /\ Current(r, t)
      /\ Commit(t, db[t], new)
      /\ Advance(r, t) \/ EndRun(r)
      /\ UNCHANGED <<sub, wire, book, reply, posts>>
  BY <1>2 DEF record, record_raises, Commit, Outcome, exchangeVars
<1>4. /\ ~is_terminal(db[t]) /\ Known(Cid(t), rec[r].found) /\ wire[Cid(t)] = "idle"
      /\ db[t].submitted_at
  BY <1>2, <1>3 DEF RunRight
<1>5. new \in Row /\ Keeps(db[t], new) /\ RowRight(new, Cid(t))
  BY <1>2, <1>4, ReconciledRight
<1> HIDE DEF new
<1>6. PICK row \in {new, db[t]} : db' = [db EXCEPT ![t] = row]
  BY <1>1, <1>2, <1>3, <1>5, LoadedCommit
<1>7. row \in Row /\ Keeps(db[t], row) /\ RowRight(row, Cid(t))
  BY <1>2, <1>5 DEF Keeps
<1>8. db'[t] = row /\ \A u \in TradeIds \ {t} : db'[u] = db[u]
  BY <1>1, <1>2, <1>6 DEF TypeOK
<1>9. Used' = Used /\ Cid(t)' = Cid(t) /\ db'[t].submitted_at
  BY <1>2, <1>4, <1>7, <1>8, NullAssumption DEF Used, Cid, Keeps
<1>10. Shrinks(r) /\ rec'[r].pc # "asked" /\ rec'[r].todo[t] = None
  BY <1>1, <1>3, AdvancedRun
<1>11. OnlyTrade(t)
  <2>1. \A q \in Reconcilers : /\ rec'[q] = rec[q] \/ rec'[q].pc # "asked"
                               /\ \A u \in TradeIds : rec'[q].todo[u] \in {rec[q].todo[u], None}
    BY <1>10 DEF Shrinks
  <2> QED BY <1>2, <1>3, <1>8, <1>9, <2>1 DEF OnlyTrade
<1>12. TradeRight(t)'
  <2>1. ReplyRight(Cid(t))'
    BY <1>1, <1>2, <1>3, <1>9 DEF RepliesRight, ReplyRight, Reported
  <2>2. RowRight(db[t], Cid(t))'
    BY <1>3, <1>7, <1>8, <1>9 DEF RowRight, Reported, NoOrder, Mirrored
  <2>3. \A u \in Used' : db'[u].signal_id = db'[t].signal_id => u = t
    BY <1>1, <1>2, <1>7, <1>8, <1>9 DEF UniqueSignals, Keeps, Used
  <2>4. \A w \in Submitters : sub'[w].tid # t
    BY <1>2, <1>3 DEF RunRight
  <2>5. \A q \in Reconcilers : t \notin Todo(q)'
    BY <1>2, <1>10 DEF Todo, RunRight, Shrinks
  <2> QED BY <1>9, <2>1, <2>2, <2>3, <2>4, <2>5 DEF TradeRight
<1>13. SInv'
  BY <1>2, <1>11, <1>12, OneTradeAtATime
<1>14. Concludes(t, row)
  BY <1>2, <1>4, <1>6, <1>7 DEF Concludes
<1> QED BY <1>2, <1>3, <1>7, <1>13, <1>14 DEF Effect
-----------------------------------------------------------------------------
(* The theorems.                                                           *)

LEMMA RInitEstablishesSInv ==
  ASSUME RInit
  PROVE  SInv
<1>1. RIInv
  BY RInitEstablishesRIInv
<1>2. /\ \A t \in TradeIds : db[t] = None
      /\ \A c \in Digests : book[c] = None /\ reply[c] = None
      /\ \A w \in Submitters : sub[w].pc = "idle"
      /\ \A r \in Reconcilers, t \in TradeIds : rec[r].todo[t] = None
  BY DEF RInit, Init, ExchangeInit, NoSession, NoRun
<1>3. Used = {} /\ \A r \in Reconcilers : Todo(r) = {}
  BY <1>2 DEF Used, Todo
<1>4. BookRight /\ RepliesRight /\ SessionsRight
  BY <1>2 DEF BookRight, RepliesRight, ReplyRight, SessionsRight, SessionRight
<1>5. RowsRight /\ UnsentRight /\ UniqueSignals /\ RunsRight
  BY <1>3 DEF RowsRight, UnsentRight, UniqueSignals, RunsRight
<1> QED BY <1>1, <1>4, <1>5 DEF SInv

LEMMA RNextPreservesSInv ==
  ASSUME Discipline, SInv, [RNext]_rvars
  PROVE  SInv' /\ Effect
<1>1. RIInv'
  BY RNextPreservesRIInv DEF SInv
<1>2. CASE Next /\ UNCHANGED rec
  <2>1. CASE \E s \in Signals : create_pending_trade(s)
    BY <1>1, <1>2, <2>1, CreatePreservesSInv
  <2>2. CASE Exchanging
    <3>1. SInv'
      BY <1>1, <1>2, <2>2, ExchangePreservesSInv
    <3> QED BY <2>2, <3>1 DEF Exchanging, submitterVars, Effect
  <2>3. ASSUME NEW w \in Submitters, Submit(w)
        PROVE  SInv' /\ Effect
    <3>1. CASE \E t \in TradeIds : claim_for_submission(w, t)
      BY <1>1, <1>2, <3>1, ClaimPreservesSInv
    <3>2. CASE submit_to_binance(w)
      BY <1>1, <1>2, <3>2, SubmitPreservesSInv
    <3>3. CASE Record(w)
      BY <1>1, <1>2, <3>3, RecordPreservesSInv
    <3>4. CASE ask_at_once(w)
      BY <1>1, <1>2, <3>4, AskPreservesSInv
    <3>5. CASE record_answer(w)
      BY <1>1, <1>2, <3>5, RecordAnswerPreservesSInv
    <3>6. CASE Abandon(w)
      BY <1>1, <1>2, <3>6, AbandonPreservesSInv
    <3> QED BY <2>3, <3>1, <3>2, <3>3, <3>4, <3>5, <3>6 DEF Submit
  <2> QED BY <1>2, <2>1, <2>2, <2>3 DEF Next
<1>3. ASSUME NEW r \in Reconcilers, Reconcile(r)
      PROVE  SInv' /\ Effect
  <2>0. RTypeOK
    BY DEF SInv, RIInv
  <2>1. CASE \E cutoff \in TradeIds : find_reconcilable_trades(r, cutoff)
    <3>1. PICK cutoff \in TradeIds : Load(r, Oldest(InFlight(cutoff), Limit))
      BY <2>1 DEF find_reconcilable_trades
    <3>2. Oldest(InFlight(cutoff), Limit) \in SUBSET Used
      BY DEF Oldest, InFlight
    <3> QED BY <1>1, <3>1, <3>2, LoadPreservesSInv
  <2>2. CASE \E t \in TradeIds : get_trade_for_user(r, t)
    <3>1. PICK t \in TradeIds : t \in Used /\ Load(r, {t})
      BY <2>2 DEF get_trade_for_user
    <3>2. {t} \in SUBSET Used
      BY <3>1
    <3> QED BY <1>1, <3>1, <3>2, LoadPreservesSInv
  <2>3. ASSUME NEW t \in Todo(r), reconcile_trade(r, t)
        PROVE  SInv' /\ Effect
    <3>1. CASE UNCHANGED vars /\ Advance(r, t)
      BY <1>1, <2>0, <3>1, AdvancedRun, ShrunkRunsRight, RunsAlone
    <3>2. CASE skip_terminal(r, t)
      BY <3>1, <3>2 DEF skip_terminal
    <3>3. ASSUME NEW a, ask(r, t, a)
          PROVE  SInv' /\ Effect
      <4>1. CASE Answered(a)
        BY <1>1, <3>3, <4>1, AskedRunsRight, RunsAlone DEF ask
      <4>2. CASE ~Answered(a)
        BY <3>1, <3>3, <4>2 DEF ask
      <4> QED BY <4>1, <4>2
    <3>4. CASE record(r, t) \/ record_raises(r, t)
      BY <1>1, <3>4, RunRecordPreservesSInv
    <3> QED BY <2>3, <3>2, <3>3, <3>4 DEF reconcile_trade
  <2>4. CASE Interrupt(r)
    <3>1. EndRun(r) /\ UNCHANGED vars
      BY <2>4 DEF Interrupt
    <3>2. Shrinks(r) /\ rec'[r].pc # "asked"
      BY <2>0, <3>1, EndedRunShrinks DEF EndRun, RTypeOK, NoRun
    <3> QED BY <1>1, <3>1, <3>2, ShrunkRunsRight, RunsAlone
  <2> QED BY <1>3, <2>1, <2>2, <2>3, <2>4 DEF Reconcile
<1>4. CASE UNCHANGED rvars
  <2>1. UNCHANGED <<db, sub, wire, book, reply, posts, rec>> /\ UNCHANGED vars
    BY <1>4 DEF rvars, vars
  <2>2. RunsRight'
    BY <2>1 DEF SInv, RunsRight, RunRight, Todo, Current, Known, Reported, Cid, is_terminal
  <2> QED BY <1>1, <2>1, <2>2, RunsAlone
<1> QED BY <1>2, <1>3, <1>4 DEF RNext

(* The invariant behind the theorems that follow.                          *)
THEOREM DisciplineInductive ==
  ASSUME Discipline
  PROVE  RSpec => []SInv
<1>1. RInit => SInv
  BY RInitEstablishesSInv
<1>2. SInv /\ [RNext]_rvars => SInv'
  BY RNextPreservesSInv
<1> QED BY <1>1, <1>2, PTL DEF RSpec

\* What a settled row says.
LEMMA SettledRow ==
  ASSUME Discipline, NEW row, NEW c, RowRight(row, c), is_terminal(row)
  PROVE  \/ DryRun /\ Mirrored(row) = DryRunResult
         \/ row.binance_status = None /\ NoOrder(c)
         \/ /\ row.binance_status # None
            /\ book[c] \in Orders
            /\ Mirrored(row) = book[c] /\ ~Live(book[c])
<1>1. CASE row.binance_status = None
  BY <1>1 DEF RowRight
<1>2. CASE row.binance_status # None /\ Reported(c, Mirrored(row))
  <2>1. Mirrored(row) \in Orders /\ book[c] \in Orders
    BY <1>2 DEF Reported
  <2>2. BINANCE_STATUS_MAP(Mirrored(row).status) \in TERMINAL_STATUSES
    BY <1>2 DEF RowRight, is_terminal, Mirrored
  <2>3. ~Live(Mirrored(row))
    BY <2>1, <2>2, FinalStatuses
  <2>4. Mirrored(row) = book[c]
    BY <1>2, <2>3 DEF Reported, Advances
  <2> QED BY <1>2, <2>1, <2>3, <2>4
<1> QED BY <1>1, <1>2 DEF RowRight

\* What the invariant says of rows.
LEMMA RowsTellTheTruth ==
  ASSUME Discipline, SInv
  PROVE  SettledMatchesExchange /\ MirrorNeverAhead
<1>1. SettledMatchesExchange
  BY SettledRow DEF SInv, RowsRight, SettledMatchesExchange
<1>2. ASSUME NEW t \in Used, db[t].binance_status # None
      PROVE  \/ DryRun /\ Mirrored(db[t]) = DryRunResult
             \/ /\ book[Cid(t)] # None
                /\ \/ Mirrored(db[t]) = book[Cid(t)]
                   \/ Advances(Mirrored(db[t]), book[Cid(t)])
  <2>1. RowRight(db[t], Cid(t)) /\ None \notin Orders
    BY <1>2, NullAssumption DEF SInv, RowsRight, Orders
  <2> QED BY <1>2, <2>1 DEF RowRight, Reported
<1>3. MirrorNeverAhead
  BY <1>2 DEF MirrorNeverAhead
<1> QED BY <1>1, <1>3

(* A settled row carries the final report of its order, or there is no     *)
(* order and never will be: whichever of the submitter and the             *)
(* reconciliation runs wrote it, after whatever crashes and lost answers.  *)
THEOREM SettledIsTrue ==
  ASSUME Discipline
  PROVE  RSpec => []SettledMatchesExchange
<1>1. SInv => SettledMatchesExchange
  BY RowsTellTheTruth
<1> QED BY <1>1, DisciplineInductive, PTL

(* A row's status and quantity are one report that was made of its order.  *)
THEOREM MirrorsAreReports ==
  ASSUME Discipline
  PROVE  RSpec => []MirrorNeverAhead
<1>1. SInv => MirrorNeverAhead
  BY RowsTellTheTruth
<1> QED BY <1>1, DisciplineInductive, PTL

LEMMA SettledRowStays ==
  ASSUME Discipline, SInv, [RNext]_rvars, NEW t \in Used, is_terminal(db[t])
  PROVE  db'[t] = db[t]
<1>1. Effect /\ TypeOK
  BY RNextPreservesSInv DEF SInv, RIInv, RTypeOK
<1>2. \A u \in TradeIds : \A row : db' = [db EXCEPT ![u] = row] /\ u # t => db'[t] = db[t]
  BY <1>1 DEF TypeOK, Used
<1>3. ASSUME NEW s \in Signals, NEW u \in TradeIds, Creates(s, u)
      PROVE  db'[t] = db[t]
  BY <1>2, <1>3 DEF Creates
<1>4. ASSUME NEW u \in TradeIds, Claims(u)
      PROVE  db'[t] = db[t]
  BY <1>2, <1>4 DEF Claims, is_terminal, TERMINAL_STATUSES
<1>5. ASSUME NEW u \in TradeIds, NEW row \in Row, Concludes(u, row)
      PROVE  db'[t] = db[t]
  BY <1>2, <1>5 DEF Concludes
<1> QED BY <1>1, <1>3, <1>4, <1>5 DEF Effect

(* No step rewrites a row that has settled.                                *)
THEOREM SettledIsFinal ==
  ASSUME Discipline
  PROVE  RSpec => TerminalIsFinal
<1>1. SInv /\ [RNext]_rvars =>
        [\A t \in Used : is_terminal(db[t]) => db'[t] = db[t]]_vars
  BY SettledRowStays
<1> QED BY <1>1, DisciplineInductive, PTL DEF RSpec, TerminalIsFinal
-----------------------------------------------------------------------------
(* The refinement: every step is a step of SignalLedger.                   *)

\* What the promise sees of a signal with one row.
LEMMA RowOfSignal ==
  ASSUME UniqueSignals, NEW t \in Used, NEW s, s = db[t].signal_id
  PROVE  /\ RowsOf(s) = {t}
         /\ StageOf(s) = IF db[t].submitted_at THEN "submitted" ELSE "recorded"
         /\ OrderOf(s) = IF book[Cid(t)] = None THEN "none"
                         ELSE IF Live(book[Cid(t)]) THEN "live" ELSE "done"
         /\ VerdictOf(s) = IF ~is_terminal(db[t]) THEN "open"
                           ELSE IF db[t].binance_status = None THEN "refused" ELSE "traded"
<1>1. RowsOf(s) = {t}
  BY DEF RowsOf, UniqueSignals
<1> QED BY <1>1 DEF StageOf, OrderOf, VerdictOf

\* A signal none of whose rows and orders change.
LEMMA SameSignal ==
  ASSUME NEW s, RowsOf(s)' = RowsOf(s),
         \A t \in RowsOf(s) : db'[t] = db[t] /\ book'[Cid(t)] = book[Cid(t)]
  PROVE  /\ StageOf(s)' = StageOf(s)
         /\ OrderOf(s)' = OrderOf(s)
         /\ VerdictOf(s)' = VerdictOf(s)
<1>1. \A t \in RowsOf(s) : Cid(t)' = Cid(t) /\ book'[Cid(t)'] = book[Cid(t)]
  BY DEF Cid
<1>2. StageOf(s)' = StageOf(s)
  BY DEF StageOf
<1>3. OrderOf(s)' = OrderOf(s)
  BY <1>1 DEF OrderOf
<1>4. VerdictOf(s)' = VerdictOf(s)
  BY DEF VerdictOf, is_terminal
<1> QED BY <1>2, <1>3, <1>4

\* What a step about one signal leaves of the promise's state.
OnlySignal(s) ==
  \A u \in Signals \ {s} : /\ StageOf(u)' = StageOf(u)
                           /\ OrderOf(u)' = OrderOf(u)
                           /\ VerdictOf(u)' = VerdictOf(u)

\* ... when one row was written, or inserted,
LEMMA OneRowOneSignal ==
  ASSUME TypeOK, TypeOK', NEW t \in TradeIds, NEW row \in Row,
         db' = [db EXCEPT ![t] = row], UNCHANGED book,
         t \in Used => row.signal_id = db[t].signal_id
  PROVE  OnlySignal(row.signal_id)
<1>1. db'[t] = row /\ row # None /\ \A u \in TradeIds \ {t} : db'[u] = db[u]
  BY NullAssumption DEF TypeOK
<1>2. SUFFICES ASSUME NEW u \in Signals, u # row.signal_id
               PROVE  /\ StageOf(u)' = StageOf(u)
                      /\ OrderOf(u)' = OrderOf(u)
                      /\ VerdictOf(u)' = VerdictOf(u)
  BY DEF OnlySignal
<1>3. RowsOf(u)' = RowsOf(u) /\ t \notin RowsOf(u)
  BY <1>1, <1>2 DEF RowsOf, Used
<1>4. \A v \in RowsOf(u) : db'[v] = db[v] /\ book'[Cid(v)] = book[Cid(v)]
  BY <1>1, <1>3 DEF RowsOf, Used
<1> QED BY <1>3, <1>4, SameSignal

\* ... or one order changed.
LEMMA OneOrderOneSignal ==
  ASSUME TypeOK, UniqueCids, NEW t \in Used, UNCHANGED db,
         \A d \in Digests \ {Cid(t)} : book'[d] = book[d]
  PROVE  OnlySignal(db[t].signal_id)
<1>1. SUFFICES ASSUME NEW u \in Signals, u # db[t].signal_id
               PROVE  /\ StageOf(u)' = StageOf(u)
                      /\ OrderOf(u)' = OrderOf(u)
                      /\ VerdictOf(u)' = VerdictOf(u)
  BY DEF OnlySignal
<1>2. RowsOf(u)' = RowsOf(u) /\ t \notin RowsOf(u)
  BY <1>1 DEF RowsOf, Used
<1>3. ASSUME NEW v \in RowsOf(u)
      PROVE  db'[v] = db[v] /\ book'[Cid(v)] = book[Cid(v)]
  <2>1. v \in Used /\ v # t
    BY <1>2, <1>3 DEF RowsOf
  <2>2. Cid(v) \in Digests /\ Cid(v) # Cid(t)
    BY <2>1 DEF UniqueCids, TypeOK, Used, Row, Cid
  <2> QED BY <2>2
<1> QED BY <1>2, <1>3, SameSignal

\* The steps of the promise, in its own terms.
LEMMA LedgerSteps ==
  ASSUME NEW s \in Signals, OnlySignal(s),
         \/ /\ StageOf(s)' = StageOf(s) /\ OrderOf(s)' = OrderOf(s)
            /\ VerdictOf(s)' = VerdictOf(s)
         \/ /\ StageOf(s) = "unseen" /\ StageOf(s)' = "recorded"
            /\ OrderOf(s)' = OrderOf(s) /\ VerdictOf(s)' = VerdictOf(s)
         \/ /\ StageOf(s) = "recorded" /\ StageOf(s)' = "submitted"
            /\ OrderOf(s)' = OrderOf(s) /\ VerdictOf(s)' = VerdictOf(s)
         \/ /\ StageOf(s) = "submitted" /\ StageOf(s)' = StageOf(s)
            /\ OrderOf(s) = "none" /\ OrderOf(s)' \in {"live", "done"}
            /\ VerdictOf(s) = "open" /\ VerdictOf(s)' = VerdictOf(s)
         \/ /\ StageOf(s)' = StageOf(s)
            /\ OrderOf(s) = "live" /\ OrderOf(s)' = "done"
            /\ VerdictOf(s)' = VerdictOf(s)
         \/ /\ StageOf(s) = "submitted" /\ StageOf(s)' = StageOf(s)
            /\ OrderOf(s)' = OrderOf(s) /\ VerdictOf(s) = "open"
            /\ \/ OrderOf(s) = "done" /\ VerdictOf(s)' = "traded"
               \/ OrderOf(s) = "none" /\ VerdictOf(s)' = "refused"
  PROVE  [Ledger!LedgerNext]_(Ledger!ledgerVars)
<1> DEFINE stage == [u \in Signals |-> StageOf(u)]
           order == [u \in Signals |-> OrderOf(u)]
           verdict == [u \in Signals |-> VerdictOf(u)]
<1>1. /\ StageOf(s)' = StageOf(s) => stage' = stage
      /\ OrderOf(s)' = OrderOf(s) => order' = order
      /\ VerdictOf(s)' = VerdictOf(s) => verdict' = verdict
      /\ stage' = [stage EXCEPT ![s] = StageOf(s)']
      /\ order' = [order EXCEPT ![s] = OrderOf(s)']
      /\ verdict' = [verdict EXCEPT ![s] = VerdictOf(s)']
  BY DEF OnlySignal
<1>2. stage[s] = StageOf(s) /\ order[s] = OrderOf(s) /\ verdict[s] = VerdictOf(s)
  OBVIOUS
<1> HIDE DEF stage, order, verdict
<1>3. \/ /\ stage' = stage /\ order' = order /\ verdict' = verdict
      \/ /\ stage[s] = "unseen" /\ stage' = [stage EXCEPT ![s] = "recorded"]
         /\ order' = order /\ verdict' = verdict
      \/ /\ stage[s] = "recorded" /\ stage' = [stage EXCEPT ![s] = "submitted"]
         /\ order' = order /\ verdict' = verdict
      \/ /\ stage[s] = "submitted" /\ order[s] = "none" /\ verdict[s] = "open"
         /\ \E o \in {"live", "done"} : order' = [order EXCEPT ![s] = o]
         /\ stage' = stage /\ verdict' = verdict
      \/ /\ order[s] = "live" /\ order' = [order EXCEPT ![s] = "done"]
         /\ stage' = stage /\ verdict' = verdict
      \/ /\ stage[s] = "submitted" /\ verdict[s] = "open"
         /\ \/ order[s] = "done" /\ verdict' = [verdict EXCEPT ![s] = "traded"]
            \/ order[s] = "none" /\ verdict' = [verdict EXCEPT ![s] = "refused"]
         /\ stage' = stage /\ order' = order
  BY <1>1, <1>2
<1> QED BY <1>3 DEF stage, order, verdict, Ledger!LedgerNext, Ledger!ledgerVars, Ledger!Record,
                    Ledger!Submit, Ledger!Place, Ledger!Finish, Ledger!Settle

\* An order that appears belongs to a trade that was sent and is open; one
\* that moves is live.
LEMMA ExchangeStepIsLedgerStep ==
  ASSUME ~DryRun, SInv, SInv', UNCHANGED db, ExchangeStep
  PROVE  [Ledger!LedgerNext]_(Ledger!ledgerVars)
<1>1. /\ TypeOK /\ BookRight /\ RowsRight /\ UniqueSignals /\ UniqueCids /\ WriteAhead
      /\ UniqueSignals' /\ WireMoves /\ TypeOK'
  BY DEF SInv, RIInv, RTypeOK, IInv, WireMoves
<1>2. CASE book' = book
  <2>1. \A s : StageOf(s)' = StageOf(s) /\ OrderOf(s)' = OrderOf(s) /\ VerdictOf(s)' = VerdictOf(s)
    <3>1. \A s : RowsOf(s)' = RowsOf(s)
      BY DEF RowsOf, Used
    <3> QED BY <1>2, <3>1, SameSignal
  <2> QED BY <2>1 DEF Ledger!ledgerVars
<1>3. CASE book' # book
  <2>1. PICK c \in Digests : /\ book'[c] # book[c]
                             /\ \A d \in Digests \ {c} : book'[d] = book[d]
    <3>1. PICK c \in Digests : \E order \in Orders : book' = [book EXCEPT ![c] = order]
      BY <1>3 DEF ExchangeStep, Execute, Refuse, Stall, Progress
    <3> QED BY <1>1, <1>3, <3>1 DEF TypeOK
  <2>2. BookMoves(c)
    BY <1>1, BookStepMoves
  <2>3. \/ book[c] \in Orders /\ book'[c] \in Orders /\ Advances(book[c], book'[c])
        \/ book[c] = None /\ wire[c] # "idle" /\ book'[c] \in Orders
    BY <2>1, <2>2 DEF BookMoves
  <2>4. None \notin Orders
    BY NullAssumption DEF Orders
  <2>5. wire[c] # "idle" \/ book[c] # None
    BY <2>3, <2>4
  <2>6. PICK t \in Used : Cid(t) = c /\ db[t].submitted_at
    BY <1>1, <2>5 DEF WriteAhead
  <2>7. PICK s \in Signals : s = db[t].signal_id
    BY <1>1, <2>6 DEF TypeOK, Used, Row
  <2>8. OnlySignal(s)
    BY <1>1, <2>1, <2>6, <2>7, OneOrderOneSignal
  <2>9. /\ StageOf(s) = "submitted"
        /\ OrderOf(s) = IF book[c] = None THEN "none"
                        ELSE IF Live(book[c]) THEN "live" ELSE "done"
        /\ VerdictOf(s) = IF ~is_terminal(db[t]) THEN "open"
                          ELSE IF db[t].binance_status = None THEN "refused" ELSE "traded"
    BY <1>1, <2>6, <2>7, RowOfSignal
  <2>10. /\ StageOf(s)' = StageOf(s)
         /\ OrderOf(s)' = IF book'[c] = None THEN "none"
                          ELSE IF Live(book'[c]) THEN "live" ELSE "done"
         /\ VerdictOf(s)' = VerdictOf(s)
    <3>1. RowsOf(s) = {t} /\ RowsOf(s)' = {t} /\ Cid(t)' = c
      BY <1>1, <2>6, <2>7, RowOfSignal DEF RowsOf, Used, Cid
    <3>2. StageOf(s)' = StageOf(s) /\ VerdictOf(s)' = VerdictOf(s)
      BY <3>1 DEF StageOf, VerdictOf, is_terminal
    <3>3. OrderOf(s)' = IF book'[c] = None THEN "none"
                        ELSE IF Live(book'[c]) THEN "live" ELSE "done"
      BY <3>1 DEF OrderOf, Live
    <3> QED BY <3>2, <3>3
  <2>11. CASE book[c] = None /\ wire[c] # "idle" /\ book'[c] \in Orders
    <3>1. ~is_terminal(db[t])
      <4>1. RowRight(db[t], c) /\ ~NoOrder(c) /\ book[c] \notin Orders
        BY <1>1, <2>4, <2>6, <2>11 DEF RowsRight, NoOrder
      <4> QED BY <4>1 DEF RowRight, Reported
    <3>2. OrderOf(s) = "none" /\ OrderOf(s)' \in {"live", "done"} /\ VerdictOf(s) = "open"
      BY <2>4, <2>9, <2>10, <2>11, <3>1
    <3> QED BY <2>8, <2>9, <2>10, <3>2, LedgerSteps
  <2>12. CASE book[c] \in Orders /\ book'[c] \in Orders /\ Advances(book[c], book'[c])
    <3>1. OrderOf(s) = "live" /\ OrderOf(s)' \in {"live", "done"}
      BY <2>4, <2>9, <2>10, <2>12 DEF Advances
    <3> QED BY <2>8, <2>10, <3>1, LedgerSteps
  <2> QED BY <2>3, <2>11, <2>12
<1> QED BY <1>2, <1>3

\* The steps that write a row.
LEMMA RowStepIsLedgerStep ==
  ASSUME Discipline, ~DryRun, SInv, SInv', UNCHANGED book,
         \/ \E s \in Signals, t \in TradeIds : Creates(s, t)
         \/ \E t \in TradeIds : Claims(t)
         \/ \E t \in TradeIds, row \in Row : Concludes(t, row)
  PROVE  [Ledger!LedgerNext]_(Ledger!ledgerVars)
<1>1. /\ TypeOK /\ TypeOK' /\ UniqueSignals /\ UniqueSignals' /\ WriteAhead
  BY DEF SInv, RIInv, RTypeOK, IInv
<1>2. ASSUME NEW s \in Signals, NEW t \in TradeIds, Creates(s, t)
      PROVE  [Ledger!LedgerNext]_(Ledger!ledgerVars)
  <2>1. /\ PendingRow(s) \in Row /\ PendingRow(s).client_order_id \in Digests
        /\ PendingRow(s).signal_id = s
        /\ PendingRow(s).status = "PENDING" /\ PendingRow(s).submitted_at = FALSE
    BY PendingIsRow DEF PendingRow, Row
  <2>2. /\ t \notin Used /\ db' = [db EXCEPT ![t] = PendingRow(s)]
        /\ \A u \in Used : db[u].signal_id # s /\ Cid(u) # PendingRow(s).client_order_id
    BY <1>2, <2>1 DEF Creates, ViolatesUnique, Cid
  <2>3. OnlySignal(s)
    BY <1>1, <2>1, <2>2, OneRowOneSignal
  <2>4. book[PendingRow(s).client_order_id] = None
    BY <1>1, <2>1, <2>2 DEF WriteAhead
  <2>5. StageOf(s) = "unseen" /\ OrderOf(s) = "none" /\ VerdictOf(s) = "open"
    <3>1. RowsOf(s) = {}
      BY <2>2 DEF RowsOf
    <3> QED BY <3>1 DEF StageOf, OrderOf, VerdictOf
  <2>6. StageOf(s)' = "recorded" /\ OrderOf(s)' = "none" /\ VerdictOf(s)' = "open"
    <3>1. db'[t] = PendingRow(s) /\ t \in Used'
      BY <1>1, <2>1, <2>2, NullAssumption DEF TypeOK, Used
    <3>2. RowsOf(s)' = {t} /\ Cid(t)' = PendingRow(s).client_order_id
      BY <1>1, <2>1, <3>1 DEF RowsOf, UniqueSignals, Cid
    <3>3. ~is_terminal(db[t])' /\ db'[t].submitted_at = FALSE
      BY <2>1, <3>1 DEF is_terminal, TERMINAL_STATUSES
    <3> QED BY <2>4, <3>2, <3>3 DEF StageOf, OrderOf, VerdictOf
  <2> QED BY <2>3, <2>5, <2>6, LedgerSteps
<1>3. ASSUME NEW t \in Used, NEW row \in Row, db' = [db EXCEPT ![t] = row],
             row.signal_id = db[t].signal_id, row.client_order_id = Cid(t),
             \/ /\ ~db[t].submitted_at /\ row.submitted_at
                /\ ~is_terminal(db[t]) /\ ~is_terminal(row)
             \/ /\ db[t].submitted_at /\ row.submitted_at
                /\ ~is_terminal(db[t]) /\ RowRight(row, Cid(t))
      PROVE  [Ledger!LedgerNext]_(Ledger!ledgerVars)
  <2>1. t \in TradeIds /\ db'[t] = row
    BY <1>1, <1>3 DEF TypeOK, Used
  <2>2. t \in Used' /\ Cid(t)' = Cid(t)
    BY <1>3, <2>1, NullAssumption DEF Used, Cid
  <2>3. PICK s \in Signals : s = db[t].signal_id
    BY <1>1 DEF TypeOK, Used, Row
  <2>4. OnlySignal(s)
    BY <1>1, <1>3, <2>1, <2>3, OneRowOneSignal
  <2>5. /\ StageOf(s) = IF db[t].submitted_at THEN "submitted" ELSE "recorded"
        /\ OrderOf(s) = IF book[Cid(t)] = None THEN "none"
                        ELSE IF Live(book[Cid(t)]) THEN "live" ELSE "done"
        /\ VerdictOf(s) = "open"
    BY <1>1, <1>3, <2>3, RowOfSignal
  <2>6. RowsOf(s)' = {t}
    BY <1>1, <1>3, <2>1, <2>2, <2>3 DEF RowsOf, UniqueSignals
  <2>7. StageOf(s)' = "submitted" /\ OrderOf(s)' = OrderOf(s)
    BY <1>3, <2>1, <2>2, <2>5, <2>6 DEF StageOf, OrderOf
  <2>8. VerdictOf(s)' = IF ~is_terminal(row) THEN "open"
                        ELSE IF row.binance_status = None THEN "refused" ELSE "traded"
    BY <2>1, <2>6 DEF VerdictOf, is_terminal
  <2>9. CASE ~is_terminal(row)
    BY <1>3, <2>4, <2>5, <2>7, <2>8, <2>9, LedgerSteps
  <2>10. CASE is_terminal(row)
    <3>1. \/ row.binance_status = None /\ NoOrder(Cid(t))
          \/ row.binance_status # None /\ book[Cid(t)] \in Orders /\ ~Live(book[Cid(t)])
      BY <1>3, <2>10, SettledRow
    <3>2. \/ row.binance_status = None /\ OrderOf(s) = "none"
          \/ row.binance_status # None /\ OrderOf(s) = "done"
      BY <2>5, <3>1, NullAssumption DEF NoOrder, Orders
    <3> QED BY <1>3, <2>4, <2>5, <2>7, <2>8, <2>10, <3>2, LedgerSteps
  <2> QED BY <2>9, <2>10
<1>4. ASSUME NEW t \in TradeIds, Claims(t)
      PROVE  [Ledger!LedgerNext]_(Ledger!ledgerVars)
  <2>1. PICK row : row = [db[t] EXCEPT !.submitted_at = TRUE]
    OBVIOUS
  <2>2. t \in Used /\ db[t] \in Row /\ db[t].status = "PENDING" /\ ~db[t].submitted_at
    BY <1>1, <1>4 DEF Claims, TypeOK, Used
  <2>3. /\ row \in Row /\ row.signal_id = db[t].signal_id /\ row.client_order_id = Cid(t)
        /\ row.submitted_at /\ row.status = "PENDING"
    BY <2>1, <2>2 DEF Row, Cid
  <2>4. db' = [db EXCEPT ![t] = row]
    BY <1>4, <2>1 DEF Claims
  <2>5. ~is_terminal(db[t]) /\ ~is_terminal(row)
    BY <2>2, <2>3 DEF is_terminal, TERMINAL_STATUSES
  <2> QED BY <1>3, <2>2, <2>3, <2>4, <2>5
<1>5. ASSUME NEW t \in TradeIds, NEW row \in Row, Concludes(t, row)
      PROVE  [Ledger!LedgerNext]_(Ledger!ledgerVars)
  BY <1>3, <1>5 DEF Concludes, Keeps, Cid
<1> QED BY <1>2, <1>4, <1>5

LEMMA RInitIsLedgerInit ==
  ASSUME RInit
  PROVE  Ledger!LedgerInit
<1>1. Used = {}
  BY DEF RInit, Init, Used
<1>2. \A s : StageOf(s) = "unseen" /\ OrderOf(s) = "none" /\ VerdictOf(s) = "open"
  BY <1>1 DEF RowsOf, StageOf, OrderOf, VerdictOf
<1> QED BY <1>2 DEF Ledger!LedgerInit

LEMMA LedgerStutters ==
  ASSUME UNCHANGED <<db, book>>
  PROVE  UNCHANGED Ledger!ledgerVars
<1>1. \A s : RowsOf(s)' = RowsOf(s)
  BY DEF RowsOf, Used
<1>2. \A s : /\ StageOf(s)' = StageOf(s) /\ OrderOf(s)' = OrderOf(s)
             /\ VerdictOf(s)' = VerdictOf(s)
  BY <1>1, SameSignal
<1> QED BY <1>2 DEF Ledger!ledgerVars

LEMMA RStepIsLedgerStep ==
  ASSUME Discipline, ~DryRun, SInv, [RNext]_rvars
  PROVE  [Ledger!LedgerNext]_(Ledger!ledgerVars)
<1>1. SInv' /\ Effect
  BY RNextPreservesSInv
<1>2. CASE UNCHANGED <<db, book>>
  BY <1>2, LedgerStutters
<1>3. CASE UNCHANGED db /\ ExchangeStep
  BY <1>1, <1>3, ExchangeStepIsLedgerStep
<1>4. CASE UNCHANGED book /\ ~UNCHANGED db
  BY <1>1, <1>4, RowStepIsLedgerStep DEF Effect
<1> QED BY <1>1, <1>2, <1>3, <1>4 DEF Effect

(* The service and its reconciliation keep the promise of SignalLedger:    *)
(* each signal is recorded before it is acted on, acted on once, leads to  *)
(* one order at most and is settled once and truthfully.                   *)
THEOREM LedgerIsImplemented ==
  ASSUME Discipline, ~DryRun
  PROVE  RSpec => ImplementsLedger
<1>1. RInit => Ledger!LedgerInit
  BY RInitIsLedgerInit
<1>2. SInv /\ [RNext]_rvars => [Ledger!LedgerNext]_(Ledger!ledgerVars)
  BY RStepIsLedgerStep
<1> QED BY <1>1, <1>2, DisciplineInductive, PTL DEF RSpec, ImplementsLedger, Ledger!LedgerSpec
-----------------------------------------------------------------------------
(* Without the discipline: sessions and runs hold objects of any age and   *)
(* write columns of them over each other's.  Each column of each object is *)
(* true all the same, and the truth about an order only grows.             *)

StatusTrue(c, status) ==
  /\ status = "FILLED" => book[c] # None /\ book[c].status = "FILLED"
  /\ status = "EXPIRED" => book[c] # None /\ book[c].status \in {"EXPIRED", "EXPIRED_IN_MATCH"}

ReportTrue(c, binance_status) == binance_status # None => book[c] # None

QuantityTrue(c, quantity) ==
  quantity # None => book[c] # None /\ quantity <= book[c].executed_quantity

\* No column is ahead of the order the object names.
Truthful(row) ==
  /\ StatusTrue(row.client_order_id, row.status)
  /\ ReportTrue(row.client_order_id, row.binance_status)
  /\ QuantityTrue(row.client_order_id, row.executed_quantity)

FoundTrue(c, found) == found = None \/ Reported(c, found)

SessionTrue(s) ==
  /\ s.pc = "claimed" => s.found = None
  /\ s.obj # None => Truthful(s.obj) /\ FoundTrue(s.obj.client_order_id, s.found)

RunTrue(run) ==
  \A t \in TradeIds : run.todo[t] # None =>
    /\ Truthful(run.todo[t])
    /\ (\A u \in TradeIds : run.todo[u] # None => t <= u) =>
         FoundTrue(run.todo[t].client_order_id, run.found)

ReplyTrue(c) ==
  reply[c] # None /\ request(reply[c]) = "ok" =>
    reply[c].payload # None /\ Reported(c, reply[c].payload)

NInv ==
  /\ RIInv
  /\ BookRight
  /\ \A c \in Digests : ReplyTrue(c)
  /\ \A t \in Used : Truthful(db[t])
  /\ \A w \in Submitters : SessionTrue(sub[w])
  /\ \A r \in Reconcilers : RunTrue(rec[r])

\* The book moves on and what was true stays true.
LEMMA TruthStays ==
  ASSUME TypeOK, TypeOK', \A c \in Digests : BookMoves(c)
  PROVE  /\ \A row \in Row : Truthful(row) => Truthful(row)'
         /\ \A s \in Session : SessionTrue(s) => SessionTrue(s)'
         /\ \A run \in Run : RunTrue(run) => RunTrue(run)'
<1>1. ASSUME NEW row \in Row, Truthful(row)
      PROVE  Truthful(row)'
  <2>1. PICK c \in Digests : c = row.client_order_id
    BY DEF Row
  <2>2. CASE book'[c] = book[c]
    BY <1>1, <2>1, <2>2 DEF Truthful, StatusTrue, ReportTrue, QuantityTrue
  <2>3. CASE book[c] = None /\ book'[c] # book[c]
    <3>1. /\ row.status # "FILLED" /\ row.status # "EXPIRED"
          /\ row.binance_status = None /\ row.executed_quantity = None
      BY <1>1, <2>1, <2>3 DEF Truthful, StatusTrue, ReportTrue, QuantityTrue
    <3> QED BY <3>1 DEF Truthful, StatusTrue, ReportTrue, QuantityTrue
  <2>4. CASE book[c] \in Orders /\ book'[c] \in Orders /\ Advances(book[c], book'[c])
    <3>1. PICK old \in Orders, new \in Orders : old = book[c] /\ new = book'[c]
      BY <2>4
    <3>2. old # None /\ new # None /\ Live(old) /\ old.executed_quantity <= new.executed_quantity
      BY <2>4, <3>1, NullAssumption DEF Advances, Orders
    <3>3. old.executed_quantity \in Int /\ new.executed_quantity \in Int
      BY KeyAssumption DEF Orders, Order
    <3>4. row.status # "FILLED" /\ row.status # "EXPIRED"
      BY <1>1, <2>1, <3>1, <3>2 DEF Truthful, StatusTrue, Live, LiveStatuses
    <3>5. row.executed_quantity # None =>
            row.executed_quantity \in Int /\ row.executed_quantity <= old.executed_quantity
      BY <1>1, <2>1, <3>1, KeyAssumption DEF Truthful, QuantityTrue, Row
    <3>6. row.executed_quantity # None => row.executed_quantity <= new.executed_quantity
      BY <3>2, <3>3, <3>5
    <3> QED BY <2>1, <3>1, <3>2, <3>4, <3>6 DEF Truthful, StatusTrue, ReportTrue, QuantityTrue
  <2> QED BY <2>2, <2>3, <2>4 DEF BookMoves
<1>2. ASSUME NEW row \in Row, NEW found, FoundTrue(row.client_order_id, found)
      PROVE  FoundTrue(row.client_order_id, found)'
  <2>1. row.client_order_id \in Digests
    BY DEF Row
  <2> QED BY <1>2, <2>1, ReportsStay DEF FoundTrue
<1>3. ASSUME NEW s \in Session, SessionTrue(s)
      PROVE  SessionTrue(s)'
  <2>1. s.obj # None => s.obj \in Row
    BY DEF Session
  <2> QED BY <1>1, <1>2, <1>3, <2>1 DEF SessionTrue
<1>4. ASSUME NEW run \in Run, RunTrue(run)
      PROVE  RunTrue(run)'
  <2>1. \A t \in TradeIds : run.todo[t] # None => run.todo[t] \in Row
    BY DEF Run
  <2> QED BY <1>1, <1>2, <1>4, <2>1 DEF RunTrue
<1> QED BY <1>1, <1>3, <1>4

(* Objects.                                                                *)

\* A commit mixes the columns of two objects.
LEMMA FlushTrue ==
  ASSUME NEW row \in Row, NEW loaded \in Row, NEW new \in Row,
         new.client_order_id = row.client_order_id, Truthful(row), Truthful(new)
  PROVE  Truthful(Flush(row, loaded, new))
<1> DEFINE f == Flush(row, loaded, new)
<1>1. f.client_order_id = row.client_order_id
  BY FlushIsRow
<1>2. /\ f.status \in {row.status, new.status}
      /\ f.binance_status \in {row.binance_status, new.binance_status}
      /\ f.executed_quantity \in {row.executed_quantity, new.executed_quantity}
  BY DEF Flush, Dirty, Row
<1> HIDE DEF f
<1>3. Truthful(f)
  BY <1>1, <1>2 DEF Truthful
<1> QED BY <1>3 DEF f

\* A report that was made is no lie about the order as it is now.
LEMMA MirrorTrue ==
  ASSUME NEW row \in Row, NEW o \in Order, Reported(row.client_order_id, o)
  PROVE  /\ Mirror(row, o) \in Row
         /\ Mirror(row, o).client_order_id = row.client_order_id
         /\ Truthful(Mirror(row, o))
<1> DEFINE m == Mirror(row, o)
<1>1. m \in Row
  BY MirrorIsRow
<1>2. /\ m.status = BINANCE_STATUS_MAP(o.status)
      /\ m.binance_status = o.status /\ m.executed_quantity = o.executed_quantity
      /\ m.client_order_id = row.client_order_id
  BY DEF Mirror, Row
<1> HIDE DEF m
<1>3. PICK c : c = row.client_order_id
  OBVIOUS
<1>4. PICK b \in Orders : b = book[c]
  BY <1>3 DEF Reported
<1>5. o \in Orders /\ (o = b \/ Advances(o, b)) /\ b # None
  BY <1>3, <1>4, NullAssumption DEF Reported, Orders
<1>6. o.status # "DRY_RUN_VALIDATED"
  BY <1>5, ExchangeAssumption DEF Orders, WellFormed
<1>7. o.executed_quantity <= b.executed_quantity
  <2>1. o.executed_quantity \in Int
    BY <1>5, KeyAssumption DEF Orders, Order
  <2> QED BY <1>5, <2>1 DEF Advances
<1>8. ~Live(o) => o = b
  BY <1>5 DEF Advances
<1>9. StatusTrue(c, m.status)
  <2>1. CASE o.status \in {"FILLED", "EXPIRED", "EXPIRED_IN_MATCH"}
    <3>1. o = b
      BY <1>8, <2>1 DEF Live, LiveStatuses
    <3> QED BY <1>2, <1>4, <1>5, <2>1, <3>1 DEF StatusTrue, BINANCE_STATUS_MAP
  <2>2. CASE o.status \notin {"FILLED", "EXPIRED", "EXPIRED_IN_MATCH"}
    <3>1. m.status # "FILLED" /\ m.status # "EXPIRED"
      BY <1>2, <1>6, <2>2 DEF BINANCE_STATUS_MAP
    <3> QED BY <3>1 DEF StatusTrue
  <2> QED BY <2>1, <2>2
<1>10. ReportTrue(c, m.binance_status) /\ QuantityTrue(c, m.executed_quantity)
  BY <1>2, <1>4, <1>5, <1>7 DEF ReportTrue, QuantityTrue
<1>11. Truthful(m)
  BY <1>2, <1>3, <1>9, <1>10 DEF Truthful
<1> QED BY <1>1, <1>2, <1>11 DEF m

\* Neither is a verdict of our own.
LEMMA VerdictTrue ==
  ASSUME NEW row \in Row, NEW new \in Row, Truthful(row),
         new.client_order_id = row.client_order_id,
         new.binance_status = row.binance_status,
         new.executed_quantity = row.executed_quantity,
         new.status \notin {"FILLED", "EXPIRED"}
  PROVE  Truthful(new)
BY DEF Truthful, StatusTrue

LEMMA ReconciledTrue ==
  ASSUME NEW row \in Row, NEW found \in Order \cup {None}, Truthful(row),
         FoundTrue(row.client_order_id, found)
  PROVE  /\ Reconciled(row, found) \in Row
         /\ Reconciled(row, found).client_order_id = row.client_order_id
         /\ Truthful(Reconciled(row, found))
<1>1. Reconciled(row, found) \in Row
  BY ReconciledIsRow
<1>2. CASE found = None
  <2>1. /\ Reconciled(row, found).client_order_id = row.client_order_id
        /\ Reconciled(row, found).binance_status = row.binance_status
        /\ Reconciled(row, found).executed_quantity = row.executed_quantity
        /\ Reconciled(row, found).status = "FAILED"
    BY <1>2 DEF Reconciled, Row
  <2> QED BY <1>1, <2>1, VerdictTrue
<1>3. CASE found # None
  <2> DEFINE m == Mirror(row, found)
  <2>1. m \in Row /\ m.client_order_id = row.client_order_id /\ Truthful(m)
    BY <1>3, MirrorTrue DEF FoundTrue
  <2>2. Reconciled(row, found) =
          [m EXCEPT !.error_code = IF m.status \in {"REJECTED", "FAILED"} THEN @ ELSE None,
                    !.reconciled_at = TRUE]
    BY <1>3 DEF Reconciled
  <2> HIDE DEF m
  <2>3. /\ Reconciled(row, found).status = m.status
        /\ Reconciled(row, found).binance_status = m.binance_status
        /\ Reconciled(row, found).executed_quantity = m.executed_quantity
        /\ Reconciled(row, found).client_order_id = m.client_order_id
    BY <2>1, <2>2 DEF Row
  <2> QED BY <1>1, <2>1, <2>3 DEF Truthful
<1> QED BY <1>2, <1>3

(* Steps.  What they leave behind is true of the book they found.          *)

RowsStayTrue == \A t \in Used' : \E row \in Row : Truthful(row) /\ db'[t] = row

SessionsStayTrue == \A w \in Submitters : \E s \in Session : SessionTrue(s) /\ sub'[w] = s

RunsStayTrue == \A r \in Reconcilers : \E run \in Run : RunTrue(run) /\ rec'[r] = run

LEMMA WireKeepsReplies ==
  ASSUME NInv, ~DryRun, WireMoves
  PROVE  \A c \in Digests : ReplyTrue(c)'
<1>1. TypeOK /\ BookRight /\ \A c \in Digests : ReplyTrue(c)
  BY DEF NInv, RIInv, RTypeOK
<1>2. \A c \in Digests : BookMoves(c)
  BY <1>1, BookStepMoves
<1>3. ASSUME NEW d \in Digests, reply'[d] \in {reply[d], None}
      PROVE  ReplyTrue(d)'
  BY <1>1, <1>2, <1>3, ReportsStay DEF ReplyTrue
<1>4. ASSUME NEW c \in Digests, Close(c) \/ Send(c) \/ Progress(c)
      PROVE  \A d \in Digests : ReplyTrue(d)'
  <2>1. \A d \in Digests : reply'[d] \in {reply[d], None}
    BY <1>1, <1>4 DEF Close, Send, Progress, TypeOK
  <2> QED BY <1>3, <2>1
<1>5. ASSUME NEW c \in Digests, Refuse(c) \/ Stall(c)
      PROVE  \A d \in Digests : ReplyTrue(d)'
  <2>1. \A d \in Digests \ {c} : reply'[d] = reply[d]
    BY <1>1, <1>5 DEF Refuse, Stall, Deliver, TypeOK
  <2>2. reply'[c] \in {reply[c], None} \cup Refusals
    <3>1. ServerError \in Refusals
      BY DEF Refusals
    <3> QED BY <1>1, <1>5, <3>1 DEF Refuse, Stall, Deliver, TypeOK
  <2>3. ReplyTrue(c)'
    BY <1>3, <2>2, RefusedReply DEF ReplyTrue
  <2> QED BY <1>3, <2>1, <2>3
<1>6. ASSUME NEW c \in Digests, Execute(c)
      PROVE  \A d \in Digests : ReplyTrue(d)'
  <2>1. PICK order \in Orders :
          /\ book' = [book EXCEPT ![c] = order]
          /\ \E a \in Acceptances(order) \cup {None} : Deliver(c, a)
    BY <1>6 DEF Execute
  <2>2. /\ \A d \in Digests \ {c} : reply'[d] = reply[d]
        /\ reply'[c] \in {reply[c], None} \cup Acceptances(order)
        /\ book'[c] = order
    BY <1>1, <2>1 DEF Deliver, TypeOK
  <2>3. ASSUME reply'[c] \in Acceptances(order), request(reply'[c]) = "ok"
        PROVE  reply'[c].payload # None /\ Reported(c, reply[c].payload)'
    <3>1. reply'[c].payload = order /\ order # None
      BY <2>3, AcceptedReply
    <3> QED BY <2>2, <3>1 DEF Reported
  <2>4. ReplyTrue(c)'
    BY <1>3, <2>2, <2>3 DEF ReplyTrue
  <2> QED BY <1>3, <2>2, <2>4
<1>7. CASE UNCHANGED exchangeVars
  <2>1. reply' = reply
    BY <1>7 DEF exchangeVars
  <2> QED BY <1>3, <2>1
<1> QED BY <1>4, <1>5, <1>6, <1>7 DEF WireMoves, ExchangeStep

LEMMA StepKeepsTruth ==
  ASSUME NInv, RIInv', ~DryRun, WireMoves, RowsStayTrue, SessionsStayTrue, RunsStayTrue
  PROVE  NInv'
<1>1. TypeOK /\ TypeOK' /\ BookRight
  BY DEF NInv, RIInv, RTypeOK
<1>2. BookRight' /\ \A c \in Digests : BookMoves(c)
  BY <1>1, BookStepMoves
<1>3. /\ \A row \in Row : Truthful(row) => Truthful(row)'
      /\ \A s \in Session : SessionTrue(s) => SessionTrue(s)'
      /\ \A run \in Run : RunTrue(run) => RunTrue(run)'
  BY <1>1, <1>2, TruthStays
<1>4. \A t \in Used' : Truthful(db[t])'
  BY <1>3 DEF RowsStayTrue
<1>5. \A w \in Submitters : SessionTrue(sub[w])'
  BY <1>3 DEF SessionsStayTrue
<1>6. \A r \in Reconcilers : RunTrue(rec[r])'
  BY <1>3 DEF RunsStayTrue
<1>7. \A c \in Digests : ReplyTrue(c)'
  BY WireKeepsReplies
<1> QED BY <1>2, <1>4, <1>5, <1>6, <1>7 DEF NInv

LEMMA NothingNew ==
  ASSUME NInv
  PROVE  /\ UNCHANGED db => RowsStayTrue
         /\ UNCHANGED sub => SessionsStayTrue
         /\ UNCHANGED rec => RunsStayTrue
<1>1. /\ \A t \in Used : db[t] \in Row /\ Truthful(db[t])
      /\ \A w \in Submitters : sub[w] \in Session /\ SessionTrue(sub[w])
      /\ \A r \in Reconcilers : rec[r] \in Run /\ RunTrue(rec[r])
  BY DEF NInv, RIInv, RTypeOK, TypeOK, Used
<1>2. UNCHANGED db => Used' = Used
  BY DEF Used
<1> QED BY <1>1, <1>2 DEF RowsStayTrue, SessionsStayTrue, RunsStayTrue

LEMMA NewRow ==
  ASSUME NInv, NEW t \in TradeIds, NEW row \in Row, Truthful(row),
         db' = [db EXCEPT ![t] = row]
  PROVE  RowsStayTrue
<1>1. /\ \A u \in Used : db[u] \in Row /\ Truthful(db[u])
      /\ db \in [TradeIds -> Row \cup {None}]
  BY DEF NInv, RIInv, RTypeOK, TypeOK, Used
<1>2. db'[t] = row /\ \A u \in Used' \ {t} : u \in Used /\ db'[u] = db[u]
  BY <1>1 DEF Used
<1> QED BY <1>1, <1>2 DEF RowsStayTrue

LEMMA CommitTrue ==
  ASSUME NInv, NEW t \in Used, NEW loaded \in Row, NEW new \in Row,
         new.client_order_id = Cid(t), Truthful(new), Commit(t, loaded, new)
  PROVE  RowsStayTrue
<1>1. t \in TradeIds /\ db[t] \in Row /\ Truthful(db[t])
  BY DEF NInv, RIInv, RTypeOK, TypeOK, Used
<1>2. PICK row : row = Flush(db[t], loaded, new)
  OBVIOUS
<1>3. row \in Row /\ Truthful(row)
  BY <1>1, <1>2, FlushIsRow, FlushTrue DEF Cid
<1>4. db' = [db EXCEPT ![t] = row] \/ UNCHANGED db
  BY <1>2 DEF Commit
<1> QED BY <1>1, <1>3, <1>4, NewRow, NothingNew

LEMMA NewSession ==
  ASSUME NInv, NEW w \in Submitters, NEW s \in Session, SessionTrue(s),
         sub' = [sub EXCEPT ![w] = s]
  PROVE  SessionsStayTrue
<1>1. /\ \A v \in Submitters : sub[v] \in Session /\ SessionTrue(sub[v])
      /\ sub \in [Submitters -> Session]
  BY DEF NInv, RIInv, RTypeOK, TypeOK
<1>2. sub'[w] = s /\ \A v \in Submitters \ {w} : sub'[v] = sub[v]
  BY <1>1
<1> QED BY <1>1, <1>2 DEF SessionsStayTrue

LEMMA LeaveTrue ==
  ASSUME NInv, NEW w \in Submitters, Leave(w)
  PROVE  SessionsStayTrue
<1>1. NoSession \in Session /\ SessionTrue(NoSession)
  BY DEF NoSession, Session, Phases, SessionTrue
<1> QED BY <1>1, NewSession DEF Leave

LEMMA NewRun ==
  ASSUME NInv, NEW r \in Reconcilers, NEW run \in Run, RunTrue(run),
         rec' = [rec EXCEPT ![r] = run]
  PROVE  RunsStayTrue
<1>1. /\ \A q \in Reconcilers : rec[q] \in Run /\ RunTrue(rec[q])
      /\ rec \in [Reconcilers -> Run]
  BY DEF NInv, RIInv, RTypeOK
<1>2. rec'[r] = run /\ \A q \in Reconcilers \ {r} : rec'[q] = rec[q]
  BY <1>1
<1> QED BY <1>1, <1>2 DEF RunsStayTrue

\* The three ways a submitter records the outcome of its POST.
LEMMA RecordTrue ==
  ASSUME NInv, ~DryRun, NEW w \in Submitters, Record(w)
  PROVE  RowsStayTrue /\ SessionsStayTrue
<1> DEFINE t == sub[w].tid
           trade == sub[w].obj
           c == trade.client_order_id
<1>1. TypeOK /\ IInv /\ sub[w].pc = "posting"
  BY DEF Record, NInv, RIInv, RTypeOK
<1>2. t \in Used /\ trade \in Row /\ c \in Digests /\ c = Cid(t) /\ sub[w] \in Session
  BY <1>1, SentSession DEF TypeOK
<1>3. Truthful(trade) /\ FoundTrue(c, sub[w].found)
  <2>1. SessionTrue(sub[w]) /\ trade # None
    BY <1>2, NullAssumption DEF NInv
  <2> QED BY <2>1 DEF SessionTrue
<1> HIDE DEF t, trade, c
<1>4. PICK a \in Arrivals(c) : \/ finalise_success(w, a)
                               \/ finalise_failure(w, a)
                               \/ handle_uncertain_outcome(w, a)
  BY DEF Record, trade, c
<1>5. a \in Attempt
  BY <1>1, <1>2, ArrivalIsAttempt
<1>6. CASE finalise_success(w, a)
  <2> DEFINE order == place_market_order(a, DryRun)
             m == Mirror(trade, order)
             new == [m EXCEPT !.error_code = None]
  <2>1. request(a) = "ok" /\ Commit(t, trade, new) /\ Leave(w)
    BY <1>6 DEF finalise_success, t, trade
  <2>2. reply[c] # None /\ a = reply[c]
    BY <2>1, NoFalseRefusal DEF Arrivals
  <2>3. a.payload # None /\ Reported(c, a.payload)
    BY <1>2, <2>1, <2>2 DEF NInv, ReplyTrue
  <2>4. order \in Order /\ Reported(c, order)
    BY <1>5, <2>3, ResultIsOrder, ExchangeAssumption DEF place_market_order, from_payload
  <2> HIDE DEF order
  <2>5. m \in Row /\ m.client_order_id = c /\ Truthful(m)
    BY <1>2, <2>4, MirrorTrue DEF c
  <2> HIDE DEF m
  <2>6. /\ new \in Row /\ new.client_order_id = c /\ new.status = m.status
        /\ new.binance_status = m.binance_status /\ new.executed_quantity = m.executed_quantity
    BY <2>5 DEF Row
  <2> HIDE DEF new
  <2>7. Truthful(new)
    BY <2>5, <2>6 DEF Truthful
  <2> QED BY <1>2, <2>1, <2>6, <2>7, CommitTrue, LeaveTrue
<1>7. CASE finalise_failure(w, a)
  <2> DEFINE verdict == Refusal(request(a))
             new == [trade EXCEPT !.status = verdict[1], !.error_code = verdict[2]]
  <2>1. request(a) \in RefusalKinds /\ Commit(t, trade, new) /\ Leave(w)
    BY <1>7 DEF finalise_failure, RefusalKinds, t, trade
  <2>2. /\ verdict[1] \in TradeStatus /\ verdict[2] \in ErrorCodes
        /\ verdict[1] \notin {"FILLED", "EXPIRED"}
    BY <2>1 DEF RefusalKinds, Refusal, TradeStatus, ErrorCodes
  <2> HIDE DEF verdict
  <2>3. /\ new \in Row /\ new.client_order_id = c /\ new.status = verdict[1]
        /\ new.binance_status = trade.binance_status
        /\ new.executed_quantity = trade.executed_quantity
    BY <1>2, <2>2 DEF Row, c
  <2> HIDE DEF new
  <2>4. Truthful(new)
    BY <1>2, <1>3, <2>2, <2>3, VerdictTrue DEF c
  <2> QED BY <1>2, <2>1, <2>3, <2>4, CommitTrue, LeaveTrue
<1>8. CASE handle_uncertain_outcome(w, a)
  <2> DEFINE new == [trade EXCEPT !.status = "UNKNOWN", !.error_code = "uncertain"]
             next == [sub[w] EXCEPT !.pc = "uncertain", !.obj = new]
  <2>1. /\ Commit(t, trade, new)
        /\ Leave(w) \/ sub' = [sub EXCEPT ![w] = next]
    BY <1>8 DEF handle_uncertain_outcome, Commit, t, trade
  <2>2. /\ new \in Row /\ new.client_order_id = c /\ new.status = "UNKNOWN"
        /\ new.binance_status = trade.binance_status
        /\ new.executed_quantity = trade.executed_quantity
    BY <1>2 DEF Row, c, TradeStatus, ErrorCodes
  <2> HIDE DEF new
  <2>3. Truthful(new)
    BY <1>2, <1>3, <2>2, VerdictTrue DEF c
  <2>4. /\ next \in Session /\ next.obj = new /\ next.found = sub[w].found
        /\ next.pc = "uncertain"
    BY <1>2, <2>2 DEF Session, Phases
  <2> HIDE DEF next
  <2>5. SessionTrue(next)
    BY <1>3, <2>2, <2>3, <2>4 DEF SessionTrue
  <2> QED BY <1>2, <2>1, <2>2, <2>3, <2>4, <2>5, CommitTrue, LeaveTrue, NewSession
<1> QED BY <1>4, <1>6, <1>7, <1>8

LEMMA ServiceStepTrue ==
  ASSUME NInv, ~DryRun, [Next]_vars
  PROVE  RowsStayTrue /\ SessionsStayTrue
<1>1. /\ TypeOK /\ IInv /\ BookRight
      /\ \A u \in Used : db[u] \in Row /\ Truthful(db[u])
  BY DEF NInv, RIInv, RTypeOK, TypeOK, Used
<1>2. CASE UNCHANGED <<db, sub>>
  BY <1>2, NothingNew
<1>3. ASSUME NEW s \in Signals, create_pending_trade(s)
      PROVE  RowsStayTrue /\ SessionsStayTrue
  <2>1. PICK t \in TradeIds : db' = [db EXCEPT ![t] = PendingRow(s)]
    BY <1>3 DEF create_pending_trade
  <2>2. PendingRow(s) \in Row /\ Truthful(PendingRow(s))
    BY PendingIsRow DEF PendingRow, Truthful, StatusTrue, ReportTrue, QuantityTrue
  <2>3. UNCHANGED sub
    BY <1>3 DEF create_pending_trade
  <2> QED BY <2>1, <2>2, <2>3, NewRow, NothingNew
<1>4. ASSUME NEW w \in Submitters, NEW t \in TradeIds, claim_for_submission(w, t)
      PROVE  RowsStayTrue /\ SessionsStayTrue
  <2> DEFINE row == [db[t] EXCEPT !.submitted_at = TRUE]
             next == [NoSession EXCEPT !.pc = "claimed", !.tid = t]
  <2>1. /\ t \in Used /\ db' = [db EXCEPT ![t] = row]
        /\ sub' = [sub EXCEPT ![w] = next] \/ UNCHANGED sub
    BY <1>4 DEF claim_for_submission, Claimable, Used
  <2>2. row \in Row /\ Truthful(row)
    <3>1. db[t] \in Row /\ Truthful(db[t])
      BY <1>1, <2>1
    <3>2. /\ row \in Row /\ row.client_order_id = db[t].client_order_id
          /\ row.status = db[t].status /\ row.binance_status = db[t].binance_status
          /\ row.executed_quantity = db[t].executed_quantity
      BY <3>1 DEF Row
    <3> QED BY <3>1, <3>2 DEF Truthful
  <2>3. next \in Session /\ next.obj = None /\ next.found = None
    BY DEF NoSession, Session, Phases
  <2> HIDE DEF row, next
  <2>4. SessionTrue(next)
    BY <2>3 DEF SessionTrue
  <2> QED BY <2>1, <2>2, <2>3, <2>4, NewRow, NewSession, NothingNew
<1>5. ASSUME NEW w \in Submitters, submit_to_binance(w)
      PROVE  RowsStayTrue /\ SessionsStayTrue
  <2> DEFINE row == db[sub[w].tid]
             next == [sub[w] EXCEPT !.pc = "posting", !.obj = row]
  <2>1. sub[w].pc = "claimed" /\ UNCHANGED db /\ sub' = [sub EXCEPT ![w] = next]
    BY <1>5 DEF submit_to_binance
  <2>2. row \in Row /\ Truthful(row) /\ sub[w] \in Session
    BY <1>1, <2>1 DEF IInv, SessionsHoldRows, TypeOK
  <2>3. sub[w].found = None
    BY <2>1 DEF NInv, SessionTrue
  <2> HIDE DEF row
  <2>4. /\ next \in Session /\ next.obj = row /\ next.found = sub[w].found
        /\ next.pc = "posting"
    BY <2>2 DEF Session, Phases
  <2> HIDE DEF next
  <2>5. SessionTrue(next)
    BY <2>2, <2>3, <2>4 DEF SessionTrue, FoundTrue
  <2> QED BY <2>1, <2>4, <2>5, NewSession, NothingNew
<1>6. ASSUME NEW w \in Submitters, ask_at_once(w)
      PROVE  RowsStayTrue /\ SessionsStayTrue
  <2>1. /\ sub[w].pc = "uncertain" /\ UNCHANGED db
    BY <1>6 DEF ask_at_once
  <2>2. /\ sub[w].obj \in Row /\ sub[w].obj.client_order_id \in Digests
        /\ sub[w] \in Session /\ SessionTrue(sub[w])
    BY <1>1, <2>1, SentSession DEF NInv, TypeOK
  <2>3. PICK a \in Answers(sub[w].obj.client_order_id) :
          IF Answered(a)
            THEN sub' = [sub EXCEPT ![w].pc = "asked", ![w].found = get_order(a)]
            ELSE Leave(w)
    BY <1>6 DEF ask_at_once
  <2>4. CASE Answered(a)
    <3> DEFINE next == [sub[w] EXCEPT !.pc = "asked", !.found = get_order(a)]
    <3>1. /\ Known(sub[w].obj.client_order_id, get_order(a))
          /\ get_order(a) \in Order \cup {None}
      BY <1>1, <2>2, <2>4, AnswersAreTrue
    <3>2. /\ next \in Session /\ next.obj = sub[w].obj /\ next.found = get_order(a)
          /\ next.pc = "asked"
      BY <2>2, <3>1 DEF Session, Phases
    <3>3. sub' = [sub EXCEPT ![w] = next]
      BY <2>3, <2>4
    <3> HIDE DEF next
    <3>4. SessionTrue(next)
      BY <2>2, <3>1, <3>2 DEF SessionTrue, FoundTrue, Known
    <3> QED BY <2>1, <3>2, <3>3, <3>4, NewSession, NothingNew
  <2>5. CASE Leave(w)
    BY <2>1, <2>5, LeaveTrue, NothingNew
  <2> QED BY <2>3, <2>4, <2>5
<1>7. ASSUME NEW w \in Submitters, record_answer(w)
      PROVE  RowsStayTrue /\ SessionsStayTrue
  <2> DEFINE trade == sub[w].obj
             new == Reconciled(trade, sub[w].found)
  <2>1. sub[w].pc = "asked" /\ Commit(sub[w].tid, trade, new) /\ Leave(w)
    BY <1>7 DEF record_answer
  <2>2. /\ sub[w].tid \in Used /\ trade \in Row /\ trade.client_order_id = Cid(sub[w].tid)
        /\ sub[w].found \in Order \cup {None}
    BY <1>1, <2>1, SentSession
  <2>3. Truthful(trade) /\ FoundTrue(trade.client_order_id, sub[w].found)
    BY <2>2, NullAssumption DEF NInv, SessionTrue
  <2> HIDE DEF trade
  <2>4. new \in Row /\ new.client_order_id = Cid(sub[w].tid) /\ Truthful(new)
    BY <2>2, <2>3, ReconciledTrue
  <2> HIDE DEF new
  <2> QED BY <2>1, <2>2, <2>4, CommitTrue, LeaveTrue
<1>8. ASSUME NEW w \in Submitters, Submit(w)
      PROVE  RowsStayTrue /\ SessionsStayTrue
  <2>1. CASE Abandon(w)
    BY <2>1, LeaveTrue, NothingNew DEF Abandon
  <2> QED BY <1>4, <1>5, <1>6, <1>7, <1>8, <2>1, RecordTrue DEF Submit
<1>9. [Next]_vars => \/ UNCHANGED <<db, sub>>
                     \/ \E s \in Signals : create_pending_trade(s)
                     \/ \E w \in Submitters : Submit(w)
  BY DEF Next, Exchanging, submitterVars, vars
<1> QED BY <1>2, <1>3, <1>8, <1>9

LEMMA RunStepTrue ==
  ASSUME NInv, NEW r \in Reconcilers, Reconcile(r)
  PROVE  RowsStayTrue /\ RunsStayTrue
<1>1. /\ RTypeOK /\ TypeOK /\ RunsHoldRows /\ BookRight /\ rec[r] \in Run /\ RunTrue(rec[r])
      /\ \A u \in Used : db[u] \in Row /\ Truthful(db[u])
  BY DEF NInv, RIInv, RTypeOK, TypeOK, Used
<1>2. ASSUME NEW batch \in SUBSET Used, Load(r, batch)
      PROVE  RowsStayTrue /\ RunsStayTrue
  <2> DEFINE todo == [t \in TradeIds |-> IF t \in batch THEN db[t] ELSE None]
             run == [pc |-> "ready", todo |-> todo, found |-> None]
  <2>1. UNCHANGED db /\ rec' = [rec EXCEPT ![r] = run]
    BY <1>2 DEF Load, vars
  <2>2. /\ todo \in [TradeIds -> Row \cup {None}]
        /\ \A t \in TradeIds : todo[t] # None => Truthful(todo[t])
    BY <1>1
  <2> HIDE DEF todo
  <2>3. run \in Run /\ run.todo = todo /\ run.found = None
    BY <2>2 DEF Run
  <2> HIDE DEF run
  <2>4. RunTrue(run)
    BY <2>2, <2>3 DEF RunTrue, FoundTrue
  <2> QED BY <2>1, <2>3, <2>4, NewRun, NothingNew
<1>3. ASSUME EndRun(r)
      PROVE  RunsStayTrue
  <2>1. NoRun \in Run /\ \A t \in TradeIds : NoRun.todo[t] = None
    BY DEF NoRun, Run
  <2>2. RunTrue(NoRun)
    BY <2>1 DEF RunTrue
  <2> QED BY <1>3, <2>1, <2>2, NewRun DEF EndRun
<1>4. ASSUME NEW t \in Todo(r), Advance(r, t)
      PROVE  RunsStayTrue
  <2> DEFINE run == [ pc    |-> IF Todo(r) = {t} THEN "idle" ELSE "ready",
                      todo  |-> [rec[r].todo EXCEPT ![t] = None],
                      found |-> None ]
  <2>1. /\ run \in Run /\ run.found = None
        /\ \A u \in TradeIds : run.todo[u] \in {rec[r].todo[u], None}
    BY <1>1 DEF Run
  <2>2. rec' = [rec EXCEPT ![r] = run]
    BY <1>4 DEF Advance
  <2> HIDE DEF run
  <2>3. RunTrue(run)
    BY <1>1, <2>1 DEF RunTrue, FoundTrue
  <2> QED BY <2>1, <2>2, <2>3, NewRun
<1>5. ASSUME NEW t \in Todo(r)
      PROVE  /\ t \in Used /\ t \in TradeIds /\ rec[r].todo[t] \in Row
             /\ rec[r].todo[t].client_order_id \in Digests
             /\ rec[r].todo[t].client_order_id = Cid(t)
             /\ rec[r].found \in Order \cup {None}
             /\ Truthful(rec[r].todo[t])
             /\ Current(r, t) => FoundTrue(rec[r].todo[t].client_order_id, rec[r].found)
  <2>1. t \in TradeIds /\ rec[r].todo[t] # None
    BY DEF Todo
  <2>2. Current(r, t) => \A u \in TradeIds : rec[r].todo[u] # None => t <= u
    BY DEF Current, Todo
  <2> QED BY <1>1, <2>1, <2>2, LoadedTrade DEF RunTrue
<1>6. ASSUME NEW t \in Todo(r), NEW a \in Answers(rec[r].todo[t].client_order_id),
             ask(r, t, a), Answered(a)
      PROVE  RunsStayTrue
  <2> DEFINE run == [rec[r] EXCEPT !.pc = "asked", !.found = get_order(a)]
  <2>1. rec' = [rec EXCEPT ![r] = run] /\ Current(r, t)
    BY <1>6 DEF ask
  <2>2. PICK row \in Row : row = rec[r].todo[t] /\ row.client_order_id \in Digests
    BY <1>5
  <2>3. Known(row.client_order_id, get_order(a)) /\ get_order(a) \in Order \cup {None}
    BY <1>1, <1>6, <2>2, AnswersAreTrue
  <2>4. run \in Run /\ run.todo = rec[r].todo /\ run.found = get_order(a)
    BY <1>1, <2>3 DEF Run
  <2> HIDE DEF run
  <2>5. ASSUME NEW u \in TradeIds, run.todo[u] # None,
               \A v \in TradeIds : run.todo[v] # None => u <= v
        PROVE  FoundTrue(run.todo[u].client_order_id, run.found)
    <3>1. u = t
      BY <2>1, <2>4, <2>5, KeyAssumption DEF Current, Todo
    <3> QED BY <2>2, <2>3, <2>4, <3>1 DEF FoundTrue, Known
  <2>6. \A u \in TradeIds : run.todo[u] # None => Truthful(run.todo[u])
    BY <1>1, <2>4 DEF RunTrue
  <2>7. RunTrue(run)
    BY <2>5, <2>6 DEF RunTrue
  <2> QED BY <2>1, <2>4, <2>7, NewRun
<1>7. ASSUME NEW t \in Todo(r), record(r, t) \/ record_raises(r, t)
      PROVE  RowsStayTrue /\ RunsStayTrue
  <2> DEFINE loaded == rec[r].todo[t]
             new == Reconciled(loaded, rec[r].found)
  <2>1. /\ Commit(t, loaded, new) /\ Current(r, t)
        /\ Advance(r, t) \/ EndRun(r)
    BY <1>7 DEF record, record_raises, Outcome, Commit
  <2>2. new \in Row /\ new.client_order_id = Cid(t) /\ Truthful(new)
    BY <1>5, <2>1, ReconciledTrue
  <2>3. t \in Used /\ loaded \in Row
    BY <1>5
  <2> HIDE DEF loaded, new
  <2> QED BY <1>3, <1>4, <2>1, <2>2, <2>3, CommitTrue
<1>8. ASSUME NEW t \in Todo(r), reconcile_trade(r, t)
      PROVE  RowsStayTrue /\ RunsStayTrue
  <2>1. CASE skip_terminal(r, t)
    BY <1>4, <2>1, NothingNew DEF skip_terminal, vars
  <2>2. ASSUME NEW a \in Answers(rec[r].todo[t].client_order_id), ask(r, t, a)
        PROVE  RowsStayTrue /\ RunsStayTrue
    <3>1. UNCHANGED db /\ (~Answered(a) => Advance(r, t))
      BY <2>2 DEF ask, vars
    <3> QED BY <1>4, <1>6, <2>2, <3>1, NothingNew
  <2> QED BY <1>7, <1>8, <2>1, <2>2 DEF reconcile_trade
<1>9. CASE \E cutoff \in TradeIds : find_reconcilable_trades(r, cutoff)
  <2>1. PICK cutoff \in TradeIds : Load(r, Oldest(InFlight(cutoff), Limit))
    BY <1>9 DEF find_reconcilable_trades
  <2>2. Oldest(InFlight(cutoff), Limit) \in SUBSET Used
    BY DEF Oldest, InFlight
  <2> QED BY <1>2, <2>1, <2>2
<1>10. CASE \E t \in TradeIds : get_trade_for_user(r, t)
  <2>1. PICK t \in TradeIds : t \in Used /\ Load(r, {t})
    BY <1>10 DEF get_trade_for_user
  <2> QED BY <1>2, <2>1
<1>11. CASE Interrupt(r)
  BY <1>3, <1>11, NothingNew DEF Interrupt, vars
<1> QED BY <1>8, <1>9, <1>10, <1>11 DEF Reconcile

LEMMA RInitEstablishesNInv ==
  ASSUME RInit
  PROVE  NInv
<1>1. RIInv
  BY RInitEstablishesRIInv
<1>2. BookRight /\ Used = {} /\ \A c \in Digests : ReplyTrue(c)
  BY DEF RInit, Init, ExchangeInit, BookRight, Used, ReplyTrue
<1>3. \A w \in Submitters : SessionTrue(sub[w])
  BY DEF RInit, Init, NoSession, SessionTrue
<1>4. \A r \in Reconcilers : RunTrue(rec[r])
  BY DEF RInit, NoRun, RunTrue
<1> QED BY <1>1, <1>2, <1>3, <1>4 DEF NInv

LEMMA RNextPreservesNInv ==
  ASSUME NInv, ~DryRun, [RNext]_rvars
  PROVE  NInv'
<1>1. RIInv' /\ IInv
  BY RNextPreservesRIInv DEF NInv, RIInv
<1>2. CASE [Next]_vars /\ UNCHANGED rec
  BY <1>1, <1>2, ServiceMovesWire, ServiceStepTrue, NothingNew, StepKeepsTruth
<1>3. ASSUME NEW r \in Reconcilers, Reconcile(r)
      PROVE  NInv'
  <2>1. UNCHANGED sub /\ UNCHANGED exchangeVars
    BY <1>3 DEF Reconcile, find_reconcilable_trades, get_trade_for_user, Load,
                reconcile_trade, skip_terminal, ask, record, record_raises, Interrupt,
                vars, exchangeVars
  <2>2. WireMoves /\ SessionsStayTrue
    BY <2>1, NothingNew DEF WireMoves
  <2> QED BY <1>1, <1>3, <2>2, RunStepTrue, StepKeepsTruth
<1>4. CASE UNCHANGED rvars
  BY <1>2, <1>4 DEF rvars, vars
<1> QED BY <1>2, <1>3, <1>4 DEF RNext

\* What the invariant says of the rows.
LEMMA TruthfulRows ==
  ASSUME NInv
  PROVE  NeverAheadOfExchange
<1>1. \A t \in Used : Truthful(db[t])
  BY DEF NInv
<1> QED BY <1>1 DEF Truthful, StatusTrue, ReportTrue, QuantityTrue, NeverAheadOfExchange, Cid

(* The code as it stands, with runs and submitters writing over each other *)
(* at any time and orders that arrive late: no row is ever ahead of the    *)
(* exchange.  finalise_success and reconcile_trade copy only what was      *)
(* reported, stale objects hold only what was true, and a commit mixes     *)
(* only such columns.  In a dry run rows are ahead of the book by design.  *)
THEOREM NeverAhead == RSpec => []NeverAheadOfExchange
<1>1. CASE DryRun
  <2>1. NeverAheadOfExchange
    BY <1>1 DEF NeverAheadOfExchange
  <2> QED BY <2>1, PTL
<1>2. CASE ~DryRun
  <2>1. RInit => NInv
    BY RInitEstablishesNInv
  <2>2. NInv /\ [RNext]_rvars => NInv'
    BY <1>2, RNextPreservesNInv
  <2>3. NInv => NeverAheadOfExchange
    BY TruthfulRows
  <2> QED BY <2>1, <2>2, <2>3, PTL DEF RSpec
<1> QED BY <1>1, <1>2
=============================================================================
