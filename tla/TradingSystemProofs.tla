------------------------ MODULE TradingSystemProofs ------------------------
(***************************************************************************)
(* The composed system for any number of signals, processes, workers and   *)
(* runs: sessions and items are one, a drained process has left nothing at *)
(* the exchange, the service's guarantees survive queues and crashes, and  *)
(* the system implements TradeExecutor.  Nothing is proved twice: a step   *)
(* here is a step of Reconciliation (or a crash) and one of TradeExecutor, *)
(* and their invariants come with their lemmas.                            *)
(***************************************************************************)
EXTENDS TradingSystem, SettlementProofs

\* What is proved of TradeExecutor, of the table seen through its claims.
ExecutorFacts == INSTANCE TradeExecutorProofs WITH
  Trades <- TradeIds,
  trade  <- [t \in TradeIds |-> StageOfRow(db[t])]

LEMMA FactsApply == ExecutorFacts!ExecutorAssumption
BY SystemAssumption, KeyAssumption
   DEF ExecutorFacts!ExecutorAssumption, ExecutorFacts!IsFiniteSet, IsFiniteSet

\* The two instances of TradeExecutor are one.
LEMMA SameExecutor ==
  /\ Executor!EInit <=> ExecutorFacts!EInit
  /\ Executor!ENext <=> ExecutorFacts!ENext
  /\ Executor!execVars = ExecutorFacts!execVars
  /\ Executor!ETypeOK <=> ExecutorFacts!ETypeOK
<1>1. \A p, up : Executor!start(p, up) <=> ExecutorFacts!start(p, up)
  BY DEF Executor!start, ExecutorFacts!start, Executor!WorkerIds, ExecutorFacts!WorkerIds,
         Executor!Waiting, ExecutorFacts!Waiting
<1>2. \A p, ids : Executor!Offer(p, ids) <=> ExecutorFacts!Offer(p, ids)
  BY DEF Executor!Offer, ExecutorFacts!Offer
<1>3. \A p : Executor!resume_select(p) <=> ExecutorFacts!resume_select(p)
  BY DEF Executor!resume_select, ExecutorFacts!resume_select, Executor!Smallest,
         ExecutorFacts!Smallest, Executor!Unsent, ExecutorFacts!Unsent,
         Executor!Cardinality, ExecutorFacts!Cardinality
<1>4. \A p : Executor!resume_enqueue(p) <=> ExecutorFacts!resume_enqueue(p)
  BY <1>2 DEF Executor!resume_enqueue, ExecutorFacts!resume_enqueue, Executor!Ascending,
         ExecutorFacts!Ascending, Executor!Cardinality, ExecutorFacts!Cardinality
<1>5. \A p, t : Executor!process_signal(p, t) <=> ExecutorFacts!process_signal(p, t)
  BY <1>2 DEF Executor!process_signal, ExecutorFacts!process_signal
<1>6. \A p, i : Executor!WorkerStep(p, i) <=> ExecutorFacts!WorkerStep(p, i)
  BY DEF Executor!WorkerStep, ExecutorFacts!WorkerStep, Executor!get, ExecutorFacts!get,
         Executor!claim, ExecutorFacts!claim, Executor!already_claimed,
         ExecutorFacts!already_claimed, Executor!claim_raises, ExecutorFacts!claim_raises,
         Executor!finish, ExecutorFacts!finish, Executor!Running, ExecutorFacts!Running,
         Executor!Done, ExecutorFacts!Done, Executor!Waiting, ExecutorFacts!Waiting,
         Executor!ClaimInterrupted, ExecutorFacts!ClaimInterrupted
<1>7. \A p, i : Executor!cancel(p, i) <=> ExecutorFacts!cancel(p, i)
  BY DEF Executor!cancel, ExecutorFacts!cancel, Executor!Gone, ExecutorFacts!Gone,
         Executor!ClaimInterrupted, ExecutorFacts!ClaimInterrupted
<1>8. \A p : /\ Executor!stop(p) <=> ExecutorFacts!stop(p)
             /\ Executor!join(p) <=> ExecutorFacts!join(p)
             /\ Executor!stopped(p) <=> ExecutorFacts!stopped(p)
             /\ Executor!crash(p) <=> ExecutorFacts!crash(p)
  BY DEF Executor!stop, ExecutorFacts!stop, Executor!join, ExecutorFacts!join,
         Executor!stopped, ExecutorFacts!stopped, Executor!crash, ExecutorFacts!crash,
         Executor!WorkerIds, ExecutorFacts!WorkerIds, Executor!Gone, ExecutorFacts!Gone
<1>9. Executor!ENext <=> ExecutorFacts!ENext
  BY <1>1, <1>3, <1>4, <1>5, <1>6, <1>7, <1>8 DEF Executor!ENext, ExecutorFacts!ENext
<1>10. /\ Executor!EInit <=> ExecutorFacts!EInit
       /\ Executor!execVars = ExecutorFacts!execVars
       /\ Executor!ETypeOK <=> ExecutorFacts!ETypeOK
  BY DEF Executor!EInit, ExecutorFacts!EInit, Executor!execVars, ExecutorFacts!execVars,
         Executor!ETypeOK, ExecutorFacts!ETypeOK, Executor!Phase, ExecutorFacts!Phase,
         Executor!WorkerIds, ExecutorFacts!WorkerIds, Executor!Gone, ExecutorFacts!Gone,
         Executor!WorkerState, ExecutorFacts!WorkerState
<1> QED BY <1>9, <1>10
-----------------------------------------------------------------------------
(* The inductive invariant.                                                *)

\* A session is a worker's item, from its claim to its end.
ItemRight(w) ==
  /\ sub[w].pc # "idle" <=> worker[w].pc = "submitting"
  /\ sub[w].pc # "idle" => sub[w].tid = worker[w].tid
  /\ sub[w].pc = "idle" => sub[w] = NoSession

\* What a run that keeps AfterSubmitters has loaded was sent before.
LoadedIsSent ==
  AfterSubmitters => \A r \in Reconcilers : \A t \in Todo(r) : db[t].submitted_at

TInv ==
  /\ RIInv
  /\ ExecutorFacts!EIInv
  /\ ExecutorFacts!DownIsGone
  /\ \A w \in Submitters : ItemRight(w)
  /\ LoadedIsSent

-----------------------------------------------------------------------------
(* What a step does to the stages of the trades.                           *)

\* No trade becomes claimable again.
StagesGoForward ==
  \A t \in TradeIds : StageOfRow(db[t]) = "claimed" => StageOfRow(db'[t]) = "claimed"

SameStages == \A t \in TradeIds : StageOfRow(db'[t]) = StageOfRow(db[t])

\* A commit of an outcome, over whatever the row holds by now.
LEMMA CommitGoesForward ==
  ASSUME TypeOK, NEW t \in Used, NEW loaded \in Row, NEW new \in Row,
         Commit(t, loaded, new)
  PROVE  /\ new.status # "PENDING" => StagesGoForward
         /\ db[t].submitted_at => SameStages
<1>1. CASE UNCHANGED db
  BY <1>1 DEF StagesGoForward, SameStages
<1>2. CASE db' = [db EXCEPT ![t] = Flush(@, loaded, new)]
  <2> DEFINE row == Flush(db[t], loaded, new)
  <2>1. t \in TradeIds /\ db[t] \in Row /\ db[t] # None
    BY DEF TypeOK, Used
  <2>2. /\ row \in Row /\ row.submitted_at = db[t].submitted_at
        /\ row.status \in {new.status, db[t].status}
    <3>1. row \in Row /\ row.submitted_at = db[t].submitted_at
      BY <2>1, FlushIsRow
    <3>2. row.status = Dirty(new.status, loaded.status, db[t].status)
      BY <2>1 DEF Flush, Row
    <3> QED BY <3>1, <3>2 DEF Dirty
  <2>3. row # None
    BY <2>2, NullAssumption
  <2>4. db'[t] = row /\ \A u \in TradeIds \ {t} : db'[u] = db[u]
    BY <1>2, <2>1 DEF TypeOK
  <2> HIDE DEF row
  <2>5. db[t].submitted_at => SameStages
    BY <2>1, <2>2, <2>3, <2>4 DEF SameStages, StageOfRow, Claimable
  <2>6. new.status # "PENDING" => StagesGoForward
    BY <2>1, <2>2, <2>3, <2>4 DEF StagesGoForward, StageOfRow, Claimable
  <2> QED BY <2>5, <2>6
<1> QED BY <1>1, <1>2 DEF Commit

\* An answer about a trade never takes it back to PENDING.
LEMMA ReconciledIsNotPending ==
  ASSUME NEW row \in Row, NEW answer \in Order \cup {None}
  PROVE  Reconciled(row, answer).status # "PENDING"
<1>1. CASE answer = None
  BY <1>1 DEF Reconciled, Row
<1>2. CASE answer # None
  <2>1. BINANCE_STATUS_MAP(answer.status) # "PENDING"
    BY DEF BINANCE_STATUS_MAP
  <2>2. Mirror(row, answer) \in Row /\ Mirror(row, answer).status # "PENDING"
    BY <1>2, <2>1, MirrorIsRow DEF Mirror, Row
  <2>3. Reconciled(row, answer) =
          [Mirror(row, answer) EXCEPT
             !.error_code = IF Mirror(row, answer).status \in {"REJECTED", "FAILED"}
                              THEN @ ELSE None,
             !.reconciled_at = TRUE]
    BY <1>2 DEF Reconciled
  <2> QED BY <2>2, <2>3 DEF Row
<1> QED BY <1>1, <1>2

\* A session writes to the row it holds, and to no other.
LEMMA RecordCommits ==
  ASSUME IInv, NEW w \in Submitters, Record(w)
  PROVE  \E new \in Row : Commit(sub[w].tid, sub[w].obj, new)
<1> DEFINE trade == sub[w].obj
<1>1. sub[w].pc = "posting" /\ trade \in Row /\ trade.client_order_id \in Digests
  BY SentSession DEF Record
<1> HIDE DEF trade
<1>2. PICK a \in Arrivals(trade.client_order_id) : \/ finalise_success(w, a)
                                                   \/ finalise_failure(w, a)
                                                   \/ handle_uncertain_outcome(w, a)
  BY DEF Record, trade
<1>3. a \in Attempt
  BY <1>1, ArrivalIsAttempt DEF IInv
<1>4. CASE finalise_success(w, a)
  <2> DEFINE mirrored == Mirror(trade, place_market_order(a, DryRun))
             new == [mirrored EXCEPT !.error_code = None]
  <2>1. mirrored \in Row
    BY <1>1, <1>3, ResultIsOrder, ExchangeAssumption, MirrorIsRow
  <2>2. Commit(sub[w].tid, trade, new)
    BY <1>4 DEF finalise_success, trade
  <2>3. new \in Row
    <3> HIDE DEF mirrored
    <3> QED BY <2>1 DEF Row
  <2> HIDE DEF new
  <2> QED BY <2>2, <2>3 DEF trade
<1>5. CASE finalise_failure(w, a)
  <2> DEFINE verdict == Refusal(request(a))
             new == [trade EXCEPT !.status = verdict[1], !.error_code = verdict[2]]
  <2>1. request(a) \in RefusalKinds /\ Commit(sub[w].tid, trade, new)
    BY <1>5 DEF finalise_failure, RefusalKinds, trade
  <2>2. verdict[1] \in TradeStatus /\ verdict[2] \in ErrorCodes
    BY <2>1 DEF RefusalKinds, Refusal, TradeStatus, ErrorCodes
  <2>3. new \in Row
    <3> HIDE DEF verdict
    <3> QED BY <1>1, <2>2 DEF Row
  <2> HIDE DEF new
  <2> QED BY <2>1, <2>3 DEF trade
<1>6. CASE handle_uncertain_outcome(w, a)
  <2> DEFINE new == [trade EXCEPT !.status = "UNKNOWN", !.error_code = "uncertain"]
  <2>1. Commit(sub[w].tid, trade, new)
    BY <1>6 DEF handle_uncertain_outcome, Commit, trade
  <2>2. new \in Row
    BY <1>1 DEF Row, TradeStatus, ErrorCodes
  <2> HIDE DEF new
  <2> QED BY <2>1, <2>2 DEF trade
<1> QED BY <1>2, <1>4, <1>5, <1>6

\* The row a session holds is claimed, and stays so.
LEMMA SessionKeepsStages ==
  ASSUME IInv, NEW w \in Submitters,
         submit_to_binance(w) \/ Record(w) \/ ask_at_once(w) \/ record_answer(w)
  PROVE  SameStages
<1>1. TypeOK
  BY DEF IInv
<1>2. CASE submit_to_binance(w) \/ ask_at_once(w)
  BY <1>2 DEF submit_to_binance, ask_at_once, SameStages
<1>3. CASE Record(w)
  <2>1. sub[w].tid \in Used /\ sub[w].obj \in Row /\ db[sub[w].tid].submitted_at
    BY <1>3, SentSession DEF Record, IInv, SessionsHoldRows
  <2> QED BY <1>1, <1>3, <2>1, RecordCommits, CommitGoesForward
<1>4. CASE record_answer(w)
  <2> DEFINE new == Reconciled(sub[w].obj, sub[w].found)
  <2>1. sub[w].pc = "asked" /\ Commit(sub[w].tid, sub[w].obj, new)
    BY <1>4 DEF record_answer
  <2>2. /\ sub[w].tid \in Used /\ sub[w].obj \in Row /\ db[sub[w].tid].submitted_at
        /\ sub[w].found \in Order \cup {None}
    BY <2>1, SentSession DEF IInv, SessionsHoldRows
  <2>3. new \in Row
    BY <2>2, ReconciledIsRow
  <2> HIDE DEF new
  <2> QED BY <1>1, <2>1, <2>2, <2>3, CommitGoesForward
<1> QED BY <1>2, <1>3, <1>4

\* A run writes an answer over a row, and rows are sent before they are
\* loaded if AfterSubmitters is kept.
LEMMA RunKeepsStages ==
  ASSUME TInv, NEW r \in Reconcilers, Reconcile(r)
  PROVE  StagesGoForward /\ (AfterSubmitters => SameStages)
<1>1. CASE UNCHANGED db
  BY <1>1 DEF StagesGoForward, SameStages
<1>2. ASSUME NEW t \in Todo(r), record(r, t) \/ record_raises(r, t)
      PROVE  StagesGoForward /\ (AfterSubmitters => SameStages)
  <2> DEFINE loaded == rec[r].todo[t]
             new == Reconciled(loaded, rec[r].found)
  <2>1. Commit(t, loaded, new)
    BY <1>2 DEF record, record_raises, Outcome, Commit
  <2>2. t \in Used /\ loaded \in Row /\ rec[r].found \in Order \cup {None}
    BY LoadedTrade DEF TInv, RIInv
  <2>3. new \in Row /\ new.status # "PENDING"
    BY <2>2, ReconciledIsRow, ReconciledIsNotPending
  <2>4. AfterSubmitters => db[t].submitted_at
    BY DEF TInv, LoadedIsSent
  <2>5. TypeOK
    BY DEF TInv, RIInv, RTypeOK
  <2> HIDE DEF new, loaded
  <2> QED BY <2>1, <2>2, <2>3, <2>4, <2>5, CommitGoesForward
<1>3. CASE \/ \E cutoff \in TradeIds : find_reconcilable_trades(r, cutoff)
           \/ \E t \in TradeIds : get_trade_for_user(r, t)
           \/ Interrupt(r)
  BY <1>1, <1>3 DEF find_reconcilable_trades, get_trade_for_user, Load, Interrupt, vars
<1>4. ASSUME NEW t \in Todo(r),
             skip_terminal(r, t) \/ \E a \in Answers(rec[r].todo[t].client_order_id) : ask(r, t, a)
      PROVE  StagesGoForward /\ (AfterSubmitters => SameStages)
  BY <1>1, <1>4 DEF skip_terminal, ask, vars
<1> QED BY <1>2, <1>3, <1>4 DEF Reconcile, reconcile_trade
-----------------------------------------------------------------------------
(* The service's part of a step.                                           *)

\* A process that dies takes its sessions and its open requests with it;
\* what it had sent may still arrive.
LEMMA CrashPreservesRIInv ==
  ASSUME RIInv, NEW p \in Processes, crash(p)
  PROVE  RIInv'
<1>1. /\ RTypeOK /\ TypeOK /\ IInv /\ QuietBeforePost /\ RefusedReplies
  BY DEF RIInv, IInv
<1>2. PICK mine, cut :
        /\ sub'   = [w \in Submitters |-> IF w \in mine THEN NoSession ELSE sub[w]]
        /\ wire'  = [c \in Digests |->
                       IF c \in cut /\ wire[c] = "open" THEN "orphan" ELSE wire[c]]
        /\ reply' = [c \in Digests |-> IF c \in cut THEN None ELSE reply[c]]
        /\ UNCHANGED <<db, book, posts, rec>>
  BY DEF crash
<1>3. NoSession \in Session /\ NoSession.pc = "idle"
  BY DEF NoSession, Session, Phases
<1>4. sub' \in [Submitters -> Session]
  BY <1>1, <1>2, <1>3 DEF TypeOK
<1>5. wire' \in [Digests -> WireStates] /\ reply' \in [Digests -> Attempt \cup {None}]
  BY <1>1, <1>2 DEF TypeOK, WireStates
<1>6. TypeOK' /\ RTypeOK'
  BY <1>1, <1>2, <1>4, <1>5 DEF TypeOK, RTypeOK
<1>7. SameKeys /\ NoNewRequest
  BY <1>1, <1>2 DEF SameKeys, NoNewRequest
<1>8. SessionsGoOn
  <2>1. \A w \in Submitters : sub[w].pc = "idle" \/ sub'[w] # sub[w] \/ GoesOn(w)
    BY <1>1 DEF IInv, SessionsHoldRows, GoesOn
  <2> QED BY <1>2, <1>3, <2>1 DEF SessionsGoOn
<1>9. IInv'
  BY <1>1, <1>6, <1>7, <1>8, KeepingKeysPreservesIInv
<1>10. /\ QuietBeforePost' /\ RefusedReplies'
       /\ \A c \in Digests : NeverAny(c) => NeverAny(c)'
  BY <1>1, <1>2 DEF QuietBeforePost, RefusedReplies, NeverAny, NoOrder
<1>11. \A t \in Used : Cid(t) \in Digests
  BY <1>1 DEF TypeOK, Used, Row, Cid
<1>12. RefusedRows' /\ RunsHoldRows'
  BY <1>2, <1>10, <1>11 DEF RIInv, RefusedRows, RunsHoldRows, Todo, Used, Cid
<1> QED BY <1>6, <1>9, <1>10, <1>12 DEF RIInv

\* The trade a worker holds.
LEMMA ItemHasTrade ==
  ASSUME TInv, NEW p \in Processes, NEW i \in Workers,
         worker[<<p, i>>].pc \in {"got", "submitting"}
  PROVE  <<p, i>> \in Submitters /\ worker[<<p, i>>].tid \in TradeIds
BY SystemAssumption DEF TInv, ExecutorFacts!EIInv, ExecutorFacts!BusyHasTrade,
                        ExecutorFacts!WorkerIds

\* Every other step is one that Reconciliation knows.
LEMMA SystemStepsAreSteps ==
  ASSUME TInv, SystemNext
  PROVE  [RNext]_rvars \/ \E p \in Processes : crash(p)
<1>1. ASSUME NEW p \in Processes, NEW s \in Signals, process_signal(p, s)
      PROVE  RNext
  BY <1>1 DEF process_signal, RNext, Next
<1>2. ASSUME NEW p \in Processes, NEW i \in Workers, claim(p, i)
      PROVE  [RNext]_rvars
  <2>1. <<p, i>> \in Submitters /\ worker[<<p, i>>].tid \in TradeIds
    BY <1>2, ItemHasTrade DEF claim
  <2>2. \/ UNCHANGED rvars
        \/ claim_for_submission(<<p, i>>, worker[<<p, i>>].tid) /\ UNCHANGED rec
    BY <1>2 DEF claim
  <2> QED BY <2>1, <2>2 DEF RNext, Next, Submit
<1>3. ASSUME NEW p \in Processes, NEW i \in Workers, submit(p, i) \/ abandon(p, i)
      PROVE  RNext
  <2>1. <<p, i>> \in Submitters
    BY SystemAssumption
  <2>2. Submit(<<p, i>>) /\ UNCHANGED rec
    BY <1>3 DEF submit, abandon, Submit
  <2> QED BY <2>1, <2>2 DEF RNext, Next
<1>4. ASSUME NEW p \in Processes, executor_alone(p)
      PROVE  UNCHANGED rvars
  BY <1>4 DEF executor_alone
<1>5. CASE exchange
  BY <1>5 DEF exchange, RNext, Next
<1>6. ASSUME NEW r \in Reconcilers, reconcile(r)
      PROVE  RNext
  BY <1>6 DEF reconcile, RNext
<1> QED BY <1>1, <1>2, <1>3, <1>4, <1>5, <1>6 DEF SystemNext
-----------------------------------------------------------------------------
(* The executor's part of a step.                                          *)

LEMMA SystemStepsForExecutor ==
  ASSUME TInv, SystemNext
  PROVE  \/ Executor!ENext
         \/ /\ UNCHANGED executorVars
            /\ StagesGoForward
            /\ AfterSubmitters => SameStages
<1>1. ASSUME NEW p \in Processes, NEW s \in Signals, process_signal(p, s)
      PROVE  Executor!ENext
  BY <1>1 DEF process_signal, Executor!ENext
<1>2. ASSUME NEW p \in Processes, NEW i \in Workers, claim(p, i)
      PROVE  Executor!ENext
  <2>1. \/ Executor!claim(p, i) \/ Executor!claim_raises(p, i) \/ Executor!cancel(p, i)
        \/ Executor!already_claimed(p, i)
    BY <1>2 DEF claim
  <2> QED BY <2>1 DEF Executor!ENext, Executor!WorkerStep
<1>3. ASSUME NEW p \in Processes, NEW i \in Workers, ItemEnds(p, i)
      PROVE  Executor!ENext
  BY <1>3 DEF ItemEnds, Executor!ENext, Executor!WorkerStep
<1>4. ASSUME NEW p \in Processes, NEW i \in Workers, submit(p, i), ~ItemEnds(p, i)
      PROVE  UNCHANGED executorVars /\ SameStages
  <2>1. <<p, i>> \in Submitters /\ IInv
    BY SystemAssumption DEF TInv, RIInv
  <2>2. \/ submit_to_binance(<<p, i>>) \/ Record(<<p, i>>)
        \/ ask_at_once(<<p, i>>) \/ record_answer(<<p, i>>)
    BY <1>4 DEF submit
  <2>3. SameStages
    BY <2>1, <2>2, SessionKeepsStages
  <2> QED BY <1>4, <2>3 DEF submit
<1>5. ASSUME NEW p \in Processes, NEW i \in Workers, abandon(p, i)
      PROVE  Executor!ENext
  BY <1>3, <1>5 DEF abandon
<1>6. ASSUME NEW p \in Processes, executor_alone(p)
      PROVE  Executor!ENext
  BY <1>6 DEF executor_alone, Executor!ENext, Executor!WorkerStep
<1>7. ASSUME NEW p \in Processes, crash(p)
      PROVE  Executor!ENext
  BY <1>7 DEF crash, Executor!ENext
<1>8. CASE exchange
  <2>1. UNCHANGED executorVars /\ UNCHANGED db
    BY <1>8 DEF exchange, Exchanging, submitterVars
  <2> QED BY <2>1 DEF SameStages, StagesGoForward
<1>9. ASSUME NEW r \in Reconcilers, reconcile(r)
      PROVE  UNCHANGED executorVars /\ StagesGoForward /\ (AfterSubmitters => SameStages)
  BY <1>9, RunKeepsStages DEF reconcile
<1>10. SameStages => StagesGoForward
  BY DEF SameStages, StagesGoForward
<1> QED BY <1>1, <1>2, <1>3, <1>4, <1>5, <1>6, <1>7, <1>8, <1>9, <1>10 DEF SystemNext

LEMMA SystemPreservesExecutor ==
  ASSUME TInv, SystemNext
  PROVE  ExecutorFacts!EIInv' /\ ExecutorFacts!DownIsGone'
<1>1. CASE Executor!ENext
  <2>1. ExecutorFacts!ENext
    BY <1>1, SameExecutor
  <2>2. ExecutorFacts!EIInv /\ ExecutorFacts!DownIsGone /\ ExecutorFacts!ETypeOK
    BY DEF TInv, ExecutorFacts!EIInv
  <2>3. ExecutorFacts!EIInv'
    BY <2>1, <2>2, FactsApply, ExecutorFacts!ENextPreservesEIInv
  <2>4. ExecutorFacts!DownIsGone'
    BY <2>1, <2>2, FactsApply, ExecutorFacts!DownStaysGone
  <2> QED BY <2>3, <2>4
<1>2. CASE UNCHANGED executorVars /\ StagesGoForward
  <2>1. ExecutorFacts!DownIsGone'
    BY <1>2 DEF TInv, ExecutorFacts!DownIsGone, executorVars
  <2>2. /\ ([t \in TradeIds |-> StageOfRow(db[t])])'
             \in [TradeIds -> {"absent", "unsent", "claimed"}]
        /\ \A t \in TradeIds : [u \in TradeIds |-> StageOfRow(db[u])][t] = "claimed"
             => ([u \in TradeIds |-> StageOfRow(db[u])])'[t] = "claimed"
    BY <1>2 DEF StagesGoForward, StageOfRow
  <2>3. ExecutorFacts!EIInv'
    BY <1>2, <2>2, FactsApply, ExecutorFacts!ForwardPreservesEIInv DEF TInv, executorVars
  <2> QED BY <2>1, <2>3
<1> QED BY <1>1, <1>2, SystemStepsForExecutor
-----------------------------------------------------------------------------
(* Sessions and items.                                                     *)

\* A step of one worker leaves the others and their sessions alone.
OnlyItem(w) == \A v \in Submitters \ {w} : sub'[v] = sub[v] /\ worker'[v] = worker[v]

LEMMA OneItemChanges ==
  ASSUME TInv, NEW w \in Submitters, OnlyItem(w), ItemRight(w)'
  PROVE  \A v \in Submitters : ItemRight(v)'
BY DEF TInv, OnlyItem, ItemRight

\* What a session's own steps do to it.
LEMMA SessionItemStep ==
  ASSUME TypeOK, NEW w \in Submitters,
         submit_to_binance(w) \/ Record(w) \/ ask_at_once(w) \/ record_answer(w) \/ Abandon(w)
  PROVE  /\ \A v \in Submitters \ {w} : sub'[v] = sub[v]
         /\ sub'[w] = NoSession \/ (sub'[w].pc # "idle" /\ sub'[w].tid = sub[w].tid)
         /\ Abandon(w) => sub'[w] = NoSession
<1>1. sub[w] \in Session
  BY DEF TypeOK
<1>2. CASE Leave(w)
  BY <1>2 DEF Leave, TypeOK
<1>3. ASSUME NEW pc \in {"posting", "uncertain"}, NEW obj,
             sub' = [sub EXCEPT ![w].pc = pc, ![w].obj = obj]
      PROVE  /\ \A v \in Submitters \ {w} : sub'[v] = sub[v]
             /\ sub'[w].pc = pc /\ sub'[w].tid = sub[w].tid
  BY <1>1, <1>3 DEF TypeOK, Session
<1>4. ASSUME NEW pc, NEW ans, pc # "idle",
             sub' = [sub EXCEPT ![w].pc = pc, ![w].found = ans]
      PROVE  /\ \A v \in Submitters \ {w} : sub'[v] = sub[v]
             /\ sub'[w].pc = pc /\ sub'[w].tid = sub[w].tid
  BY <1>1, <1>4 DEF TypeOK, Session
<1>5. Abandon(w) => Leave(w)
  BY DEF Abandon
<1>6. CASE Abandon(w)
  BY <1>2, <1>5, <1>6
<1>7. ~Leave(w) => ~Abandon(w)
  BY <1>5
<1>8. CASE submit_to_binance(w) /\ ~Leave(w)
  <2>1. sub' = [sub EXCEPT ![w].pc = "posting", ![w].obj = db[sub[w].tid]]
    BY <1>8 DEF submit_to_binance
  <2>2. /\ \A v \in Submitters \ {w} : sub'[v] = sub[v]
        /\ sub'[w].pc = "posting" /\ sub'[w].tid = sub[w].tid
    BY <1>3, <2>1
  <2> QED BY <1>7, <1>8, <2>2
<1>9. CASE ask_at_once(w) /\ ~Leave(w)
  BY <1>4, <1>7, <1>9 DEF ask_at_once
<1>10. CASE Record(w) /\ ~Leave(w)
  <2>1. PICK a : handle_uncertain_outcome(w, a)
    BY <1>10 DEF Record, finalise_success, finalise_failure
  <2>2. PICK new : sub' = [sub EXCEPT ![w].pc = "uncertain", ![w].obj = new]
    BY <1>10, <2>1 DEF handle_uncertain_outcome
  <2>3. /\ \A v \in Submitters \ {w} : sub'[v] = sub[v]
        /\ sub'[w].pc = "uncertain" /\ sub'[w].tid = sub[w].tid
    BY <1>3, <2>2
  <2> QED BY <1>7, <1>10, <2>3
<1>11. record_answer(w) => Leave(w)
  BY DEF record_answer
<1> QED BY <1>2, <1>6, <1>8, <1>9, <1>10, <1>11

\* An item that ends leaves its worker waiting or gone.
LEMMA ItemEnding ==
  ASSUME TInv, NEW p \in Processes, NEW i \in Workers,
         \/ ItemEnds(p, i) \/ Executor!claim_raises(p, i)
         \/ Executor!already_claimed(p, i)
  PROVE  /\ worker'[<<p, i>>].pc \in {"gone", "waiting"}
         /\ \A v \in Submitters \ {<<p, i>>} : worker'[v] = worker[v]
<1>1. worker \in [Submitters -> Executor!WorkerState] /\ <<p, i>> \in Submitters
  BY SystemAssumption DEF TInv, ExecutorFacts!EIInv, ExecutorFacts!ETypeOK,
       ExecutorFacts!WorkerIds, ExecutorFacts!WorkerState, Executor!WorkerState
<1>2. \E idle \in {Executor!Waiting, Executor!Gone} :
        worker' = [worker EXCEPT ![<<p, i>>] = idle]
  BY DEF ItemEnds, Executor!finish, Executor!cancel, Executor!claim_raises,
         Executor!already_claimed, Executor!Done
<1> QED BY <1>1, <1>2 DEF Executor!Waiting, Executor!Gone

LEMMA ItemsStayRight ==
  ASSUME TInv, SystemNext
  PROVE  \A w \in Submitters : ItemRight(w)'
<1>0. /\ TypeOK /\ IInv
      /\ worker \in [Submitters -> Executor!WorkerState]
      /\ Submitters = Processes \X Workers
      /\ \A w \in Submitters : ItemRight(w)
  BY SystemAssumption DEF TInv, RIInv, IInv, ExecutorFacts!EIInv, ExecutorFacts!ETypeOK,
       ExecutorFacts!WorkerIds, ExecutorFacts!WorkerState, Executor!WorkerState
<1>1. CASE UNCHANGED <<sub, worker>>
  BY <1>0, <1>1 DEF ItemRight
<1>2. ASSUME NEW p \in Processes, NEW s \in Signals, process_signal(p, s)
      PROVE  UNCHANGED <<sub, worker>>
  BY <1>2 DEF process_signal, create_pending_trade, Executor!process_signal
<1>3. ASSUME NEW p \in Processes, NEW i \in Workers, claim(p, i)
      PROVE  \A w \in Submitters : ItemRight(w)'
  <2>1. <<p, i>> \in Submitters /\ worker[<<p, i>>].pc = "got"
    BY <1>0, <1>3 DEF claim
  <2>2. sub[<<p, i>>] = NoSession
    BY <1>0, <2>1 DEF ItemRight
  <2>3. CASE UNCHANGED sub
    <3>1. \/ ItemEnds(p, i) \/ Executor!claim_raises(p, i)
          \/ Executor!already_claimed(p, i)
      BY <1>3, <2>3 DEF claim, ItemEnds, rvars
    <3>2. /\ worker'[<<p, i>>].pc \in {"gone", "waiting"}
          /\ \A v \in Submitters \ {<<p, i>>} : worker'[v] = worker[v]
      BY <3>1, ItemEnding
    <3>3. ItemRight(<<p, i>>)' /\ OnlyItem(<<p, i>>)
      BY <2>2, <2>3, <3>2 DEF ItemRight, OnlyItem, NoSession
    <3> QED BY <2>1, <3>3, OneItemChanges
  <2>4. CASE sub' # sub
    <3> DEFINE t == worker[<<p, i>>].tid
               new == [NoSession EXCEPT !.pc = "claimed", !.tid = t]
    <3>1. sub' = [sub EXCEPT ![<<p, i>>] = new] /\ Executor!claim(p, i)
      BY <1>3, <2>4 DEF claim, claim_for_submission, rvars
    <3>2. new.pc = "claimed" /\ new.tid = t
      BY DEF NoSession
    <3> HIDE DEF new
    <3>3. worker' = [worker EXCEPT ![<<p, i>>].pc = "submitting"]
      BY <3>1 DEF Executor!claim
    <3>4. worker'[<<p, i>>].pc = "submitting" /\ worker'[<<p, i>>].tid = t
      BY <1>0, <2>1, <3>3 DEF Executor!WorkerState
    <3>5. sub'[<<p, i>>] = new
      BY <1>0, <2>1, <3>1 DEF TypeOK
    <3>6. OnlyItem(<<p, i>>)
      BY <1>0, <2>1, <3>1, <3>3 DEF TypeOK, OnlyItem
    <3>7. ItemRight(<<p, i>>)'
      BY <3>2, <3>4, <3>5 DEF ItemRight
    <3> QED BY <2>1, <3>6, <3>7, OneItemChanges
  <2> QED BY <2>3, <2>4
<1>4. ASSUME NEW p \in Processes, NEW i \in Workers, submit(p, i) \/ abandon(p, i)
      PROVE  \A w \in Submitters : ItemRight(w)'
  <2> DEFINE w == <<p, i>>
  <2>1. w \in Submitters /\ ItemRight(w)
    BY <1>0
  <2>2. \/ submit_to_binance(w) \/ Record(w) \/ ask_at_once(w) \/ record_answer(w)
        \/ Abandon(w)
    BY <1>4 DEF submit, abandon
  <2>3. /\ \A v \in Submitters \ {w} : sub'[v] = sub[v]
        /\ sub'[w] = NoSession \/ (sub'[w].pc # "idle" /\ sub'[w].tid = sub[w].tid)
        /\ Abandon(w) => sub'[w] = NoSession
    BY <1>0, <2>1, <2>2, SessionItemStep
  <2>4. CASE sub'[w] = NoSession
    <3>1. ItemEnds(p, i)
      BY <1>4, <2>4 DEF submit, abandon
    <3>2. /\ worker'[w].pc \in {"gone", "waiting"}
          /\ \A v \in Submitters \ {w} : worker'[v] = worker[v]
      BY <3>1, ItemEnding
    <3>3. ItemRight(w)' /\ OnlyItem(w)
      BY <2>3, <2>4, <3>2 DEF ItemRight, OnlyItem, NoSession
    <3> QED BY <2>1, <3>3, OneItemChanges
  <2>5. CASE sub'[w] # NoSession
    <3>1. worker[w].pc = "submitting" /\ UNCHANGED executorVars
      BY <1>4, <2>3, <2>5 DEF submit, abandon
    <3>2. sub'[w].pc # "idle" /\ sub'[w].tid = sub[w].tid /\ worker' = worker
      BY <2>3, <2>5, <3>1 DEF executorVars
    <3>3. sub[w].pc # "idle" /\ sub[w].tid = worker[w].tid
      BY <2>1, <3>1 DEF ItemRight
    <3>4. ItemRight(w)' /\ OnlyItem(w)
      BY <2>3, <3>1, <3>2, <3>3 DEF ItemRight, OnlyItem
    <3> QED BY <2>1, <3>4, OneItemChanges
  <2> QED BY <2>4, <2>5
<1>5. ASSUME NEW p \in Processes, executor_alone(p)
      PROVE  \A w \in Submitters : ItemRight(w)'
  <2>1. UNCHANGED sub
    BY <1>5 DEF executor_alone, rvars
  <2>2. CASE \E up \in BOOLEAN : Executor!start(p, up)
    <3>1. /\ phase[p] = "down"
          /\ worker' = [w \in Submitters |->
                          IF w[1] = p THEN Executor!Waiting ELSE worker[w]]
      BY <1>0, <2>2 DEF Executor!start, Executor!WorkerIds
    <3>2. ASSUME NEW w \in Submitters, w[1] = p
          PROVE  worker[w].pc = "gone" /\ worker'[w].pc = "waiting"
      <4>1. \E i \in Workers : w = <<p, i>>
        BY <1>0, <3>2
      <4> QED BY <3>1, <3>2, <4>1 DEF TInv, ExecutorFacts!DownIsGone, Executor!Waiting
    <3>3. \A w \in Submitters : w[1] # p => worker'[w] = worker[w]
      BY <3>1
    <3> QED BY <1>0, <2>1, <3>2, <3>3 DEF ItemRight
  <2>3. ASSUME NEW i \in Workers,
               Executor!get(p, i) \/ (worker[<<p, i>>].pc = "waiting" /\ Executor!cancel(p, i))
        PROVE  \A w \in Submitters : ItemRight(w)'
    <3>1. <<p, i>> \in Submitters /\ worker[<<p, i>>].pc = "waiting"
      BY <1>0, <2>3 DEF Executor!get
    <3>2. PICK new : new.pc \in {"got", "gone"} /\ worker' = [worker EXCEPT ![<<p, i>>] = new]
      BY <2>3 DEF Executor!get, Executor!cancel, Executor!Gone
    <3>3. worker'[<<p, i>>] = new
      BY <1>0, <3>1, <3>2
    <3>4. OnlyItem(<<p, i>>)
      BY <1>0, <2>1, <3>1, <3>2 DEF OnlyItem
    <3>5. ItemRight(<<p, i>>)'
      BY <1>0, <2>1, <3>1, <3>2, <3>3 DEF ItemRight
    <3> QED BY <3>1, <3>4, <3>5, OneItemChanges
  <2>4. CASE \/ Executor!resume_select(p) \/ Executor!resume_enqueue(p)
             \/ Executor!stop(p) \/ Executor!join(p) \/ Executor!stopped(p)
    BY <1>1, <2>1, <2>4 DEF Executor!resume_select, Executor!resume_enqueue, Executor!stop,
                            Executor!join, Executor!stopped
  <2> QED BY <1>5, <2>2, <2>3, <2>4 DEF executor_alone
<1>6. ASSUME NEW p \in Processes, crash(p)
      PROVE  \A w \in Submitters : ItemRight(w)'
  <2>1. \A w \in Submitters : sub'[w] = IF w[1] = p THEN NoSession ELSE sub[w]
    BY <1>6 DEF crash
  <2>2. \A w \in Submitters : worker'[w] = IF w[1] = p THEN Executor!Gone ELSE worker[w]
    BY <1>0, <1>6 DEF crash, Executor!crash, Executor!WorkerIds
  <2>3. NoSession.pc = "idle" /\ Executor!Gone.pc = "gone"
    BY DEF NoSession, Executor!Gone
  <2> QED BY <1>0, <2>1, <2>2, <2>3 DEF ItemRight
<1>7. CASE exchange
  BY <1>1, <1>7 DEF exchange, Exchanging, submitterVars, executorVars
<1>8. ASSUME NEW r \in Reconcilers, reconcile(r)
      PROVE  UNCHANGED <<sub, worker>>
  BY <1>8 DEF reconcile, executorVars, Reconcile, find_reconcilable_trades, get_trade_for_user,
              Load, Interrupt, reconcile_trade, skip_terminal, ask, record, record_raises, vars
<1> QED BY <1>1, <1>2, <1>3, <1>4, <1>5, <1>6, <1>7, <1>8 DEF SystemNext
-----------------------------------------------------------------------------
(* What runs have loaded.                                                  *)

\* submitted_at is set once and for all.
LEMMA SentStaysSent ==
  ASSUME TypeOK, RowsMove, NEW t \in Used, db[t].submitted_at
  PROVE  db'[t].submitted_at
<1>1. t \in TradeIds /\ db[t] \in Row
  BY DEF TypeOK, Used
<1>2. CASE UNCHANGED db
  BY <1>2
<1>3. ASSUME NEW s \in Signals, NEW u \in TradeIds \ Used, db' = [db EXCEPT ![u] = PendingRow(s)]
      PROVE  db'[t].submitted_at
  BY <1>1, <1>3 DEF TypeOK
<1>4. ASSUME NEW u \in Used, db' = [db EXCEPT ![u].submitted_at = TRUE]
      PROVE  db'[t].submitted_at
  BY <1>1, <1>4 DEF TypeOK, Row
<1>5. ASSUME NEW u \in Used, NEW loaded \in Row, NEW new \in Row, Writes(u, loaded, new)
      PROVE  db'[t].submitted_at
  <2>1. db'[t] \in {db[t], Flush(db[t], loaded, new)}
    BY <1>1, <1>5 DEF Writes, TypeOK
  <2> QED BY <1>1, <2>1, FlushIsRow
<1> QED BY <1>2, <1>3, <1>4, <1>5 DEF RowsMove

\* A run goes on with less, over rows that keep their keys, or loads what
\* it is allowed to.
LEMMA RunStep ==
  ASSUME RIInv, NEW r \in Reconcilers, Reconcile(r)
  PROVE  \/ Shrinks(r) /\ SameKeys
         \/ \E batch \in SUBSET Used : Load(r, batch)
<1>0. RTypeOK /\ TypeOK /\ RunsHoldRows
  BY DEF RIInv, RTypeOK
<1>1. CASE \E cutoff \in TradeIds : find_reconcilable_trades(r, cutoff)
  BY <1>1 DEF find_reconcilable_trades, Oldest, InFlight
<1>2. CASE \E t \in TradeIds : get_trade_for_user(r, t)
  BY <1>2 DEF get_trade_for_user
<1>3. CASE Interrupt(r)
  BY <1>0, <1>3, EndedRunShrinks DEF Interrupt, vars, SameKeys
<1>4. ASSUME NEW t \in Todo(r), reconcile_trade(r, t)
      PROVE  Shrinks(r) /\ SameKeys
  <2> DEFINE loaded == rec[r].todo[t]
             new == Reconciled(loaded, rec[r].found)
  <2>1. /\ t \in Used /\ loaded \in Row /\ loaded.client_order_id \in Digests
        /\ rec[r].found \in Order \cup {None}
    BY <1>0, LoadedTrade
  <2>2. CASE skip_terminal(r, t)
    BY <1>0, <2>2, RunShrinks DEF skip_terminal, vars, SameKeys
  <2>3. ASSUME NEW a \in Answers(loaded.client_order_id), ask(r, t, a)
        PROVE  Shrinks(r) /\ SameKeys
    <3>1. get_order(a) \in Order \cup {None}
      BY <1>0, <2>1, AnswersAreKnown
    <3>2. Shrinks(r)
      BY <1>0, <2>3, <3>1, RunShrinks DEF ask
    <3> QED BY <2>3, <3>2 DEF ask, vars, SameKeys
  <2>4. CASE record(r, t) \/ record_raises(r, t)
    <3>1. Commit(t, loaded, new) /\ (Advance(r, t) \/ EndRun(r))
      BY <2>4 DEF record, record_raises, Outcome, Commit
    <3>2. new \in Row
      BY <2>1, ReconciledIsRow
    <3> HIDE DEF new, loaded
    <3>3. Shrinks(r)
      BY <1>0, <2>1, <3>1, RunShrinks, EndedRunShrinks
    <3> QED BY <1>0, <2>1, <3>1, <3>2, <3>3, CommitKeepsKeys
  <2> QED BY <1>4, <2>2, <2>3, <2>4 DEF reconcile_trade
<1> QED BY <1>1, <1>2, <1>3, <1>4 DEF Reconcile

LEMMA LoadedStaysSent ==
  ASSUME TInv, SystemNext
  PROVE  LoadedIsSent'
<1>0. TypeOK /\ RTypeOK /\ IInv /\ QuietBeforePost /\ RefusedReplies /\ RunsHoldRows
  BY DEF TInv, RIInv, RTypeOK
<1> SUFFICES ASSUME AfterSubmitters, NEW q \in Reconcilers, NEW t \in TradeIds,
                    rec'[q].todo[t] # None
             PROVE  db'[t].submitted_at
  BY DEF LoadedIsSent, Todo
<1>1. rec[q].todo[t] # None => t \in Used /\ db[t].submitted_at
  BY <1>0 DEF TInv, LoadedIsSent, RunsHoldRows, Todo
<1>2. CASE UNCHANGED <<db, rec>>
  BY <1>1, <1>2
<1>3. CASE Next /\ UNCHANGED rec
  <2>1. RowsMove
    BY <1>0, <1>3, ServiceMovesRows
  <2> QED BY <1>0, <1>1, <1>3, <2>1, SentStaysSent
<1>4. ASSUME NEW r \in Reconcilers, Reconcile(r)
      PROVE  db'[t].submitted_at
  <2>1. CASE Shrinks(r) /\ SameKeys
    <3>1. rec'[q].todo[t] = rec[q].todo[t]
      BY <2>1 DEF Shrinks
    <3> QED BY <1>1, <2>1, <3>1 DEF SameKeys, Used
  <2>2. ASSUME NEW batch \in SUBSET Used, Load(r, batch)
        PROVE  db'[t].submitted_at
    <3>1. /\ db' = db
          /\ \A u \in batch : db[u].submitted_at
      BY <2>2 DEF Load, Allowed, Over, vars
    <3>2. CASE q # r
      <4>1. rec'[q] = rec[q]
        BY <1>0, <2>2, <3>2 DEF Load, RTypeOK
      <4> QED BY <1>1, <3>1, <4>1
    <3>3. CASE q = r
      <4>1. rec'[r].todo = [u \in TradeIds |-> IF u \in batch THEN db[u] ELSE None]
        BY <1>0, <2>2 DEF Load, RTypeOK
      <4>2. t \in batch
        BY <3>3, <4>1
      <4> QED BY <3>1, <4>2
    <3> QED BY <3>2, <3>3
  <2> QED BY <1>4, <2>1, <2>2, RunStep DEF TInv
<1>5. ASSUME NEW p \in Processes, crash(p)
      PROVE  UNCHANGED <<db, rec>>
  BY <1>5 DEF crash
<1>6. CASE UNCHANGED rvars
  BY <1>2, <1>6 DEF rvars
<1> QED BY <1>2, <1>3, <1>4, <1>5, <1>6, SystemStepsAreSteps DEF RNext
-----------------------------------------------------------------------------
(* The theorems.                                                           *)

LEMMA SystemInitEstablishesTInv ==
  ASSUME SystemInit
  PROVE  TInv
<1>1. RIInv
  BY RInitEstablishesRIInv DEF SystemInit
<1>2. ExecutorFacts!EInit
  BY SameExecutor DEF SystemInit
<1>3. ExecutorFacts!EIInv
  BY <1>2, FactsApply, ExecutorFacts!EInitEstablishesEIInv
<1>4. \A w \in Submitters : worker[w].pc = "gone"
  BY <1>2, SystemAssumption DEF ExecutorFacts!EInit, ExecutorFacts!WorkerIds, ExecutorFacts!Gone
<1>5. ExecutorFacts!DownIsGone
  BY <1>4, SystemAssumption DEF ExecutorFacts!DownIsGone
<1>6. \A w \in Submitters : ItemRight(w)
  BY <1>4 DEF SystemInit, RInit, Init, ItemRight, NoSession
<1>7. LoadedIsSent
  BY DEF SystemInit, RInit, LoadedIsSent, Todo, NoRun
<1> QED BY <1>1, <1>3, <1>5, <1>6, <1>7 DEF TInv

LEMMA SystemNextPreservesTInv ==
  ASSUME TInv, [SystemNext]_systemVars
  PROVE  TInv'
<1>1. CASE SystemNext
  <2>1. RIInv'
    BY <1>1, SystemStepsAreSteps, CrashPreservesRIInv, RNextPreservesRIInv DEF TInv
  <2>2. ExecutorFacts!EIInv' /\ ExecutorFacts!DownIsGone'
    BY <1>1, SystemPreservesExecutor
  <2>3. (\A w \in Submitters : ItemRight(w)') /\ LoadedIsSent'
    BY <1>1, ItemsStayRight, LoadedStaysSent
  <2> QED BY <2>1, <2>2, <2>3 DEF TInv
<1>2. CASE UNCHANGED systemVars
  <2>1. /\ UNCHANGED <<db, sub, wire, book, reply, posts, rec>>
        /\ UNCHANGED <<phase, queue, unfinished, worker, found>>
    BY <1>2 DEF systemVars, executorVars
  <2>2. RIInv'
    BY <2>1, RNextPreservesRIInv DEF TInv, rvars
  <2>3. UNCHANGED ExecutorFacts!execVars
    BY <2>1 DEF ExecutorFacts!execVars
  <2>4. ExecutorFacts!EIInv /\ ExecutorFacts!DownIsGone /\ ExecutorFacts!ETypeOK
    BY DEF TInv, ExecutorFacts!EIInv
  <2>5. ExecutorFacts!EIInv'
    BY <2>3, <2>4, FactsApply, ExecutorFacts!ENextPreservesEIInv
  <2>6. ExecutorFacts!DownIsGone'
    BY <2>3, <2>4, FactsApply, ExecutorFacts!DownStaysGone
  <2>7. (\A w \in Submitters : ItemRight(w)') /\ LoadedIsSent'
    BY <2>1 DEF TInv, ItemRight, LoadedIsSent, Todo
  <2> QED BY <2>2, <2>5, <2>6, <2>7 DEF TInv
<1> QED BY <1>1, <1>2

(* The invariant behind the theorems that follow: those of the service     *)
(* with its reconciliation and of the executor, and what ties them         *)
(* together, that sessions and items are the same thing.                   *)
THEOREM SystemInductive == SystemSpec => []TInv
<1>1. SystemInit => TInv
  BY SystemInitEstablishesTInv
<1>2. TInv /\ [SystemNext]_systemVars => TInv'
  BY SystemNextPreservesTInv
<1> QED BY <1>1, <1>2, PTL DEF SystemSpec

(* Rows, sessions, messages, runs, queues and workers stay in their types. *)
THEOREM SystemTypeCorrect == SystemSpec => []SystemTypeOK
<1>1. TInv => SystemTypeOK
  BY SameExecutor DEF TInv, RIInv, ExecutorFacts!EIInv, SystemTypeOK
<1> QED BY <1>1, SystemInductive, PTL

(* stop() that has drained the queue leaves no session of the process and  *)
(* no request of its own waiting at the exchange.                          *)
THEOREM DrainLeavesNothingSent == SystemSpec => []DrainedMeansNothingSent
<1>1. TInv => DrainedMeansNothingSent
  <2> SUFFICES ASSUME TInv, NEW p \in Processes, phase[p] = "drained",
                      NEW w \in Submitters, w[1] = p
               PROVE  sub[w] = NoSession
    BY DEF DrainedMeansNothingSent
  <2>1. PICK i \in Workers : w = <<p, i>>
    BY SystemAssumption
  <2>2. worker[<<p, i>>].pc # "submitting"
    BY DEF TInv, ExecutorFacts!EIInv, ExecutorFacts!DrainedMeansDone, ExecutorFacts!Busy
  <2> QED BY <2>1, <2>2 DEF TInv, ItemRight
<1> QED BY <1>1, SystemInductive, PTL

(* The code in TradingService and Reconciliation does to the trades table  *)
(* what TradeExecutor says of it, as long as no unsent trade is reconciled *)
(* (a run that takes one for FAILED takes it from the queue).              *)
THEOREM ExecutorIsImplemented ==
  ASSUME AfterSubmitters
  PROVE  SystemSpec => ImplementsExecutor
<1>1. SystemInit => Executor!EInit
  BY DEF SystemInit
<1>2. TInv /\ [SystemNext]_systemVars => [Executor!ENext]_(Executor!execVars)
  <2> SUFFICES ASSUME TInv, [SystemNext]_systemVars, ~Executor!ENext
               PROVE  UNCHANGED Executor!execVars
    OBVIOUS
  <2>1. UNCHANGED executorVars /\ SameStages
    <3>1. CASE SystemNext
      BY <3>1, SystemStepsForExecutor
    <3>2. CASE UNCHANGED systemVars
      BY <3>2 DEF systemVars, executorVars, SameStages
    <3> QED BY <3>1, <3>2
  <2>2. [t \in TradeIds |-> StageOfRow(db'[t])] = [t \in TradeIds |-> StageOfRow(db[t])]
    BY <2>1 DEF SameStages
  <2> QED BY <2>1, <2>2 DEF Executor!execVars, executorVars
<1> QED BY <1>1, <1>2, SystemInductive, PTL DEF SystemSpec, ImplementsExecutor, Executor!ESpec

(* From webhook to exchange, with queues that lose or repeat ids, workers  *)
(* cancelled and processes killed at any step: one POST at most per client *)
(* order id, traceable to a row, and every recorded refusal true.          *)
THEOREM OneOrderEndToEnd ==
  SystemSpec => [](OneOrderPerSignal /\ WriteAhead /\ RefusalMeansNoOrder)
<1>1. TInv => OneOrderPerSignal /\ WriteAhead /\ RefusalMeansNoOrder
  BY DEF TInv, RIInv, IInv, RefusedRows, RefusalMeansNoOrder, RefusalCodes, NeverAny
<1> QED BY <1>1, SystemInductive, PTL
-----------------------------------------------------------------------------
(* Settlement in the composed system.                                      *)

\* A process that dies leaves every row, report and remaining session right.
LEMMA CrashPreservesSInv ==
  ASSUME SInv, RIInv', NEW p \in Processes, crash(p)
  PROVE  SInv' /\ UNCHANGED <<db, book>>
<1>1. /\ TypeOK /\ BookRight /\ RepliesRight /\ RowsRight /\ UnsentRight
      /\ SessionsRight /\ RunsRight /\ UniqueSignals
      /\ SessionsHoldRows /\ OneHolder /\ UniqueCids
  BY DEF SInv, RIInv, RTypeOK, IInv
<1> DEFINE mine == {w \in Submitters : w[1] = p}
           cut == {sub[w].obj.client_order_id : w \in {v \in mine : sub[v].pc = "posting"}}
<1>2. /\ sub'   = [w \in Submitters |-> IF w \in mine THEN NoSession ELSE sub[w]]
      /\ wire'  = [c \in Digests |->
                     IF c \in cut /\ wire[c] = "open" THEN "orphan" ELSE wire[c]]
      /\ reply' = [c \in Digests |-> IF c \in cut THEN None ELSE reply[c]]
      /\ UNCHANGED <<db, book, posts, rec>>
  BY Zenon DEF crash
<1>2a. \A c \in cut : \E v \in Submitters :
        v \in mine /\ sub[v].pc = "posting" /\ c = sub[v].obj.client_order_id
  OBVIOUS
<1> HIDE DEF mine, cut
<1>3. NoSession.pc = "idle" /\ NoSession.tid = None
  BY DEF NoSession
<1>4. /\ \A c, o : Reported(c, o)' <=> Reported(c, o)
      /\ \A c, f : Known(c, f)' <=> Known(c, f)
      /\ \A t : Cid(t)' = Cid(t) /\ Mirrored(db[t])' = Mirrored(db[t])
      /\ \A t : is_terminal(db[t])' <=> is_terminal(db[t])
      /\ Used' = Used
  BY <1>2 DEF Reported, Known, Cid, Mirrored, is_terminal, Used
<1>5. \A c \in Digests : /\ wire[c] = "idle" => wire'[c] = "idle"
                         /\ wire'[c] = "idle" => wire[c] = "idle"
                         /\ c \notin cut => wire'[c] = wire[c]
                         /\ reply'[c] = None \/ reply'[c] = reply[c]
  BY <1>1, <1>2 DEF TypeOK
<1>6. \A t \in Used : Cid(t) \in Digests
  BY <1>1 DEF TypeOK, Used, Row, Cid
<1>7. BookRight' /\ UnsentRight' /\ UniqueSignals'
  BY <1>1, <1>2, <1>4 DEF BookRight, UnsentRight, UniqueSignals
<1>8. RepliesRight'
  BY <1>1, <1>4, <1>5 DEF RepliesRight, ReplyRight
<1>9. RowsRight'
  <2>1. SUFFICES ASSUME NEW t \in Used PROVE RowRight(db[t], Cid(t))'
    BY <1>4 DEF RowsRight
  <2>2. RowRight(db[t], Cid(t)) /\ (NoOrder(Cid(t)) => NoOrder(Cid(t))')
    BY <1>1, <1>2, <1>4, <1>5, <1>6 DEF RowsRight, NoOrder
  <2> QED BY <1>2, <1>4, <2>2 DEF RowRight
<1>10. SessionsRight'
  <2>1. SUFFICES ASSUME NEW w \in Submitters, sub'[w].pc # "idle" PROVE SessionRight(sub[w])'
    BY DEF SessionsRight, SessionRight
  <2>2. sub'[w] = sub[w] /\ w \notin mine
    BY <1>2, <1>3, <2>1
  <2>3. SessionRight(sub[w]) /\ sub[w].tid \in Used /\ Cid(sub[w].tid) \in Digests
    BY <1>1, <1>6, <2>1, <2>2 DEF SessionsRight, SessionsHoldRows
  <2>4. Cid(sub[w].tid) \notin cut
    <3>1. SUFFICES ASSUME NEW v \in Submitters, v \in mine, sub[v].pc = "posting",
                          Cid(sub[w].tid) = sub[v].obj.client_order_id
                   PROVE  FALSE
      BY <1>2a
    <3>2. sub[v].tid \in Used /\ Cid(sub[v].tid) = Cid(sub[w].tid)
      BY <1>1, <3>1 DEF SessionsHoldRows
    <3>3. sub[v].tid = sub[w].tid
      BY <1>1, <2>3, <3>2 DEF UniqueCids
    <3>4. v = w
      BY <1>1, <2>1, <2>2, <3>1, <3>3 DEF OneHolder
    <3> QED BY <2>2, <3>1, <3>4
  <2>5. wire'[Cid(sub[w].tid)] = wire[Cid(sub[w].tid)]
    BY <1>5, <2>3, <2>4
  <2> QED BY <1>2, <1>4, <2>2, <2>3, <2>5 DEF SessionRight
<1>11. RunsRight'
  <2>1. SUFFICES ASSUME NEW r \in Reconcilers, NEW t \in Todo(r) PROVE RunRight(r, t)'
    BY <1>2 DEF RunsRight, Todo
  <2>2. RunRight(r, t) /\ t \in Used /\ Cid(t) \in Digests /\ t \in TradeIds
    BY <1>1, <1>6, <2>1 DEF RunsRight, SInv, RIInv, RunsHoldRows, Todo
  <2>3. \A w \in Submitters : sub'[w].tid # t
    BY <1>2, <1>3, <2>2, KeyAssumption DEF RunRight
  <2>4. Current(r, t)' <=> Current(r, t)
    BY <1>2 DEF Current, Todo
  <2>5. wire'[Cid(t)] = "idle"
    BY <1>5, <2>2 DEF RunRight
  <2> QED BY <1>2, <1>4, <2>2, <2>3, <2>4, <2>5 DEF RunRight
<1> QED BY <1>2, <1>7, <1>8, <1>9, <1>10, <1>11 DEF SInv

\* For what settlement speaks of, a step is one of Reconciliation's or the
\* end of a process.
LEMMA SystemStepsForSettlement ==
  ASSUME Discipline, TInv, SInv, [SystemNext]_systemVars
  PROVE  SInv' /\ ([RNext]_rvars \/ UNCHANGED <<db, book>>)
<1>1. RIInv'
  BY SystemNextPreservesTInv DEF TInv
<1>2. CASE [RNext]_rvars
  BY <1>2, RNextPreservesSInv
<1>3. CASE \E p \in Processes : crash(p)
  BY <1>1, <1>3, CrashPreservesSInv
<1>4. CASE UNCHANGED systemVars
  BY <1>2, <1>4 DEF systemVars, rvars
<1> QED BY <1>2, <1>3, <1>4, SystemStepsAreSteps

(* The invariant of settlement beside those of the parts: what an operator *)
(* who keeps to the discipline gets of the whole system.                   *)
THEOREM SystemDiscipline ==
  ASSUME Discipline
  PROVE  SystemSpec => [](TInv /\ SInv)
<1>1. SystemInit => TInv /\ SInv
  BY SystemInitEstablishesTInv, RInitEstablishesSInv DEF SystemInit
<1>2. TInv /\ SInv /\ [SystemNext]_systemVars => TInv' /\ SInv'
  BY SystemNextPreservesTInv, SystemStepsForSettlement
<1> QED BY <1>1, <1>2, PTL DEF SystemSpec

(* With queues, cancelled workers and killed processes between the webhook *)
(* and the exchange, a settled row still carries the final report of its   *)
(* order, or there is none, and a row mirrors one report.                  *)
THEOREM SettledEndToEnd ==
  ASSUME Discipline
  PROVE  SystemSpec => [](SettledMatchesExchange /\ MirrorNeverAhead)
<1>1. SInv => SettledMatchesExchange /\ MirrorNeverAhead
  BY RowsTellTheTruth
<1> QED BY <1>1, SystemDiscipline, PTL

(* No step of any process rewrites a row that has settled.                 *)
THEOREM FinalEndToEnd ==
  ASSUME Discipline
  PROVE  SystemSpec => TerminalIsFinal
<1>1. TInv /\ SInv /\ [SystemNext]_systemVars =>
        [\A t \in Used : is_terminal(db[t]) => db'[t] = db[t]]_vars
  BY SystemStepsForSettlement, SettledRowStays
<1> QED BY <1>1, SystemDiscipline, PTL DEF SystemSpec, TerminalIsFinal

(* The whole system keeps the promise of SignalLedger: whatever queue a    *)
(* signal is lost from and wherever a process dies, it is acted on once at *)
(* most and settled once and truthfully.                                   *)
THEOREM LedgerEndToEnd ==
  ASSUME Discipline, ~DryRun
  PROVE  SystemSpec => ImplementsLedger
<1>1. SystemInit => Ledger!LedgerInit
  BY RInitIsLedgerInit DEF SystemInit
<1>2. TInv /\ SInv /\ [SystemNext]_systemVars => [Ledger!LedgerNext]_(Ledger!ledgerVars)
  BY SystemStepsForSettlement, RStepIsLedgerStep, LedgerStutters
<1> QED
  BY <1>1, <1>2, SystemDiscipline, PTL DEF SystemSpec, ImplementsLedger, Ledger!LedgerSpec

(* Without the discipline.  The end of a process takes sessions and        *)
(* replies away and writes nothing.                                        *)
LEMMA CrashPreservesNInv ==
  ASSUME NInv, RIInv', NEW p \in Processes, crash(p)
  PROVE  NInv'
<1>1. /\ BookRight /\ \A c \in Digests : ReplyTrue(c)
      /\ \A t \in Used : Truthful(db[t])
      /\ \A w \in Submitters : SessionTrue(sub[w])
      /\ \A r \in Reconcilers : RunTrue(rec[r])
  BY DEF NInv
<1>2. /\ \A w \in Submitters : sub'[w] = NoSession \/ sub'[w] = sub[w]
      /\ \A c \in Digests : reply'[c] = None \/ reply'[c] = reply[c]
      /\ UNCHANGED <<db, book, rec>>
  <2> DEFINE mine == {w \in Submitters : w[1] = p}
             cut == {sub[w].obj.client_order_id : w \in {v \in mine : sub[v].pc = "posting"}}
  <2>1. /\ sub'   = [w \in Submitters |-> IF w \in mine THEN NoSession ELSE sub[w]]
        /\ reply' = [c \in Digests |-> IF c \in cut THEN None ELSE reply[c]]
        /\ UNCHANGED <<db, book, rec>>
    BY Zenon DEF crash
  <2> HIDE DEF mine, cut
  <2> QED BY <2>1
<1>3. Used' = Used
  BY <1>2 DEF Used
<1>4. /\ \A c, o : Reported(c, o)' <=> Reported(c, o)
      /\ \A row : Truthful(row)' <=> Truthful(row)
  BY <1>2 DEF Reported, Truthful, StatusTrue, ReportTrue, QuantityTrue
<1>5. \A c, f : FoundTrue(c, f)' <=> FoundTrue(c, f)
  BY <1>4 DEF FoundTrue
<1>6. /\ \A s : SessionTrue(s)' <=> SessionTrue(s)
      /\ \A run : RunTrue(run)' <=> RunTrue(run)
  BY <1>4, <1>5 DEF SessionTrue, RunTrue
<1>7. SessionTrue(NoSession)
  BY DEF NoSession, SessionTrue
<1>8. BookRight' /\ \A c \in Digests : ReplyTrue(c)'
  BY <1>1, <1>2, <1>4 DEF BookRight, ReplyTrue
<1>9. \A t \in Used' : Truthful(db[t])'
  BY <1>1, <1>2, <1>3, <1>4
<1>10. \A w \in Submitters : SessionTrue(sub[w])'
  BY <1>1, <1>2, <1>6, <1>7
<1>11. \A r \in Reconcilers : RunTrue(rec[r])'
  BY <1>1, <1>2, <1>6
<1> QED BY <1>8, <1>9, <1>10, <1>11 DEF NInv

(* In the whole system as it stands, with every queue, cancelled worker,   *)
(* killed process, late order and overlapping run: no row is ahead of the  *)
(* exchange.                                                               *)
THEOREM NeverAheadEndToEnd == SystemSpec => []NeverAheadOfExchange
<1>1. CASE DryRun
  <2>1. NeverAheadOfExchange
    BY <1>1 DEF NeverAheadOfExchange
  <2> QED BY <2>1, PTL
<1>2. CASE ~DryRun
  <2>1. SystemInit => TInv /\ NInv
    BY SystemInitEstablishesTInv, RInitEstablishesNInv DEF SystemInit
  <2>2. TInv /\ NInv /\ [SystemNext]_systemVars => TInv' /\ NInv'
    <3>1. SUFFICES ASSUME TInv, NInv, [SystemNext]_systemVars
                   PROVE  TInv' /\ NInv'
      OBVIOUS
    <3>2. TInv' /\ RIInv'
      BY <3>1, SystemNextPreservesTInv DEF TInv
    <3>3. CASE [RNext]_rvars
      BY <1>2, <3>1, <3>2, <3>3, RNextPreservesNInv
    <3>4. CASE \E p \in Processes : crash(p)
      BY <3>1, <3>2, <3>4, CrashPreservesNInv
    <3>5. CASE UNCHANGED systemVars
      BY <3>3, <3>5 DEF systemVars, rvars
    <3> QED BY <3>1, <3>3, <3>4, <3>5, SystemStepsAreSteps
  <2>3. NInv => NeverAheadOfExchange
    BY TruthfulRows
  <2> QED BY <2>1, <2>2, <2>3, PTL DEF SystemSpec
<1> QED BY <1>1, <1>2
=============================================================================
