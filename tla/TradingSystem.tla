--------------------------- MODULE TradingSystem ---------------------------
(***************************************************************************)
(* The whole way of a signal: processes with a queue and workers           *)
(* (TradeExecutor), the sessions in which the workers claim, send and      *)
(* record (TradingService), the exchange, and the reconciliation job.  The *)
(* parts share one thing, the trades table, and meet in the actions that   *)
(* change it: each joint action here is a step of the service and the step *)
(* of the executor it is part of.                                          *)
(*                                                                         *)
(* Every worker of every process is a submitter of TradingService, with at *)
(* most one session at a time.                                             *)
(***************************************************************************)
EXTENDS Reconciliation, Sequences

CONSTANTS
  Processes,
  Restarted,
  Workers,
  QueueSize

ASSUME SystemAssumption ==
  /\ Submitters = Processes \X Workers
  /\ Restarted \subseteq Processes
  /\ IsFiniteSet(TradeIds) /\ IsFiniteSet(Workers)
  /\ QueueSize \in Nat \ {0}

VARIABLES phase, queue, unfinished, worker, found

executorVars == <<phase, queue, unfinished, worker, found>>
systemVars == <<db, sub, wire, book, reply, posts, rec, executorVars>>

\* What the executor knows of a row.
StageOfRow(row) ==
  IF row = None THEN "absent" ELSE IF Claimable(row) THEN "unsent" ELSE "claimed"

Executor == INSTANCE TradeExecutor WITH
  Trades <- TradeIds,
  trade  <- [t \in TradeIds |-> StageOfRow(db[t])]

SystemTypeOK == RTypeOK /\ Executor!ETypeOK

SystemInit == RInit /\ Executor!EInit
-----------------------------------------------------------------------------
\* The request commits the row and offers its id to the queue it finds in
\* its own process.
process_signal(p, s) ==
  /\ create_pending_trade(s)
  /\ UNCHANGED rec
  /\ \E t \in TradeIds : Executor!process_signal(p, t)

\* Mutant: the claim is not committed before the order is sent.
claim_Uncommitted(p, i) ==
  /\ worker[<<p, i>>].pc = "got"
  /\ Claimable(db[worker[<<p, i>>].tid])
  /\ sub' = [sub EXCEPT ![<<p, i>>] =
               [NoSession EXCEPT !.pc = "claimed", !.tid = worker[<<p, i>>].tid]]
  /\ worker' = [worker EXCEPT ![<<p, i>>].pc = "submitting"]
  /\ UNCHANGED <<db, exchangeVars, rec, phase, queue, unfinished, found>>

(* The claim wins, or is applied and raises or is cancelled all the same,  *)
(* or is lost or raises and changes nothing.                               *)
claim(p, i) ==
  /\ worker[<<p, i>>].pc = "got"
  /\ \/ /\ claim_for_submission(<<p, i>>, worker[<<p, i>>].tid)
        /\ UNCHANGED rec
        /\ IF sub' # sub THEN Executor!claim(p, i)
           ELSE Executor!claim_raises(p, i) \/ Executor!cancel(p, i)
     \/ /\ UNCHANGED rvars
        /\ \/ Executor!already_claimed(p, i)
           \/ Executor!claim_raises(p, i)
           \/ Executor!cancel(p, i)

\* The end of a session is the end of the item, unless stop() got there first.
ItemEnds(p, i) == Executor!finish(p, i) \/ Executor!cancel(p, i)

submit(p, i) ==
  /\ worker[<<p, i>>].pc = "submitting"
  /\ \/ submit_to_binance(<<p, i>>) \/ Record(<<p, i>>)
     \/ ask_at_once(<<p, i>>) \/ record_answer(<<p, i>>)
  /\ UNCHANGED rec
  /\ IF sub'[<<p, i>>] = NoSession THEN ItemEnds(p, i)
     ELSE Executor!Running(p) /\ UNCHANGED executorVars

\* A query raises, or the worker is cancelled where it waits.
abandon(p, i) ==
  /\ Abandon(<<p, i>>)
  /\ UNCHANGED rec
  /\ ItemEnds(p, i)

\* Nothing but the queue and the process are involved.
executor_alone(p) ==
  /\ UNCHANGED rvars
  /\ \/ \E up \in BOOLEAN : Executor!start(p, up)
     \/ Executor!resume_select(p) \/ Executor!resume_enqueue(p)
     \/ \E i \in Workers :
          \/ Executor!get(p, i)
          \/ worker[<<p, i>>].pc = "waiting" /\ Executor!cancel(p, i)
     \/ Executor!stop(p) \/ Executor!join(p) \/ Executor!stopped(p)

\* All sessions of the process end, and so do its requests.
crash(p) ==
  LET mine == {w \in Submitters : w[1] = p}
      cut  == {sub[w].obj.client_order_id : w \in {v \in mine : sub[v].pc = "posting"}}
  IN /\ sub'   = [w \in Submitters |-> IF w \in mine THEN NoSession ELSE sub[w]]
     /\ wire'  = [c \in Digests |->
                    IF c \in cut /\ wire[c] = "open" THEN "orphan" ELSE wire[c]]
     /\ reply' = [c \in Digests |-> IF c \in cut THEN None ELSE reply[c]]
     /\ UNCHANGED <<db, book, posts, rec>>
     /\ Executor!crash(p)

exchange == Exchanging /\ UNCHANGED <<rec, executorVars>>

reconcile(r) == Reconcile(r) /\ UNCHANGED executorVars

SystemNext ==
  \/ \E p \in Processes :
       \/ \E s \in Signals : process_signal(p, s)
       \/ \E i \in Workers : claim(p, i) \/ submit(p, i) \/ abandon(p, i)
       \/ executor_alone(p)
       \/ crash(p)
  \/ exchange
  \/ \E r \in Reconcilers : reconcile(r)

SystemSpec == SystemInit /\ [][SystemNext]_systemVars

(***************************************************************************)
(* Fairness: that of TradeExecutor and of Reconciliation, of the joint     *)
(* actions.  One process is restarted and finds the database up now and    *)
(* then; its workers take ids and win claims now and then, although any    *)
(* one try may be cut short.  Whatever process a session belongs to, it    *)
(* goes on or ends; what was sent is answered or times out; the job runs   *)
(* again and again and is answered now and then.                           *)
(***************************************************************************)
Alone(A) == UNCHANGED rvars /\ A

SystemFairness ==
  /\ \A p \in Restarted :
       /\ SF_systemVars(Alone(Executor!start(p, TRUE)))
       /\ SF_systemVars(Alone(Executor!resume_select(p)))
       /\ SF_systemVars(Alone(Executor!resume_enqueue(p)))
       /\ WF_systemVars(Alone(Executor!stop(p)) \/ crash(p))
       /\ WF_systemVars(Alone(Executor!join(p)))
       /\ WF_systemVars(Alone(Executor!stopped(p)))
       /\ \A i \in Workers :
            /\ SF_systemVars(Alone(Executor!get(p, i)))
            /\ SF_systemVars(claim(p, i) /\ sub' # sub)
            /\ WF_systemVars(Alone(Executor!already_claimed(p, i)))
            /\ WF_systemVars(Alone(Executor!cancel(p, i)))
  /\ \A p \in Processes, i \in Workers :
       WF_systemVars(submit(p, i) \/ (~Executor!Running(p) /\ abandon(p, i)))
  /\ \A c \in Digests :
       WF_systemVars((Execute(c) \/ Refuse(c))
                     /\ UNCHANGED <<submitterVars, rec, executorVars>>)
  /\ \A r \in Reconcilers, t \in TradeIds :
       /\ SF_systemVars(/\ t \in Todo(r)
                        /\ \E a \in Answers(Cid(t)) : Answered(a) /\ ask(r, t, a)
                        /\ UNCHANGED executorVars)
       /\ SF_systemVars(record(r, t) /\ UNCHANGED executorVars)
       /\ SF_systemVars(skip_terminal(r, t) /\ UNCHANGED executorVars)
       /\ SF_systemVars(find_reconcilable_trades(r, t) /\ UNCHANGED executorVars)

SystemLiveSpec == SystemSpec /\ SystemFairness
-----------------------------------------------------------------------------
(* Properties                                                              *)

(* The service, the exchange and reconciliation do nothing to a row that   *)
(* the executor does not reckon with: seen through its claim, the table is *)
(* the one TradeExecutor is about, and what holds there holds here.        *)
ImplementsExecutor == Executor!ESpec

(* A stop that has drained the queue leaves nothing behind at the          *)
(* exchange: no session of the process is open and none of its requests    *)
(* still waits for an answer.                                              *)
DrainedMeansNothingSent ==
  \A p \in Processes : phase[p] = "drained" =>
    \A w \in Submitters : w[1] = p => sub[w] = NoSession

(* From the webhook's answer on, a signal gets its conclusion: whatever    *)
(* queue it is lost from and wherever the process dies, it is sent, and    *)
(* the row ends up with the exchange's word or a refusal, for good.        *)
Concluded(t) ==
  t \in Used /\ db[t].submitted_at /\ db[t].status \notin {"PENDING", "UNKNOWN"}

EverySignalConcluded == \A t \in TradeIds : t \in Used ~> []Concluded(t)
=============================================================================
