--------------------------- MODULE TradeExecutor ---------------------------
(***************************************************************************)
(* The in-process executor and the process around it: the bounded queue of *)
(* trade ids, the workers that drain it, start, stop and resume_pending,   *)
(* in the order main.lifespan runs them.  A deployment starts the new      *)
(* process before the old one has stopped, so there may be several, each   *)
(* with a queue of its own over one database.                              *)
(*                                                                         *)
(* Of a trade only what the queue turns on is kept: absent, unsent         *)
(* (PENDING with submitted_at NULL) or claimed.  What a claim leads to is  *)
(* the subject of TradingService.                                          *)
(***************************************************************************)
EXTENDS Integers, Sequences, FiniteSets

CONSTANTS
  Processes,
  Restarted,  \* those among them that are kept running: liveness rests on them
  Workers,    \* EXECUTOR_WORKERS tasks per process
  Trades,     \* primary keys
  QueueSize,  \* EXECUTOR_QUEUE_SIZE
  None

ASSUME ExecutorAssumption ==
  /\ Restarted \subseteq Processes
  /\ Trades \subseteq Nat /\ IsFiniteSet(Trades) /\ None \notin Trades
  /\ IsFiniteSet(Workers)
  /\ QueueSize \in Nat \ {0}

VARIABLES
  trade,       \* trade[t]
  phase,       \* phase[p]: where lifespan is
  queue,       \* queue[p]: the ids waiting
  unfinished,  \* unfinished[p]: the queue's count of tasks not done
  worker,      \* worker[<<p, i>>]
  found        \* found[p]: the ids resume_pending has read

execVars == <<trade, phase, queue, unfinished, worker, found>>

WorkerIds == Processes \X Workers

\* "joining": stop() waits for the queue; "drained" and "expired": it has
\* waited and cancels the workers.
Phase == {"down", "starting", "resuming", "serving", "joining", "drained", "expired"}

WorkerState == [pc : {"gone", "waiting", "got", "submitting"}, tid : Trades \cup {None}]

Gone    == [pc |-> "gone", tid |-> None]
Waiting == [pc |-> "waiting", tid |-> None]

ETypeOK ==
  /\ trade \in [Trades -> {"absent", "unsent", "claimed"}]
  /\ phase \in [Processes -> Phase]
  /\ queue \in [Processes -> Seq(Trades)]
  /\ unfinished \in [Processes -> Nat]
  /\ worker \in [WorkerIds -> WorkerState]
  /\ found \in [Processes -> SUBSET Trades]

EInit ==
  /\ trade      = [t \in Trades |-> "absent"]
  /\ phase      = [p \in Processes |-> "down"]
  /\ queue      = [p \in Processes |-> <<>>]
  /\ unfinished = [p \in Processes |-> 0]
  /\ worker     = [w \in WorkerIds |-> Gone]
  /\ found      = [p \in Processes |-> {}]
-----------------------------------------------------------------------------
\* Mutant: resume_pending does not look at submitted_at.
Unsent_OrClaimed == {t \in Trades : trade[t] # "absent"}

\* PENDING with submitted_at NULL.
Unsent == {t \in Trades : trade[t] = "unsent"}

\* put_nowait one id after the other; QueueFull drops the rest.
Offer(p, ids) ==
  LET room == QueueSize - Len(queue[p])
      kept == SubSeq(ids, 1, IF Len(ids) < room THEN Len(ids) ELSE room)
  IN /\ queue'      = [queue EXCEPT ![p] = @ \o kept]
     /\ unfinished' = [unfinished EXCEPT ![p] = @ + Len(kept)]

\* start(): a new process has an empty queue and its workers wait.  Only a
\* process that has reached the database goes on to resume_pending.
start(p, database_up) ==
  /\ phase[p] = "down"
  /\ phase' = [phase EXCEPT ![p] = IF database_up THEN "starting" ELSE "serving"]
  /\ queue' = [queue EXCEPT ![p] = <<>>]
  /\ unfinished' = [unfinished EXCEPT ![p] = 0]
  /\ worker' = [w \in WorkerIds |-> IF w[1] = p THEN Waiting ELSE worker[w]]
  /\ UNCHANGED <<trade, found>>

\* The smallest ids, as ORDER BY id LIMIT maxsize reads them.
Smallest(S, n) == {t \in S : Cardinality({u \in S : u < t}) < n}

\* The one list of S in ascending order.
Ascending(S) ==
  {s \in [1..Cardinality(S) -> S] : \A i, j \in DOMAIN s : i < j => s[i] < s[j]}

\* resume_pending: the query, and after its session is closed the puts.
resume_select(p) ==
  /\ phase[p] = "starting"
  /\ phase' = [phase EXCEPT ![p] = "resuming"]
  /\ found' = [found EXCEPT ![p] = Smallest(Unsent, QueueSize)]
  /\ UNCHANGED <<trade, queue, unfinished, worker>>

resume_enqueue(p) ==
  /\ phase[p] = "resuming"
  /\ phase' = [phase EXCEPT ![p] = "serving"]
  /\ \E ids \in Ascending(found[p]) : Offer(p, ids)
  /\ found' = [found EXCEPT ![p] = {}]
  /\ UNCHANGED <<trade, worker>>

(* A webhook request commits a trade and submits its id.  The request may  *)
(* end in between: its commit is applied but reported as an error, or the  *)
(* process is killed.                                                      *)
process_signal(p, t) ==
  /\ phase[p] = "serving"
  /\ trade[t] = "absent"
  /\ \A u \in Trades : trade[u] # "absent" => u < t
  /\ trade' = [trade EXCEPT ![t] = "unsent"]
  /\ Offer(p, <<t>>) \/ UNCHANGED <<queue, unfinished>>
  /\ UNCHANGED <<phase, worker, found>>
-----------------------------------------------------------------------------
(* Workers.  They run from start() until stop() cancels them.              *)

Running(p) == phase[p] \in {"starting", "resuming", "serving", "joining"}

\* Mutant: the item counts as done when it is taken.
get_CountsAsDone(p, i) ==
  /\ Running(p)
  /\ worker[<<p, i>>].pc = "waiting"
  /\ queue[p] # <<>>
  /\ worker' = [worker EXCEPT ![<<p, i>>] = [pc |-> "got", tid |-> Head(queue[p])]]
  /\ queue' = [queue EXCEPT ![p] = Tail(@)]
  /\ unfinished' = [unfinished EXCEPT ![p] = @ - 1]
  /\ UNCHANGED <<trade, phase, found>>

get(p, i) ==
  /\ Running(p)
  /\ worker[<<p, i>>].pc = "waiting"
  /\ queue[p] # <<>>
  /\ worker' = [worker EXCEPT ![<<p, i>>] = [pc |-> "got", tid |-> Head(queue[p])]]
  /\ queue' = [queue EXCEPT ![p] = Tail(@)]
  /\ UNCHANGED <<trade, phase, unfinished, found>>

\* task_done in the finally clause, on every way out of the item.
Done(p, i) ==
  /\ worker' = [worker EXCEPT ![<<p, i>>] = Waiting]
  /\ unfinished' = [unfinished EXCEPT ![p] = @ - 1]

\* Mutant: the worker submits what it got without claiming it.
claim_Unchecked(p, i) ==
  /\ Running(p)
  /\ worker[<<p, i>>].pc = "got"
  /\ trade' = [trade EXCEPT ![worker[<<p, i>>].tid] = "claimed"]
  /\ worker' = [worker EXCEPT ![<<p, i>>].pc = "submitting"]
  /\ UNCHANGED <<phase, queue, unfinished, found>>

\* The claim wins...
claim(p, i) ==
  /\ Running(p)
  /\ worker[<<p, i>>].pc = "got"
  /\ trade[worker[<<p, i>>].tid] = "unsent"
  /\ trade' = [trade EXCEPT ![worker[<<p, i>>].tid] = "claimed"]
  /\ worker' = [worker EXCEPT ![<<p, i>>].pc = "submitting"]
  /\ UNCHANGED <<phase, queue, unfinished, found>>

\* ... or finds the trade claimed by somebody else.
already_claimed(p, i) ==
  /\ Running(p)
  /\ worker[<<p, i>>].pc = "got"
  /\ trade[worker[<<p, i>>].tid] # "unsent"
  /\ Done(p, i)
  /\ UNCHANGED <<trade, phase, queue, found>>

\* The claim's commit raises, having been applied or not.
ClaimInterrupted(t) ==
  \/ UNCHANGED trade
  \/ trade[t] = "unsent" /\ trade' = [trade EXCEPT ![t] = "claimed"]

\* Mutant: task_done is skipped when the execution raises.
claim_raises_NotDone(p, i) ==
  /\ Running(p)
  /\ worker[<<p, i>>].pc = "got"
  /\ ClaimInterrupted(worker[<<p, i>>].tid)
  /\ worker' = [worker EXCEPT ![<<p, i>>] = Waiting]
  /\ UNCHANGED <<phase, queue, unfinished, found>>

claim_raises(p, i) ==
  /\ Running(p)
  /\ worker[<<p, i>>].pc = "got"
  /\ ClaimInterrupted(worker[<<p, i>>].tid)
  /\ Done(p, i)
  /\ UNCHANGED <<phase, queue, found>>

\* submit_to_binance returns or raises; a worker never dies of it.
finish(p, i) ==
  /\ Running(p)
  /\ worker[<<p, i>>].pc = "submitting"
  /\ Done(p, i)
  /\ UNCHANGED <<trade, phase, queue, found>>
-----------------------------------------------------------------------------
(* stop(), and the other way to end.                                       *)

stop(p) ==
  /\ phase[p] = "serving"
  /\ phase' = [phase EXCEPT ![p] = "joining"]
  /\ UNCHANGED <<trade, queue, unfinished, worker, found>>

\* wait_for(queue.join(), drain_timeout)
join(p) ==
  /\ phase[p] = "joining"
  /\ \/ unfinished[p] = 0 /\ phase' = [phase EXCEPT ![p] = "drained"]
     \/ phase' = [phase EXCEPT ![p] = "expired"]
  /\ UNCHANGED <<trade, queue, unfinished, worker, found>>

\* CancelledError at whatever the worker awaits; finally runs.
cancel(p, i) ==
  /\ phase[p] \in {"drained", "expired"}
  /\ worker[<<p, i>>].pc # "gone"
  /\ worker' = [worker EXCEPT ![<<p, i>>] = Gone]
  /\ IF worker[<<p, i>>].pc = "waiting" THEN UNCHANGED unfinished
     ELSE unfinished' = [unfinished EXCEPT ![p] = @ - 1]
  /\ IF worker[<<p, i>>].pc = "got" THEN ClaimInterrupted(worker[<<p, i>>].tid)
     ELSE UNCHANGED trade
  /\ UNCHANGED <<phase, queue, found>>

\* gather() returns and the process ends.
stopped(p) ==
  /\ phase[p] \in {"drained", "expired"}
  /\ \A i \in Workers : worker[<<p, i>>].pc = "gone"
  /\ phase' = [phase EXCEPT ![p] = "down"]
  /\ UNCHANGED <<trade, queue, unfinished, worker, found>>

\* The process is killed: its memory is gone.
crash(p) ==
  /\ phase[p] # "down"
  /\ phase' = [phase EXCEPT ![p] = "down"]
  /\ queue' = [queue EXCEPT ![p] = <<>>]
  /\ unfinished' = [unfinished EXCEPT ![p] = 0]
  /\ worker' = [w \in WorkerIds |-> IF w[1] = p THEN Gone ELSE worker[w]]
  /\ found' = [found EXCEPT ![p] = {}]
  /\ UNCHANGED trade

WorkerStep(p, i) ==
  get(p, i) \/ claim(p, i) \/ already_claimed(p, i) \/ claim_raises(p, i) \/ finish(p, i)

ENext ==
  \E p \in Processes :
    \/ \E up \in BOOLEAN : start(p, up)
    \/ resume_select(p) \/ resume_enqueue(p)
    \/ \E t \in Trades : process_signal(p, t)
    \/ \E i \in Workers : WorkerStep(p, i) \/ cancel(p, i)
    \/ stop(p) \/ join(p) \/ stopped(p) \/ crash(p)

ESpec == EInit /\ [][ENext]_execVars

(* One process is restarted now and then (a deploy, a platform restart)    *)
(* and finds the database up now and then; its workers and its stop() make *)
(* progress; starting, taking an id and claiming succeed now and then,     *)
(* although any one try may be cut short by a crash or an error.  Nothing  *)
(* is assumed of the others, which may die, hang or be lost for good.      *)
Fairness ==
  \A p \in Restarted :
    /\ SF_execVars(start(p, TRUE))
    /\ SF_execVars(resume_select(p))
    /\ SF_execVars(resume_enqueue(p))
    /\ WF_execVars(stop(p) \/ crash(p))
    /\ WF_execVars(join(p))
    /\ WF_execVars(stopped(p))
    /\ \A i \in Workers :
         /\ SF_execVars(get(p, i))
         /\ SF_execVars(claim(p, i))
         /\ WF_execVars(already_claimed(p, i) \/ finish(p, i))
         /\ WF_execVars(cancel(p, i))

ELiveSpec == ESpec /\ Fairness
-----------------------------------------------------------------------------
(* Properties                                                              *)

Busy(p) == {i \in Workers : worker[<<p, i>>].pc \in {"got", "submitting"}}

(* The queue's own count is right whatever an item ran into: errors, lost  *)
(* claims and cancellation all pass through task_done exactly once.        *)
UnfinishedCounts ==
  \A p \in Processes : unfinished[p] = Len(queue[p]) + Cardinality(Busy(p))

(* A stop that did not time out has really finished the queued work:       *)
(* nothing waits and no worker is cancelled in the middle of a trade.      *)
DrainedMeansDone ==
  \A p \in Processes : phase[p] = "drained" => queue[p] = <<>> /\ Busy(p) = {}

(* However often an id is queued, and in however many processes, no two    *)
(* workers submit the same trade.                                          *)
Submitting(w, t) == worker[w].pc = "submitting" /\ worker[w].tid = t

OneSubmitter ==
  \A t \in Trades : \A v, w \in WorkerIds :
    Submitting(v, t) /\ Submitting(w, t) => v = w

(* "Losing the queue costs latency, never correctness": a committed trade  *)
(* is claimed in the end, through however many restarts it takes.          *)
EveryTradeGoesOut ==
  \A t \in Trades : trade[t] = "unsent" ~> trade[t] = "claimed"
=============================================================================
