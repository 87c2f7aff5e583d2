------------------------ MODULE TradeExecutorProofs ------------------------
(***************************************************************************)
(* TradeExecutor for any number of processes, workers and trades and any   *)
(* size of the queue: types, the queue's count of unfinished items, what a *)
(* drained queue means, and at most one submitter per trade.               *)
(***************************************************************************)
EXTENDS TradeExecutor, FiniteSetTheorems, TLAPS

(* The inductive invariant.                                                *)

\* put_nowait never goes past maxsize.
QueueBounded == \A p \in Processes : Len(queue[p]) <= QueueSize

\* A worker at an item has its trade.
BusyHasTrade ==
  \A w \in WorkerIds : worker[w].pc \in {"got", "submitting"} => worker[w].tid \in Trades

\* A worker submits only behind a claim, and no claim is ever taken back.
SubmittingIsClaimed ==
  \A w \in WorkerIds : worker[w].pc = "submitting" => trade[worker[w].tid] = "claimed"

EIInv ==
  /\ ETypeOK
  /\ QueueBounded
  /\ BusyHasTrade
  /\ SubmittingIsClaimed
  /\ UnfinishedCounts
  /\ DrainedMeansDone
  /\ OneSubmitter
-----------------------------------------------------------------------------
(* What the helpers do.                                                    *)

\* put_nowait, as often as there is room: the queue and its count grow by
\* the same number of ids.
LEMMA OfferGrowsBoth ==
  ASSUME ETypeOK, QueueBounded, NEW p \in Processes, NEW n \in Nat,
         NEW ids \in [1..n -> Trades], Offer(p, ids)
  PROVE  /\ queue' \in [Processes -> Seq(Trades)]
         /\ unfinished' \in [Processes -> Nat]
         /\ Len(queue'[p]) <= QueueSize
         /\ \E k \in Nat : /\ unfinished'[p] = unfinished[p] + k
                           /\ Len(queue'[p]) = Len(queue[p]) + k
         /\ \A q \in Processes \ {p} :
              queue'[q] = queue[q] /\ unfinished'[q] = unfinished[q]
<1> DEFINE room == QueueSize - Len(queue[p])
           m == IF Len(ids) < room THEN Len(ids) ELSE room
           kept == SubSeq(ids, 1, m)
<1>1. queue[p] \in Seq(Trades) /\ Len(queue[p]) \in Nat /\ unfinished[p] \in Nat
  BY DEF ETypeOK
<1>2. room \in Nat
  BY <1>1, ExecutorAssumption DEF QueueBounded
<1>3. ids \in Seq(Trades) /\ Len(ids) = n
  OBVIOUS
<1>4. m \in Nat /\ m <= n /\ m <= room
  BY <1>2, <1>3
<1>5. kept \in Seq(Trades) /\ Len(kept) = m
  <2> HIDE DEF m
  <2> QED BY <1>3, <1>4
<1>6. /\ queue' = [queue EXCEPT ![p] = @ \o kept]
      /\ unfinished' = [unfinished EXCEPT ![p] = @ + Len(kept)]
  BY DEF Offer
<1> HIDE DEF kept, m
<1>7. queue[p] \o kept \in Seq(Trades) /\ Len(queue[p] \o kept) = Len(queue[p]) + m
  <2>1. \A s, u \in Seq(Trades) : s \o u \in Seq(Trades) /\ Len(s \o u) = Len(s) + Len(u)
    OBVIOUS
  <2> QED BY <1>1, <1>5, <2>1
<1>8. queue'[p] = queue[p] \o kept /\ unfinished'[p] = unfinished[p] + m
  BY <1>5, <1>6 DEF ETypeOK
<1>9. queue' \in [Processes -> Seq(Trades)] /\ unfinished' \in [Processes -> Nat]
  BY <1>1, <1>4, <1>5, <1>6, <1>7 DEF ETypeOK
<1>10. Len(queue'[p]) <= QueueSize
  BY <1>1, <1>2, <1>4, <1>7, <1>8, ExecutorAssumption
<1>11. unfinished'[p] = unfinished[p] + m /\ Len(queue'[p]) = Len(queue[p]) + m
  BY <1>7, <1>8
<1> QED BY <1>4, <1>6, <1>9, <1>10, <1>11 DEF ETypeOK

\* The workers at an item are finitely many.
LEMMA BusyFinite ==
  ASSUME NEW p
  PROVE  IsFiniteSet(Busy(p)) /\ Cardinality(Busy(p)) \in Nat
BY ExecutorAssumption, FS_Subset, FS_CardinalityType DEF Busy

\* A step of one worker leaves the others alone.
OnlyWorker(p, i, new) ==
  /\ worker' \in [WorkerIds -> WorkerState]
  /\ worker'[<<p, i>>] = new
  /\ \A w \in WorkerIds : w # <<p, i>> => worker'[w] = worker[w]

LEMMA OneWorkerChanges ==
  ASSUME ETypeOK, NEW p \in Processes, NEW i \in Workers, NEW new \in WorkerState,
         worker' = [worker EXCEPT ![<<p, i>>] = new]
  PROVE  OnlyWorker(p, i, new)
<1>1. <<p, i>> \in WorkerIds
  BY DEF WorkerIds
<1> QED BY <1>1 DEF ETypeOK, OnlyWorker

LEMMA OthersStayBusy ==
  ASSUME NEW p \in Processes, NEW i \in Workers, NEW new, OnlyWorker(p, i, new)
  PROVE  /\ \A q \in Processes \ {p} : Busy(q)' = Busy(q)
         /\ Busy(p)' \ {i} = Busy(p) \ {i}
         /\ i \in Busy(p)' <=> new.pc \in {"got", "submitting"}
BY DEF Busy, OnlyWorker, WorkerIds

\* One more worker is at an item, or one less.
LEMMA BusyGrows ==
  ASSUME NEW p \in Processes, NEW i \in Workers, NEW new, OnlyWorker(p, i, new),
         i \notin Busy(p), new.pc \in {"got", "submitting"}
  PROVE  Cardinality(Busy(p)') = Cardinality(Busy(p)) + 1
<1>1. Busy(p)' = Busy(p) \cup {i}
  BY OthersStayBusy
<1>2. IsFiniteSet(Busy(p))
  BY BusyFinite
<1> QED BY <1>1, <1>2, FS_AddElement

LEMMA BusyShrinks ==
  ASSUME NEW p \in Processes, NEW i \in Workers, NEW new, OnlyWorker(p, i, new),
         i \in Busy(p), new.pc \notin {"got", "submitting"}
  PROVE  /\ Cardinality(Busy(p)') \in Nat
         /\ Cardinality(Busy(p)) = Cardinality(Busy(p)') + 1
<1>1. Busy(p)' = Busy(p) \ {i}
  BY OthersStayBusy
<1>2. IsFiniteSet(Busy(p)) /\ Cardinality(Busy(p)) \in Nat
  BY BusyFinite
<1>3. IsFiniteSet(Busy(p)') /\ Cardinality(Busy(p)') = Cardinality(Busy(p)) - 1
  BY <1>1, <1>2, FS_RemoveElement
<1>4. Cardinality(Busy(p)') \in Nat
  BY <1>3, FS_CardinalityType
<1> QED BY <1>2, <1>3, <1>4
-----------------------------------------------------------------------------
(* The steps of a process.                                                 *)

\* What the invariant says of workers and trades, apart from the queues.
WorkersRight == BusyHasTrade /\ SubmittingIsClaimed /\ OneSubmitter

\* It survives every step in which trades go forward and no worker begins
\* to submit.
LEMMA NobodyBeginsToSubmit ==
  ASSUME ETypeOK, WorkersRight, worker' \in [WorkerIds -> WorkerState],
         \A t \in Trades : trade[t] = "claimed" => trade'[t] = "claimed",
         \A w \in WorkerIds : \/ worker'[w] = worker[w]
                              \/ worker'[w].pc \in {"gone", "waiting"}
                              \/ worker'[w].pc = "got" /\ worker'[w].tid \in Trades
  PROVE  WorkersRight'
<1>1. BusyHasTrade'
  BY DEF WorkersRight, BusyHasTrade
<1>2. \A w \in WorkerIds : worker'[w].pc = "submitting" => worker'[w] = worker[w]
  OBVIOUS
<1>3. SubmittingIsClaimed'
  BY <1>2 DEF WorkersRight, BusyHasTrade, SubmittingIsClaimed
<1>4. OneSubmitter'
  BY <1>2 DEF WorkersRight, OneSubmitter, Submitting
<1> QED BY <1>1, <1>3, <1>4 DEF WorkersRight

\* start(), crash: the process begins again, or ends, with an empty queue.
LEMMA RestartPreservesEIInv ==
  ASSUME EIInv, NEW p \in Processes, NEW ph \in Phase \ {"drained"},
         NEW idle \in {Waiting, Gone},
         phase' = [phase EXCEPT ![p] = ph],
         queue' = [queue EXCEPT ![p] = <<>>],
         unfinished' = [unfinished EXCEPT ![p] = 0],
         worker' = [w \in WorkerIds |-> IF w[1] = p THEN idle ELSE worker[w]],
         found' \in [Processes -> SUBSET Trades],
         UNCHANGED trade
  PROVE  EIInv'
<1>1. idle \in WorkerState /\ idle.pc \in {"gone", "waiting"}
  BY DEF Waiting, Gone, WorkerState
<1>2. worker' \in [WorkerIds -> WorkerState]
  BY <1>1 DEF EIInv, ETypeOK
<1>3. <<>> \in Seq(Trades) /\ Len(<<>>) = 0
  OBVIOUS
<1>4. ETypeOK'
  BY <1>2, <1>3 DEF EIInv, ETypeOK
<1>5. QueueBounded'
  BY <1>3, ExecutorAssumption DEF EIInv, ETypeOK, QueueBounded
<1>6. WorkersRight'
  BY <1>1, <1>2, NobodyBeginsToSubmit DEF EIInv, WorkersRight
<1>7. Busy(p)' = {} /\ \A q \in Processes \ {p} : Busy(q)' = Busy(q)
  <2>1. \A q \in Processes, i \in Workers :
          worker'[<<q, i>>] = IF q = p THEN idle ELSE worker[<<q, i>>]
    BY DEF WorkerIds
  <2> QED BY <1>1, <2>1 DEF Busy
<1>8. UnfinishedCounts'
  <2>1. SUFFICES ASSUME NEW q \in Processes
                 PROVE  unfinished'[q] = Len(queue'[q]) + Cardinality(Busy(q)')
    BY DEF UnfinishedCounts
  <2>2. CASE q = p
    <3>1. queue'[q] = <<>> /\ unfinished'[q] = 0
      BY <2>2 DEF EIInv, ETypeOK
    <3>2. Cardinality(Busy(q)') = 0
      BY <1>7, <2>2, FS_EmptySet
    <3> QED BY <3>1, <3>2
  <2>3. CASE q # p
    <3>1. queue'[q] = queue[q] /\ unfinished'[q] = unfinished[q]
      BY <2>3 DEF EIInv, ETypeOK
    <3> QED BY <1>7, <2>3, <3>1 DEF EIInv, UnfinishedCounts
  <2> QED BY <2>2, <2>3
<1>9. DrainedMeansDone'
  BY <1>7 DEF EIInv, ETypeOK, DrainedMeansDone
<1> QED BY <1>4, <1>5, <1>6, <1>8, <1>9 DEF EIInv, WorkersRight

\* Steps of lifespan that touch neither queue nor workers.  The count is
\* what stop() goes by when it takes the queue for drained.
LEMMA PhasePreservesEIInv ==
  ASSUME EIInv, NEW p \in Processes, NEW ph \in Phase,
         ph = "drained" => unfinished[p] = 0,
         phase' = [phase EXCEPT ![p] = ph],
         found' \in [Processes -> SUBSET Trades],
         UNCHANGED <<trade, queue, unfinished, worker>>
  PROVE  EIInv'
<1>1. ETypeOK'
  BY DEF EIInv, ETypeOK
<1>2. QueueBounded' /\ WorkersRight' /\ UnfinishedCounts'
  BY DEF EIInv, QueueBounded, WorkersRight, BusyHasTrade, SubmittingIsClaimed,
         OneSubmitter, Submitting, UnfinishedCounts, Busy
<1>3. ASSUME NEW q \in Processes, phase'[q] = "drained"
      PROVE  queue[q] = <<>> /\ Busy(q) = {}
  <2>1. CASE q # p
    BY <1>3, <2>1 DEF EIInv, ETypeOK, DrainedMeansDone
  <2>2. CASE q = p
    <3>1. Len(queue[p]) + Cardinality(Busy(p)) = 0
      BY <1>3, <2>2 DEF EIInv, ETypeOK, UnfinishedCounts
    <3>2. queue[p] \in Seq(Trades)
      BY DEF EIInv, ETypeOK
    <3>3. Len(queue[p]) = 0 /\ Cardinality(Busy(p)) = 0
      BY <3>1, <3>2, BusyFinite
    <3> QED BY <2>2, <3>2, <3>3, BusyFinite, FS_EmptySet
  <2> QED BY <2>1, <2>2
<1>4. DrainedMeansDone'
  BY <1>3 DEF DrainedMeansDone, Busy
<1> QED BY <1>1, <1>2, <1>4 DEF EIInv, WorkersRight

\* resume_pending and the webhook put ids into the queue of a process that
\* is not draining.
LEMMA OfferPreservesEIInv ==
  ASSUME EIInv, NEW p \in Processes, NEW n \in Nat, NEW ids \in [1..n -> Trades],
         Offer(p, ids) \/ UNCHANGED <<queue, unfinished>>,
         phase'[p] # "drained",
         \A q \in Processes \ {p} : phase'[q] = phase[q],
         ETypeOK => phase' \in [Processes -> Phase],
         trade' \in [Trades -> {"absent", "unsent", "claimed"}],
         \A t \in Trades : trade[t] = "claimed" => trade'[t] = "claimed",
         found' \in [Processes -> SUBSET Trades],
         UNCHANGED worker
  PROVE  EIInv'
<1>1. /\ queue' \in [Processes -> Seq(Trades)]
      /\ unfinished' \in [Processes -> Nat]
      /\ Len(queue'[p]) <= QueueSize
      /\ \E k \in Nat : /\ unfinished'[p] = unfinished[p] + k
                        /\ Len(queue'[p]) = Len(queue[p]) + k
      /\ \A q \in Processes \ {p} :
           queue'[q] = queue[q] /\ unfinished'[q] = unfinished[q]
  <2>1. CASE Offer(p, ids)
    BY <2>1, OfferGrowsBoth DEF EIInv
  <2>2. CASE UNCHANGED <<queue, unfinished>>
    <3>1. Len(queue[p]) \in Nat /\ unfinished[p] \in Nat
      BY DEF EIInv, ETypeOK
    <3> QED BY <2>2, <3>1 DEF EIInv, ETypeOK, QueueBounded
  <2> QED BY <2>1, <2>2
<1>2. ETypeOK'
  BY <1>1 DEF EIInv, ETypeOK
<1>3. QueueBounded'
  BY <1>1 DEF EIInv, QueueBounded
<1>4. WorkersRight'
  BY NobodyBeginsToSubmit DEF EIInv, ETypeOK, WorkersRight
<1>5. \A q \in Processes : Busy(q)' = Busy(q)
  BY DEF Busy
<1>6. UnfinishedCounts'
  <2>1. SUFFICES ASSUME NEW q \in Processes
                 PROVE  unfinished'[q] = Len(queue'[q]) + Cardinality(Busy(q))
    BY <1>5 DEF UnfinishedCounts
  <2>2. unfinished[q] = Len(queue[q]) + Cardinality(Busy(q))
    BY DEF EIInv, UnfinishedCounts
  <2>3. /\ Len(queue[q]) \in Nat /\ Len(queue'[q]) \in Nat
        /\ unfinished[q] \in Nat /\ unfinished'[q] \in Nat
    BY <1>1 DEF EIInv, ETypeOK
  <2> DEFINE n0 == Cardinality(Busy(q))
  <2>6. n0 \in Nat
    BY BusyFinite
  <2> HIDE DEF n0
  <2>4. CASE q = p
    <3>1. unfinished[q] = Len(queue[q]) + n0
      BY <2>2 DEF n0
    <3>2. PICK k \in Nat : /\ unfinished'[q] = unfinished[q] + k
                           /\ Len(queue'[q]) = Len(queue[q]) + k
      BY <1>1, <2>4
    <3>3. unfinished'[q] = Len(queue'[q]) + n0
      BY <2>3, <2>6, <3>1, <3>2
    <3> QED BY <3>3 DEF n0
  <2>5. CASE q # p
    BY <1>1, <2>2, <2>5
  <2> QED BY <2>4, <2>5
<1>7. DrainedMeansDone'
  BY <1>1, <1>5 DEF EIInv, DrainedMeansDone
<1> QED BY <1>2, <1>3, <1>4, <1>6, <1>7 DEF EIInv, WorkersRight
-----------------------------------------------------------------------------
(* The steps of a worker.                                                  *)

\* A claim, or one cut short, takes trades forward.
LEMMA ClaimGoesForward ==
  ASSUME ETypeOK, NEW t \in Trades,
         ClaimInterrupted(t) \/ trade' = [trade EXCEPT ![t] = "claimed"]
  PROVE  /\ trade' \in [Trades -> {"absent", "unsent", "claimed"}]
         /\ \A u \in Trades : trade[u] = "claimed" => trade'[u] = "claimed"
BY DEF ClaimInterrupted, ETypeOK

\* A worker takes the oldest id.
LEMMA GetPreservesEIInv ==
  ASSUME EIInv, NEW p \in Processes, NEW i \in Workers, get(p, i)
  PROVE  EIInv'
<1> DEFINE new == [pc |-> "got", tid |-> Head(queue[p])]
<1>1. /\ Running(p) /\ worker[<<p, i>>].pc = "waiting" /\ queue[p] # <<>>
      /\ worker' = [worker EXCEPT ![<<p, i>>] = new]
      /\ queue' = [queue EXCEPT ![p] = Tail(@)]
      /\ UNCHANGED <<trade, phase, unfinished, found>>
  BY DEF get
<1>2. queue[p] \in Seq(Trades)
  BY DEF EIInv, ETypeOK
<1>3. /\ Head(queue[p]) \in Trades
      /\ Tail(queue[p]) \in Seq(Trades)
      /\ Len(Tail(queue[p])) = Len(queue[p]) - 1
      /\ Len(queue[p]) \in Nat
  BY <1>1, <1>2
<1>4. new \in WorkerState /\ new.pc = "got" /\ new.tid \in Trades
  BY <1>3 DEF WorkerState
<1> HIDE DEF new
<1>5. i \notin Busy(p)
  BY <1>1 DEF Busy
<1>6. /\ worker' \in [WorkerIds -> WorkerState]
      /\ worker'[<<p, i>>] = new
      /\ \A w \in WorkerIds : w # <<p, i>> => worker'[w] = worker[w]
      /\ \A q \in Processes \ {p} : Busy(q)' = Busy(q)
      /\ Cardinality(Busy(p)') = Cardinality(Busy(p)) + 1
  <2>1. OnlyWorker(p, i, new)
    BY <1>1, <1>4, OneWorkerChanges DEF EIInv
  <2>2. new.pc \in {"got", "submitting"}
    BY <1>4
  <2>3. Cardinality(Busy(p)') = Cardinality(Busy(p)) + 1
    BY <1>5, <2>1, <2>2, BusyGrows
  <2> QED BY <2>1, <2>3, OthersStayBusy DEF OnlyWorker
<1>7. /\ queue' \in [Processes -> Seq(Trades)]
      /\ queue'[p] = Tail(queue[p])
      /\ \A q \in Processes \ {p} : queue'[q] = queue[q]
  BY <1>1, <1>3 DEF EIInv, ETypeOK
<1>8. ETypeOK'
  BY <1>1, <1>6, <1>7 DEF EIInv, ETypeOK
<1>9. QueueBounded'
  <2>1. Len(queue'[p]) <= QueueSize
    BY <1>3, <1>7, ExecutorAssumption DEF EIInv, QueueBounded
  <2> QED BY <1>7, <2>1 DEF EIInv, QueueBounded
<1>10. WorkersRight'
  BY <1>1, <1>4, <1>6, NobodyBeginsToSubmit DEF EIInv, WorkersRight
<1>11. UnfinishedCounts'
  <2>1. SUFFICES ASSUME NEW q \in Processes
                 PROVE  unfinished[q] = Len(queue'[q]) + Cardinality(Busy(q)')
    BY <1>1 DEF UnfinishedCounts
  <2>2. unfinished[q] = Len(queue[q]) + Cardinality(Busy(q))
    BY DEF EIInv, UnfinishedCounts
  <2>3. CASE q = p
    <3>1. Cardinality(Busy(p)) \in Nat
      BY BusyFinite
    <3> QED BY <1>3, <1>6, <1>7, <2>2, <2>3, <3>1
  <2>4. CASE q # p
    BY <1>6, <1>7, <2>2, <2>4
  <2> QED BY <2>3, <2>4
<1>12. DrainedMeansDone'
  BY <1>1, <1>6, <1>7 DEF EIInv, DrainedMeansDone, Running
<1> QED BY <1>8, <1>9, <1>10, <1>11, <1>12 DEF EIInv, WorkersRight

\* task_done: one item less to be counted, one worker less at an item.
LEMMA DonePreservesEIInv ==
  ASSUME EIInv, NEW p \in Processes, NEW i \in Workers, NEW idle \in {Waiting, Gone},
         i \in Busy(p),
         worker' = [worker EXCEPT ![<<p, i>>] = idle],
         unfinished' = [unfinished EXCEPT ![p] = @ - 1],
         trade' \in [Trades -> {"absent", "unsent", "claimed"}],
         \A t \in Trades : trade[t] = "claimed" => trade'[t] = "claimed",
         UNCHANGED <<phase, queue, found>>
  PROVE  EIInv'
<1>1. idle \in WorkerState /\ idle.pc \in {"gone", "waiting"}
  BY DEF Waiting, Gone, WorkerState
<1>2. /\ worker' \in [WorkerIds -> WorkerState]
      /\ worker'[<<p, i>>] = idle
      /\ \A w \in WorkerIds : w # <<p, i>> => worker'[w] = worker[w]
      /\ \A q \in Processes \ {p} : Busy(q)' = Busy(q)
      /\ Cardinality(Busy(p)') \in Nat
      /\ Cardinality(Busy(p)) = Cardinality(Busy(p)') + 1
  <2>1. OnlyWorker(p, i, idle)
    BY <1>1, OneWorkerChanges DEF EIInv
  <2>2. idle.pc \notin {"got", "submitting"}
    BY <1>1
  <2>3. Cardinality(Busy(p)') \in Nat /\ Cardinality(Busy(p)) = Cardinality(Busy(p)') + 1
    BY <2>1, <2>2, BusyShrinks
  <2> QED BY <2>1, <2>3, OthersStayBusy DEF OnlyWorker
<1>3. Cardinality(Busy(p)) \in Nat \ {0}
  BY BusyFinite, FS_EmptySet
<1>4. /\ unfinished[p] = Len(queue[p]) + Cardinality(Busy(p))
      /\ Len(queue[p]) \in Nat
  BY DEF EIInv, ETypeOK, UnfinishedCounts
<1>5. unfinished[p] - 1 \in Nat
  BY <1>3, <1>4
<1>6. ETypeOK'
  BY <1>2, <1>5 DEF EIInv, ETypeOK
<1>7. QueueBounded'
  BY DEF EIInv, QueueBounded
<1>8. WorkersRight'
  BY <1>1, <1>2, NobodyBeginsToSubmit DEF EIInv, WorkersRight
<1>9. UnfinishedCounts'
  <2>1. SUFFICES ASSUME NEW q \in Processes
                 PROVE  unfinished'[q] = Len(queue[q]) + Cardinality(Busy(q)')
    BY DEF UnfinishedCounts
  <2>2. CASE q = p
    <3>1. unfinished'[p] = unfinished[p] - 1
      BY DEF EIInv, ETypeOK
    <3> QED BY <1>2, <1>3, <1>4, <2>2, <3>1
  <2>3. CASE q # p
    <3>1. unfinished'[q] = unfinished[q]
      BY <2>3 DEF EIInv, ETypeOK
    <3> QED BY <1>2, <2>3, <3>1 DEF EIInv, UnfinishedCounts
  <2> QED BY <2>2, <2>3
<1>10. DrainedMeansDone'
  BY <1>2 DEF EIInv, DrainedMeansDone
<1> QED BY <1>6, <1>7, <1>8, <1>9, <1>10 DEF EIInv, WorkersRight

\* The claim: nobody else can be submitting a trade that was not claimed.
LEMMA ClaimPreservesEIInv ==
  ASSUME EIInv, NEW p \in Processes, NEW i \in Workers, claim(p, i)
  PROVE  EIInv'
<1> DEFINE t == worker[<<p, i>>].tid
           new == [worker[<<p, i>>] EXCEPT !.pc = "submitting"]
<1>1. /\ Running(p) /\ worker[<<p, i>>].pc = "got" /\ trade[t] = "unsent"
      /\ trade' = [trade EXCEPT ![t] = "claimed"]
      /\ worker' = [worker EXCEPT ![<<p, i>>] = new]
      /\ UNCHANGED <<phase, queue, unfinished, found>>
  BY DEF claim
<1>2. <<p, i>> \in WorkerIds
  BY DEF WorkerIds
<1>3. t \in Trades
  BY <1>1, <1>2 DEF EIInv, BusyHasTrade
<1>4. new \in WorkerState /\ new.pc = "submitting" /\ new.tid = t
  BY <1>2 DEF EIInv, ETypeOK, WorkerState
<1> HIDE DEF new
<1>5. i \in Busy(p)
  BY <1>1 DEF Busy
<1>6. /\ worker' \in [WorkerIds -> WorkerState]
      /\ worker'[<<p, i>>] = new
      /\ \A w \in WorkerIds : w # <<p, i>> => worker'[w] = worker[w]
      /\ \A q \in Processes : Busy(q)' = Busy(q)
  <2>1. OnlyWorker(p, i, new)
    BY <1>1, <1>4, OneWorkerChanges DEF EIInv
  <2>2. Busy(p)' \ {i} = Busy(p) \ {i} /\ i \in Busy(p)'
    BY <1>4, <2>1, OthersStayBusy
  <2>3. Busy(p)' = Busy(p)
    BY <1>5, <2>2
  <2> QED BY <2>1, <2>3, OthersStayBusy DEF OnlyWorker
<1>7. /\ trade' \in [Trades -> {"absent", "unsent", "claimed"}]
      /\ trade'[t] = "claimed"
      /\ \A u \in Trades : trade[u] = "claimed" => trade'[u] = "claimed"
  BY <1>1, <1>3 DEF EIInv, ETypeOK
<1> HIDE DEF t
<1>8. ETypeOK'
  BY <1>1, <1>6, <1>7 DEF EIInv, ETypeOK
<1>9. QueueBounded' /\ UnfinishedCounts' /\ DrainedMeansDone'
  BY <1>1, <1>6 DEF EIInv, QueueBounded, UnfinishedCounts, DrainedMeansDone
<1>10. BusyHasTrade'
  BY <1>3, <1>4, <1>6 DEF EIInv, BusyHasTrade
<1>11. SubmittingIsClaimed'
  <2>1. SUFFICES ASSUME NEW w \in WorkerIds, worker'[w].pc = "submitting"
                 PROVE  trade'[worker'[w].tid] = "claimed"
    BY DEF SubmittingIsClaimed
  <2>2. CASE w = <<p, i>>
    BY <1>4, <1>6, <1>7, <2>2
  <2>3. CASE w # <<p, i>>
    BY <1>6, <1>7, <2>1, <2>3 DEF EIInv, SubmittingIsClaimed, BusyHasTrade
  <2> QED BY <2>2, <2>3
<1>12. OneSubmitter'
  <2>1. \A w \in WorkerIds : ~Submitting(w, t)
    BY <1>1 DEF EIInv, SubmittingIsClaimed, Submitting
  <2>2. \A w \in WorkerIds, u \in Trades :
          Submitting(w, u)' => Submitting(w, u) \/ (w = <<p, i>> /\ u = t)
    BY <1>4, <1>6 DEF Submitting
  <2> QED BY <2>1, <2>2 DEF EIInv, OneSubmitter
<1> QED BY <1>8, <1>9, <1>10, <1>11, <1>12 DEF EIInv

\* A worker that only waited is cancelled: nothing counts it.
LEMMA CancelWaitingPreservesEIInv ==
  ASSUME EIInv, NEW p \in Processes, NEW i \in Workers,
         i \notin Busy(p),
         worker' = [worker EXCEPT ![<<p, i>>] = Gone],
         UNCHANGED <<trade, phase, queue, unfinished, found>>
  PROVE  EIInv'
<1>1. Gone \in WorkerState /\ Gone.pc = "gone"
  BY DEF Gone, WorkerState
<1>2. OnlyWorker(p, i, Gone)
  BY <1>1, OneWorkerChanges DEF EIInv
<1>3. Busy(p)' \ {i} = Busy(p) \ {i} /\ i \notin Busy(p)'
  BY <1>1, <1>2, OthersStayBusy
<1>4. \A q \in Processes : Busy(q)' = Busy(q)
  BY <1>2, <1>3, OthersStayBusy
<1>5. WorkersRight'
  BY <1>1, <1>2, NobodyBeginsToSubmit DEF EIInv, WorkersRight, OnlyWorker
<1>6. ETypeOK'
  BY <1>2 DEF EIInv, ETypeOK, OnlyWorker
<1>7. QueueBounded' /\ UnfinishedCounts' /\ DrainedMeansDone'
  BY <1>4 DEF EIInv, QueueBounded, UnfinishedCounts, DrainedMeansDone
<1> QED BY <1>5, <1>6, <1>7 DEF EIInv, WorkersRight

\* A step of a worker, or its cancellation.
LEMMA WorkerPreservesEIInv ==
  ASSUME EIInv, NEW p \in Processes, NEW i \in Workers, WorkerStep(p, i) \/ cancel(p, i)
  PROVE  EIInv'
<1> DEFINE t == worker[<<p, i>>].tid
<1>1. <<p, i>> \in WorkerIds
  BY DEF WorkerIds
<1>2. worker[<<p, i>>].pc \in {"got", "submitting"} => i \in Busy(p) /\ t \in Trades
  BY <1>1 DEF EIInv, BusyHasTrade, Busy
<1>3. worker[<<p, i>>].pc \in {"gone", "waiting", "got", "submitting"}
  BY <1>1 DEF EIInv, ETypeOK, WorkerState
<1>4. /\ trade \in [Trades -> {"absent", "unsent", "claimed"}]
      /\ ETypeOK
  BY DEF EIInv, ETypeOK
<1>5. CASE get(p, i)
  BY <1>5, GetPreservesEIInv
<1>6. CASE claim(p, i)
  BY <1>6, ClaimPreservesEIInv
<1>7. CASE already_claimed(p, i) \/ finish(p, i)
  <2>1. /\ i \in Busy(p)
        /\ worker' = [worker EXCEPT ![<<p, i>>] = Waiting]
        /\ unfinished' = [unfinished EXCEPT ![p] = @ - 1]
        /\ UNCHANGED <<trade, phase, queue, found>>
    BY <1>2, <1>7 DEF already_claimed, finish, Done
  <2> QED BY <1>4, <2>1, DonePreservesEIInv
<1>8. CASE claim_raises(p, i)
  <2>1. /\ i \in Busy(p) /\ t \in Trades
        /\ ClaimInterrupted(t)
        /\ worker' = [worker EXCEPT ![<<p, i>>] = Waiting]
        /\ unfinished' = [unfinished EXCEPT ![p] = @ - 1]
        /\ UNCHANGED <<phase, queue, found>>
    BY <1>2, <1>8 DEF claim_raises, Done
  <2>2. /\ trade' \in [Trades -> {"absent", "unsent", "claimed"}]
        /\ \A u \in Trades : trade[u] = "claimed" => trade'[u] = "claimed"
    BY <1>4, <2>1, ClaimGoesForward
  <2> QED BY <2>1, <2>2, DonePreservesEIInv
<1>9. CASE cancel(p, i)
  <2>1. worker' = [worker EXCEPT ![<<p, i>>] = Gone] /\ UNCHANGED <<phase, queue, found>>
    BY <1>9 DEF cancel
  <2>2. CASE worker[<<p, i>>].pc = "waiting"
    <3>1. i \notin Busy(p) /\ UNCHANGED <<trade, unfinished>>
      BY <1>9, <2>2 DEF cancel, Busy
    <3> QED BY <2>1, <3>1, CancelWaitingPreservesEIInv
  <2>3. CASE worker[<<p, i>>].pc \in {"got", "submitting"}
    <3>1. i \in Busy(p) /\ t \in Trades /\ unfinished' = [unfinished EXCEPT ![p] = @ - 1]
      BY <1>2, <1>9, <2>3 DEF cancel
    <3>2. ClaimInterrupted(t) \/ UNCHANGED trade
      BY <1>9 DEF cancel
    <3>3. /\ trade' \in [Trades -> {"absent", "unsent", "claimed"}]
          /\ \A u \in Trades : trade[u] = "claimed" => trade'[u] = "claimed"
      BY <1>4, <3>1, <3>2, ClaimGoesForward
    <3> QED BY <2>1, <3>1, <3>3, DonePreservesEIInv
  <2> QED BY <1>3, <1>9, <2>2, <2>3 DEF cancel
<1> QED BY <1>5, <1>6, <1>7, <1>8, <1>9 DEF WorkerStep
-----------------------------------------------------------------------------
(* Two facts for those who put the executor to use.                        *)

\* Trades may be taken forward from outside, while queues and workers stay.
LEMMA ForwardPreservesEIInv ==
  ASSUME EIInv,
         trade' \in [Trades -> {"absent", "unsent", "claimed"}],
         \A t \in Trades : trade[t] = "claimed" => trade'[t] = "claimed",
         UNCHANGED <<phase, queue, unfinished, worker, found>>
  PROVE  EIInv'
<1>1. ETypeOK'
  BY DEF EIInv, ETypeOK
<1>2. WorkersRight'
  BY NobodyBeginsToSubmit DEF EIInv, ETypeOK, WorkersRight
<1>3. QueueBounded' /\ UnfinishedCounts' /\ DrainedMeansDone'
  BY DEF EIInv, QueueBounded, UnfinishedCounts, DrainedMeansDone, Busy
<1> QED BY <1>1, <1>2, <1>3 DEF EIInv, WorkersRight

\* A process that is down has no workers: gather() has returned, or they
\* died with it.
DownIsGone == \A p \in Processes, i \in Workers :
                phase[p] = "down" => worker[<<p, i>>].pc = "gone"

LEMMA DownStaysGone ==
  ASSUME ETypeOK, DownIsGone, [ENext]_execVars
  PROVE  DownIsGone'
<1> SUFFICES ASSUME NEW q \in Processes, NEW j \in Workers, phase'[q] = "down"
             PROVE  worker'[<<q, j>>].pc = "gone"
  BY DEF DownIsGone
<1> USE DEF ETypeOK
<1>0. <<q, j>> \in WorkerIds
  BY DEF WorkerIds
<1>1. CASE UNCHANGED execVars
  BY <1>1 DEF execVars, DownIsGone
<1>2. ASSUME NEW p \in Processes, NEW up \in BOOLEAN, start(p, up)
      PROVE  worker'[<<q, j>>].pc = "gone"
  <2>1. q # p /\ phase[q] = "down"
    BY <1>2 DEF start
  <2>2. worker'[<<q, j>>] = worker[<<q, j>>]
    BY <1>0, <1>2, <2>1 DEF start
  <2> QED BY <2>1, <2>2 DEF DownIsGone
<1>3. ASSUME NEW p \in Processes, crash(p)
      PROVE  worker'[<<q, j>>].pc = "gone"
  <2>1. worker'[<<q, j>>] = IF q = p THEN Gone ELSE worker[<<q, j>>]
    BY <1>0, <1>3 DEF crash
  <2> QED BY <1>3, <2>1 DEF crash, Gone, DownIsGone
<1>4. ASSUME NEW p \in Processes, NEW i \in Workers, WorkerStep(p, i) \/ cancel(p, i)
      PROVE  worker'[<<q, j>>].pc = "gone"
  <2>1. phase' = phase /\ phase[p] # "down"
    BY <1>4 DEF WorkerStep, get, claim, already_claimed, claim_raises, finish, cancel, Running
  <2>2. <<q, j>> # <<p, i>>
    BY <1>4, <2>1
  <2>3. worker'[<<q, j>>] = worker[<<q, j>>]
    BY <1>0, <1>4, <2>2 DEF WorkerStep, get, claim, already_claimed, claim_raises, finish,
                            cancel, Done
  <2> QED BY <2>1, <2>3 DEF DownIsGone
<1>5. ASSUME NEW p \in Processes, stopped(p)
      PROVE  worker'[<<q, j>>].pc = "gone"
  BY <1>5 DEF stopped, DownIsGone
<1>6. ASSUME NEW p \in Processes,
             \/ resume_select(p) \/ resume_enqueue(p) \/ stop(p) \/ join(p)
             \/ \E t \in Trades : process_signal(p, t)
      PROVE  worker'[<<q, j>>].pc = "gone"
  <2>1. worker' = worker /\ phase[q] = "down"
    BY <1>6 DEF resume_select, resume_enqueue, stop, join, process_signal
  <2> QED BY <2>1 DEF DownIsGone
<1> QED BY <1>1, <1>2, <1>3, <1>4, <1>5, <1>6 DEF ENext
-----------------------------------------------------------------------------
(* The theorems.                                                           *)

LEMMA EInitEstablishesEIInv ==
  ASSUME EInit
  PROVE  EIInv
<1>1. Gone \in WorkerState /\ Gone.pc = "gone"
  BY DEF Gone, WorkerState
<1>2. \A w \in WorkerIds : worker[w].pc = "gone"
  BY <1>1 DEF EInit
<1>3. ETypeOK
  BY <1>1 DEF EInit, ETypeOK, Phase
<1>4. WorkersRight
  BY <1>2 DEF WorkersRight, BusyHasTrade, SubmittingIsClaimed, OneSubmitter, Submitting
<1>5. QueueBounded
  BY ExecutorAssumption DEF EInit, QueueBounded
<1>6. \A p \in Processes : Busy(p) = {}
  BY <1>2 DEF Busy, WorkerIds
<1>7. UnfinishedCounts
  <2>1. \A p \in Processes : Cardinality(Busy(p)) = 0
    BY <1>6, FS_EmptySet
  <2>2. \A p \in Processes : Len(queue[p]) = 0 /\ unfinished[p] = 0
    BY DEF EInit
  <2> QED BY <2>1, <2>2 DEF UnfinishedCounts
<1>8. DrainedMeansDone
  BY DEF EInit, DrainedMeansDone
<1> QED BY <1>3, <1>4, <1>5, <1>7, <1>8 DEF EIInv, WorkersRight

LEMMA ENextPreservesEIInv ==
  ASSUME EIInv, [ENext]_execVars
  PROVE  EIInv'
<1> USE DEF Phase
<1>1. CASE UNCHANGED execVars
  BY <1>1 DEF execVars, EIInv, ETypeOK, QueueBounded, BusyHasTrade, SubmittingIsClaimed,
              UnfinishedCounts, DrainedMeansDone, OneSubmitter, Submitting, Busy
<1>2. ASSUME NEW p \in Processes, NEW up \in BOOLEAN, start(p, up)
      PROVE  EIInv'
  <2>1. (IF up THEN "starting" ELSE "serving") \in Phase \ {"drained"}
        /\ found' \in [Processes -> SUBSET Trades]
    BY <1>2 DEF EIInv, ETypeOK, start
  <2> QED BY <1>2, <2>1, RestartPreservesEIInv DEF start
<1>3. ASSUME NEW p \in Processes, resume_select(p)
      PROVE  EIInv'
  <2>1. Smallest(Unsent, QueueSize) \in SUBSET Trades
    BY DEF Smallest, Unsent
  <2>2. found' \in [Processes -> SUBSET Trades]
    BY <1>3, <2>1 DEF EIInv, ETypeOK, resume_select
  <2> QED BY <1>3, <2>2, PhasePreservesEIInv DEF resume_select
<1>4. ASSUME NEW p \in Processes, resume_enqueue(p)
      PROVE  EIInv'
  <2>1. PICK ids \in Ascending(found[p]) : Offer(p, ids)
    BY <1>4 DEF resume_enqueue
  <2>2. found[p] \subseteq Trades
    BY DEF EIInv, ETypeOK
  <2>3. Cardinality(found[p]) \in Nat
    BY <2>2, ExecutorAssumption, FS_Subset, FS_CardinalityType
  <2>4. ids \in [1..Cardinality(found[p]) -> Trades]
    BY <2>2 DEF Ascending
  <2>5. /\ phase'[p] = "serving"
        /\ \A q \in Processes \ {p} : phase'[q] = phase[q]
        /\ phase' \in [Processes -> Phase]
        /\ found' \in [Processes -> SUBSET Trades]
        /\ trade' \in [Trades -> {"absent", "unsent", "claimed"}]
        /\ UNCHANGED <<trade, worker>>
    BY <1>4 DEF EIInv, ETypeOK, resume_enqueue
  <2> QED BY <2>1, <2>3, <2>4, <2>5, OfferPreservesEIInv
<1>5. ASSUME NEW p \in Processes, NEW t \in Trades, process_signal(p, t)
      PROVE  EIInv'
  <2>1. <<t>> \in [1..1 -> Trades]
    OBVIOUS
  <2>2. Offer(p, <<t>>) \/ UNCHANGED <<queue, unfinished>>
    BY <1>5 DEF process_signal
  <2>3. /\ phase'[p] = "serving"
        /\ \A q \in Processes \ {p} : phase'[q] = phase[q]
        /\ phase' \in [Processes -> Phase]
        /\ found' \in [Processes -> SUBSET Trades]
        /\ trade' \in [Trades -> {"absent", "unsent", "claimed"}]
        /\ \A u \in Trades : trade[u] = "claimed" => trade'[u] = "claimed"
        /\ UNCHANGED worker
    BY <1>5 DEF EIInv, ETypeOK, process_signal
  <2> QED BY <2>1, <2>2, <2>3, OfferPreservesEIInv
<1>6. ASSUME NEW p \in Processes, NEW i \in Workers, WorkerStep(p, i) \/ cancel(p, i)
      PROVE  EIInv'
  BY <1>6, WorkerPreservesEIInv
<1>7. ASSUME NEW p \in Processes, stop(p) \/ join(p) \/ stopped(p)
      PROVE  EIInv'
  <2>1. found' \in [Processes -> SUBSET Trades]
        /\ UNCHANGED <<trade, queue, unfinished, worker>>
    BY <1>7 DEF EIInv, ETypeOK, stop, join, stopped
  <2>2. \E ph \in Phase : /\ ph = "drained" => unfinished[p] = 0
                          /\ phase' = [phase EXCEPT ![p] = ph]
    BY <1>7 DEF stop, join, stopped
  <2> QED BY <2>1, <2>2, PhasePreservesEIInv
<1>8. ASSUME NEW p \in Processes, crash(p)
      PROVE  EIInv'
  <2>1. found' \in [Processes -> SUBSET Trades]
    BY <1>8 DEF EIInv, ETypeOK, crash
  <2> QED BY <1>8, <2>1, RestartPreservesEIInv DEF crash
<1> QED BY <1>1, <1>2, <1>3, <1>4, <1>5, <1>6, <1>7, <1>8 DEF ENext

(* The invariant behind the theorems that follow: the queue stays within   *)
(* its bound, its count is the waiting ids and the busy workers, and a     *)
(* worker submits only a trade that is claimed.                            *)
THEOREM ExecutorInductive == ESpec => []EIInv
<1>1. EInit => EIInv
  BY EInitEstablishesEIInv
<1>2. EIInv /\ [ENext]_execVars => EIInv'
  BY ENextPreservesEIInv
<1> QED BY <1>1, <1>2, PTL DEF ESpec

(* Trades, queues and workers of TradeExecutor stay in their types.        *)
THEOREM ExecutorTypeCorrect == ESpec => []ETypeOK
<1>1. EIInv => ETypeOK
  BY DEF EIInv
<1> QED BY <1>1, ExecutorInductive, PTL

(* Every way out of an item passes task_done exactly once: the count that  *)
(* stop() joins on is the ids waiting and the workers at one.              *)
THEOREM CountIsRight == ESpec => []UnfinishedCounts
<1>1. EIInv => UnfinishedCounts
  BY DEF EIInv
<1> QED BY <1>1, ExecutorInductive, PTL

(* stop() that did not time out leaves no queued id and cancels no worker  *)
(* in the middle of a trade.                                               *)
THEOREM DrainIsDone == ESpec => []DrainedMeansDone
<1>1. EIInv => DrainedMeansDone
  BY DEF EIInv
<1> QED BY <1>1, ExecutorInductive, PTL

(* Any number of processes may hold an id any number of times: the claim   *)
(* lets one worker at most submit its trade.                               *)
THEOREM AtMostOneSubmitter == ESpec => []OneSubmitter
<1>1. EIInv => OneSubmitter
  BY DEF EIInv
<1> QED BY <1>1, ExecutorInductive, PTL
=============================================================================
