--------------------------- MODULE ConnectionPool ---------------------------
(***************************************************************************)
(* The engine's connection pool and the sessions that share it.  A session *)
(* takes a connection at its first statement and keeps it until it commits *)
(* or is closed: across the password check and across calls of Binance,    *)
(* too.  A handler is a sequence of steps of which only their kind is      *)
(* kept:                                                                   *)
(*                                                                         *)
(*   "sql"     a statement                                                 *)
(*   "write"   a commit with something to flush: a statement, then release *)
(*   "commit"  a commit with nothing to flush                              *)
(*   "post"    the order is sent                                           *)
(*   "call"    something else is awaited that is not the database          *)
(*   "leave"   the handler may return here, or go on                       *)
(*                                                                         *)
(* A statement that finds the pool empty waits DB_POOL_TIMEOUT_SECONDS and *)
(* raises.  asyncio lets a newcomer overtake a task that waits.            *)
(***************************************************************************)
EXTENDS Integers, Sequences, FiniteSets

CONSTANTS
  Tasks,         \* requests and workers of one process, at one time
  DB_POOL_SIZE,
  DB_MAX_OVERFLOW

ASSUME PoolAssumption ==
  /\ IsFiniteSet(Tasks)
  /\ DB_POOL_SIZE \in Nat \ {0} /\ DB_MAX_OVERFLOW \in Nat

Capacity == DB_POOL_SIZE + DB_MAX_OVERFLOW

VARIABLES
  todo,        \* todo[t]: the steps the task has left
  answered,    \* answered[t]: it has the answer to an order and did nothing since
  holds,       \* holds[t]: its sessions that have a connection
  checked_out  \* the pool's own count

poolVars == <<todo, answered, holds, checked_out>>

Ops == {"sql", "write", "commit", "post", "call", "leave"}

\* Who runs a step: the dependency that authenticates, or the service.
Parts == {"auth", "service"}

Step == [op : Ops, part : Parts]

Sessions == {"request", "auth", "service"}

\* Mutant: each dependency opens a session of its own.
get_db_PerDependency(part) == part

\* FastAPI resolves get_db once per request and hands the session to all.
get_db(part) == "request"

PoolTypeOK ==
  /\ todo \in [Tasks -> Seq(Step)]
  /\ answered \in [Tasks -> BOOLEAN]
  /\ holds \in [Tasks -> SUBSET Sessions]
  /\ checked_out \in 0..Capacity

PoolInit ==
  /\ todo  = [t \in Tasks |-> <<>>]
  /\ answered = [t \in Tasks |-> FALSE]
  /\ holds = [t \in Tasks |-> {}]
  /\ checked_out = 0
-----------------------------------------------------------------------------
(* The handlers                                                            *)

By(part, ops) == [i \in DOMAIN ops |-> [op |-> ops[i], part |-> part]]

\* Mutant: the claimed trade is used as it was committed, not read again.
claim_for_submission_NoReload == <<"sql", "commit", "leave">>

\* The conditional UPDATE, its commit, and the winner's read of the row.
claim_for_submission == <<"sql", "commit", "leave", "sql">>

\* The answer is recorded.  After a doubtful one the order is queried, and
\* what the query says is recorded, if it says anything.
submit_to_binance == <<"post", "write", "leave", "call", "leave", "write">>

_execute == claim_for_submission \o submit_to_binance

\* The owner is looked up once per process.  A trade that is queued is left
\* to a worker.
recording == { <<"write", "leave">>, <<"sql", "write", "leave">> }

\* Recorded already, when the winner is looked for; or executed in the request.
process_signal == {r \o e : r \in recording, e \in {<<"sql">>, _execute}}

authenticate_user == <<"sql", "leave", "call">>

register_user == <<"sql", "leave", "call", "write">>

\* Who am I, one trade, or the two statements of a list; and reconcile.
authenticated_routes == { <<"leave", "sql", "leave", "sql">>,
                          <<"sql", "leave", "call", "leave", "write">> }

get_current_user == <<"sql">>

check_database_connection == <<"sql">>

\* Everything a task of the process may run.
Handlers ==
  {By("service", ops) : ops \in process_signal \cup
     {_execute, authenticate_user, register_user, check_database_connection}}
  \cup {By("auth", get_current_user) \o By("service", ops) : ops \in authenticated_routes}
-----------------------------------------------------------------------------
(* The pool                                                                *)

Op(t) == Head(todo[t]).op

Session(t) == get_db(Head(todo[t]).part)

\* The next step needs a connection and the session has none.
Wanting(t) == todo[t] # <<>> /\ Op(t) \in {"sql", "write"} /\ Session(t) \notin holds[t]

begin(t, handler) ==
  /\ todo[t] = <<>> /\ holds[t] = {}
  /\ todo' = [todo EXCEPT ![t] = handler]
  /\ UNCHANGED <<answered, holds, checked_out>>

\* Mutant: the overflow is not limited.
checkout_Unbounded(t) ==
  /\ Wanting(t)
  /\ holds' = [holds EXCEPT ![t] = @ \cup {Session(t)}]
  /\ checked_out' = checked_out + 1
  /\ UNCHANGED <<todo, answered>>

checkout(t) ==
  /\ Wanting(t)
  /\ checked_out < Capacity
  /\ holds' = [holds EXCEPT ![t] = @ \cup {Session(t)}]
  /\ checked_out' = checked_out + 1
  /\ UNCHANGED <<todo, answered>>

\* What may come next when these steps are left.
Continuations(steps) ==
  IF steps # <<>> /\ Head(steps).op = "leave" THEN {<<>>, Tail(steps)} ELSE {steps}

step(t) ==
  /\ todo[t] # <<>> /\ ~Wanting(t)
  /\ \E rest \in Continuations(Tail(todo[t])) : todo' = [todo EXCEPT ![t] = rest]
  /\ answered' = [answered EXCEPT ![t] = Op(t) = "post"]
  /\ IF Op(t) \in {"write", "commit"} /\ Session(t) \in holds[t]
       THEN /\ holds' = [holds EXCEPT ![t] = @ \ {Session(t)}]
            /\ checked_out' = checked_out - 1
       ELSE UNCHANGED <<holds, checked_out>>

\* Mutant: a session is closed only when the handler has returned.
Close_IfReturned(t) ==
  IF todo[t] = <<>>
    THEN /\ holds' = [holds EXCEPT ![t] = {}]
         /\ checked_out' = checked_out - Cardinality(holds[t])
    ELSE holds' = [holds EXCEPT ![t] = {}] /\ UNCHANGED checked_out

\* `async with' gives the connection back, whichever way it is left.
Close(t) ==
  /\ holds' = [holds EXCEPT ![t] = {}]
  /\ checked_out' = checked_out - Cardinality(holds[t])

close(t) ==
  /\ todo[t] = <<>> /\ holds[t] # {}
  /\ Close(t)
  /\ UNCHANGED <<todo, answered>>

\* The pool's timeout, an error of any step, cancellation.
raise(t) ==
  /\ todo[t] # <<>>
  /\ Close(t)
  /\ todo' = [todo EXCEPT ![t] = <<>>]
  /\ answered' = [answered EXCEPT ![t] = FALSE]

PoolNext ==
  \E t \in Tasks :
    \/ \E handler \in Handlers : begin(t, handler)
    \/ checkout(t) \/ step(t) \/ close(t) \/ raise(t)

PoolSpec == PoolInit /\ [][PoolNext]_poolVars

(* What is awaited comes back: statements, the hash, and the HTTP calls,   *)
(* which have a timeout.  A task that waits may be overtaken but not for   *)
(* ever.  Nothing is assumed of raise: waiting does not end by giving up.  *)
PoolFairness ==
  \A t \in Tasks :
    /\ SF_poolVars(checkout(t))
    /\ WF_poolVars(step(t))
    /\ WF_poolVars(close(t))

PoolLiveSpec == PoolSpec /\ PoolFairness
-----------------------------------------------------------------------------
(* Properties                                                              *)

\* The open sessions that have a connection, each with its task.
Connected == {c \in Tasks \X Sessions : c[2] \in holds[c[1]]}

(* A connection is never lost to an error or a cancelled request: the pool *)
(* counts exactly those that open sessions hold.                           *)
NothingLeaks == checked_out = Cardinality(Connected)

(* Handlers that hold connections never wait for one another: a statement  *)
(* that finds the pool empty gets a connection in the end, without relying *)
(* on the pool's timeout to break a cycle.                                 *)
EveryoneServed == \A t \in Tasks : Wanting(t) ~> ~Wanting(t)

(* The answer to an order is recorded on the connection the claim took.    *)
(* An empty pool may delay or fail a claim, but never stands between an    *)
(* order and its record.                                                   *)
RecordsWithoutWaiting == \A t \in Tasks : answered[t] => ~Wanting(t)
=============================================================================
