------------------------ MODULE ConnectionPoolProofs ------------------------
(***************************************************************************)
(* ConnectionPool for any number of tasks and any size of the pool: no     *)
(* connection is lost, and none is waited for between an order and its     *)
(* record.                                                                 *)
(***************************************************************************)
EXTENDS ConnectionPool, FiniteSetTheorems, TLAPS

(* The inductive invariant.                                                *)

\* The order is sent after a statement, and what comes next is its record.
PostIsFramed(ops) ==
  \A i \in 1..Len(ops) : ops[i] = "post" =>
    /\ i + 1 <= Len(ops) /\ ops[i + 1] = "write"
    /\ i > 1 => ops[i - 1] = "sql"

Framed(steps) ==
  \A i \in 1..Len(steps) : steps[i].op = "post" =>
    /\ i + 1 <= Len(steps) /\ steps[i + 1].op = "write"
    /\ i > 1 => steps[i - 1].op = "sql"

\* From that statement to the record the session keeps its connection.
TaskRight(t) ==
  /\ Framed(todo[t])
  /\ todo[t] # <<>> /\ Op(t) = "post" => "request" \in holds[t]
  /\ answered[t] => todo[t] # <<>> /\ Op(t) = "write" /\ "request" \in holds[t]

PoolInv == PoolTypeOK /\ NothingLeaks /\ \A t \in Tasks : TaskRight(t)
-----------------------------------------------------------------------------
(* The handlers.                                                           *)

LEMMA Concatenation ==
  ASSUME NEW S, NEW a \in Seq(S), NEW b \in Seq(S)
  PROVE  /\ a \o b \in Seq(S) /\ Len(a \o b) = Len(a) + Len(b)
         /\ Len(a) \in Nat /\ Len(b) \in Nat
         /\ \A i \in 1..(Len(a) + Len(b)) :
              (a \o b)[i] = IF i <= Len(a) THEN a[i] ELSE b[i - Len(a)]
OBVIOUS

Quiet(ops) == \A i \in 1..Len(ops) : ops[i] # "post"

LEMMA QuietSteps ==
  ASSUME NEW a \in Seq(Ops), NEW b \in Seq(Ops), Quiet(a), Quiet(b)
  PROVE  a \o b \in Seq(Ops) /\ Quiet(a \o b)
<1>1. PICK ab : ab = a \o b
  OBVIOUS
<1>2. /\ ab \in Seq(Ops) /\ Len(ab) = Len(a) + Len(b)
      /\ Len(a) \in Nat /\ Len(b) \in Nat
      /\ \A i \in 1..(Len(a) + Len(b)) : ab[i] = IF i <= Len(a) THEN a[i] ELSE b[i - Len(a)]
  BY <1>1, Concatenation
<1>3. ASSUME NEW i \in 1..Len(ab)
      PROVE  ab[i] # "post"
  <2>1. CASE i <= Len(a)
    <3>1. ab[i] = a[i] /\ i \in 1..Len(a)
      BY <1>2, <2>1
    <3> QED BY <3>1 DEF Quiet
  <2>2. CASE ~(i <= Len(a))
    <3>1. ab[i] = b[i - Len(a)] /\ i - Len(a) \in 1..Len(b)
      BY <1>2, <2>2
    <3> QED BY <3>1 DEF Quiet
  <2> QED BY <2>1, <2>2
<1> QED BY <1>1, <1>2, <1>3 DEF Quiet

LEMMA QuietIsFramed ==
  ASSUME NEW ops \in Seq(Ops), Quiet(ops)
  PROVE  PostIsFramed(ops) /\ (Len(ops) > 0 => ops[1] # "post")
BY DEF Quiet, PostIsFramed

\* What comes before may be anything that sends no order, and must end with
\* a statement if the order comes next.
LEMMA FramedAfter ==
  ASSUME NEW a \in Seq(Ops), NEW b \in Seq(Ops), Quiet(a), PostIsFramed(b),
         Len(b) > 0 /\ b[1] = "post" => Len(a) > 0 /\ a[Len(a)] = "sql"
  PROVE  /\ a \o b \in Seq(Ops) /\ PostIsFramed(a \o b)
         /\ Len(a \o b) > 0 => (a \o b)[1] # "post"
<1>1. PICK ab : ab = a \o b
  OBVIOUS
<1>2. /\ ab \in Seq(Ops) /\ Len(ab) = Len(a) + Len(b)
      /\ Len(a) \in Nat /\ Len(b) \in Nat
      /\ \A i \in 1..(Len(a) + Len(b)) : ab[i] = IF i <= Len(a) THEN a[i] ELSE b[i - Len(a)]
  BY <1>1, Concatenation
<1>3. ASSUME NEW i \in 1..Len(ab), ab[i] = "post"
      PROVE  i > 1 /\ i + 1 <= Len(ab) /\ ab[i + 1] = "write" /\ ab[i - 1] = "sql"
  <2> DEFINE j == i - Len(a)
  <2>1. j \in 1..Len(b) /\ b[j] = "post"
    BY <1>2, <1>3 DEF Quiet
  <2>2. j + 1 <= Len(b) /\ b[j + 1] = "write"
    BY <1>2, <2>1 DEF PostIsFramed
  <2>3. i + 1 <= Len(ab) /\ ab[i + 1] = "write"
    <3>1. i + 1 \in 1..(Len(a) + Len(b)) /\ ~(i + 1 <= Len(a)) /\ (i + 1) - Len(a) = j + 1
      BY <1>2, <2>1, <2>2
    <3> HIDE DEF j
    <3> QED BY <1>2, <2>2, <3>1
  <2>4. i > 1 /\ ab[i - 1] = "sql"
    <3>1. CASE j > 1
      <4>1. b[j - 1] = "sql"
        BY <1>2, <2>1, <3>1 DEF PostIsFramed
      <4>2. i - 1 \in 1..(Len(a) + Len(b)) /\ ~(i - 1 <= Len(a)) /\ (i - 1) - Len(a) = j - 1
        BY <1>2, <2>1, <3>1
      <4>3. ab[i - 1] = b[(i - 1) - Len(a)]
        BY <1>2, <4>2
      <4> HIDE DEF j
      <4> QED BY <4>1, <4>2, <4>3
    <3>2. CASE j = 1
      <4>1. Len(a) > 0 /\ a[Len(a)] = "sql"
        BY <1>2, <2>1, <3>2
      <4>2. i - 1 \in 1..(Len(a) + Len(b)) /\ i - 1 = Len(a)
        BY <1>2, <3>2, <4>1
      <4> HIDE DEF j
      <4> QED BY <1>2, <4>1, <4>2
    <3> QED BY <1>2, <2>1, <3>1, <3>2
  <2> QED BY <2>3, <2>4
<1>4. PostIsFramed(ab) /\ (Len(ab) > 0 => ab[1] # "post")
  <2>1. Len(ab) > 0 => 1 \in 1..Len(ab)
    BY <1>2
  <2> QED BY <1>2, <1>3, <2>1 DEF PostIsFramed
<1> QED BY <1>1, <1>2, <1>4

LEMMA ExecuteIsFramed ==
  /\ _execute \in Seq(Ops) /\ PostIsFramed(_execute)
  /\ Len(_execute) > 0 => _execute[1] # "post"
<1>1. /\ claim_for_submission \in Seq(Ops) /\ Quiet(claim_for_submission)
      /\ Len(claim_for_submission) > 0
      /\ claim_for_submission[Len(claim_for_submission)] = "sql"
  BY DEF claim_for_submission, Ops, Quiet
<1>2. submit_to_binance \in Seq(Ops)
  BY DEF submit_to_binance, Ops
<1>3. PostIsFramed(submit_to_binance)
  BY DEF submit_to_binance, PostIsFramed
<1> QED BY <1>1, <1>2, <1>3, FramedAfter DEF _execute

LEMMA SignalIsFramed ==
  ASSUME NEW ops \in process_signal
  PROVE  ops \in Seq(Ops) /\ PostIsFramed(ops) /\ (Len(ops) > 0 => ops[1] # "post")
<1>1. PICK r \in recording, e \in {<<"sql">>, _execute} : ops = r \o e
  BY DEF process_signal
<1>2. r \in Seq(Ops) /\ Quiet(r)
  <2>1. CASE r = <<"write", "leave">>
    BY <2>1 DEF Ops, Quiet
  <2>2. CASE r = <<"sql", "write", "leave">>
    BY <2>2 DEF Ops, Quiet
  <2> QED BY <2>1, <2>2 DEF recording
<1>3. e \in Seq(Ops) /\ PostIsFramed(e) /\ (Len(e) > 0 => e[1] # "post")
  <2>1. CASE e = <<"sql">>
    BY <2>1 DEF PostIsFramed, Ops
  <2>2. CASE e = _execute
    BY <2>2, ExecuteIsFramed
  <2> QED BY <2>1, <2>2
<1> QED BY <1>1, <1>2, <1>3, FramedAfter

\* The rest of them send no order.
LEMMA ShortOnes ==
  ASSUME NEW ops \in {authenticate_user, register_user, check_database_connection, get_current_user}
                     \cup authenticated_routes
  PROVE  ops \in Seq(Ops) /\ Quiet(ops)
<1>1. CASE ops = authenticate_user
  BY <1>1 DEF authenticate_user, Ops, Quiet
<1>2. CASE ops = register_user
  BY <1>2 DEF register_user, Ops, Quiet
<1>3. CASE ops \in {check_database_connection, get_current_user}
  BY <1>3 DEF check_database_connection, get_current_user, Ops, Quiet
<1>4. CASE ops = <<"leave", "sql", "leave", "sql">>
  BY <1>4 DEF Ops, Quiet
<1>5. CASE ops = <<"sql", "leave", "call", "leave", "write">>
  BY <1>5 DEF Ops, Quiet
<1> QED BY <1>1, <1>2, <1>3, <1>4, <1>5 DEF authenticated_routes

LEMMA ByIsASequence ==
  ASSUME NEW part \in Parts, NEW ops \in Seq(Ops)
  PROVE  /\ By(part, ops) \in Seq(Step) /\ Len(By(part, ops)) = Len(ops)
         /\ \A i \in 1..Len(ops) : By(part, ops)[i].op = ops[i]
<1>1. Len(ops) \in Nat /\ DOMAIN ops = 1..Len(ops) /\ \A i \in 1..Len(ops) : ops[i] \in Ops
  OBVIOUS
<1>2. By(part, ops) = [i \in 1..Len(ops) |-> [op |-> ops[i], part |-> part]]
  BY <1>1 DEF By
<1>3. \A i \in 1..Len(ops) : [op |-> ops[i], part |-> part] \in Step
  BY <1>1 DEF Step
<1> QED BY <1>1, <1>2, <1>3

LEMMA ByIsFramed ==
  ASSUME NEW part \in Parts, NEW ops \in Seq(Ops), PostIsFramed(ops), Len(ops) > 0 => ops[1] # "post"
  PROVE  LET steps == By(part, ops)
         IN  steps \in Seq(Step) /\ Framed(steps) /\ (steps # <<>> => Head(steps).op # "post")
<1>1. PICK steps : steps = By(part, ops)
  OBVIOUS
<1>2. /\ steps \in Seq(Step) /\ Len(steps) = Len(ops) /\ Len(ops) \in Nat
      /\ \A i \in 1..Len(ops) : steps[i].op = ops[i]
  BY <1>1, ByIsASequence
<1>3. ASSUME NEW i \in 1..Len(steps), steps[i].op = "post"
      PROVE  /\ i + 1 <= Len(steps) /\ steps[i + 1].op = "write"
             /\ i > 1 => steps[i - 1].op = "sql"
  <2>1. i \in 1..Len(ops) /\ ops[i] = "post"
    BY <1>2, <1>3
  <2>2. i + 1 <= Len(ops) /\ ops[i + 1] = "write" /\ (i > 1 => ops[i - 1] = "sql")
    BY <2>1 DEF PostIsFramed
  <2> QED BY <1>2, <2>1, <2>2
<1>4. steps # <<>> => Head(steps).op # "post"
  <2>1. steps # <<>> => Len(steps) > 0 /\ Head(steps) = steps[1]
    BY <1>2
  <2> QED BY <1>2, <2>1
<1> QED BY <1>1, <1>2, <1>3, <1>4 DEF Framed

LEMMA HandlersAreFramed ==
  ASSUME NEW handler \in Handlers
  PROVE  handler \in Seq(Step) /\ Framed(handler) /\ (handler # <<>> => Head(handler).op # "post")
<1>1. ASSUME NEW ops \in process_signal \cup
               {_execute, authenticate_user, register_user, check_database_connection},
             handler = By("service", ops)
      PROVE  handler \in Seq(Step) /\ Framed(handler) /\ (handler # <<>> => Head(handler).op # "post")
  <2>1. ops \in Seq(Ops) /\ PostIsFramed(ops) /\ (Len(ops) > 0 => ops[1] # "post")
    <3>1. CASE ops \in process_signal
      BY <3>1, SignalIsFramed
    <3>2. CASE ops = _execute
      BY <3>2, ExecuteIsFramed
    <3>3. CASE ops \in {authenticate_user, register_user, check_database_connection}
      <4>1. ops \in Seq(Ops) /\ Quiet(ops)
        BY <3>3, ShortOnes
      <4> QED BY <4>1, QuietIsFramed
    <3> QED BY <1>1, <3>1, <3>2, <3>3
  <2> QED BY <1>1, <2>1, ByIsFramed DEF Parts
<1>2. ASSUME NEW ops \in authenticated_routes,
             handler = By("auth", get_current_user) \o By("service", ops)
      PROVE  handler \in Seq(Step) /\ Framed(handler) /\ (handler # <<>> => Head(handler).op # "post")
  <2>1. PICK a, b : a = By("auth", get_current_user) /\ b = By("service", ops)
    OBVIOUS
  <2>2. /\ get_current_user \in Seq(Ops) /\ Quiet(get_current_user)
        /\ ops \in Seq(Ops) /\ Quiet(ops)
    BY ShortOnes
  <2>3. /\ a \in Seq(Step) /\ \A i \in 1..Len(a) : a[i].op # "post"
        /\ b \in Seq(Step) /\ \A i \in 1..Len(b) : b[i].op # "post"
    BY <2>1, <2>2, ByIsASequence DEF Parts, Quiet
  <2>4. /\ handler \in Seq(Step) /\ Len(handler) = Len(a) + Len(b)
        /\ Len(a) \in Nat /\ Len(b) \in Nat
        /\ \A i \in 1..(Len(a) + Len(b)) :
             handler[i] = IF i <= Len(a) THEN a[i] ELSE b[i - Len(a)]
    BY <1>2, <2>1, <2>3, Concatenation
  <2>5. ASSUME NEW i \in 1..Len(handler)
        PROVE  handler[i].op # "post"
    <3>1. CASE i <= Len(a)
      <4>1. handler[i] = a[i] /\ i \in 1..Len(a)
        BY <2>4, <3>1
      <4> QED BY <2>3, <4>1
    <3>2. CASE ~(i <= Len(a))
      <4>1. handler[i] = b[i - Len(a)] /\ i - Len(a) \in 1..Len(b)
        BY <2>4, <3>2
      <4> QED BY <2>3, <4>1
    <3> QED BY <3>1, <3>2
  <2>6. handler # <<>> => 1 \in 1..Len(handler) /\ Head(handler) = handler[1]
    BY <2>4
  <2> QED BY <2>4, <2>5, <2>6 DEF Framed
<1> QED BY <1>1, <1>2 DEF Handlers
-----------------------------------------------------------------------------
(* The pool's count.                                                       *)

LEMMA ThreeSessions == IsFiniteSet(Sessions)
<1>1. IsFiniteSet({"request"} \cup {"auth"} \cup {"service"})
  BY FS_Singleton, FS_Union
<1> QED BY <1>1 DEF Sessions

LEMMA HoldsAreFinite ==
  ASSUME PoolTypeOK, NEW t \in Tasks
  PROVE  IsFiniteSet(holds[t]) /\ Cardinality(holds[t]) \in Nat
BY ThreeSessions, FS_Subset, FS_CardinalityType DEF PoolTypeOK

LEMMA FiniteSessions ==
  ASSUME NEW S \in SUBSET (Tasks \X Sessions)
  PROVE  IsFiniteSet(S) /\ Cardinality(S) \in Nat
<1>1. IsFiniteSet(Tasks \X Sessions)
  BY ThreeSessions, PoolAssumption, FS_Product
<1> QED BY <1>1, FS_Subset, FS_CardinalityType

LEMMA ConnectedIsFinite ==
  IsFiniteSet(Connected) /\ Cardinality(Connected) \in Nat
BY FiniteSessions DEF Connected

LEMMA OneMore ==
  ASSUME PoolTypeOK, NEW t \in Tasks, NEW s \in Sessions, s \notin holds[t],
         holds' = [holds EXCEPT ![t] = @ \cup {s}]
  PROVE  Cardinality(Connected') = Cardinality(Connected) + 1
<1>1. Connected' = Connected \cup {<<t, s>>}
  BY DEF PoolTypeOK, Connected
<1>2. <<t, s>> \notin Connected
  BY DEF Connected
<1> QED BY <1>1, <1>2, ConnectedIsFinite, FS_AddElement

LEMMA OneLess ==
  ASSUME PoolTypeOK, NEW t \in Tasks, NEW s \in Sessions, s \in holds[t],
         holds' = [holds EXCEPT ![t] = @ \ {s}]
  PROVE  Cardinality(Connected') = Cardinality(Connected) - 1
<1>1. Connected' = Connected \ {<<t, s>>}
  BY DEF PoolTypeOK, Connected
<1>2. <<t, s>> \in Connected
  BY DEF Connected
<1> QED BY <1>1, <1>2, ConnectedIsFinite, FS_RemoveElement

LEMMA AllGiven ==
  ASSUME PoolTypeOK, NEW t \in Tasks, holds' = [holds EXCEPT ![t] = {}]
  PROVE  Cardinality(Connected') = Cardinality(Connected) - Cardinality(holds[t])
<1> DEFINE mine == {t} \X holds[t]
<1>1. holds[t] \subseteq Sessions
  BY DEF PoolTypeOK
<1>2. Connected' = Connected \ mine /\ mine \subseteq Connected
  BY <1>1 DEF PoolTypeOK, Connected
<1>3. IsFiniteSet(holds[t]) /\ Cardinality(holds[t]) \in Nat
  BY HoldsAreFinite
<1>4. Cardinality(mine) = Cardinality(holds[t])
  <2>1. Cardinality(mine) = Cardinality({t}) * Cardinality(holds[t])
    BY <1>3, FS_Singleton, FS_Product
  <2>2. Cardinality({t}) = 1
    BY FS_Singleton
  <2> QED BY <1>3, <2>1, <2>2
<1>5. Connected \cap mine = mine
  BY <1>2
<1>6. Cardinality(Connected \ mine) = Cardinality(Connected) - Cardinality(Connected \cap mine)
  BY ConnectedIsFinite, FS_Difference
<1> QED BY <1>2, <1>4, <1>5, <1>6
-----------------------------------------------------------------------------
(* The steps.                                                              *)

\* The step is of t alone, and leaves it so.
TaskMoves(t, steps, flag, sessions) ==
  /\ todo' = [todo EXCEPT ![t] = steps]
  /\ answered' = [answered EXCEPT ![t] = flag]
  /\ holds' = [holds EXCEPT ![t] = sessions]

LEMMA OneTaskChanges ==
  ASSUME PoolInv, NEW t \in Tasks, NEW steps \in Seq(Step), NEW flag \in BOOLEAN,
         NEW sessions \in SUBSET Sessions,
         TaskMoves(t, steps, flag, sessions),
         checked_out' \in Int, checked_out' <= Capacity, NothingLeaks',
         Framed(steps),
         steps # <<>> /\ Head(steps).op = "post" => "request" \in sessions,
         flag => steps # <<>> /\ Head(steps).op = "write" /\ "request" \in sessions
  PROVE  PoolInv'
<1>1. PoolTypeOK /\ \A u \in Tasks : TaskRight(u)
  BY DEF PoolInv
<1>2. Capacity \in Nat
  BY PoolAssumption DEF Capacity
<1>3. PoolTypeOK'
  <2>1. checked_out' \in 0..Capacity
    <3>1. Cardinality(Connected') \in Nat
      BY FiniteSessions DEF Connected
    <3> QED BY <1>2, <3>1 DEF NothingLeaks
  <2> QED BY <1>1, <2>1 DEF PoolTypeOK, TaskMoves
<1>4. ASSUME NEW u \in Tasks, u # t
      PROVE  TaskRight(u)'
  <2>1. todo'[u] = todo[u] /\ answered'[u] = answered[u] /\ holds'[u] = holds[u]
    BY <1>1, <1>4 DEF PoolTypeOK, TaskMoves
  <2>2. Framed(todo[u]) /\ Framed(todo'[u])
    BY <1>1, <2>1 DEF TaskRight
  <2> QED BY <1>1, <2>1, <2>2 DEF TaskRight, Op, Framed
<1>5. TaskRight(t)'
  <2>1. todo'[t] = steps /\ answered'[t] = flag /\ holds'[t] = sessions
    BY <1>1 DEF PoolTypeOK, TaskMoves
  <2> QED BY <2>1 DEF TaskRight, Op, Framed
<1> QED BY <1>3, <1>4, <1>5 DEF PoolInv

LEMMA BeginStep ==
  ASSUME PoolInv, NEW t \in Tasks, NEW handler \in Handlers, begin(t, handler)
  PROVE  PoolInv'
<1>1. PoolTypeOK /\ TaskRight(t) /\ answered[t] \in BOOLEAN /\ holds[t] \subseteq Sessions
  BY DEF PoolInv, PoolTypeOK
<1>2. TaskMoves(t, handler, answered[t], holds[t]) /\ UNCHANGED <<holds, checked_out>>
  BY <1>1 DEF begin, TaskMoves, PoolTypeOK
<1>3. ~answered[t]
  BY <1>1 DEF begin, TaskRight
<1>4. NothingLeaks' /\ checked_out' \in Int /\ checked_out' <= Capacity
  BY <1>2, PoolAssumption DEF PoolInv, PoolTypeOK, NothingLeaks, Connected, Capacity
<1> QED BY <1>1, <1>2, <1>3, <1>4, HandlersAreFramed, OneTaskChanges

LEMMA CheckoutStep ==
  ASSUME PoolInv, NEW t \in Tasks, checkout(t)
  PROVE  PoolInv'
<1>1. /\ PoolTypeOK /\ TaskRight(t) /\ answered[t] \in BOOLEAN /\ holds[t] \subseteq Sessions
      /\ todo[t] \in Seq(Step) /\ NothingLeaks /\ checked_out \in Int /\ Capacity \in Int
  BY PoolAssumption DEF PoolInv, PoolTypeOK, Capacity
<1>2. Session(t) = "request" /\ "request" \in Sessions
  BY DEF Session, get_db, Sessions
<1> DEFINE more == holds[t] \cup {"request"}
<1>3. TaskMoves(t, todo[t], answered[t], more) /\ more \subseteq Sessions
  BY <1>1, <1>2 DEF checkout, TaskMoves, PoolTypeOK
<1>4. "request" \notin holds[t] /\ holds' = [holds EXCEPT ![t] = @ \cup {"request"}]
  BY <1>2 DEF checkout, Wanting
<1>5. checked_out' = checked_out + 1 /\ checked_out < Capacity
  BY DEF checkout
<1>6. NothingLeaks' /\ checked_out' \in Int /\ checked_out' <= Capacity
  <2>1. Cardinality(Connected') = Cardinality(Connected) + 1
    BY <1>1, <1>2, <1>4, OneMore
  <2> QED BY <1>1, <1>5, <2>1 DEF NothingLeaks
<1>7. Framed(todo[t]) /\ (answered[t] => todo[t] # <<>> /\ Head(todo[t]).op = "write")
  BY <1>1 DEF TaskRight, Op
<1> QED BY <1>1, <1>3, <1>6, <1>7, OneTaskChanges

\* A closed session leaves its task with nothing to do and nothing to hold.
LEMMA CloseSteps ==
  ASSUME PoolInv, NEW t \in Tasks, close(t) \/ raise(t)
  PROVE  PoolInv'
<1>1. /\ PoolTypeOK /\ TaskRight(t) /\ NothingLeaks /\ checked_out \in 0..Capacity
      /\ Capacity \in Int
  BY PoolAssumption DEF PoolInv, PoolTypeOK, Capacity
<1>2. Close(t) /\ holds' = [holds EXCEPT ![t] = {}]
  BY DEF close, raise, Close
<1>3. TaskMoves(t, <<>>, FALSE, {})
  <2>1. CASE close(t)
    <3>1. todo[t] = <<>> /\ answered[t] = FALSE
      BY <1>1, <2>1 DEF close, TaskRight, PoolTypeOK
    <3> QED BY <1>1, <1>2, <2>1, <3>1 DEF close, TaskMoves, PoolTypeOK
  <2>2. CASE raise(t)
    BY <1>2, <2>2 DEF raise, TaskMoves
  <2> QED BY <2>1, <2>2
<1>4. NothingLeaks' /\ checked_out' \in Int /\ checked_out' <= Capacity
  <2>1. Cardinality(Connected') = Cardinality(Connected) - Cardinality(holds[t])
    BY <1>1, <1>2, AllGiven
  <2>2. Cardinality(holds[t]) \in Nat
    BY <1>1, HoldsAreFinite
  <2> QED BY <1>1, <1>2, <2>1, <2>2 DEF NothingLeaks, Close
<1>5. <<>> \in Seq(Step) /\ Framed(<<>>)
  BY DEF Framed
<1>6. PICK steps \in Seq(Step) : steps = <<>>
  BY <1>5
<1>7. PICK flag \in BOOLEAN : flag = FALSE
  OBVIOUS
<1>8. PICK sessions \in SUBSET Sessions : sessions = {}
  OBVIOUS
<1>9. TaskMoves(t, steps, flag, sessions) /\ Framed(steps)
  BY <1>3, <1>5, <1>6, <1>7, <1>8
<1>10. ~(steps # <<>>) /\ ~flag
  BY <1>6, <1>7
<1> QED BY <1>4, <1>9, <1>10, OneTaskChanges

\* What comes next is a tail of what there was, framed as before, and begins
\* with the order only if the step just taken was the statement before it.
LEMMA NextStepsAreFramed ==
  ASSUME NEW steps \in Seq(Step), steps # <<>>, Framed(steps),
         NEW rest \in Continuations(Tail(steps))
  PROVE  /\ rest \in Seq(Step) /\ Framed(rest)
         /\ rest # <<>> /\ Head(rest).op = "post" => Head(steps).op = "sql"
         /\ Head(steps).op = "post" => rest # <<>> /\ Head(rest).op = "write"
<1>1. /\ Len(steps) \in Nat /\ Len(steps) > 0 /\ Head(steps) = steps[1]
      /\ Tail(steps) \in Seq(Step) /\ Len(Tail(steps)) = Len(steps) - 1
      /\ \A i \in 1..Len(Tail(steps)) : Tail(steps)[i] = steps[i + 1]
  OBVIOUS
<1>2. PICK tail : tail = Tail(steps)
  OBVIOUS
<1>3. ASSUME NEW k \in {1, 2}, rest \in Seq(Step), Len(rest) = Len(steps) - k,
             \A i \in 1..Len(rest) : rest[i] = steps[i + k]
      PROVE  Framed(rest)
  <2> SUFFICES ASSUME NEW i \in 1..Len(rest), rest[i].op = "post"
               PROVE  /\ i + 1 <= Len(rest) /\ rest[i + 1].op = "write"
                      /\ i > 1 => rest[i - 1].op = "sql"
    BY DEF Framed
  <2>1. i + k \in 1..Len(steps) /\ steps[i + k].op = "post"
    BY <1>1, <1>3
  <2>2. /\ (i + k) + 1 <= Len(steps) /\ steps[(i + k) + 1].op = "write"
        /\ (i + k) > 1 => steps[(i + k) - 1].op = "sql"
    BY <2>1 DEF Framed
  <2>3. i + 1 \in 1..Len(rest) /\ (i + 1) + k = (i + k) + 1
    BY <1>1, <1>3, <2>2
  <2>4. i > 1 => i - 1 \in 1..Len(rest) /\ (i - 1) + k = (i + k) - 1 /\ i + k > 1
    BY <1>1, <1>3
  <2>5. rest[i + 1] = steps[(i + 1) + k] /\ (i > 1 => rest[i - 1] = steps[(i - 1) + k])
    BY <1>3, <2>3, <2>4
  <2> QED BY <1>3, <2>2, <2>3, <2>4, <2>5
<1>4. CASE rest = tail /\ (tail # <<>> => Head(tail).op # "leave")
  <2>1. Framed(rest) /\ rest \in Seq(Step) /\ Len(rest) = Len(steps) - 1
    BY <1>1, <1>2, <1>3, <1>4
  <2>2. rest # <<>> => /\ Len(steps) > 1 /\ Head(rest) = steps[2]
    BY <1>1, <1>2, <1>4
  <2>3. rest # <<>> /\ Head(rest).op = "post" => Head(steps).op = "sql"
    BY <1>1, <2>2 DEF Framed
  <2>4. Head(steps).op = "post" => Len(steps) > 1 /\ steps[2].op = "write"
    BY <1>1 DEF Framed
  <2>5. Len(steps) > 1 => rest # <<>>
    BY <1>1, <2>1
  <2> QED BY <2>1, <2>2, <2>3, <2>4, <2>5
<1>5. ASSUME tail # <<>>, Head(tail).op = "leave"
      PROVE  /\ Len(steps) > 1 /\ steps[2].op = "leave" /\ Head(steps).op # "post"
  <2>1. Len(steps) > 1 /\ Head(tail) = steps[2]
    BY <1>1, <1>2, <1>5
  <2> QED BY <1>1, <1>5, <2>1 DEF Framed
<1>6. CASE rest = <<>> /\ tail # <<>> /\ Head(tail).op = "leave"
  <2>1. Framed(<<>>) /\ <<>> \in Seq(Step)
    BY DEF Framed
  <2> QED BY <1>5, <1>6, <2>1
<1>7. CASE rest = Tail(tail) /\ tail # <<>> /\ Head(tail).op = "leave"
  <2>1. /\ rest \in Seq(Step) /\ Len(rest) = Len(steps) - 2
        /\ \A i \in 1..Len(rest) : rest[i] = steps[i + 2]
    <3>1. /\ rest \in Seq(Step) /\ Len(rest) = Len(tail) - 1
          /\ \A i \in 1..Len(rest) : rest[i] = tail[i + 1]
      BY <1>1, <1>2, <1>7
    <3> QED BY <1>1, <1>2, <3>1
  <2>2. Framed(rest)
    BY <1>3, <2>1
  <2>3. rest # <<>> => Len(steps) > 2 /\ Head(rest) = steps[3]
    BY <1>1, <2>1
  <2>4. Len(steps) > 2 /\ steps[3].op = "post" => steps[2].op = "sql"
    BY <1>1 DEF Framed
  <2> QED BY <1>5, <1>7, <2>1, <2>2, <2>3, <2>4
<1> QED BY <1>2, <1>4, <1>6, <1>7 DEF Continuations

LEMMA StepStep ==
  ASSUME PoolInv, NEW t \in Tasks, step(t)
  PROVE  PoolInv'
<1>1. /\ PoolTypeOK /\ TaskRight(t) /\ holds[t] \subseteq Sessions
      /\ todo[t] \in Seq(Step) /\ todo[t] # <<>> /\ NothingLeaks
      /\ checked_out \in Int /\ checked_out <= Capacity /\ Capacity \in Int
  BY PoolAssumption DEF PoolInv, PoolTypeOK, Capacity, step
<1>2. Session(t) = "request" /\ "request" \in Sessions
  BY DEF Session, get_db, Sessions
<1>3. PICK rest \in Continuations(Tail(todo[t])) : todo' = [todo EXCEPT ![t] = rest]
  BY DEF step
<1>4. /\ rest \in Seq(Step) /\ Framed(rest)
      /\ rest # <<>> /\ Head(rest).op = "post" => Op(t) = "sql"
      /\ Op(t) = "post" => rest # <<>> /\ Head(rest).op = "write"
  BY <1>1, <1>3, NextStepsAreFramed DEF TaskRight, Op
<1>5. /\ Op(t) = "sql" => "request" \in holds[t]
      /\ Op(t) = "post" => "request" \in holds[t]
  BY <1>1, <1>2 DEF step, Wanting, TaskRight
<1>6. answered' = [answered EXCEPT ![t] = Op(t) = "post"]
  BY DEF step
<1>7. PICK flag \in BOOLEAN : flag = (Op(t) = "post")
  OBVIOUS
<1>8. CASE Op(t) \in {"write", "commit"} /\ "request" \in holds[t]
  <2> DEFINE fewer == holds[t] \ {"request"}
  <2>1. holds' = [holds EXCEPT ![t] = @ \ {"request"}] /\ checked_out' = checked_out - 1
    BY <1>2, <1>8 DEF step
  <2>2. TaskMoves(t, rest, flag, fewer) /\ fewer \subseteq Sessions
    BY <1>1, <1>3, <1>6, <1>7, <2>1 DEF TaskMoves, PoolTypeOK
  <2>3. NothingLeaks' /\ checked_out' \in Int /\ checked_out' <= Capacity
    <3>1. Cardinality(Connected') = Cardinality(Connected) - 1
      BY <1>1, <1>2, <1>8, <2>1, OneLess
    <3> QED BY <1>1, <2>1, <3>1 DEF NothingLeaks
  <2>4. ~flag /\ ~(rest # <<>> /\ Head(rest).op = "post")
    BY <1>4, <1>7, <1>8
  <2> QED BY <1>4, <2>2, <2>3, <2>4, OneTaskChanges
<1>9. CASE ~(Op(t) \in {"write", "commit"} /\ "request" \in holds[t])
  <2>1. UNCHANGED <<holds, checked_out>>
    BY <1>2, <1>9 DEF step
  <2>2. TaskMoves(t, rest, flag, holds[t])
    BY <1>1, <1>3, <1>6, <1>7, <2>1 DEF TaskMoves, PoolTypeOK
  <2>3. NothingLeaks' /\ checked_out' \in Int /\ checked_out' <= Capacity
    BY <1>1, <2>1 DEF NothingLeaks, Connected
  <2>4. flag => "request" \in holds[t] /\ rest # <<>> /\ Head(rest).op = "write"
    BY <1>4, <1>5, <1>7
  <2> QED BY <1>1, <1>4, <1>5, <2>2, <2>3, <2>4, OneTaskChanges
<1> QED BY <1>8, <1>9
-----------------------------------------------------------------------------
(* The theorems.                                                           *)

LEMMA PoolInitInv ==
  ASSUME PoolInit
  PROVE  PoolInv
<1>1. PoolTypeOK
  <2>1. 0 \in 0..Capacity
    BY PoolAssumption DEF Capacity
  <2> QED BY <2>1 DEF PoolInit, PoolTypeOK
<1>2. NothingLeaks
  <2>1. Connected = {}
    BY DEF PoolInit, Connected
  <2> QED BY <2>1, FS_EmptySet DEF PoolInit, NothingLeaks
<1>3. \A t \in Tasks : TaskRight(t)
  BY DEF PoolInit, TaskRight, Framed
<1> QED BY <1>1, <1>2, <1>3 DEF PoolInv

LEMMA PoolNextInv ==
  ASSUME PoolInv, [PoolNext]_poolVars
  PROVE  PoolInv'
<1>1. CASE UNCHANGED poolVars
  BY <1>1 DEF PoolInv, poolVars, PoolTypeOK, NothingLeaks, Connected, TaskRight, Op, Framed
<1> QED BY <1>1, BeginStep, CheckoutStep, StepStep, CloseSteps DEF PoolNext

(* The invariant the other theorems follow from holds in every state the   *)
(* tasks of a process can reach, whatever raises or is cancelled.          *)
THEOREM PoolInductive == PoolSpec => []PoolInv
BY PoolInitInv, PoolNextInv, PTL DEF PoolSpec

(* The pool never hands out more than DB_POOL_SIZE + DB_MAX_OVERFLOW.      *)
THEOREM PoolTypeCorrect == PoolSpec => []PoolTypeOK
<1>1. PoolInv => PoolTypeOK
  BY DEF PoolInv
<1> QED BY <1>1, PoolInductive, PTL

(* `async with' around every session: no return, error or cancellation     *)
(* leaves a connection behind.                                             *)
THEOREM NoConnectionIsLost == PoolSpec => []NothingLeaks
<1>1. PoolInv => NothingLeaks
  BY DEF PoolInv
<1> QED BY <1>1, PoolInductive, PTL

(* claim_for_submission reads the row again after its commit, so the       *)
(* connection it needs is at hand when submit_to_binance has the answer.   *)
THEOREM RecordNeverWaits == PoolSpec => []RecordsWithoutWaiting
<1>1. ASSUME PoolInv
      PROVE  RecordsWithoutWaiting
  BY <1>1 DEF PoolInv, TaskRight, RecordsWithoutWaiting, Wanting, Session, get_db
<1> QED BY <1>1, PoolInductive, PTL
=============================================================================
