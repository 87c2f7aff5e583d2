------------------------- MODULE SignalIntakeProofs -------------------------
(***************************************************************************)
(* SignalIntake for any number of processes, deliveries and registrations: *)
(* what was answered is true, and a trade has an owner.  As in the module, *)
(* answers are promised while nobody deletes the account.                  *)
(***************************************************************************)
EXTENDS SignalIntake, TLAPS

(* The inductive invariant.                                                *)

\* The cached id is the account's: nothing else was ever there to cache.
CacheRight ==
  ~deleted => \A p \in Processes : cache[p] # None => account # None /\ cache[p] = account.id

\* What a delivery stands on, from its query to its answer.
DeliveryRight(q) ==
  /\ delivery[q].pc # "new" => delivery[q].signal \in Signals /\ delivery[q].proc \in Processes
  /\ ~deleted =>
       /\ delivery[q].pc = "inserting" => account # None /\ delivery[q].owner = account.id
       /\ delivery[q].pc = "losing" => trades[delivery[q].signal] # None
       /\ delivery[q].pc \in {"queueing", "accepted"} =>
            /\ trades[delivery[q].signal] # None
            /\ trades[delivery[q].signal] = [id |-> delivery[q].trade, owner |-> account.id]
       /\ delivery[q].pc = "duplicate" =>
            /\ trades[delivery[q].signal] # None
            /\ delivery[q].trade = trades[delivery[q].signal].id

\* The delivery that committed the row of s.
Winner(q, s) == delivery[q].pc \in {"queueing", "accepted"} /\ delivery[q].signal = s

OneWinner ==
  ~deleted => \A s \in Signals : \A q1, q2 \in Deliveries :
    Winner(q1, s) /\ Winner(q2, s) => q1 = q2

IntakeInv ==
  /\ IntakeTypeOK
  /\ TradesHaveOwner
  /\ RegistrationsAreTrue
  /\ CacheRight
  /\ \A q \in Deliveries : DeliveryRight(q)
  /\ OneWinner
-----------------------------------------------------------------------------
(* What a step leaves alone.                                               *)

\* Rows are added, the account stays as it is.
RowsStay ==
  /\ UNCHANGED <<account, deleted>>
  /\ \A s \in Signals : trades[s] # None => trades'[s] = trades[s]

LEMMA UntouchedStaysRight ==
  ASSUME NEW q \in Deliveries, DeliveryRight(q), RowsStay, delivery'[q] = delivery[q]
  PROVE  DeliveryRight(q)'
<1>1. account' = account /\ deleted' = deleted
  BY DEF RowsStay
<1>2. delivery[q].pc # "new" => delivery[q].signal \in Signals
  BY DEF DeliveryRight
<1>3. /\ delivery[q].pc # "new"
      /\ trades[delivery[q].signal] # None
      => trades'[delivery[q].signal] = trades[delivery[q].signal]
  BY <1>2 DEF RowsStay
<1> QED BY <1>1, <1>2, <1>3 DEF DeliveryRight

LEMMA NoNewWinner ==
  ASSUME OneWinner, deleted => deleted',
         \A q \in Deliveries, s \in Signals : Winner(q, s)' => Winner(q, s)
  PROVE  OneWinner'
BY DEF OneWinner

\* A step of one delivery that commits nothing.
OnlyDelivery(q, new) ==
  /\ delivery' \in [Deliveries -> Delivery]
  /\ delivery'[q] = new
  /\ \A v \in Deliveries \ {q} : delivery'[v] = delivery[v]

LEMMA OneDeliveryChanges ==
  ASSUME IntakeInv, NEW q \in Deliveries, NEW new \in Delivery, OnlyDelivery(q, new),
         UNCHANGED <<accountVars, trades, recorded>>, IntakeTypeOK', CacheRight',
         DeliveryRight(q)', new.pc = "queueing" => FALSE,
         new.pc = "accepted" => delivery[q].pc = "queueing" /\ new.signal = delivery[q].signal
  PROVE  IntakeInv'
<1>1. /\ UNCHANGED <<account, deleted, signup, trades>>
      /\ \A v \in Deliveries : DeliveryRight(v)
  BY DEF accountVars, IntakeInv
<1>2. RowsStay
  BY <1>1 DEF RowsStay
<1>3. \A v \in Deliveries : DeliveryRight(v)'
  BY <1>1, <1>2, UntouchedStaysRight DEF OnlyDelivery
<1>4. OneWinner'
  BY <1>1, NoNewWinner DEF IntakeInv, Winner, OnlyDelivery
<1>5. TradesHaveOwner' /\ RegistrationsAreTrue'
  BY <1>1 DEF IntakeInv, TradesHaveOwner, RegistrationsAreTrue
<1> QED BY <1>3, <1>4, <1>5 DEF IntakeInv

\* Registrations leave deliveries alone.
LEMMA SignupPreservesInv ==
  ASSUME IntakeInv, UNCHANGED <<trades, recorded, deleted, cache, delivery>>,
         IntakeTypeOK', RegistrationsAreTrue',
         account' = account \/ account = None
  PROVE  IntakeInv'
<1>1. CASE account' = account
  <2>1. RowsStay /\ \A q \in Deliveries : DeliveryRight(q)
    BY <1>1 DEF RowsStay, IntakeInv
  <2>2. \A q \in Deliveries : DeliveryRight(q)'
    BY <2>1, UntouchedStaysRight
  <2>3. TradesHaveOwner' /\ CacheRight' /\ OneWinner'
    BY <1>1 DEF IntakeInv, TradesHaveOwner, CacheRight, OneWinner, Winner
  <2> QED BY <2>2, <2>3 DEF IntakeInv
<1>2. CASE account = None
  \* Nothing has been cached or recorded, unless the account was deleted.
  <2>1. \A s \in Signals : trades[s] = None
    BY <1>2 DEF IntakeInv, TradesHaveOwner
  <2>2. TradesHaveOwner' /\ OneWinner'
    BY <2>1 DEF IntakeInv, TradesHaveOwner, OneWinner, Winner
  <2>3. CacheRight'
    BY <1>2 DEF IntakeInv, CacheRight
  <2>4. ASSUME NEW q \in Deliveries
        PROVE  DeliveryRight(q)'
    <3>1. DeliveryRight(q) /\ delivery' = delivery /\ deleted' = deleted
      BY DEF IntakeInv
    <3>2. ~deleted => delivery[q].pc \notin
                        {"inserting", "losing", "queueing", "accepted", "duplicate"}
      BY <1>2, <2>1, <3>1 DEF DeliveryRight
    <3> QED BY <3>1, <3>2 DEF DeliveryRight
  <2> QED BY <2>2, <2>3, <2>4 DEF IntakeInv
<1> QED BY <1>1, <1>2
-----------------------------------------------------------------------------
(* The actions.                                                            *)

LEMMA RegistrationPreservesInv ==
  ASSUME IntakeInv, NEW r \in Registrations,
         check_email(r) \/ register_user(r) \/ registration_fails(r)
  PROVE  IntakeInv'
<1>1. IntakeTypeOK
  BY DEF IntakeInv
<1>2. CASE check_email(r) \/ registration_fails(r)
  <2>1. PICK answer \in {"hashing", "conflict", "failed"} :
          /\ signup' = [signup EXCEPT ![r] = answer]
          /\ answer = "conflict" => account # None
          /\ UNCHANGED <<account, deleted, trades, keys, recorded, cache, delivery>>
    BY <1>2 DEF check_email, registration_fails, tradeVars
  <2>2. IntakeTypeOK'
    BY <1>1, <2>1 DEF IntakeTypeOK, SignupStates
  <2>3. RegistrationsAreTrue'
    BY <1>1, <2>1 DEF IntakeInv, IntakeTypeOK, RegistrationsAreTrue
  <2> QED BY <2>1, <2>2, <2>3, SignupPreservesInv
<1>3. CASE register_user(r)
  <2>1. /\ keys' = [keys EXCEPT !["users"] = @ + 1]
        /\ UNCHANGED <<trades, recorded, deleted, cache, delivery>>
        /\ \/ /\ account = None
              /\ account' = [id |-> keys'["users"], by |-> r]
              /\ signup' \in {[signup EXCEPT ![r] = "created"], [signup EXCEPT ![r] = "failed"]}
           \/ /\ account' = account /\ account # None
              /\ signup' = [signup EXCEPT ![r] = "conflict"]
    BY <1>3 DEF register_user
  <2>2. keys' \in [{"users", "trades"} -> Nat] /\ keys'["users"] \in Nat
    BY <1>1, <2>1 DEF IntakeTypeOK
  <2>3. account' \in Account \cup {None} /\ account' # None
    BY <1>1, <2>1, <2>2, RowAssumption DEF IntakeTypeOK, Account
  <2>4. IntakeTypeOK'
    BY <1>1, <2>1, <2>2, <2>3 DEF IntakeTypeOK, SignupStates
  <2>5. RegistrationsAreTrue'
    <3>1. SUFFICES ASSUME ~deleted, NEW v \in Registrations, signup'[v] = "created"
                   PROVE  account'.by = v
      BY <2>1, <2>3 DEF RegistrationsAreTrue
    <3>2. CASE account = None
      <4>1. signup[v] # "created"
        BY <3>1, <3>2 DEF IntakeInv, RegistrationsAreTrue
      <4>2. v = r
        BY <1>1, <2>1, <3>1, <4>1 DEF IntakeTypeOK
      <4> QED BY <2>1, <3>2, <4>2
    <3>3. CASE account # None
      <4>1. signup[v] = "created" /\ account' = account
        BY <1>1, <2>1, <3>1, <3>3 DEF IntakeTypeOK
      <4> QED BY <3>1, <4>1 DEF IntakeInv, RegistrationsAreTrue
    <3> QED BY <3>2, <3>3
  <2> QED BY <2>1, <2>4, <2>5, SignupPreservesInv
<1> QED BY <1>2, <1>3

\* ON DELETE CASCADE takes all rows there are.
LEMMA DeletePreservesInv ==
  ASSUME IntakeInv, delete_account
  PROVE  IntakeInv'
<1>1. /\ account' = None /\ deleted' = TRUE
      /\ trades' = [s \in Signals |->
           IF trades[s] # None /\ trades[s].owner = account.id THEN None ELSE trades[s]]
      /\ UNCHANGED <<keys, recorded, cache, delivery, signup>>
  BY DEF delete_account
<1>2. IntakeTypeOK'
  BY <1>1 DEF IntakeInv, IntakeTypeOK
<1>3. TradesHaveOwner'
  BY <1>1 DEF IntakeInv, TradesHaveOwner
<1>4. RegistrationsAreTrue' /\ CacheRight' /\ OneWinner'
  BY <1>1 DEF RegistrationsAreTrue, CacheRight, OneWinner
<1>5. \A q \in Deliveries : DeliveryRight(q)'
  BY <1>1 DEF IntakeInv, DeliveryRight
<1> QED BY <1>2, <1>3, <1>4, <1>5 DEF IntakeInv

\* A new delivery begins with the id its process has cached, if any.
LEMMA WebhookPreservesInv ==
  ASSUME IntakeInv, NEW q \in Deliveries, NEW p \in Processes, NEW s \in Signals,
         tradingview_webhook(q, p, s)
  PROVE  IntakeInv'
<1> DEFINE new == [ pc |-> IF cache[p] = None THEN "resolving" ELSE "inserting",
                    proc |-> p, signal |-> s, owner |-> cache[p], trade |-> None ]
<1>1. /\ IntakeTypeOK
      /\ delivery' = [delivery EXCEPT ![q] = new]
      /\ UNCHANGED <<account, deleted, signup, trades, keys, recorded, cache>>
  BY DEF tradingview_webhook, IntakeInv, accountVars, tradeVars
<1>2. cache[p] \in Nat \cup {None}
  BY <1>1 DEF IntakeTypeOK
<1>3. /\ new \in Delivery
      /\ new.pc \in {"resolving", "inserting"} /\ new.signal \in Signals /\ new.proc \in Processes
      /\ new.pc = "inserting" => cache[p] # None /\ new.owner = cache[p]
  BY <1>2 DEF Delivery
<1> HIDE DEF new
<1>4. OnlyDelivery(q, new)
  BY <1>1, <1>3 DEF IntakeTypeOK, OnlyDelivery
<1>5. IntakeTypeOK' /\ CacheRight'
  BY <1>1, <1>4 DEF IntakeInv, IntakeTypeOK, CacheRight, OnlyDelivery
<1>6. DeliveryRight(q)'
  BY <1>1, <1>3, <1>4 DEF IntakeInv, CacheRight, OnlyDelivery, DeliveryRight
<1> QED BY <1>1, <1>3, <1>4, <1>5, <1>6, OneDeliveryChanges DEF accountVars

\* The query for the owner, or 503.
LEMMA ResolvePreservesInv ==
  ASSUME IntakeInv, NEW q \in Deliveries, resolve_trade_owner_id(q)
  PROVE  IntakeInv'
<1>1. /\ IntakeTypeOK /\ delivery[q].pc = "resolving" /\ DeliveryRight(q)
      /\ UNCHANGED <<account, deleted, signup, trades, keys, recorded>>
  BY DEF resolve_trade_owner_id, IntakeInv, accountVars, tradeVars
<1>2. /\ delivery[q] \in Delivery
      /\ delivery[q].signal \in Signals /\ delivery[q].proc \in Processes
  BY <1>1 DEF IntakeTypeOK, DeliveryRight
<1>3. CASE account = None
  <2> DEFINE new == [delivery[q] EXCEPT !.pc = "unconfigured"]
  <2>1. delivery' = [delivery EXCEPT ![q] = new] /\ cache' = cache
    BY <1>3 DEF resolve_trade_owner_id
  <2>2. /\ new \in Delivery /\ new.pc = "unconfigured"
        /\ new.signal = delivery[q].signal /\ new.proc = delivery[q].proc
    BY <1>2 DEF Delivery, Answers
  <2> HIDE DEF new
  <2>3. OnlyDelivery(q, new)
    BY <1>1, <2>1, <2>2 DEF IntakeTypeOK, OnlyDelivery
  <2>4. IntakeTypeOK' /\ CacheRight'
    BY <1>1, <2>1, <2>3 DEF IntakeInv, IntakeTypeOK, CacheRight, OnlyDelivery
  <2>5. DeliveryRight(q)'
    BY <1>2, <2>2, <2>3 DEF OnlyDelivery, DeliveryRight
  <2> QED BY <1>1, <2>2, <2>3, <2>4, <2>5, OneDeliveryChanges DEF accountVars
<1>4. CASE account # None
  <2> DEFINE new == [delivery[q] EXCEPT !.pc = "inserting", !.owner = account.id]
  <2>1. /\ delivery' = [delivery EXCEPT ![q] = new]
        /\ cache' = [cache EXCEPT ![delivery[q].proc] = account.id]
    BY <1>4 DEF resolve_trade_owner_id
  <2>2. account.id \in Nat
    BY <1>1, <1>4 DEF IntakeTypeOK, Account
  <2>3. /\ new \in Delivery /\ new.pc = "inserting" /\ new.owner = account.id
        /\ new.signal = delivery[q].signal /\ new.proc = delivery[q].proc
    BY <1>2, <2>2 DEF Delivery
  <2> HIDE DEF new
  <2>4. OnlyDelivery(q, new)
    BY <1>1, <2>1, <2>3 DEF IntakeTypeOK, OnlyDelivery
  <2>5. /\ cache' \in [Processes -> Nat \cup {None}]
        /\ \A p \in Processes : cache'[p] \in {cache[p], account.id}
    BY <1>1, <1>2, <2>1, <2>2 DEF IntakeTypeOK
  <2>6. IntakeTypeOK'
    BY <1>1, <2>4, <2>5 DEF IntakeTypeOK, OnlyDelivery
  <2>7. CacheRight'
    BY <1>1, <1>4, <2>5 DEF IntakeInv, CacheRight
  <2>8. DeliveryRight(q)'
    BY <1>1, <1>2, <1>4, <2>3, <2>4 DEF OnlyDelivery, DeliveryRight
  <2> QED BY <1>1, <2>3, <2>4, <2>6, <2>7, <2>8, OneDeliveryChanges DEF accountVars
<1> QED BY <1>3, <1>4

\* The INSERT.  Only one delivery of a signal gets past the unique index.
LEMMA InsertPreservesInv ==
  ASSUME IntakeInv, NEW q \in Deliveries, create_pending_trade(q)
  PROVE  IntakeInv'
<1> DEFINE s == delivery[q].signal
           owner == delivery[q].owner
           id == keys'["trades"]
<1>1. /\ IntakeTypeOK /\ delivery[q].pc = "inserting" /\ DeliveryRight(q)
      /\ keys' = [keys EXCEPT !["trades"] = @ + 1]
      /\ UNCHANGED <<account, deleted, signup, cache>>
  BY DEF create_pending_trade, IntakeInv, accountVars
<1>2. delivery[q] \in Delivery /\ s \in Signals /\ delivery[q].proc \in Processes
  BY <1>1 DEF IntakeTypeOK, DeliveryRight
<1>3. keys' \in [{"users", "trades"} -> Nat] /\ id \in Nat
  BY <1>1 DEF IntakeTypeOK
<1>4. ~deleted => account # None /\ owner = account.id
  BY <1>1 DEF DeliveryRight
<1>5. CacheRight'
  BY <1>1 DEF IntakeInv, CacheRight
<1>6. CASE IntegrityError(s, owner)
  <2> DEFINE new == [delivery[q] EXCEPT !.pc = "losing"]
  <2>1. delivery' = [delivery EXCEPT ![q] = new] /\ UNCHANGED <<trades, recorded>>
    BY <1>6 DEF create_pending_trade
  <2>2. /\ new \in Delivery /\ new.pc = "losing"
        /\ new.signal = s /\ new.proc = delivery[q].proc
    BY <1>2 DEF Delivery
  <2> HIDE DEF new
  <2>3. OnlyDelivery(q, new)
    BY <1>1, <2>1, <2>2 DEF IntakeTypeOK, OnlyDelivery
  <2>4. IntakeTypeOK'
    BY <1>1, <1>3, <2>1, <2>3 DEF IntakeTypeOK, OnlyDelivery
  <2>5. ~deleted => trades[s] # None
    BY <1>4, <1>6 DEF IntegrityError
  <2>6. DeliveryRight(q)'
    BY <1>1, <1>2, <2>1, <2>2, <2>3, <2>5 DEF OnlyDelivery, DeliveryRight
  <2> QED BY <1>1, <1>5, <2>1, <2>2, <2>3, <2>4, <2>6, OneDeliveryChanges DEF accountVars
<1>7. CASE ~IntegrityError(s, owner)
  <2> DEFINE row == [id |-> id, owner |-> owner]
             won == [delivery[q] EXCEPT !.pc = "queueing", !.trade = id]
             lost == [delivery[q] EXCEPT !.pc = "failed"]
  <2>1. /\ trades' = [trades EXCEPT ![s] = row]
        /\ recorded' = recorded \cup {s}
        /\ \/ delivery' = [delivery EXCEPT ![q] = won]
           \/ delivery' = [delivery EXCEPT ![q] = lost]
    BY <1>7 DEF create_pending_trade
  <2>2. /\ trades[s] = None /\ account # None /\ owner = account.id /\ account.id \in Nat
    BY <1>1, <1>7 DEF IntegrityError, IntakeTypeOK, Account
  <2>3. row \in Trade /\ row # None /\ row.owner = account.id
    BY <1>3, <2>2, RowAssumption DEF Trade
  <2>4. /\ won \in Delivery /\ won.pc = "queueing" /\ won.trade = id
        /\ won.signal = s /\ won.proc = delivery[q].proc
    BY <1>2, <1>3 DEF Delivery
  <2>5. /\ lost \in Delivery /\ lost.pc = "failed"
        /\ lost.signal = s /\ lost.proc = delivery[q].proc
    BY <1>2 DEF Delivery, Answers
  <2>6. row = [id |-> id, owner |-> account.id]
    BY <2>2
  <2> HIDE DEF row, won, lost, s
  <2>7. /\ trades' \in [Signals -> Trade \cup {None}] /\ trades'[s] = row
        /\ \A v \in Signals \ {s} : trades'[v] = trades[v]
    BY <1>1, <1>2, <2>1, <2>3 DEF IntakeTypeOK
  <2>8. PICK new \in {won, lost} : OnlyDelivery(q, new)
    BY <1>1, <2>1, <2>4, <2>5 DEF IntakeTypeOK, OnlyDelivery
  <2>9. IntakeTypeOK'
    BY <1>1, <1>2, <1>3, <2>1, <2>7, <2>8 DEF IntakeTypeOK, OnlyDelivery
  <2>10. TradesHaveOwner'
    BY <1>1, <2>2, <2>3, <2>7 DEF IntakeInv, TradesHaveOwner
  <2>11. RegistrationsAreTrue'
    BY <1>1 DEF IntakeInv, RegistrationsAreTrue
  <2>12. RowsStay
    BY <1>1, <2>2, <2>7 DEF RowsStay
  <2>13. ASSUME NEW v \in Deliveries \ {q}
         PROVE  DeliveryRight(v)'
    BY <2>8, <2>12, UntouchedStaysRight DEF IntakeInv, OnlyDelivery
  <2>14. DeliveryRight(q)'
    <3>1. delivery'[q] = new /\ account' = account
      BY <1>1, <2>8 DEF OnlyDelivery
    <3>2. CASE new = won
      BY <1>2, <2>3, <2>4, <2>6, <2>7, <3>1, <3>2 DEF DeliveryRight
    <3>3. CASE new = lost
      BY <1>2, <2>5, <3>1, <3>3 DEF DeliveryRight
    <3> QED BY <2>8, <3>2, <3>3
  <2>15. OneWinner'
    <3>1. ~deleted => \A v \in Deliveries : ~Winner(v, s)
      BY <2>2 DEF IntakeInv, DeliveryRight, Winner
    <3>2. \A v \in Deliveries, u \in Signals :
            Winner(v, u)' => Winner(v, u) \/ (v = q /\ u = s)
      BY <2>4, <2>5, <2>8 DEF OnlyDelivery, Winner
    <3> QED BY <1>1, <3>1, <3>2 DEF IntakeInv, OneWinner
  <2> QED BY <1>5, <2>9, <2>10, <2>11, <2>13, <2>14, <2>15 DEF IntakeInv
<1> QED BY <1>6, <1>7

\* The answers: 409 with the winner's id, 202, or an error.
LEMMA AnswerPreservesInv ==
  ASSUME IntakeInv, NEW q \in Deliveries,
         reject_duplicate(q) \/ accept(q) \/ delivery_fails(q)
  PROVE  IntakeInv'
<1> DEFINE s == delivery[q].signal
           winner == IF trades[s] = None THEN None ELSE trades[s].id
<1>1. /\ IntakeTypeOK /\ DeliveryRight(q) /\ delivery[q].pc # "new"
      /\ UNCHANGED <<account, deleted, signup, trades, keys, recorded, cache>>
  BY DEF reject_duplicate, accept, delivery_fails, InProgress, IntakeInv, accountVars, tradeVars
<1>2. delivery[q] \in Delivery /\ s \in Signals /\ delivery[q].proc \in Processes
  BY <1>1 DEF IntakeTypeOK, DeliveryRight
<1>3. winner \in Nat \cup {None}
  BY <1>1, <1>2 DEF IntakeTypeOK, Trade
<1>4. ASSUME NEW new \in Delivery, delivery' = [delivery EXCEPT ![q] = new],
             new.signal = s, new.proc = delivery[q].proc,
             \/ new.pc = "failed"
             \/ new.pc = "accepted" /\ delivery[q].pc = "queueing" /\ new.trade = delivery[q].trade
             \/ new.pc = "duplicate" /\ delivery[q].pc = "losing" /\ new.trade = winner
      PROVE  IntakeInv'
  <2>1. OnlyDelivery(q, new)
    BY <1>1, <1>4 DEF IntakeTypeOK, OnlyDelivery
  <2>2. IntakeTypeOK' /\ CacheRight'
    BY <1>1, <2>1 DEF IntakeInv, IntakeTypeOK, CacheRight, OnlyDelivery
  <2>3. delivery'[q] = new
    BY <2>1 DEF OnlyDelivery
  <2>4. DeliveryRight(q)'
    BY <1>1, <1>2, <1>4, <2>3 DEF DeliveryRight
  <2>5. /\ new.pc = "queueing" => FALSE
        /\ new.pc = "accepted" => delivery[q].pc = "queueing" /\ new.signal = delivery[q].signal
    BY <1>4
  <2> QED BY <1>1, <2>1, <2>2, <2>4, <2>5, OneDeliveryChanges DEF accountVars
<1>5. CASE reject_duplicate(q)
  <2> DEFINE new == [delivery[q] EXCEPT !.pc = "duplicate", !.trade = winner]
  <2>1. delivery' = [delivery EXCEPT ![q] = new] /\ delivery[q].pc = "losing"
    BY <1>5 DEF reject_duplicate
  <2>2. /\ new \in Delivery /\ new.pc = "duplicate" /\ new.trade = winner
        /\ new.signal = s /\ new.proc = delivery[q].proc
    <3> HIDE DEF winner
    <3> QED BY <1>2, <1>3 DEF Delivery, Answers
  <2> HIDE DEF new, winner
  <2> QED BY <1>4, <2>1, <2>2
<1>6. CASE accept(q)
  <2> DEFINE new == [delivery[q] EXCEPT !.pc = "accepted"]
  <2>1. delivery' = [delivery EXCEPT ![q] = new] /\ delivery[q].pc = "queueing"
    BY <1>6 DEF accept
  <2>2. /\ new \in Delivery /\ new.pc = "accepted" /\ new.trade = delivery[q].trade
        /\ new.signal = s /\ new.proc = delivery[q].proc
    BY <1>2 DEF Delivery, Answers
  <2> HIDE DEF new
  <2> QED BY <1>4, <2>1, <2>2
<1>7. CASE delivery_fails(q)
  <2> DEFINE new == [delivery[q] EXCEPT !.pc = "failed"]
  <2>1. delivery' = [delivery EXCEPT ![q] = new]
    BY <1>7 DEF delivery_fails
  <2>2. /\ new \in Delivery /\ new.pc = "failed"
        /\ new.signal = s /\ new.proc = delivery[q].proc
    BY <1>2 DEF Delivery, Answers
  <2> HIDE DEF new
  <2> QED BY <1>4, <2>1, <2>2
<1> QED BY <1>5, <1>6, <1>7

\* A restart forgets the cache and the deliveries under way.
LEMMA RestartPreservesInv ==
  ASSUME IntakeInv, NEW p \in Processes, restart(p)
  PROVE  IntakeInv'
<1>1. /\ IntakeTypeOK
      /\ cache' = [cache EXCEPT ![p] = None]
      /\ delivery' = [q \in Deliveries |->
           IF InProgress(q) /\ delivery[q].proc = p
             THEN [delivery[q] EXCEPT !.pc = "failed"] ELSE delivery[q]]
      /\ UNCHANGED <<account, deleted, signup, trades, keys, recorded>>
  BY DEF restart, IntakeInv, accountVars, tradeVars
<1>2. ASSUME NEW q \in Deliveries
      PROVE  \/ delivery'[q] = delivery[q]
             \/ /\ delivery'[q] \in Delivery /\ delivery'[q].pc = "failed"
                /\ delivery'[q].signal = delivery[q].signal
                /\ delivery'[q].proc = delivery[q].proc
                /\ delivery[q].pc # "new"
  <2>1. delivery[q] \in Delivery
    BY <1>1 DEF IntakeTypeOK
  <2>2. CASE InProgress(q) /\ delivery[q].proc = p
    <3>1. delivery'[q] = [delivery[q] EXCEPT !.pc = "failed"] /\ delivery[q].pc # "new"
      BY <1>1, <2>2 DEF InProgress
    <3> QED BY <2>1, <3>1 DEF Delivery, Answers
  <2>3. CASE ~(InProgress(q) /\ delivery[q].proc = p)
    BY <1>1, <2>3
  <2> QED BY <2>2, <2>3
<1>3. delivery' \in [Deliveries -> Delivery]
  BY <1>1, <1>2 DEF IntakeTypeOK
<1>4. IntakeTypeOK'
  BY <1>1, <1>3 DEF IntakeTypeOK
<1>5. TradesHaveOwner' /\ RegistrationsAreTrue' /\ CacheRight'
  BY <1>1 DEF IntakeInv, IntakeTypeOK, TradesHaveOwner, RegistrationsAreTrue, CacheRight
<1>6. RowsStay
  BY <1>1 DEF RowsStay
<1>7. ASSUME NEW q \in Deliveries
      PROVE  DeliveryRight(q)'
  <2>1. CASE delivery'[q] = delivery[q]
    BY <1>6, <2>1, UntouchedStaysRight DEF IntakeInv
  <2>2. CASE delivery'[q] # delivery[q]
    BY <1>2, <2>2 DEF IntakeInv, DeliveryRight
  <2> QED BY <2>1, <2>2
<1>8. OneWinner'
  BY <1>1, <1>2, NoNewWinner DEF IntakeInv, Winner
<1> QED BY <1>4, <1>5, <1>7, <1>8 DEF IntakeInv
-----------------------------------------------------------------------------
(* The theorems.                                                           *)

LEMMA IntakeNextPreservesInv ==
  ASSUME IntakeInv, [IntakeNext]_intakeVars
  PROVE  IntakeInv'
<1>1. CASE UNCHANGED intakeVars
  <2>1. UNCHANGED <<account, trades, keys, recorded, deleted, cache, delivery, signup>>
    BY <1>1 DEF intakeVars
  <2>2. IntakeTypeOK' /\ RegistrationsAreTrue'
    BY <2>1 DEF IntakeInv, IntakeTypeOK, RegistrationsAreTrue
  <2> QED BY <2>1, <2>2, SignupPreservesInv
<1>2. CASE IntakeNext
  BY <1>2, RegistrationPreservesInv, DeletePreservesInv, WebhookPreservesInv,
     ResolvePreservesInv, InsertPreservesInv, AnswerPreservesInv, RestartPreservesInv
     DEF IntakeNext
<1> QED BY <1>1, <1>2

(* The invariant behind the theorems that follow: what cache, deliveries   *)
(* and registrations stand on between two calls of the database.           *)
THEOREM IntakeInductive == IntakeSpec => []IntakeInv
<1>1. IntakeInit => IntakeInv
  <2> SUFFICES ASSUME IntakeInit
               PROVE  IntakeInv
    OBVIOUS
  <2>1. Unsent \in Delivery /\ Unsent.pc = "new"
    BY DEF Unsent, Delivery
  <2>2. IntakeTypeOK
    BY <2>1 DEF IntakeInit, IntakeTypeOK, SignupStates
  <2>3. TradesHaveOwner /\ RegistrationsAreTrue /\ CacheRight
    BY DEF IntakeInit, TradesHaveOwner, RegistrationsAreTrue, CacheRight
  <2>4. OneWinner /\ \A q \in Deliveries : DeliveryRight(q)
    BY <2>1 DEF IntakeInit, OneWinner, Winner, DeliveryRight
  <2> QED BY <2>2, <2>3, <2>4 DEF IntakeInv
<1>2. IntakeInv /\ [IntakeNext]_intakeVars => IntakeInv'
  BY IntakeNextPreservesInv
<1> QED BY <1>1, <1>2, PTL DEF IntakeSpec

(* Rows, caches and requests stay in their types.                          *)
THEOREM IntakeTypeCorrect == IntakeSpec => []IntakeTypeOK
<1>1. IntakeInv => IntakeTypeOK
  BY DEF IntakeInv
<1> QED BY <1>1, IntakeInductive, PTL

(* Racing deliveries of one signal: one is told 202, whatever the rest of  *)
(* them find in the cache, the table or a restarted process.               *)
THEOREM OneAccepted == IntakeSpec => []AcceptedOnce
<1>1. IntakeInv => AcceptedOnce
  BY DEF IntakeInv, OneWinner, Winner, DeliveryRight, AcceptedOnce
<1> QED BY <1>1, IntakeInductive, PTL

(* 202 and 409 name the row they speak of, and it stays what they said.    *)
THEOREM RepliesStayTrue == IntakeSpec => []RepliesAreTrue
<1>1. IntakeInv => RepliesAreTrue
  BY DEF IntakeInv, DeliveryRight, RepliesAreTrue
<1> QED BY <1>1, IntakeInductive, PTL

(* The check before the hash and the INSERT after it may be far apart: 201 *)
(* still goes to the registration that made the account.                   *)
THEOREM RegistrationsStayTrue == IntakeSpec => []RegistrationsAreTrue
<1>1. IntakeInv => RegistrationsAreTrue
  BY DEF IntakeInv
<1> QED BY <1>1, IntakeInductive, PTL

(* No stale id of the cache gets past the foreign key, deletions and new   *)
(* registrations included.                                                 *)
THEOREM NoOrphanTrades == IntakeSpec => []TradesHaveOwner
<1>1. IntakeInv => TradesHaveOwner
  BY DEF IntakeInv
<1> QED BY <1>1, IntakeInductive, PTL
=============================================================================
