-------------------------- MODULE TradesApiProofs --------------------------
(***************************************************************************)
(* TradesApi for any number of accounts, trades and clients, any lifetime  *)
(* of a token and any size of a page: who is answered, whose trades are    *)
(* shown, and what a client paging through them can rely on.               *)
(***************************************************************************)
EXTENDS TradesApi, FiniteSetTheorems, TLAPS

(* The inductive invariant.                                                *)

\* ON DELETE CASCADE: no trade is left without its account.
OwnersExist == \A t \in Stored : trade[t].user_id \in Registered

\* A token, and a login under way, stand for an account that was there, and
\* has the address it had then.
TokenRight(c) ==
  /\ token[c] # None =>
       /\ user[token[c].sub] # None
       /\ token[c].sub \in Registered => user[token[c].sub].email = token[c].email
  /\ req[c].pc = "verifying" =>
       /\ req[c].id \in Users /\ req[c].login \in UserRow
       /\ user[req[c].id] # None
       /\ req[c].id \in Registered => user[req[c].id].email = req[c].login.email

\* A request that came too late is refused at the SELECT.
LateRight(c) ==
  /\ req[c].pc \in {"checking", "known", "counted", "served"} => token[c] # None
  /\ req[c].pc = "checking" /\ req[c].late => ~Welcome(c)
  /\ req[c].pc \in {"known", "counted", "served"} => ~req[c].late

\* Trades that were the client's own and still are, if they are there.
Own(c, S) ==
  \A t \in S : /\ trade[t] # None
               /\ t \in Stored => token[c] # None /\ trade[t].user_id = token[c].sub

ShownRight(c) == Own(c, walk[c].seen) /\ Own(c, req[c].items) /\ Own(c, walk[c].known)

\* The trades a list has before t.
Ahead(t) == {u \in Owned(trade[t].user_id) : Before(u, t)}

\* What the client was not shown yet, the next pages hold: new rows push it
\* further down, never up.
WalkRight(c) ==
  \A t \in walk[c].known \cap Stored :
    t \in walk[c].seen \/ (~walk[c].done /\ walk[c].offset <= Cardinality(Ahead(t)))

\* Rows are only added to a list, unless all of it goes with the account.
CountRight(c) ==
  /\ req[c].pc = "counted" =>
       /\ req[c].total \in Nat
       /\ token[c].sub \in Registered =>
            req[c].total <= Cardinality(Owned(token[c].sub))
  /\ /\ req[c].pc = "served" /\ req[c].total # None
     /\ Cardinality(req[c].items) < PageSize
     /\ token[c].sub \in Registered
     => req[c].total <= walk[c].offset + Cardinality(req[c].items)

ClientRight(c) ==
  TokenRight(c) /\ LateRight(c) /\ ShownRight(c) /\ WalkRight(c) /\ CountRight(c)

ApiInv == ApiTypeOK /\ OwnersExist /\ \A c \in Clients : ClientRight(c)
-----------------------------------------------------------------------------
(* Lists and pages.                                                        *)

LEMMA FiniteLists ==
  ASSUME NEW S \in SUBSET Trades
  PROVE  IsFiniteSet(S) /\ Cardinality(S) \in Nat
BY ApiAssumption, FS_Subset, FS_CardinalityType

LEMMA SmallerList ==
  ASSUME NEW S \in SUBSET Trades, NEW T \in SUBSET S
  PROVE  Cardinality(T) <= Cardinality(S) /\ (Cardinality(S) = Cardinality(T) => S = T)
BY FiniteLists, FS_Subset

LEMMA DisjointLists ==
  ASSUME NEW S \in SUBSET Trades, NEW T \in SUBSET Trades, S \cap T = {}
  PROVE  Cardinality(S \cup T) = Cardinality(S) + Cardinality(T)
<1>1. IsFiniteSet(S) /\ IsFiniteSet(T) /\ Cardinality(S) \in Nat /\ Cardinality(T) \in Nat
  BY FiniteLists
<1>2. Cardinality(S \cup T) = Cardinality(S) + Cardinality(T) - Cardinality(S \cap T)
  BY <1>1, FS_Union
<1>3. Cardinality(S \cap T) = 0
  BY FS_EmptySet
<1> QED BY <1>1, <1>2, <1>3

\* ORDER BY created_at DESC, id DESC leaves no ties.
LEMMA OrderIsTotal ==
  ASSUME ApiTypeOK, NEW t \in Stored, NEW u \in Stored, t # u
  PROVE  Before(t, u) \/ Before(u, t)
<1>1. t \in Nat /\ u \in Nat
  BY ApiAssumption DEF Stored
<1>2. trade[t] \in TradeRow /\ trade[u] \in TradeRow
  BY DEF ApiTypeOK, Stored
<1>3. trade[t].created_at \in Int /\ trade[u].created_at \in Int
  BY <1>2, ApiAssumption DEF TradeRow, Time
<1> QED BY <1>1, <1>3 DEF Before

\* A page takes the rows after the first offset ones, in order: a row that
\* has offset rows before it is on the page, or has the page before it, too.
LEMMA PageOfList ==
  ASSUME ApiTypeOK, NEW u \in Users, NEW offset \in Nat, NEW page \in Pages(Owned(u), offset)
  PROVE  /\ page \subseteq Owned(u)
         /\ Cardinality(page) < PageSize =>
              Cardinality(Owned(u)) <= offset + Cardinality(page)
         /\ \A t \in Owned(u) \ page : offset <= Cardinality(Ahead(t)) =>
              /\ Cardinality(page) = PageSize
              /\ offset + PageSize <= Cardinality(Ahead(t))
<1> DEFINE S == Owned(u)
<1>1. S \subseteq Trades /\ S \subseteq Stored /\ \A t \in S : trade[t].user_id = u
  BY DEF Owned, Stored
<1>2. PICK skipped \in SUBSET (S \ page) :
       /\ Cardinality(skipped) = (IF offset < Cardinality(S) THEN offset ELSE Cardinality(S))
       /\ Cardinality(page) = (IF PageSize < Cardinality(S \ skipped)
                                 THEN PageSize ELSE Cardinality(S \ skipped))
       /\ \A t \in skipped, v \in S \ skipped : ~Before(v, t)
       /\ \A t \in page, v \in S \ (skipped \cup page) : ~Before(v, t)
  BY DEF Pages
<1>3. page \subseteq S
  BY DEF Pages
<1> DEFINE rest == S \ (skipped \cup page)
<1>4. \A t \in S : Ahead(t) = {v \in S : Before(v, t)}
  BY <1>1 DEF Ahead
<1> HIDE DEF S
<1>5. /\ skipped \subseteq Trades /\ page \subseteq Trades /\ S \ skipped \subseteq Trades
      /\ page \subseteq S \ skipped
  BY <1>1, <1>2, <1>3
<1>6. /\ Cardinality(S) \in Nat /\ Cardinality(skipped) \in Nat /\ Cardinality(page) \in Nat
      /\ Cardinality(S \ skipped) \in Nat
      /\ PageSize \in Nat
  BY <1>1, <1>5, FiniteLists, ApiAssumption
<1>7. Cardinality(S) = Cardinality(skipped) + Cardinality(S \ skipped)
  <2>1. S = skipped \cup (S \ skipped) /\ skipped \cap (S \ skipped) = {}
    BY <1>2
  <2> QED BY <1>5, <2>1, DisjointLists
<1>8. Cardinality(page) < PageSize => Cardinality(S) <= offset + Cardinality(page)
  BY <1>2, <1>6, <1>7
<1>9. ASSUME NEW t \in S \ page, offset <= Cardinality(Ahead(t))
      PROVE  /\ Cardinality(page) = PageSize
             /\ offset + PageSize <= Cardinality(Ahead(t))
  <2>1. Ahead(t) \subseteq S /\ Ahead(t) \subseteq Trades /\ Cardinality(Ahead(t)) \in Nat
    BY <1>1, <1>4, <1>9, FiniteLists
  <2>2. t \notin skipped
    <3> SUFFICES ASSUME t \in skipped
                 PROVE  FALSE
      OBVIOUS
    <3>1. Ahead(t) \subseteq skipped
      BY <1>2, <1>4
    <3>2. ~Before(t, t)
      <4>1. t \in Nat /\ trade[t] \in TradeRow
        BY <1>1, ApiAssumption DEF ApiTypeOK, Stored
      <4>2. trade[t].created_at \in Int
        BY <4>1, ApiAssumption DEF TradeRow, Time
      <4> QED BY <4>1, <4>2 DEF Before
    <3>3. t \notin Ahead(t)
      BY <1>4, <3>2
    <3>4. Cardinality(Ahead(t)) <= Cardinality(skipped)
          /\ Cardinality(Ahead(t)) # Cardinality(skipped)
      BY <1>5, <3>1, <3>3, SmallerList
    <3>5. Cardinality(skipped) <= offset
      BY <1>2, <1>6
    <3> QED BY <1>6, <1>9, <2>1, <3>4, <3>5
  <2>3. Cardinality(page) = PageSize
    <3>1. page # S \ skipped
      BY <1>9, <2>2
    <3>2. Cardinality(page) # Cardinality(S \ skipped)
      BY <1>5, <3>1, SmallerList
    <3> QED BY <1>2, <3>2
  <2>4. Cardinality(skipped) = offset
    <3>1. skipped # S
      BY <1>9, <2>2
    <3>2. Cardinality(skipped) # Cardinality(S)
      BY <1>1, <1>2, <3>1, SmallerList
    <3> QED BY <1>2, <3>2
  <2>5. \A v \in skipped \cup page : Before(v, t)
    <3>1. \A v \in skipped \cup page : v # t /\ v \in Stored /\ t \in Stored
      BY <1>1, <1>2, <1>3, <1>9, <2>2
    <3>2. \A v \in skipped \cup page : ~Before(t, v)
      BY <1>2, <1>9, <2>2
    <3> QED BY <3>1, <3>2, OrderIsTotal
  <2>6. skipped \cup page \subseteq Ahead(t)
    BY <1>2, <1>3, <1>4, <2>5
  <2>7. Cardinality(skipped \cup page) = offset + PageSize
    <3>1. skipped \cap page = {}
      BY <1>2
    <3> QED BY <1>5, <2>3, <2>4, <3>1, DisjointLists
  <2> QED BY <2>1, <2>3, <2>6, <2>7, SmallerList
<1> QED BY <1>3, <1>8, <1>9 DEF S
-----------------------------------------------------------------------------
(* Steps of the database: accounts end and lists grow.                     *)

DatabaseMoves ==
  /\ UNCHANGED <<token, req, walk>>
  /\ \A v \in Users : user[v] # None =>
       /\ user'[v] # None
       /\ v \in Registered' =>
            /\ v \in Registered
            /\ user'[v].email = user[v].email
            /\ user'[v].is_active => user[v].is_active
  /\ \A t \in Trades : trade[t] # None => trade'[t] \in {trade[t], Deleted}
  /\ \A t \in Stored : trade[t].user_id \in Registered' => trade'[t] = trade[t]

LEMMA DatabasePreservesInv ==
  ASSUME ApiInv, DatabaseMoves, ApiTypeOK', OwnersExist'
  PROVE  ApiInv'
<1>1. /\ ApiTypeOK /\ OwnersExist
      /\ UNCHANGED <<token, req, walk>>
  BY DEF ApiInv, DatabaseMoves
<1>2. \A t \in Trades : t \in Stored' /\ trade[t] # None =>
        t \in Stored /\ trade'[t] = trade[t] /\ trade[t].user_id \in Registered'
  BY <1>1 DEF DatabaseMoves, Stored, OwnersExist
<1>3. \A o \in Registered' : Owned(o) \subseteq Owned(o)' /\ \A t \in Owned(o) : trade'[t] = trade[t]
  BY DEF DatabaseMoves, Owned, Stored
<1> SUFFICES ASSUME NEW c \in Clients
             PROVE  ClientRight(c)'
  BY DEF ApiInv
<1>4. ClientRight(c) /\ token[c] \in Token \cup {None} /\ req[c] \in Request /\ walk[c] \in Walk
  BY <1>1 DEF ApiInv, ApiTypeOK
<1>5. token[c] # None => /\ token[c].sub \in Users
                         /\ token[c].sub \in Registered' => token[c].sub \in Registered
  BY <1>4 DEF Token, ClientRight, TokenRight, DatabaseMoves
<1>6. TokenRight(c)'
  BY <1>1, <1>4, <1>5 DEF ClientRight, TokenRight, DatabaseMoves
<1>7. LateRight(c)'
  BY <1>1, <1>4, <1>5 DEF ClientRight, TokenRight, LateRight, Welcome, DatabaseMoves
<1>8. ShownRight(c)'
  <2>1. ASSUME NEW S \in SUBSET Trades, Own(c, S)
        PROVE  \A t \in S : /\ trade'[t] # None
                            /\ t \in Stored' => token[c] # None /\ trade'[t].user_id = token[c].sub
    BY <1>2, <2>1, RowAssumption DEF Own, DatabaseMoves
  <2>2. walk[c].seen \subseteq Trades /\ req[c].items \subseteq Trades /\ walk[c].known \subseteq Trades
    BY <1>4 DEF Walk, Request
  <2> QED BY <1>1, <1>4, <2>1, <2>2 DEF ClientRight, ShownRight, Own
<1>9. WalkRight(c)'
  <2> SUFFICES ASSUME NEW t \in walk[c].known \cap Stored'
               PROVE  \/ t \in walk[c].seen
                      \/ ~walk[c].done /\ walk[c].offset <= Cardinality(Ahead(t)')
    BY <1>1 DEF WalkRight
  <2>1. t \in Trades /\ trade[t] # None
    BY <1>4 DEF Walk, ClientRight, ShownRight, Own
  <2>2. t \in Stored /\ trade'[t] = trade[t] /\ trade[t].user_id \in Registered'
    BY <1>2, <2>1
  <2>3. Ahead(t) \subseteq Ahead(t)'
    <3>1. \A u \in Owned(trade[t].user_id) : Before(u, t) => Before(u, t)'
      BY <1>3, <2>2 DEF Before
    <3> QED BY <1>3, <2>2, <3>1 DEF Ahead
  <2>4. Ahead(t) \subseteq Trades /\ Ahead(t)' \subseteq Trades
    BY DEF Ahead, Owned, Stored
  <2>5. /\ Cardinality(Ahead(t)) <= Cardinality(Ahead(t)')
        /\ Cardinality(Ahead(t)) \in Nat /\ Cardinality(Ahead(t)') \in Nat
    BY <2>3, <2>4, SmallerList, FiniteLists
  <2>6. walk[c].offset \in Nat
    BY <1>4 DEF Walk
  <2> QED BY <1>4, <2>2, <2>5, <2>6 DEF ClientRight, WalkRight
<1>10. CountRight(c)'
  <2>1. ASSUME req[c].pc = "counted", token[c].sub \in Registered'
        PROVE  req[c].total <= Cardinality(Owned(token[c].sub)')
    <3>1. token[c].sub \in Registered /\ token[c] # None
      BY <1>4, <1>5, <2>1 DEF ClientRight, LateRight
    <3>2. req[c].total \in Nat /\ req[c].total <= Cardinality(Owned(token[c].sub))
      BY <1>4, <2>1, <3>1 DEF ClientRight, CountRight
    <3>3. /\ Owned(token[c].sub) \subseteq Owned(token[c].sub)'
          /\ Owned(token[c].sub) \subseteq Trades /\ Owned(token[c].sub)' \subseteq Trades
      <4>1. token' = token
        BY <1>1
      <4> QED BY <1>3, <2>1, <4>1 DEF Owned, Stored
    <3>4. /\ Cardinality(Owned(token[c].sub)) <= Cardinality(Owned(token[c].sub)')
          /\ Cardinality(Owned(token[c].sub)) \in Nat /\ Cardinality(Owned(token[c].sub)') \in Nat
      BY <3>3, SmallerList, FiniteLists
    <3> QED BY <3>2, <3>4
  <2>2. ASSUME req[c].pc = "served", token[c].sub \in Registered'
        PROVE  token[c].sub \in Registered
    BY <1>4, <1>5, <2>2 DEF ClientRight, LateRight
  <2> QED BY <1>1, <1>4, <2>1, <2>2 DEF ClientRight, CountRight
<1> QED BY <1>6, <1>7, <1>8, <1>9, <1>10 DEF ClientRight

LEMMA DatabaseSteps ==
  ASSUME ApiInv,
         \/ Tick
         \/ \E u \in Users, e \in Emails, pw \in Passwords : register_user(u, e, pw)
         \/ \E u \in Users : Deactivate(u) \/ Delete(u)
         \/ \E t \in Trades, u \in Users, k \in Time : InsertTrade(t, u, k)
  PROVE  ApiInv'
<1>0. ApiTypeOK /\ OwnersExist
  BY DEF ApiInv
<1>1. CASE Tick
  <2>1. UNCHANGED <<user, trade, token, req, walk>> /\ clock' \in Time
    BY <1>0, <1>1, ApiAssumption DEF Tick, ApiTypeOK, Time
  <2>2. ApiTypeOK' /\ OwnersExist' /\ DatabaseMoves
    BY <1>0, <2>1 DEF ApiTypeOK, OwnersExist, Stored, Registered, DatabaseMoves
  <2> QED BY <2>2, DatabasePreservesInv
<1>2. ASSUME NEW u \in Users, NEW e \in Emails, NEW pw \in Passwords, register_user(u, e, pw)
      PROVE  ApiInv'
  <2> DEFINE row == [email |-> e, password |-> pw, is_active |-> TRUE]
  <2>1. /\ user[u] = None /\ user' = [user EXCEPT ![u] = row]
        /\ UNCHANGED <<clock, trade, token, req, walk>>
    BY <1>2 DEF register_user, FreshKey
  <2>2. row \in UserRow
    BY DEF UserRow
  <2> HIDE DEF row
  <2>3. ApiTypeOK'
    BY <1>0, <2>1, <2>2 DEF ApiTypeOK
  <2>4. \A v \in Users \ {u} : user'[v] = user[v]
    BY <1>0, <2>1 DEF ApiTypeOK
  <2>5. DatabaseMoves
    BY <2>1, <2>4 DEF DatabaseMoves, Registered, Stored
  <2>6. OwnersExist'
    BY <1>0, <2>1, <2>4 DEF OwnersExist, Stored, Registered
  <2> QED BY <2>3, <2>5, <2>6, DatabasePreservesInv
<1>3. ASSUME NEW u \in Users, Deactivate(u)
      PROVE  ApiInv'
  <2> DEFINE row == [user[u] EXCEPT !.is_active = FALSE]
  <2>1. /\ u \in Registered /\ user' = [user EXCEPT ![u] = row]
        /\ UNCHANGED <<clock, trade, token, req, walk>>
    BY <1>3 DEF Deactivate
  <2>2. user[u] \in UserRow
    BY <1>0, <2>1 DEF ApiTypeOK, Registered
  <2>3. row \in UserRow /\ row.email = user[u].email /\ row.is_active = FALSE
    BY <2>2 DEF UserRow
  <2> HIDE DEF row
  <2>4. ApiTypeOK'
    BY <1>0, <2>1, <2>3 DEF ApiTypeOK
  <2>5. user'[u] = row /\ \A v \in Users \ {u} : user'[v] = user[v]
    BY <1>0, <2>1 DEF ApiTypeOK
  <2>6. Registered' = Registered
    BY <2>1, <2>3, <2>5, RowAssumption DEF Registered
  <2>7. DatabaseMoves
    BY <2>1, <2>3, <2>5, <2>6, RowAssumption DEF DatabaseMoves
  <2>8. OwnersExist'
    BY <1>0, <2>1, <2>6 DEF OwnersExist, Stored
  <2> QED BY <2>4, <2>7, <2>8, DatabasePreservesInv
<1>4. ASSUME NEW u \in Users, Delete(u)
      PROVE  ApiInv'
  <2>1. /\ u \in Registered /\ user' = [user EXCEPT ![u] = Deleted]
        /\ trade' = [t \in Trades |-> IF t \in Owned(u) THEN Deleted ELSE trade[t]]
        /\ UNCHANGED <<clock, token, req, walk>>
    BY <1>4 DEF Delete
  <2>2. ApiTypeOK'
    BY <1>0, <2>1 DEF ApiTypeOK
  <2>3. user'[u] = Deleted /\ \A v \in Users \ {u} : user'[v] = user[v]
    BY <1>0, <2>1 DEF ApiTypeOK
  <2>4. Registered' = Registered \ {u}
    BY <2>1, <2>3 DEF Registered
  <2>5. \A t \in Stored : trade[t].user_id # u => trade'[t] = trade[t]
    BY <2>1 DEF Stored, Owned
  <2>6. \A t \in Trades : trade'[t] \in {trade[t], Deleted}
    BY <2>1
  <2>7. DatabaseMoves
    BY <2>1, <2>3, <2>4, <2>5, <2>6, RowAssumption DEF DatabaseMoves
  <2>8. OwnersExist'
    <3>1. \A t \in Stored' : t \in Stored /\ trade'[t] = trade[t] /\ trade[t].user_id # u
      BY <2>1 DEF Stored, Owned
    <3> QED BY <1>0, <2>4, <3>1 DEF OwnersExist
  <2> QED BY <2>2, <2>7, <2>8, DatabasePreservesInv
<1>5. ASSUME NEW t \in Trades, NEW u \in Users, NEW k \in Time, InsertTrade(t, u, k)
      PROVE  ApiInv'
  <2> DEFINE row == [user_id |-> u, created_at |-> k]
  <2>1. /\ trade[t] = None /\ u \in Registered /\ trade' = [trade EXCEPT ![t] = row]
        /\ UNCHANGED <<clock, user, token, req, walk>>
    BY <1>5 DEF InsertTrade
  <2>2. row \in TradeRow /\ row.user_id = u
    BY DEF TradeRow
  <2> HIDE DEF row
  <2>3. ApiTypeOK'
    BY <1>0, <2>1, <2>2 DEF ApiTypeOK
  <2>4. trade'[t] = row /\ \A v \in Trades \ {t} : trade'[v] = trade[v]
    BY <1>0, <2>1 DEF ApiTypeOK
  <2>5. DatabaseMoves
    BY <2>1, <2>4 DEF DatabaseMoves, Registered, Stored
  <2>6. OwnersExist'
    BY <1>0, <2>1, <2>2, <2>4 DEF OwnersExist, Stored, Registered
  <2> QED BY <2>3, <2>5, <2>6, DatabasePreservesInv
<1> QED BY <1>1, <1>2, <1>3, <1>4, <1>5
-----------------------------------------------------------------------------
(* Steps of a client.                                                      *)

\* The step is of c alone, and leaves it with this token, request and walk.
ClientMoves(c, tok, r, w) ==
  /\ UNCHANGED <<clock, user, trade>>
  /\ token' = [token EXCEPT ![c] = tok]
  /\ req'   = [req EXCEPT ![c] = r]
  /\ walk'  = [walk EXCEPT ![c] = w]

LEMMA ListsUnchanged ==
  ASSUME UNCHANGED <<user, trade>>
  PROVE  /\ Registered' = Registered /\ Stored' = Stored
         /\ \A u : Owned(u)' = Owned(u)
         /\ \A t : Ahead(t)' = Ahead(t)
<1>1. Registered' = Registered /\ Stored' = Stored
  BY DEF Registered, Stored
<1>2. \A u : Owned(u)' = Owned(u)
  BY <1>1 DEF Owned
<1>3. \A t : Ahead(t)' = Ahead(t)
  BY <1>2 DEF Ahead, Before
<1> QED BY <1>1, <1>2, <1>3

\* What a step of c must show.
LEMMA OneClientChanges ==
  ASSUME ApiInv, NEW c \in Clients,
         NEW tok \in Token \cup {None}, NEW r \in Request, NEW w \in Walk,
         ClientMoves(c, tok, r, w),
         ClientRight(c)'
  PROVE  ApiInv'
<1>1. /\ ApiTypeOK /\ OwnersExist
      /\ UNCHANGED <<clock, user, trade>>
  BY DEF ApiInv, ClientMoves
<1>2. ApiTypeOK'
  BY <1>1 DEF ApiTypeOK, ClientMoves
<1>3. OwnersExist'
  BY <1>1, ListsUnchanged DEF OwnersExist
<1>4. ASSUME NEW d \in Clients, d # c
      PROVE  ClientRight(d)'
  <2>1. token'[d] = token[d] /\ req'[d] = req[d] /\ walk'[d] = walk[d]
    BY <1>1, <1>4 DEF ApiTypeOK, ClientMoves
  <2>2. ClientRight(d)
    BY DEF ApiInv
  <2>3. TokenRight(d)'
    BY <1>1, <2>1, <2>2, ListsUnchanged DEF ClientRight, TokenRight
  <2>4. LateRight(d)'
    BY <1>1, <2>1, <2>2, ListsUnchanged DEF ClientRight, LateRight, Welcome
  <2>5. ShownRight(d)'
    BY <1>1, <2>1, <2>2, ListsUnchanged DEF ClientRight, ShownRight, Own
  <2>6. WalkRight(d)'
    BY <1>1, <2>1, <2>2, ListsUnchanged DEF ClientRight, WalkRight
  <2>7. CountRight(d)'
    <3>1. Owned(token[d].sub)' = Owned(token[d].sub)
      BY <1>1, <2>1, ListsUnchanged DEF Owned
    <3> QED BY <1>1, <2>1, <2>2, <3>1, ListsUnchanged DEF ClientRight, CountRight
  <2> QED BY <2>3, <2>4, <2>5, <2>6, <2>7 DEF ClientRight
<1> QED BY <1>2, <1>3, <1>4 DEF ApiInv

\* Most steps change the request alone.
LEMMA RequestChanges ==
  ASSUME ApiInv, NEW c \in Clients, NEW r \in Request,
         UNCHANGED <<clock, user, trade, token, walk>>,
         req' = [req EXCEPT ![c] = r],
         r.pc = "verifying" =>
           /\ r.id \in Registered /\ r.login = user[r.id],
         r.pc \in {"checking", "known", "counted", "served"} => token[c] # None,
         r.pc = "checking" /\ r.late => ~Welcome(c),
         r.pc \in {"known", "counted", "served"} => ~r.late,
         Own(c, r.items),
         r.pc = "counted" => r.total = Cardinality(Owned(token[c].sub)),
         r.pc = "served" => r.total = None
  PROVE  ApiInv'
<1>1. /\ ApiTypeOK /\ ClientRight(c)
      /\ token[c] \in Token \cup {None} /\ walk[c] \in Walk
  BY DEF ApiInv, ApiTypeOK
<1>2. ClientMoves(c, token[c], r, walk[c])
  BY <1>1 DEF ClientMoves, ApiTypeOK
<1>3. UNCHANGED <<user, trade>> /\ token'[c] = token[c] /\ req'[c] = r /\ walk'[c] = walk[c]
  BY <1>1 DEF ApiTypeOK
<1>4. TokenRight(c)'
  <2>1. r.pc = "verifying" => user[r.id] \in UserRow /\ user[r.id] # None
    BY <1>1 DEF ApiTypeOK, Registered
  <2>2. Registered \subseteq Users
    BY DEF Registered
  <2> QED BY <1>1, <1>3, <2>1, <2>2, ListsUnchanged DEF ClientRight, TokenRight
<1>5. LateRight(c)'
  BY <1>3, ListsUnchanged DEF LateRight, Welcome
<1>6. ShownRight(c)'
  BY <1>1, <1>3, ListsUnchanged DEF ClientRight, ShownRight, Own
<1>7. WalkRight(c)'
  BY <1>1, <1>3, ListsUnchanged DEF ClientRight, WalkRight
<1>8. CountRight(c)'
  <2>1. /\ Owned(token[c].sub)' = Owned(token[c].sub)
        /\ Owned(token[c].sub) \subseteq Trades
    BY <1>3, ListsUnchanged DEF Owned, Stored
  <2>2. Cardinality(Owned(token[c].sub)) \in Nat
    BY <2>1, FiniteLists
  <2> QED BY <1>3, <2>1, <2>2, ListsUnchanged DEF CountRight
<1>9. ClientRight(c)'
  BY <1>4, <1>5, <1>6, <1>7, <1>8 DEF ClientRight
<1> QED BY <1>1, <1>2, <1>9, OneClientChanges

LEMMA IdleIsARequest ==
  /\ Idle \in Request /\ Idle.pc = "idle" /\ Idle.items = {}
  /\ \A c : Own(c, {})
BY DEF Idle, Request, Own

LEMMA RefuseStep ==
  ASSUME ApiInv, NEW c \in Clients, Refuse(c), UNCHANGED <<clock, user, trade, token, walk>>
  PROVE  ApiInv'
BY IdleIsARequest, RequestChanges DEF Refuse

LEMMA LoginSteps ==
  ASSUME ApiInv, NEW c \in Clients,
         \/ \E u \in Users : authenticate_user(c, u)
         \/ \E pw \in Passwords : verify_password(c, pw)
  PROVE  ApiInv'
<1>0. ApiTypeOK /\ ClientRight(c)
  BY DEF ApiInv
<1>1. ASSUME NEW u \in Users, authenticate_user(c, u)
      PROVE  ApiInv'
  <2> DEFINE r == [Idle EXCEPT !.pc = "verifying", !.login = user[u], !.id = u]
  <2>1. /\ u \in Registered /\ req' = [req EXCEPT ![c] = r]
        /\ UNCHANGED <<clock, user, trade, token, walk>>
    BY <1>1 DEF authenticate_user
  <2>2. user[u] \in UserRow
    BY <1>0, <2>1 DEF ApiTypeOK, Registered
  <2>3. r \in Request /\ r.pc = "verifying" /\ r.id = u /\ r.login = user[u] /\ r.items = {}
    BY <2>2 DEF Idle, Request
  <2> HIDE DEF r
  <2> QED BY <2>1, <2>3, IdleIsARequest, RequestChanges
<1>2. ASSUME NEW pw \in Passwords, verify_password(c, pw)
      PROVE  ApiInv'
  <2>1. /\ req[c].pc = "verifying" /\ Refuse(c) /\ UNCHANGED <<clock, user, trade>>
    BY <1>2 DEF verify_password, Refuse
  <2>2. CASE UNCHANGED <<token, walk>>
    BY <2>1, <2>2, RefuseStep
  <2>3. CASE ~(UNCHANGED <<token, walk>>)
    <3> DEFINE tok == create_access_token(req[c].id, req[c].login.email)
               w   == FreshWalk({})
    <3>1. /\ token' = [token EXCEPT ![c] = tok] /\ walk' = [walk EXCEPT ![c] = w]
          /\ req' = [req EXCEPT ![c] = Idle]
      BY <1>2, <2>3 DEF verify_password
    <3>2. /\ req[c].id \in Users /\ req[c].login \in UserRow
          /\ user[req[c].id] # None
          /\ req[c].id \in Registered => user[req[c].id].email = req[c].login.email
      BY <1>0, <2>1 DEF ClientRight, TokenRight
    <3>3. tok \in Token /\ tok.sub = req[c].id /\ tok.email = req[c].login.email
      <4>1. clock + Lifetime \in Nat
        BY <1>0, ApiAssumption DEF ApiTypeOK, Time
      <4>2. req[c].login.email \in Emails
        BY <3>2 DEF UserRow
      <4> QED BY <3>2, <4>1, <4>2 DEF create_access_token, Token
    <3>4. w \in Walk /\ w.known = {} /\ w.seen = {}
      BY DEF Walk, FreshWalk
    <3> HIDE DEF tok, w
    <3>5. ClientMoves(c, tok, Idle, w)
      BY <2>1, <3>1 DEF ClientMoves
    <3>6. UNCHANGED <<user, trade>> /\ token'[c] = tok /\ req'[c] = Idle /\ walk'[c] = w
      BY <1>0, <2>1, <3>1 DEF ApiTypeOK
    <3>7. TokenRight(c)'
      BY <3>2, <3>3, <3>6, IdleIsARequest, ListsUnchanged DEF TokenRight
    <3>8. LateRight(c)' /\ CountRight(c)'
      BY <3>6, IdleIsARequest DEF LateRight, CountRight
    <3>9. ShownRight(c)' /\ WalkRight(c)'
      BY <3>4, <3>6, IdleIsARequest DEF ShownRight, WalkRight, Own
    <3> QED BY <3>3, <3>4, <3>5, <3>7, <3>8, <3>9, IdleIsARequest, OneClientChanges DEF ClientRight
  <2> QED BY <2>2, <2>3
<1> QED BY <1>1, <1>2

LEMMA ArriveStep ==
  ASSUME ApiInv, NEW c \in Clients, Arrive(c)
  PROVE  ApiInv'
<1>0. ApiTypeOK /\ ClientRight(c) /\ token[c] \in Token /\ walk[c] \in Walk
  BY DEF ApiInv, ApiTypeOK, Arrive
<1> DEFINE own == Owned(token[c].sub)
           w   == IF walk[c].done \/ walk[c].offset = 0 THEN FreshWalk(own) ELSE walk[c]
           chk == [Idle EXCEPT !.pc = "checking", !.late = Late(c)]
<1>1. PICK r \in {Idle, chk} :
        /\ r = chk => ~Expired(c)
        /\ req' = [req EXCEPT ![c] = r]
  <2>1. CASE Expired(c)
    BY <2>1 DEF Arrive, decode_access_token, Refuse, Idle
  <2>2. CASE ~Expired(c)
    BY <2>2 DEF Arrive, decode_access_token, Decodes
  <2> QED BY <2>1, <2>2
<1>2. chk \in Request /\ chk.pc = "checking" /\ chk.late = Late(c) /\ chk.items = {}
  BY <1>0 DEF Idle, Request, Late
<1>3. walk' = [walk EXCEPT ![c] = w] /\ UNCHANGED <<clock, user, trade, token>>
  BY <1>0 DEF Arrive, ApiTypeOK
<1>4. own \subseteq Trades /\ Own(c, own)
  BY <1>0 DEF Owned, Stored, Own, Arrive
<1>5. w \in Walk /\ Own(c, w.known) /\ Own(c, w.seen)
  <2>1. FreshWalk(own) \in Walk /\ FreshWalk(own).known = own /\ FreshWalk(own).seen = {}
    BY <1>4 DEF Walk, FreshWalk
  <2>2. Own(c, walk[c].known) /\ Own(c, walk[c].seen)
    BY <1>0 DEF ClientRight, ShownRight
  <2> HIDE DEF own
  <2> QED BY <1>0, <1>4, <2>1, <2>2, IdleIsARequest
<1>6. \A t \in w.known \cap Stored :
        t \in w.seen \/ (~w.done /\ w.offset <= Cardinality(Ahead(t)))
  <2>1. CASE w = walk[c]
    BY <1>0, <2>1 DEF ClientRight, WalkRight
  <2>2. CASE w = FreshWalk(own)
    <3>1. w.done = FALSE /\ w.offset = 0
      BY <2>2 DEF FreshWalk
    <3>2. \A t \in Trades : Cardinality(Ahead(t)) \in Nat
      <4>1. \A t : Ahead(t) \subseteq Trades
        BY DEF Ahead, Owned, Stored
      <4> QED BY <4>1, FiniteLists
    <3> HIDE DEF w
    <3>3. w.known \cap Stored \subseteq Trades
      BY DEF Stored
    <3> QED BY <3>1, <3>2, <3>3
  <2> QED BY <2>1, <2>2
<1>7. /\ r \in Request /\ r.items = {} /\ r.pc \in {"idle", "checking"}
      /\ r.pc = "checking" /\ r.late => ~Welcome(c)
  <2>1. r = chk => (Late(c) => ~Welcome(c))
    BY <1>1 DEF Late, Welcome
  <2> HIDE DEF chk
  <2> QED BY <1>1, <1>2, <2>1, IdleIsARequest
<1> HIDE DEF own, w, chk
<1>8. ClientMoves(c, token[c], r, w)
  BY <1>0, <1>1, <1>3 DEF ClientMoves, ApiTypeOK
<1>9. UNCHANGED <<user, trade>> /\ token'[c] = token[c] /\ req'[c] = r /\ walk'[c] = w
  BY <1>0, <1>1, <1>3 DEF ApiTypeOK
<1>10. TokenRight(c)'
  BY <1>0, <1>7, <1>9, ListsUnchanged DEF ClientRight, TokenRight
<1>11. LateRight(c)' /\ CountRight(c)'
  <2>1. token[c] # None
    BY DEF Arrive
  <2>2. Welcome(c)' = Welcome(c)
    BY <1>9, ListsUnchanged DEF Welcome
  <2> QED BY <1>7, <1>9, <2>1, <2>2 DEF LateRight, CountRight
<1>12. ShownRight(c)'
  BY <1>5, <1>7, <1>9, ListsUnchanged DEF ShownRight, Own
<1>13. WalkRight(c)'
  BY <1>6, <1>9, ListsUnchanged DEF WalkRight
<1> QED BY <1>0, <1>5, <1>7, <1>8, <1>10, <1>11, <1>12, <1>13, OneClientChanges DEF ClientRight

LEMMA AnswerSteps ==
  ASSUME ApiInv, NEW c \in Clients,
         \/ get_user_by_id(c) \/ read_current_user(c)
         \/ \E t \in Trades : get_trade_for_user(c, t)
         \/ count_trades(c)
  PROVE  ApiInv'
<1>0. ApiTypeOK /\ ClientRight(c) /\ req \in [Clients -> Request] /\ req[c] \in Request
  BY DEF ApiInv, ApiTypeOK
<1>1. Own(c, req[c].items)
  BY <1>0 DEF ClientRight, ShownRight
<1>2. req[c].pc \in {"checking", "known", "counted"} => token[c] # None
  BY <1>0 DEF ClientRight, LateRight
<1>3. CASE get_user_by_id(c)
  <2>1. req[c].pc = "checking" /\ UNCHANGED <<clock, user, trade, token, walk>>
    BY <1>3 DEF get_user_by_id
  <2>2. CASE Welcome(c)
    <3> DEFINE r == [req[c] EXCEPT !.pc = "known"]
    <3>1. req' = [req EXCEPT ![c] = r]
      BY <1>3, <2>2 DEF get_user_by_id
    <3>2. /\ r \in Request /\ r.pc = "known" /\ r.items = req[c].items /\ r.late = req[c].late
      BY <1>0 DEF Request
    <3>3. ~req[c].late
      BY <1>0, <2>1, <2>2 DEF ClientRight, LateRight
    <3> HIDE DEF r
    <3> QED BY <1>1, <1>2, <2>1, <3>1, <3>2, <3>3, RequestChanges
  <2>3. CASE ~Welcome(c)
    BY <1>3, <2>1, <2>3, RefuseStep DEF get_user_by_id
  <2> QED BY <2>2, <2>3
<1>4. ASSUME NEW S \in SUBSET Trades, Own(c, S), req[c].pc = "known", Serve(c, None, S),
             UNCHANGED <<clock, user, trade, token, walk>>
      PROVE  ApiInv'
  <2> DEFINE r == [req[c] EXCEPT !.pc = "served", !.total = None, !.items = S]
  <2>1. req' = [req EXCEPT ![c] = r]
    BY <1>0, <1>4 DEF Serve
  <2>2. /\ r \in Request /\ r.pc = "served" /\ r.items = S /\ r.late = req[c].late
        /\ r.total = None
    BY <1>0 DEF Request
  <2>3. ~req[c].late
    BY <1>0, <1>4 DEF ClientRight, LateRight
  <2> HIDE DEF r
  <2> QED BY <1>2, <1>4, <2>1, <2>2, <2>3, RequestChanges
<1>5. CASE read_current_user(c)
  BY <1>4, <1>5, IdleIsARequest DEF read_current_user
<1>6. ASSUME NEW t \in Trades, get_trade_for_user(c, t)
      PROVE  ApiInv'
  <2>1. req[c].pc = "known" /\ UNCHANGED <<clock, user, trade, token, walk>>
    BY <1>6 DEF get_trade_for_user
  <2>2. CASE t \in Owned(token[c].sub)
    <3>1. Own(c, {t})
      BY <1>2, <2>1, <2>2 DEF Own, Owned, Stored
    <3> QED BY <1>4, <1>6, <2>1, <2>2, <3>1 DEF get_trade_for_user
  <2>3. CASE t \notin Owned(token[c].sub)
    BY <1>6, <2>1, <2>3, RefuseStep DEF get_trade_for_user
  <2> QED BY <2>2, <2>3
<1>7. CASE count_trades(c)
  <2> DEFINE n == Cardinality(Owned(token[c].sub))
             r == [req[c] EXCEPT !.pc = "counted", !.total = n]
  <2>1. /\ req[c].pc = "known" /\ UNCHANGED <<clock, user, trade, token, walk>>
        /\ req' = [req EXCEPT ![c] = r]
    BY <1>0, <1>7 DEF count_trades, Count
  <2>2. n \in Nat
    <3>1. Owned(token[c].sub) \subseteq Trades
      BY DEF Owned, Stored
    <3> QED BY <3>1, FiniteLists
  <2>3. /\ r \in Request /\ r.pc = "counted" /\ r.items = req[c].items /\ r.late = req[c].late
        /\ r.total = n
    BY <1>0, <2>2 DEF Request
  <2>4. ~req[c].late
    BY <1>0, <2>1 DEF ClientRight, LateRight
  <2> HIDE DEF r
  <2> QED BY <1>1, <1>2, <2>1, <2>3, <2>4, RequestChanges
<1> QED BY <1>3, <1>5, <1>6, <1>7

LEMMA PageStep ==
  ASSUME ApiInv, NEW c \in Clients, page_of_trades(c)
  PROVE  ApiInv'
<1>0. /\ ApiTypeOK /\ ClientRight(c) /\ req \in [Clients -> Request] /\ req[c] \in Request
      /\ walk[c] \in Walk /\ token[c] \in Token \cup {None}
      /\ req[c].pc = "counted" /\ UNCHANGED <<clock, user, trade, token>>
  BY DEF ApiInv, ApiTypeOK, page_of_trades
<1>1. /\ token[c] \in Token /\ token[c] # None /\ token[c].sub \in Users
      /\ walk[c].offset \in Nat /\ ~req[c].late /\ req[c].total \in Nat
      /\ walk[c].seen \subseteq Trades /\ walk[c].known \subseteq Trades
      /\ PageSize \in Nat
  BY <1>0, ApiAssumption DEF Token, Walk, ClientRight, LateRight, CountRight
<1> DEFINE own == Owned(token[c].sub)
<1>2. PICK page \in Pages(own, walk[c].offset) :
        /\ Serve(c, req[c].total, page)
        /\ walk' = [walk EXCEPT ![c].seen = @ \cup page,
                                ![c].done = Cardinality(page) < PageSize,
                                ![c].offset = IF Cardinality(page) < PageSize
                                                THEN @ ELSE @ + PageSize]
  BY DEF page_of_trades
<1>3. /\ page \subseteq own
      /\ Cardinality(page) < PageSize =>
           Cardinality(own) <= walk[c].offset + Cardinality(page)
      /\ \A t \in own \ page : walk[c].offset <= Cardinality(Ahead(t)) =>
           /\ Cardinality(page) = PageSize
           /\ walk[c].offset + PageSize <= Cardinality(Ahead(t))
  BY <1>0, <1>1, <1>2, PageOfList
<1>4. own \subseteq Trades /\ Own(c, own) /\ Own(c, page)
  BY <1>1, <1>3 DEF Owned, Stored, Own
<1>5. Cardinality(page) \in Nat /\ Cardinality(own) \in Nat
  BY <1>3, <1>4, FiniteLists
<1> HIDE DEF own
<1> DEFINE short == Cardinality(page) < PageSize
           r == [req[c] EXCEPT !.pc = "served", !.total = req[c].total, !.items = page]
           w == [walk[c] EXCEPT !.seen = walk[c].seen \cup page, !.done = short,
                                !.offset = IF short THEN walk[c].offset
                                           ELSE walk[c].offset + PageSize]
<1>6. /\ r \in Request /\ r.pc = "served" /\ r.items = page /\ r.late = req[c].late
      /\ r.total = req[c].total
  BY <1>0, <1>3, <1>4 DEF Request
<1>7. /\ w \in Walk /\ w.seen = walk[c].seen \cup page /\ w.known = walk[c].known
      /\ w.done => short
      /\ short => w.offset = walk[c].offset
      /\ ~short => w.offset = walk[c].offset + PageSize
  <2>1. short \in BOOLEAN
    OBVIOUS
  <2>2. (IF short THEN walk[c].offset ELSE walk[c].offset + PageSize) \in Nat
    BY <1>1
  <2>3. walk[c].seen \cup page \in SUBSET Trades
    BY <1>1, <1>3, <1>4
  <2> HIDE DEF short
  <2> QED BY <1>0, <2>1, <2>2, <2>3 DEF Walk
<1>8. req' = [req EXCEPT ![c] = r] /\ walk' = [walk EXCEPT ![c] = w]
  BY <1>0, <1>2 DEF Serve, ApiTypeOK, Walk
<1> HIDE DEF r, w
<1>9. ClientMoves(c, token[c], r, w)
  BY <1>0, <1>8 DEF ClientMoves, ApiTypeOK
<1>10. UNCHANGED <<user, trade>> /\ token'[c] = token[c] /\ req'[c] = r /\ walk'[c] = w
  BY <1>0, <1>8 DEF ApiTypeOK
<1>11. TokenRight(c)'
  BY <1>0, <1>6, <1>10, ListsUnchanged DEF ClientRight, TokenRight
<1>12. LateRight(c)'
  BY <1>1, <1>6, <1>10 DEF LateRight
<1>13. ShownRight(c)'
  BY <1>0, <1>4, <1>6, <1>7, <1>10, ListsUnchanged DEF ClientRight, ShownRight, Own
<1>14. WalkRight(c)'
  <2> SUFFICES ASSUME NEW t \in walk[c].known \cap Stored, t \notin w.seen
               PROVE  ~w.done /\ w.offset <= Cardinality(Ahead(t))
    BY <1>7, <1>10, ListsUnchanged DEF WalkRight
  <2>1. t \notin page /\ walk[c].offset <= Cardinality(Ahead(t))
    BY <1>0, <1>7 DEF ClientRight, WalkRight
  <2>2. t \in own
    BY <1>0, <1>1 DEF ClientRight, ShownRight, Own, own, Owned
  <2>3. Cardinality(page) = PageSize /\ walk[c].offset + PageSize <= Cardinality(Ahead(t))
    BY <1>3, <2>1, <2>2
  <2>4. ~short
    BY <1>1, <2>3
  <2> QED BY <1>7, <2>3, <2>4
<1>15. CountRight(c)'
  <2>1. ASSUME short, token[c].sub \in Registered
        PROVE  req[c].total <= w.offset + Cardinality(page)
    <3>1. req[c].total <= Cardinality(own)
      BY <1>0, <2>1 DEF ClientRight, CountRight, own
    <3> QED BY <1>1, <1>3, <1>5, <1>7, <2>1, <3>1
  <2> QED BY <1>6, <1>10, <2>1, ListsUnchanged DEF CountRight
<1> QED BY <1>0, <1>6, <1>7, <1>9, <1>11, <1>12, <1>13, <1>14, <1>15, OneClientChanges DEF ClientRight
-----------------------------------------------------------------------------
(* The theorems.                                                           *)

LEMMA ApiInitInv ==
  ASSUME ApiInit
  PROVE  ApiInv
<1>1. ApiTypeOK
  <2>1. FreshWalk({}) \in Walk /\ 0 \in Time
    BY ApiAssumption DEF FreshWalk, Walk, Time
  <2> QED BY <2>1, IdleIsARequest DEF ApiInit, ApiTypeOK
<1>2. OwnersExist
  BY DEF ApiInit, OwnersExist, Stored
<1>3. ASSUME NEW c \in Clients
      PROVE  ClientRight(c)
  <2>1. token[c] = None /\ req[c] = Idle /\ walk[c] = FreshWalk({})
    BY DEF ApiInit
  <2>2. walk[c].known = {} /\ walk[c].seen = {}
    BY <2>1 DEF FreshWalk
  <2>3. TokenRight(c) /\ LateRight(c) /\ CountRight(c)
    BY <2>1, IdleIsARequest DEF TokenRight, LateRight, CountRight
  <2>4. ShownRight(c) /\ WalkRight(c)
    BY <2>1, <2>2, IdleIsARequest DEF ShownRight, WalkRight
  <2> QED BY <2>3, <2>4 DEF ClientRight
<1> QED BY <1>1, <1>2, <1>3 DEF ApiInv

LEMMA ApiNextInv ==
  ASSUME ApiInv, [ApiNext]_apiVars
  PROVE  ApiInv'
<1>1. CASE UNCHANGED apiVars
  <2>1. ApiTypeOK /\ OwnersExist /\ UNCHANGED <<clock, user, trade, token, req, walk>>
    BY <1>1 DEF ApiInv, apiVars
  <2>2. ApiTypeOK' /\ OwnersExist' /\ DatabaseMoves
    BY <2>1 DEF ApiTypeOK, OwnersExist, Stored, Registered, DatabaseMoves
  <2> QED BY <2>2, DatabasePreservesInv
<1>2. ASSUME NEW c \in Clients,
             \/ \E u \in Users : authenticate_user(c, u)
             \/ \E pw \in Passwords : verify_password(c, pw)
             \/ Arrive(c) \/ get_user_by_id(c)
             \/ read_current_user(c)
             \/ \E t \in Trades : get_trade_for_user(c, t)
             \/ count_trades(c) \/ page_of_trades(c)
      PROVE  ApiInv'
  BY <1>2, LoginSteps, ArriveStep, AnswerSteps, PageStep
<1> QED BY <1>1, <1>2, DatabaseSteps DEF ApiNext

(* The invariant the other theorems follow from holds in every state that  *)
(* accounts, webhooks and clients can reach, whatever the order of their   *)
(* statements.                                                             *)
THEOREM ApiInductive == ApiSpec => []ApiInv
BY ApiInitInv, ApiNextInv, PTL DEF ApiSpec

(* Every row, token, request and walk keeps its type.                      *)
THEOREM ApiTypeCorrect == ApiSpec => []ApiTypeOK
<1>1. ApiInv => ApiTypeOK
  BY DEF ApiInv
<1> QED BY <1>1, ApiInductive, PTL

(* get_current_user answers no request that arrived after the expiry of    *)
(* its token, or the deactivation or deletion of its account.              *)
THEOREM LateIsRefused == ApiSpec => []LateNeverServed
<1>1. ApiInv => LateNeverServed
  BY DEF ApiInv, ClientRight, LateRight, LateNeverServed
<1> QED BY <1>1, ApiInductive, PTL

(* The routes show a client trades of the account it logged in to and of   *)
(* no other, although accounts are deleted and addresses registered anew   *)
(* between its requests and between the statements of one.                 *)
THEOREM ShownAreOwn == ApiSpec => []OnlyOwnTrades
<1>1. ASSUME ApiInv
      PROVE  OnlyOwnTrades
  <2> SUFFICES ASSUME NEW c \in Clients, NEW t \in walk[c].seen \cup req[c].items, t \in Stored
               PROVE  user[trade[t].user_id].email = token[c].email
    BY DEF OnlyOwnTrades
  <2>1. token[c] # None /\ trade[t].user_id = token[c].sub
    BY <1>1 DEF ApiInv, ClientRight, ShownRight, Own
  <2>2. token[c].sub \in Registered
    BY <1>1, <2>1 DEF ApiInv, OwnersExist
  <2> QED BY <1>1, <2>1, <2>2 DEF ApiInv, ClientRight, TokenRight
<1> QED BY <1>1, ApiInductive, PTL

(* list_trades_for_user, called page after page until one comes up short,  *)
(* has shown every trade there was at the start: the ORDER BY has no ties  *)
(* and inserts push a row down the list only.                              *)
THEOREM WalksAreComplete == ApiSpec => []WalkMissesNothing
<1>1. ApiInv => WalkMissesNothing
  BY DEF ApiInv, ClientRight, WalkRight, WalkMissesNothing
<1> QED BY <1>1, ApiInductive, PTL

(* The total of list_trades_for_user is never more than a walk that ends   *)
(* with the same answer has shown.                                         *)
THEOREM TotalIsReached == ApiSpec => []TotalNotAhead
<1>1. ApiInv => TotalNotAhead
  BY DEF ApiInv, ClientRight, CountRight, TotalNotAhead
<1> QED BY <1>1, ApiInductive, PTL
=============================================================================
