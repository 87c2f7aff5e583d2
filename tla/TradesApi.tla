----------------------------- MODULE TradesApi -----------------------------
(***************************************************************************)
(* Login, the bearer token, and the reads it opens: GET /auth/me, GET      *)
(* /trades and GET /trades/{id}.  Each request runs several statements     *)
(* under READ COMMITTED, and whatever one of them read may be out of date  *)
(* at the next: the account may be deactivated or deleted, its address     *)
(* registered anew, and trades are inserted all the time.                  *)
(*                                                                         *)
(* Nothing under src/ deactivates or deletes an account; an operator does, *)
(* in SQL, and for good.  Registration is one step here: its own races are *)
(* the subject of SignalIntake.                                            *)
(***************************************************************************)
EXTENDS Integers, FiniteSets

CONSTANTS
  Users,      \* values of users.id
  Emails,
  Passwords,
  Trades,     \* values of trades.id
  Clients,
  Lifetime,   \* ACCESS_TOKEN_EXPIRE_MINUTES, in ticks
  MaxTime,    \* bound of the clock
  PageSize,   \* the limit a client asks for
  None,       \* Python None: no such row
  Deleted     \* a row that is gone; its key is not used again

ASSUME ApiAssumption ==
  /\ Users \subseteq Nat /\ Trades \subseteq Nat /\ IsFiniteSet(Trades)
  /\ Lifetime \in Nat \ {0} /\ MaxTime \in Nat
  /\ PageSize \in Nat \ {0}

VARIABLES
  clock,
  user,   \* user[u]: the row of table users
  trade,  \* trade[t]: the row of table trades
  token,  \* token[c]: the last one the client was given, or none
  req,    \* req[c]: the request under way and what was last answered
  walk    \* walk[c]: a client paging through its trades

apiVars == <<clock, user, trade, token, req, walk>>

Time == 0..MaxTime

UserRow  == [email : Emails, password : Passwords, is_active : BOOLEAN]
TradeRow == [user_id : Users, created_at : Time]
Token    == [sub : Users, exp : Nat, email : Emails]

(* A row that is there is neither missing nor deleted.                     *)
ASSUME RowAssumption ==
  /\ None # Deleted
  /\ \A absent \in {None, Deleted} : absent \notin UserRow /\ absent \notin TradeRow

\* late: when the request arrived its token had expired, or the account was
\* deactivated or deleted.  total and items: the answer.
Request ==
  [ pc     : {"idle", "verifying", "checking", "known", "counted", "served"},
    login  : UserRow \cup {None},
    id     : Users \cup {None},
    late   : BOOLEAN,
    total  : Nat \cup {None},
    items  : SUBSET Trades ]

\* known: the client's trades as the walk began; seen: what it was shown.
Walk == [offset : Nat, known : SUBSET Trades, seen : SUBSET Trades, done : BOOLEAN]

Idle == [ pc |-> "idle", login |-> None, id |-> None, late |-> FALSE,
          total |-> None, items |-> {} ]

FreshWalk(S) == [offset |-> 0, known |-> S, seen |-> {}, done |-> FALSE]

ApiTypeOK ==
  /\ clock \in Time
  /\ user  \in [Users -> UserRow \cup {None, Deleted}]
  /\ trade \in [Trades -> TradeRow \cup {None, Deleted}]
  /\ token \in [Clients -> Token \cup {None}]
  /\ req   \in [Clients -> Request]
  /\ walk  \in [Clients -> Walk]

ApiInit ==
  /\ clock = 0
  /\ user  = [u \in Users |-> None]
  /\ trade = [t \in Trades |-> None]
  /\ token = [c \in Clients |-> None]
  /\ req   = [c \in Clients |-> Idle]
  /\ walk  = [c \in Clients |-> FreshWalk({})]
-----------------------------------------------------------------------------
(* The database                                                            *)

Registered == {u \in Users : user[u] \notin {None, Deleted}}

Stored == {t \in Trades : trade[t] \notin {None, Deleted}}

Owned(u) == {t \in Stored : trade[t].user_id = u}

Tick == clock < MaxTime /\ clock' = clock + 1 /\ UNCHANGED <<user, trade, token, req, walk>>

\* Mutant: the key of a deleted account is handed out again.
FreshKey_Reused(u) ==
  /\ user[u] \in {None, Deleted}
  /\ \A v \in Users : v < u => v \in Registered

\* The keys of table users come from a sequence.
FreshKey(u) == user[u] = None /\ \A v \in Users : v < u => user[v] # None

register_user(u, e, pw) ==
  /\ FreshKey(u)
  /\ \A v \in Registered : user[v].email # e
  /\ user' = [user EXCEPT ![u] = [email |-> e, password |-> pw, is_active |-> TRUE]]
  /\ UNCHANGED <<clock, trade, token, req, walk>>

Deactivate(u) ==
  /\ u \in Registered
  /\ user[u].is_active
  /\ user' = [user EXCEPT ![u].is_active = FALSE]
  /\ UNCHANGED <<clock, trade, token, req, walk>>

\* ON DELETE CASCADE takes the trades along.
Delete(u) ==
  /\ u \in Registered
  /\ user' = [user EXCEPT ![u] = Deleted]
  /\ trade' = [t \in Trades |-> IF t \in Owned(u) THEN Deleted ELSE trade[t]]
  /\ UNCHANGED <<clock, token, req, walk>>

\* The commit of a webhook's INSERT.  id and created_at were taken earlier,
\* so rows appear neither in the order of their ids nor of their times.
InsertTrade(t, u, k) ==
  /\ trade[t] = None
  /\ u \in Registered
  /\ k <= clock
  /\ trade' = [trade EXCEPT ![t] = [user_id |-> u, created_at |-> k]]
  /\ UNCHANGED <<clock, user, token, req, walk>>
-----------------------------------------------------------------------------
(* POST /auth/login                                                        *)

Resting(c) == req[c].pc \in {"idle", "served"}

\* The SELECT; the row is the session's copy from here on.  A login of an
\* unknown address is refused and changes nothing.
authenticate_user(c, u) ==
  /\ Resting(c)
  /\ u \in Registered
  /\ req' = [req EXCEPT ![c] = [Idle EXCEPT !.pc = "verifying", !.login = user[u], !.id = u]]
  /\ UNCHANGED <<clock, user, trade, token, walk>>

\* Mutant: the subject is the address, not the id.
create_access_token_ByEmail(u, e) == [sub |-> e, exp |-> clock + Lifetime, email |-> e]

create_access_token(u, e) == [sub |-> u, exp |-> clock + Lifetime, email |-> e]

\* bcrypt has run on its thread; is_active is the copy's.
verify_password(c, pw) ==
  /\ req[c].pc = "verifying"
  /\ req' = [req EXCEPT ![c] = Idle]
  /\ IF req[c].login.password = pw /\ req[c].login.is_active
       THEN /\ token' = [token EXCEPT ![c] =
                           create_access_token(req[c].id, req[c].login.email)]
            /\ walk' = [walk EXCEPT ![c] = FreshWalk({})]
       ELSE UNCHANGED <<token, walk>>
  /\ UNCHANGED <<clock, user, trade>>
-----------------------------------------------------------------------------
(* get_current_user                                                        *)

Expired(c) == token[c].exp <= clock

Late(c) ==
  \/ Expired(c)
  \/ token[c].sub \notin Registered
  \/ ~user[token[c].sub].is_active

Refuse(c) == req' = [req EXCEPT ![c] = Idle]

Decodes(c) == req' = [req EXCEPT ![c] = [Idle EXCEPT !.pc = "checking", !.late = Late(c)]]

\* Mutant: the expiry is not verified.
decode_access_token_NoExpiry(c) == Decodes(c)

\* An expired token is refused, every other one leads to the SELECT.
decode_access_token(c) == IF Expired(c) THEN Refuse(c) ELSE Decodes(c)

\* A request arrives.  The client begins a walk, or goes on with one.
Arrive(c) ==
  /\ Resting(c)
  /\ token[c] # None
  /\ decode_access_token(c)
  /\ walk' = [walk EXCEPT ![c] =
                IF @.done \/ @.offset = 0 THEN FreshWalk(Owned(token[c].sub)) ELSE @]
  /\ UNCHANGED <<clock, user, trade, token>>

\* Mutant: the account need not be active any more.
Welcome_Inactive(c) == token[c].sub \in Registered

Welcome(c) == token[c].sub \in Registered /\ user[token[c].sub].is_active

get_user_by_id(c) ==
  /\ req[c].pc = "checking"
  /\ IF Welcome(c) THEN req' = [req EXCEPT ![c].pc = "known"] ELSE Refuse(c)
  /\ UNCHANGED <<clock, user, trade, token, walk>>
-----------------------------------------------------------------------------
(* The routes                                                              *)

Serve(c, total, items) ==
  req' = [req EXCEPT ![c].pc = "served", ![c].total = total, ![c].items = items]

read_current_user(c) ==
  /\ req[c].pc = "known"
  /\ Serve(c, None, {})
  /\ UNCHANGED <<clock, user, trade, token, walk>>

\* Mutant: the WHERE clause lacks the owner.
get_trade_for_user_Anyone(c, t) ==
  /\ req[c].pc = "known"
  /\ IF t \in Stored THEN Serve(c, None, {t}) ELSE Refuse(c)
  /\ UNCHANGED <<clock, user, trade, token, walk>>

\* One trade, or 404.
get_trade_for_user(c, t) ==
  /\ req[c].pc = "known"
  /\ IF t \in Owned(token[c].sub) THEN Serve(c, None, {t}) ELSE Refuse(c)
  /\ UNCHANGED <<clock, user, trade, token, walk>>

\* Mutant: the count lacks the WHERE clause of the page.
Count_Everybody(c) == Cardinality(Stored)

Count(c) == Cardinality(Owned(token[c].sub))

\* list_trades_for_user: first the count...
count_trades(c) ==
  /\ req[c].pc = "known"
  /\ req' = [req EXCEPT ![c].pc = "counted", ![c].total = Count(c)]
  /\ UNCHANGED <<clock, user, trade, token, walk>>

\* Mutant: trades of one instant come in any order.
Before_ByTimeOnly(t, u) == trade[t].created_at > trade[u].created_at

\* ORDER BY created_at DESC, id DESC
Before(t, u) ==
  \/ trade[t].created_at > trade[u].created_at
  \/ trade[t].created_at = trade[u].created_at /\ t > u

\* The pages the ORDER BY allows: more than one, were it to leave ties.
Pages(S, offset) ==
  {page \in SUBSET S :
     \E skipped \in SUBSET (S \ page) :
       /\ Cardinality(skipped) = (IF offset < Cardinality(S) THEN offset ELSE Cardinality(S))
       /\ Cardinality(page) = (IF PageSize < Cardinality(S \ skipped)
                                 THEN PageSize ELSE Cardinality(S \ skipped))
       /\ \A t \in skipped, u \in S \ skipped : ~Before(u, t)
       /\ \A t \in page, u \in S \ (skipped \cup page) : ~Before(u, t)}

\* ... then the page.  A short one tells the client that it is the last.
page_of_trades(c) ==
  /\ req[c].pc = "counted"
  /\ \E page \in Pages(Owned(token[c].sub), walk[c].offset) :
       /\ Serve(c, req[c].total, page)
       /\ walk' = [walk EXCEPT ![c].seen = @ \cup page,
                               ![c].done = Cardinality(page) < PageSize,
                               ![c].offset = IF Cardinality(page) < PageSize
                                               THEN @ ELSE @ + PageSize]
  /\ UNCHANGED <<clock, user, trade, token>>

ApiNext ==
  \/ Tick
  \/ \E u \in Users, e \in Emails, pw \in Passwords : register_user(u, e, pw)
  \/ \E u \in Users : Deactivate(u) \/ Delete(u)
  \/ \E t \in Trades, u \in Users, k \in Time : InsertTrade(t, u, k)
  \/ \E c \in Clients :
       \/ \E u \in Users : authenticate_user(c, u)
       \/ \E pw \in Passwords : verify_password(c, pw)
       \/ Arrive(c) \/ get_user_by_id(c)
       \/ read_current_user(c)
       \/ \E t \in Trades : get_trade_for_user(c, t)
       \/ count_trades(c) \/ page_of_trades(c)

ApiSpec == ApiInit /\ [][ApiNext]_apiVars
-----------------------------------------------------------------------------
(* Properties                                                              *)

(* A token outlives what it stands for, and a login may issue one for an   *)
(* account that was deactivated while the password was being checked.  But *)
(* no request that arrives after the expiry, the deactivation or the       *)
(* deletion is answered with anything.                                     *)
LateNeverServed == \A c \in Clients : req[c].pc = "served" => ~req[c].late

(* Whatever is deleted and registered anew meanwhile, a client is shown    *)
(* only trades of the account it logged in to.                             *)
OnlyOwnTrades ==
  \A c \in Clients : \A t \in walk[c].seen \cup req[c].items :
    t \in Stored => user[trade[t].user_id].email = token[c].email

(* A client that pages through its trades until a page comes up short has  *)
(* been shown every trade it had when it began, although rows are inserted *)
(* under it, in any order.                                                 *)
WalkMissesNothing ==
  \A c \in Clients : walk[c].done => walk[c].known \cap Stored \subseteq walk[c].seen

(* The count and the page of one answer may disagree, but in one direction *)
(* only: the last page never leaves the client short of the total it was   *)
(* promised with it.                                                       *)
TotalNotAhead ==
  \A c \in Clients :
    /\ req[c].pc = "served" /\ req[c].total # None
    /\ Cardinality(req[c].items) < PageSize
    /\ token[c].sub \in Registered
    => req[c].total <= walk[c].offset + Cardinality(req[c].items)
=============================================================================
