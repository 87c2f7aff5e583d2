---------------------------- MODULE SignalIntake ----------------------------
(***************************************************************************)
(* The requests that write before any order is thought of: deliveries of a *)
(* signal to the webhook, which look up the account that owns webhook      *)
(* trades and insert a PENDING row, and registrations of that account.     *)
(* All of them run beside each other, in several processes over one        *)
(* database, and each database call is a point where others may step in.   *)
(*                                                                         *)
(* One account matters: the one WEBHOOK_TRADE_OWNER_EMAIL names.  It has   *)
(* no password here, only the registration that set it.  A delivery has    *)
(* passed the secret and the validation, which write nothing.              *)
(***************************************************************************)
EXTENDS Integers, FiniteSets

CONSTANTS
  Processes,
  Signals,
  Deliveries,     \* webhook requests, repeats of a signal among them
  Registrations,  \* POST /auth/register for the owner's address
  None

ASSUME IntakeAssumption ==
  None \notin Signals /\ None \notin Registrations /\ None \notin Nat

VARIABLES
  account,   \* the users row with the owner's address
  trades,    \* trades[s]: the trades row with signal_id s
  keys,      \* the sequences behind the primary keys
  recorded,  \* signals whose row was ever committed (history)
  deleted,   \* was the account ever deleted? (history)
  cache,     \* cache[p]: _owner_user_id of process p
  delivery,  \* delivery[q]
  signup     \* signup[r]

intakeVars == <<account, trades, keys, recorded, deleted, cache, delivery, signup>>

Account == [id : Nat, by : Registrations]
Trade   == [id : Nat, owner : Nat]

(* A row is not NULL.                                                      *)
ASSUME RowAssumption == None \notin Account /\ None \notin Trade

(* owner: the id this delivery will insert; trade: the id it answers with. *)
Answers  == {"accepted", "duplicate", "unconfigured", "failed"}
Delivery == [ pc : {"new", "resolving", "inserting", "losing", "queueing"} \cup Answers,
              proc : Processes \cup {None}, signal : Signals \cup {None},
              owner : Nat \cup {None}, trade : Nat \cup {None} ]

Unsent == [pc |-> "new", proc |-> None, signal |-> None, owner |-> None, trade |-> None]

SignupStates == {"new", "hashing", "created", "conflict", "failed"}

IntakeTypeOK ==
  /\ account \in Account \cup {None}
  /\ trades \in [Signals -> Trade \cup {None}]
  /\ keys \in [{"users", "trades"} -> Nat]
  /\ recorded \subseteq Signals
  /\ deleted \in BOOLEAN
  /\ cache \in [Processes -> Nat \cup {None}]
  /\ delivery \in [Deliveries -> Delivery]
  /\ signup \in [Registrations -> SignupStates]

IntakeInit ==
  /\ account  = None
  /\ trades   = [s \in Signals |-> None]
  /\ keys     = [table \in {"users", "trades"} |-> 0]
  /\ recorded = {}
  /\ deleted  = FALSE
  /\ cache    = [p \in Processes |-> None]
  /\ delivery = [q \in Deliveries |-> Unsent]
  /\ signup   = [r \in Registrations |-> "new"]

accountVars == <<account, deleted, signup>>
tradeVars   == <<trades, keys, recorded>>
-----------------------------------------------------------------------------
(* Registration.                                                           *)

\* The friendly check before the password is hashed.
check_email(r) ==
  /\ signup[r] = "new"
  /\ signup' = [signup EXCEPT ![r] = IF account = None THEN "hashing" ELSE "conflict"]
  /\ UNCHANGED <<account, deleted, tradeVars, cache, delivery>>

\* Mutant: the later registration replaces the earlier one.
register_user_Replaces(r) ==
  /\ signup[r] = "hashing"
  /\ keys' = [keys EXCEPT !["users"] = @ + 1]
  /\ account' = [id |-> keys'["users"], by |-> r]
  /\ signup' = [signup EXCEPT ![r] = "created"]
  /\ UNCHANGED <<trades, recorded, deleted, cache, delivery>>

(* The INSERT.  The unique index on the address refuses a second row; a    *)
(* commit may also be reported as failed, applied or not.                  *)
register_user(r) ==
  /\ signup[r] = "hashing"
  /\ keys' = [keys EXCEPT !["users"] = @ + 1]
  /\ \/ /\ account = None
        /\ account' = [id |-> keys'["users"], by |-> r]
        /\ \E reply \in {"created", "failed"} : signup' = [signup EXCEPT ![r] = reply]
     \/ /\ account # None
        /\ signup' = [signup EXCEPT ![r] = "conflict"]
        /\ UNCHANGED account
  /\ UNCHANGED <<trades, recorded, deleted, cache, delivery>>

\* Any call raises, or the process dies.
registration_fails(r) ==
  /\ signup[r] = "hashing"
  /\ signup' = [signup EXCEPT ![r] = "failed"]
  /\ UNCHANGED <<account, deleted, tradeVars, cache, delivery>>

\* Not a call of the program: the row goes, and by ON DELETE CASCADE the
\* trades it owns.
delete_account ==
  /\ account # None
  /\ account' = None
  /\ deleted' = TRUE
  /\ trades' = [s \in Signals |->
       IF trades[s] # None /\ trades[s].owner = account.id THEN None ELSE trades[s]]
  /\ UNCHANGED <<keys, recorded, cache, delivery, signup>>
-----------------------------------------------------------------------------
(* Deliveries.                                                             *)

\* The cached id saves the query; nothing ever invalidates it.
tradingview_webhook(q, p, s) ==
  /\ delivery[q].pc = "new"
  /\ delivery' = [delivery EXCEPT ![q] =
       [ pc |-> IF cache[p] = None THEN "resolving" ELSE "inserting",
         proc |-> p, signal |-> s, owner |-> cache[p], trade |-> None ]]
  /\ UNCHANGED <<accountVars, tradeVars, cache>>

\* Mutant: the wrong column of the row is cached.
resolve_trade_owner_id_WrongColumn(q) ==
  /\ delivery[q].pc = "resolving"
  /\ account # None
  /\ cache' = [cache EXCEPT ![delivery[q].proc] = account.by]
  /\ delivery' = [delivery EXCEPT ![q].pc = "inserting", ![q].owner = account.id]
  /\ UNCHANGED <<accountVars, tradeVars>>

resolve_trade_owner_id(q) ==
  /\ delivery[q].pc = "resolving"
  /\ \/ /\ account = None
        /\ delivery' = [delivery EXCEPT ![q].pc = "unconfigured"]
        /\ UNCHANGED cache
     \/ /\ account # None
        /\ cache' = [cache EXCEPT ![delivery[q].proc] = account.id]
        /\ delivery' = [delivery EXCEPT ![q].pc = "inserting", ![q].owner = account.id]
  /\ UNCHANGED <<accountVars, tradeVars>>

\* Mutant: no foreign key.
IntegrityError_NoForeignKey(s, owner) == trades[s] # None

\* Mutant: no unique index on signal_id.
IntegrityError_NotUnique(s, owner) == account = None \/ account.id # owner

\* The unique index on signal_id, and the foreign key to users.
IntegrityError(s, owner) ==
  trades[s] # None \/ account = None \/ account.id # owner

(* The row is committed and its id goes to the executor, or the commit is  *)
(* applied but reported as failed, or refused by a constraint.             *)
create_pending_trade(q) ==
  LET s == delivery[q].signal
      owner == delivery[q].owner
  IN /\ delivery[q].pc = "inserting"
     /\ keys' = [keys EXCEPT !["trades"] = @ + 1]
     /\ IF IntegrityError(s, owner)
        THEN /\ delivery' = [delivery EXCEPT ![q].pc = "losing"]
             /\ UNCHANGED <<trades, recorded>>
        ELSE /\ trades' = [trades EXCEPT ![s] = [id |-> keys'["trades"], owner |-> owner]]
             /\ recorded' = recorded \cup {s}
             /\ delivery' \in {[delivery EXCEPT ![q].pc = "queueing", ![q].trade = keys'["trades"]],
                               [delivery EXCEPT ![q].pc = "failed"]}
     /\ UNCHANGED <<accountVars, cache>>

\* Mutant: the loser does not look for the winner.
reject_duplicate_Unnamed(q) ==
  /\ delivery[q].pc = "losing"
  /\ delivery' = [delivery EXCEPT ![q].pc = "duplicate"]
  /\ UNCHANGED <<accountVars, tradeVars, cache>>

\* After the rollback: whose row is it?  The answer is 409 in any case.
reject_duplicate(q) ==
  LET row == trades[delivery[q].signal]
  IN /\ delivery[q].pc = "losing"
     /\ delivery' = [delivery EXCEPT ![q].pc = "duplicate",
                                     ![q].trade = IF row = None THEN None ELSE row.id]
     /\ UNCHANGED <<accountVars, tradeVars, cache>>

\* 202, whether or not the executor's queue had room for the id.
accept(q) ==
  /\ delivery[q].pc = "queueing"
  /\ delivery' = [delivery EXCEPT ![q].pc = "accepted"]
  /\ UNCHANGED <<accountVars, tradeVars, cache>>

InProgress(q) == delivery[q].pc \notin Answers \cup {"new"}

\* Any call raises before it changed anything.
delivery_fails(q) ==
  /\ InProgress(q)
  /\ delivery' = [delivery EXCEPT ![q].pc = "failed"]
  /\ UNCHANGED <<accountVars, tradeVars, cache>>

\* A restart: the cache goes, and so do the deliveries under way.
restart(p) ==
  /\ cache' = [cache EXCEPT ![p] = None]
  /\ delivery' = [q \in Deliveries |->
       IF InProgress(q) /\ delivery[q].proc = p
         THEN [delivery[q] EXCEPT !.pc = "failed"] ELSE delivery[q]]
  /\ UNCHANGED <<accountVars, tradeVars>>

IntakeNext ==
  \/ \E r \in Registrations : check_email(r) \/ register_user(r) \/ registration_fails(r)
  \/ delete_account
  \/ \E q \in Deliveries, p \in Processes, s \in Signals : tradingview_webhook(q, p, s)
  \/ \E q \in Deliveries :
       \/ resolve_trade_owner_id(q) \/ create_pending_trade(q)
       \/ reject_duplicate(q) \/ accept(q) \/ delivery_fails(q)
  \/ \E p \in Processes : restart(p)

IntakeSpec == IntakeInit /\ [][IntakeNext]_intakeVars
-----------------------------------------------------------------------------
(* Properties                                                              *)

(* However often a signal is delivered, and to however many processes at   *)
(* once, one delivery at most is told 202, while its row is not deleted.   *)
AcceptedOnce ==
  ~deleted => \A q1, q2 \in Deliveries :
    /\ delivery[q1].pc = "accepted"
    /\ delivery[q2].pc = "accepted"
    /\ delivery[q1].signal = delivery[q2].signal
    => q1 = q2

(* What a caller was told stays true: 202 names a committed row that       *)
(* belongs to the configured account, 409 the row that won.                *)
RepliesAreTrue ==
  ~deleted => \A q \in Deliveries :
    /\ delivery[q].pc = "accepted" =>
         trades[delivery[q].signal] = [id |-> delivery[q].trade, owner |-> account.id]
    /\ delivery[q].pc = "duplicate" =>
         /\ trades[delivery[q].signal] # None
         /\ delivery[q].trade = trades[delivery[q].signal].id

(* Of racing registrations one wins: whoever is told 201 set the password  *)
(* of the account, and whoever is told 409 has lost to an account.         *)
RegistrationsAreTrue ==
  ~deleted => \A r \in Registrations :
    /\ signup[r] = "created" => account # None /\ account.by = r
    /\ signup[r] = "conflict" => account # None

(* Whatever the cache still believes, a trade belongs to an account that   *)
(* exists: the foreign key stops what a stale id would insert.             *)
TradesHaveOwner ==
  \A s \in Signals :
    trades[s] # None => account # None /\ trades[s].owner = account.id

(* "The webhook re-sent a signal_id we have already processed": no signal  *)
(* is turned away as a duplicate that has never been recorded.             *)
DuplicatesWereProcessed ==
  \A q \in Deliveries :
    delivery[q].pc = "duplicate" => delivery[q].signal \in recorded
=============================================================================
