---------------------------- MODULE SignalLedger ----------------------------
(***************************************************************************)
(* What the trading service promises for each signal, whatever crashes,    *)
(* timeouts and repeats lie in between: it is recorded before it is acted  *)
(* on, acted on once, can lead to one order at most, and is settled once   *)
(* and truthfully, after which nothing changes any more.                   *)
(***************************************************************************)
CONSTANT Signals

VARIABLES
  stage,    \* how far the service went with a signal
  order,    \* what the exchange did about it
  verdict   \* what the service concluded

ledgerVars == <<stage, order, verdict>>

Stages   == {"unseen", "recorded", "submitted"}
Orders   == {"none", "live", "done"}
Verdicts == {"open", "traded", "refused"}

LedgerInit ==
  /\ stage   = [s \in Signals |-> "unseen"]
  /\ order   = [s \in Signals |-> "none"]
  /\ verdict = [s \in Signals |-> "open"]

Record(s) ==
  /\ stage[s] = "unseen"
  /\ stage' = [stage EXCEPT ![s] = "recorded"]
  /\ UNCHANGED <<order, verdict>>

Submit(s) ==
  /\ stage[s] = "recorded"
  /\ stage' = [stage EXCEPT ![s] = "submitted"]
  /\ UNCHANGED <<order, verdict>>

\* The exchange creates the order, which may be done at once.
Place(s) ==
  /\ stage[s] = "submitted"
  /\ order[s] = "none"
  /\ verdict[s] = "open"
  /\ \E o \in {"live", "done"} : order' = [order EXCEPT ![s] = o]
  /\ UNCHANGED <<stage, verdict>>

Finish(s) ==
  /\ order[s] = "live"
  /\ order' = [order EXCEPT ![s] = "done"]
  /\ UNCHANGED <<stage, verdict>>

Settle(s) ==
  /\ stage[s] = "submitted"
  /\ verdict[s] = "open"
  /\ \/ order[s] = "done" /\ verdict' = [verdict EXCEPT ![s] = "traded"]
     \/ order[s] = "none" /\ verdict' = [verdict EXCEPT ![s] = "refused"]
  /\ UNCHANGED <<stage, order>>

LedgerNext ==
  \E s \in Signals : Record(s) \/ Submit(s) \/ Place(s) \/ Finish(s) \/ Settle(s)

LedgerSpec == LedgerInit /\ [][LedgerNext]_ledgerVars
=============================================================================
