------------------------------- MODULE Outbox -------------------------------
(***************************************************************************)
(* What the delivery path promises about one SMS it has taken, without     *)
(* directories, tables, locks, crashes or retries: the SMS waits until it  *)
(* is delivered or given up, only a waiting SMS is transmitted, and a      *)
(* delivered one never waits again.                                        *)
(***************************************************************************)
EXTENDS Naturals

CONSTANT Mail  \* the SMS the queue may take

VARIABLES
  taken,  \* the SMS taken so far
  stage,  \* where each of them stands
  copies  \* how often Telegram accepted each

outboxVars == <<taken, stage, copies>>

Stages == {"none", "waiting", "delivered", "failed"}

Goes(m, from, to) ==
  /\ stage[m] = from
  /\ stage' = [stage EXCEPT ![m] = to]

(* enqueue writes an item of a fresh id. *)
Take(m) ==
  /\ m \notin taken /\ taken' = taken \cup {m}
  /\ Goes(m, "none", "waiting")
  /\ UNCHANGED copies

(* enqueue finds that the SMS was known after all and removes the item. *)
Withdraw(m) ==
  /\ copies[m] = 0 /\ Goes(m, "waiting", "none")
  /\ UNCHANGED <<taken, copies>>

Transmit(m) ==
  /\ stage[m] = "waiting"
  /\ copies' = [copies EXCEPT ![m] = @ + 1]
  /\ UNCHANGED <<taken, stage>>

Deliver(m) ==
  /\ copies[m] >= 1 /\ Goes(m, "waiting", "delivered")
  /\ UNCHANGED <<taken, copies>>

GiveUp(m) ==
  /\ Goes(m, "waiting", "failed")
  /\ UNCHANGED <<taken, copies>>

TakeBack(m) ==
  /\ Goes(m, "failed", "waiting")
  /\ UNCHANGED <<taken, copies>>

(* Retention. *)
Expire(m) ==
  /\ Goes(m, "delivered", "none") \/ Goes(m, "failed", "none")
  /\ UNCHANGED <<taken, copies>>

OutboxInit ==
  /\ taken = {}
  /\ stage = [m \in Mail |-> "none"]
  /\ copies = [m \in Mail |-> 0]

OutboxNext ==
  \E m \in Mail : \/ Take(m) \/ Withdraw(m) \/ Transmit(m) \/ Deliver(m)
                  \/ GiveUp(m) \/ TakeBack(m) \/ Expire(m)

OutboxSpec == OutboxInit /\ [][OutboxNext]_outboxVars
=============================================================================
