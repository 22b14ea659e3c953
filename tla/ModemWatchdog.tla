--------------------------- MODULE ModemWatchdog ---------------------------
(***************************************************************************)
(* ModemWatchdog (relay/watchdog.py): the polls of the modem's health, the *)
(* two triggers, and what a trigger does: reset the modem, or enable it    *)
(* when its state is one that Enable may cure, at most once per cooldown.  *)
(*                                                                         *)
(* The modem is external: its signal, its registration and its state       *)
(* change at any time, so the reads of one poll may be of different        *)
(* moments, and any call may raise ModemError.  Time is counted in ticks;  *)
(* a datetime is kept as its distance from now, as far as it matters.      *)
(***************************************************************************)
EXTENDS Integers

CONSTANTS
  Threshold,      \* _signal_zero_threshold
  BadTime,        \* _bad_state_minutes, in ticks
  Cooldown,       \* _enable_cooldown_seconds, in ticks
  FrozenCooldown, \* _enable_frozen_cooldown_seconds, in ticks; may be the shorter
  MaxFaults       \* bound: calls that raise ModemError

ASSUME WatchdogAssumption ==
  /\ Threshold \in Nat \ {0} /\ BadTime \in Nat \ {0}
  /\ Cooldown \in Nat \ {0} /\ FrozenCooldown \in Nat \ {0}
  /\ MaxFaults \in Nat

VARIABLES
  modem,     \* the modem
  pc,        \* what the poll awaits
  read,      \* what this poll has read
  health,    \* the modem state last handed to the health callback
  zeros,     \* _consecutive_zero_signal_polls
  bad,       \* how long ago _bad_state_since is, -1 for None
  attempted, \* whether _last_enable_attempt_at is set, and
  age,       \* how long ago it is; negative when it is in the future
  stopping,  \* _stop_event
  faults,    \* calls that have raised
  called,    \* history: how long ago enable was last called
  frozen     \* history: that call ended in an invalid transition

vars == <<modem, pc, read, health, zeros, bad, attempted, age, stopping, faults,
          called, frozen>>
enabling == <<attempted, age, called, frozen>>
trouble == <<zeros, bad>>
-----------------------------------------------------------------------------
Modem == [signal : {"zero", "some", "stale"}, registration : {"good", "bad"},
          state : {"recoverable", "other"}]
Health == {"none", "unavailable", "recoverable", "other"}
Reading == {"signal", "registration", "state", "operator"}
None == -1
Longest == IF Cooldown > FrozenCooldown THEN Cooldown ELSE FrozenCooldown
NotBefore(t, limit) == IF t < limit THEN t ELSE limit

Fault == faults < MaxFaults /\ faults' = faults + 1

(* What the cooldown asks for after the last call of enable *)
Spacing == IF frozen THEN FrozenCooldown ELSE Cooldown

(* The end of a poll *)
EndPoll == pc' = IF stopping THEN "done" ELSE "sleep"

(* The end of a poll that was triggered: the counters start again. *)
Cleared == zeros' = 0 /\ bad' = None

-----------------------------------------------------------------------------
Poll ==
  /\ pc = "sleep" /\ ~stopping
  /\ pc' = "signal"
  /\ UNCHANGED <<modem, read, health, trouble, enabling, stopping, faults>>

(* get_signal_quality, get_registration_state and get_modem_state *)
ReadSignal ==
  /\ pc = "signal" /\ pc' = "registration"
  /\ read' = [read EXCEPT !.signal = modem.signal]
  /\ UNCHANGED <<modem, health, trouble, enabling, stopping, faults>>

ReadRegistration ==
  /\ pc = "registration" /\ pc' = "state"
  /\ read' = [read EXCEPT !.registration = modem.registration]
  /\ UNCHANGED <<modem, health, trouble, enabling, stopping, faults>>

ReadState ==
  /\ pc = "state" /\ pc' = "operator"
  /\ read' = [read EXCEPT !.state = modem.state]
  /\ UNCHANGED <<modem, health, trouble, enabling, stopping, faults>>

(* One of the three raises: nothing is decided, and the counters stay. *)
PollFailed ==
  /\ pc \in {"signal", "registration", "state"} /\ Fault
  /\ health' = "unavailable" /\ EndPoll
  /\ UNCHANGED <<modem, read, trouble, enabling, stopping>>

(* Zero and registration as this poll counts them *)
ZerosNow ==
  CASE read.signal = "stale" -> zeros
    [] read.signal = "zero" -> NotBefore(zeros + 1, Threshold)
    [] OTHER -> 0

BadNow == CASE read.registration = "good" -> None
            [] read.registration = "bad" /\ bad = None -> 0
            [] OTHER -> bad

Triggered == ZerosNow >= Threshold \/ BadNow >= BadTime

(* Mutated form: an attempt that the cooldown skips keeps the counters. *)
SkippedKeeping == zeros' = ZerosNow /\ bad' = BadNow

(* The counters after an attempt that the cooldown skips *)
Skipped == Cleared

(* Mutated form: the skipped attempt counts as an attempt. *)
SkipAsAttempt ==
  /\ EndPoll /\ Skipped
  /\ attempted' = TRUE /\ age' = 0
  /\ UNCHANGED <<called, frozen>>

(* _try_enable within the cooldown *)
Skip == EndPoll /\ Skipped /\ UNCHANGED enabling

(* _enable_cooldown_seconds_remaining is positive. *)
CoolingDown == attempted /\ Cooldown - age > 0

(* _try_enable up to its call: the attempt is recorded before it is made. *)
TryEnable ==
  IF CoolingDown
  THEN Skip
  ELSE /\ pc' = "enable"
       /\ attempted' = TRUE /\ age' = 0
       /\ called' = 0 /\ frozen' = FALSE
       /\ zeros' = ZerosNow /\ bad' = BadNow

(* get_operator_name has returned, or raised: the rest of the poll. *)
Decide ==
  /\ pc = "operator"
  /\ UNCHANGED faults \/ Fault
  /\ health' = read.state
  /\ \/ /\ ~Triggered /\ EndPoll
        /\ zeros' = ZerosNow /\ bad' = BadNow
        /\ UNCHANGED enabling
     \/ Triggered /\ read.state = "recoverable" /\ TryEnable
     \/ /\ Triggered /\ read.state = "other" /\ pc' = "reset"
        /\ zeros' = ZerosNow /\ bad' = BadNow
        /\ UNCHANGED enabling
  /\ UNCHANGED <<modem, read, stopping>>

(* _try_reset: the reset is over, or has raised. *)
ResetReturned ==
  /\ pc = "reset" /\ EndPoll /\ Cleared
  /\ UNCHANGED faults \/ Fault
  /\ UNCHANGED <<modem, read, health, enabling, stopping>>

(* Mutated form: a frozen modem is retried after the normal cooldown. *)
DeferNotAtAll == UNCHANGED age

(* Mutated form: the normal cooldown is added to the frozen one. *)
DeferTwice == age' = age - FrozenCooldown

(* _defer_next_enable_attempt(now, ...): `now' is the time of the call. *)
Defer == age' = age - (FrozenCooldown - Cooldown)

(* The end of _try_enable *)
EnableReturned ==
  /\ pc = "enable" /\ EndPoll /\ Cleared
  /\ \/ (UNCHANGED faults \/ Fault) /\ UNCHANGED <<age, frozen>>
     \/ Fault /\ Defer /\ frozen' = TRUE
  /\ UNCHANGED <<modem, read, health, attempted, called, stopping>>

Stop ==
  /\ ~stopping /\ stopping' = TRUE
  /\ pc' = IF pc = "sleep" THEN "done" ELSE pc
  /\ UNCHANGED <<modem, read, health, trouble, enabling, faults>>

(* _stop_background_task cancels a poll that takes too long. *)
Cancel ==
  /\ stopping /\ pc # "done" /\ pc' = "done"
  /\ UNCHANGED <<modem, read, health, trouble, enabling, stopping, faults>>

(* The modem changes. *)
Change ==
  /\ modem' \in Modem /\ modem' # modem
  /\ UNCHANGED <<pc, read, health, trouble, enabling, stopping, faults>>

(* A tick of the clock *)
Tick ==
  /\ bad' = IF bad = None THEN None ELSE NotBefore(bad + 1, BadTime)
  /\ age' = NotBefore(age + 1, Longest)
  /\ called' = NotBefore(called + 1, Longest)
  /\ UNCHANGED <<modem, pc, read, health, zeros, attempted, stopping, faults,
                 frozen>>
-----------------------------------------------------------------------------
WatchdogInit ==
  /\ modem \in Modem
  /\ pc = "sleep"
  /\ read = [signal |-> "some", registration |-> "good", state |-> "other"]
  /\ health = "none" /\ zeros = 0 /\ bad = None
  /\ attempted = FALSE /\ age = Longest
  /\ stopping = FALSE /\ faults = 0
  /\ called = Longest /\ frozen = FALSE

Step ==
  \/ Poll \/ ReadSignal \/ ReadRegistration \/ ReadState \/ PollFailed \/ Decide
  \/ ResetReturned \/ EnableReturned

WatchdogNext == Step \/ Stop \/ Cancel \/ Change \/ Tick

WatchdogSpec == WatchdogInit /\ [][WatchdogNext]_vars

(* Calls return, the interval elapses and time passes. *)
FairWatchdogSpec == WatchdogSpec /\ WF_vars(Step) /\ WF_vars(Tick)
-----------------------------------------------------------------------------
(* The types; and the next attempt is never put off further than by the      *)
(* longer of the two cooldowns.                                              *)
WatchdogTypeOK ==
  /\ modem \in Modem /\ read \in Modem
  /\ pc \in Reading \cup {"sleep", "enable", "reset", "done"}
  /\ health \in Health
  /\ zeros \in 0 .. Threshold /\ bad \in None .. BadTime
  /\ attempted \in BOOLEAN /\ frozen \in BOOLEAN /\ stopping \in BOOLEAN
  /\ age \in Int /\ Cooldown - age <= Longest
  /\ called \in 0 .. Longest
  /\ faults \in 0 .. MaxFaults

(* Enable is called exactly when its cooldown is over, counted from the last *)
(* call: the normal one, or the one of a frozen modem, whichever of the two  *)
(* is the longer and however long the call took.                             *)
EnableSpacing ==
  [][Decide /\ Triggered /\ read.state = "recoverable" =>
       (pc' = "enable" <=> called >= Spacing)]_vars

(* A modem is reset or enabled only in a poll that itself has read trouble:  *)
(* no counter outlives its occasion, though stale signals and failed polls   *)
(* leave them as they are.                                                   *)
TroubleIsFresh ==
  pc \in {"reset", "enable"} => read.signal = "zero" \/ read.registration = "bad"

(* A modem that stays in trouble is reset or enabled again and again, unless *)
(* the watchdog is stopped.                                                  *)
TroubleIsTreated ==
  (<>[](modem.signal = "zero") \/ <>[](modem.registration = "bad"))
    => []<>(pc \in {"reset", "enable", "done"})
=============================================================================
