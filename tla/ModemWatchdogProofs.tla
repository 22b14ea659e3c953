------------------------- MODULE ModemWatchdogProofs -------------------------
(***************************************************************************)
(* The watchdog acts on fresh trouble only and keeps the cooldown, for all *)
(* thresholds and both orders of the two cooldowns.                        *)
(***************************************************************************)
EXTENDS ModemWatchdog, TLAPS

(* The time recorded for the last attempt agrees with the time of the call:  *)
(* equal, or displaced by the difference of the two cooldowns.               *)
AttemptAgrees ==
  /\ ~attempted => called = Longest /\ ~frozen
  /\ attempted /\ ~frozen => age = called
  /\ frozen /\ called < FrozenCooldown => age = called - (FrozenCooldown - Cooldown)
  /\ frozen /\ called >= FrozenCooldown => age >= Cooldown
  /\ pc = "enable" => attempted /\ ~frozen

(* Between two polls the counters are below the point where they trigger. *)
Untriggered == pc \notin {"reset", "enable", "done"} => zeros < Threshold

WatchdogInv == WatchdogTypeOK /\ AttemptAgrees /\ Untriggered /\ TroubleIsFresh

LEMMA LongestFact ==
  /\ Longest \in Nat \ {0}
  /\ Cooldown <= Longest /\ FrozenCooldown <= Longest
  /\ Longest \in {Cooldown, FrozenCooldown}
BY WatchdogAssumption DEF Longest

LEMMA WatchdogStarts == WatchdogInit => WatchdogInv
<1> SUFFICES ASSUME WatchdogInit PROVE WatchdogInv
  OBVIOUS
<1> USE LongestFact, WatchdogAssumption DEF WatchdogInit
<1>1. read \in Modem
  BY DEF Modem
<1>2. /\ zeros \in 0 .. Threshold /\ zeros < Threshold
      /\ bad \in None .. BadTime /\ faults \in 0 .. MaxFaults
  BY DEF None
<1>3. age \in Int /\ Cooldown - age <= Longest /\ called \in 0 .. Longest
  OBVIOUS
<1> QED
  BY <1>1, <1>2, <1>3
  DEF WatchdogInv, WatchdogTypeOK, AttemptAgrees, Untriggered, TroubleIsFresh,
      Health, Reading

(* What a poll adds to the counters, and why it triggers. *)
LEMMA CountersNow ==
  ASSUME WatchdogInv
  PROVE  /\ ZerosNow \in 0 .. Threshold /\ BadNow \in None .. BadTime
         /\ Triggered /\ zeros < Threshold =>
              read.signal = "zero" \/ read.registration = "bad"
         /\ ~Triggered => ZerosNow < Threshold
<1> USE WatchdogAssumption DEF WatchdogInv, WatchdogTypeOK, Modem, None
<1>1. ZerosNow \in 0 .. Threshold
  BY DEF ZerosNow, NotBefore
<1>2. BadNow \in -1 .. BadTime
  BY DEF BadNow
<1>3. zeros < Threshold /\ read.signal # "zero" => ZerosNow < Threshold
  BY DEF ZerosNow
<1>4. read.registration # "bad" => BadNow = -1
  BY DEF BadNow
<1> QED
  BY <1>1, <1>2, <1>3, <1>4 DEF Triggered

(* A call of enable is recorded, and is made only when the cooldown of the   *)
(* call before is over.                                                      *)
LEMMA CooldownAgrees ==
  ASSUME WatchdogInv, pc # "enable"
  PROVE  CoolingDown <=> called < Spacing
BY LongestFact, WatchdogAssumption
DEF WatchdogInv, WatchdogTypeOK, AttemptAgrees, CoolingDown, Spacing

LEMMA DecideKeeps == ASSUME WatchdogInv, Decide PROVE WatchdogInv'
<1> USE WatchdogAssumption, LongestFact
<1>1. /\ ZerosNow \in 0 .. Threshold /\ BadNow \in None .. BadTime
      /\ Triggered => read.signal = "zero" \/ read.registration = "bad"
      /\ ~Triggered => ZerosNow < Threshold
  BY CountersNow DEF WatchdogInv, Untriggered, Decide
<1>2. /\ UNCHANGED <<modem, read, stopping>>
      /\ health' = read.state /\ pc = "operator"
      /\ faults' \in 0 .. MaxFaults
  BY DEF Decide, Fault, WatchdogInv, WatchdogTypeOK
<1>3. read.state \in Health
  BY DEF WatchdogInv, WatchdogTypeOK, Modem, Health
<1>4. CASE /\ ~Triggered /\ EndPoll
           /\ zeros' = ZerosNow /\ bad' = BadNow
           /\ UNCHANGED enabling
  BY <1>1, <1>2, <1>3, <1>4
  DEF EndPoll, enabling, WatchdogInv, WatchdogTypeOK, AttemptAgrees, Untriggered,
      TroubleIsFresh, Reading
<1>5. CASE Triggered /\ read.state = "recoverable" /\ TryEnable
  <2>1. CASE CoolingDown
    BY <1>2, <1>3, <1>5, <2>1
    DEF TryEnable, Skip, Skipped, Cleared, EndPoll, enabling, WatchdogInv,
        WatchdogTypeOK, AttemptAgrees, Untriggered, TroubleIsFresh, Reading, None
  <2>2. CASE ~CoolingDown
    <3>1. /\ pc' = "enable" /\ attempted' = TRUE /\ age' = 0
          /\ called' = 0 /\ frozen' = FALSE
          /\ zeros' = ZerosNow /\ bad' = BadNow
      BY <1>5, <2>2 DEF TryEnable
    <3>2. AttemptAgrees'
      BY <3>1 DEF AttemptAgrees
    <3>3. age' \in Int /\ Cooldown - age' <= Longest /\ called' \in 0 .. Longest
      BY <3>1
    <3>4. TroubleIsFresh' /\ Untriggered'
      BY <1>1, <1>2, <1>5, <3>1 DEF TroubleIsFresh, Untriggered
    <3> QED
      BY <1>1, <1>2, <1>3, <3>1, <3>2, <3>3, <3>4
      DEF WatchdogInv, WatchdogTypeOK, Reading
  <2> QED
    BY <2>1, <2>2
<1>6. CASE /\ Triggered /\ read.state = "other" /\ pc' = "reset"
           /\ zeros' = ZerosNow /\ bad' = BadNow
           /\ UNCHANGED enabling
  BY <1>1, <1>2, <1>3, <1>6
  DEF enabling, WatchdogInv, WatchdogTypeOK, AttemptAgrees, Untriggered,
      TroubleIsFresh, Reading
<1> QED
  BY <1>4, <1>5, <1>6 DEF Decide

LEMMA EnableReturnedKeeps == ASSUME WatchdogInv, EnableReturned PROVE WatchdogInv'
<1> USE WatchdogAssumption, LongestFact
<1>1. /\ pc = "enable" /\ pc' \in {"sleep", "done"}
      /\ zeros' = 0 /\ bad' = -1
      /\ UNCHANGED <<modem, read, health, attempted, called, stopping>>
      /\ faults' \in 0 .. MaxFaults
  BY DEF EnableReturned, EndPoll, Cleared, None, Fault, WatchdogInv, WatchdogTypeOK
<1>2. attempted /\ ~frozen /\ age = called /\ called \in 0 .. Longest
  BY <1>1 DEF WatchdogInv, WatchdogTypeOK, AttemptAgrees
<1>3. CASE UNCHANGED <<age, frozen>>
  BY <1>1, <1>2, <1>3
  DEF WatchdogInv, WatchdogTypeOK, AttemptAgrees, Untriggered, TroubleIsFresh,
      Reading, None
<1>4. CASE Defer /\ frozen' = TRUE
  <2>1. age' = called - (FrozenCooldown - Cooldown)
    BY <1>2, <1>4 DEF Defer
  <2>2. age' \in Int /\ Cooldown - age' <= Longest
    BY <1>2, <2>1
  <2>3. AttemptAgrees'
    BY <1>1, <1>2, <1>4, <2>1 DEF AttemptAgrees
  <2> QED
    <3>1. Untriggered' /\ TroubleIsFresh'
      BY <1>1 DEF Untriggered, TroubleIsFresh
    <3>2. zeros' \in 0 .. Threshold /\ bad' \in None .. BadTime
      BY <1>1 DEF None
    <3> QED
      BY <1>1, <1>4, <2>2, <2>3, <3>1, <3>2
      DEF WatchdogInv, WatchdogTypeOK, Reading
<1> QED
  BY <1>3, <1>4 DEF EnableReturned

LEMMA TickKeeps == ASSUME WatchdogInv, Tick PROVE WatchdogInv'
<1> USE WatchdogAssumption, LongestFact DEF WatchdogInv, WatchdogTypeOK
<1>1. UNCHANGED <<modem, pc, read, health, zeros, attempted, stopping, faults, frozen>>
  BY DEF Tick
<1>2. bad' \in None .. BadTime
  BY DEF Tick, NotBefore, None
<1>3. /\ called' = IF called + 1 < Longest THEN called + 1 ELSE Longest
      /\ age' = IF age + 1 < Longest THEN age + 1 ELSE Longest
  BY DEF Tick, NotBefore
<1>4. /\ called' \in 0 .. Longest
      /\ age' \in Int /\ Cooldown - age' <= Longest
  BY <1>3
<1>5. AttemptAgrees'
  BY <1>1, <1>3 DEF AttemptAgrees
<1> QED
  BY <1>1, <1>2, <1>4, <1>5 DEF Untriggered, TroubleIsFresh

LEMMA WatchdogKept ==
  WatchdogInv /\ [WatchdogNext]_vars => WatchdogInv'
<1> SUFFICES ASSUME WatchdogInv, [WatchdogNext]_vars PROVE WatchdogInv'
  OBVIOUS
<1> USE WatchdogAssumption DEF WatchdogInv, WatchdogTypeOK, AttemptAgrees,
        Untriggered, TroubleIsFresh, enabling, trouble
<1>1. CASE Poll
  BY <1>1 DEF Poll, Reading
<1>2. CASE ReadSignal \/ ReadRegistration \/ ReadState
  BY <1>2 DEF ReadSignal, ReadRegistration, ReadState, Modem, Reading
<1>3. CASE PollFailed
  BY <1>3 DEF PollFailed, Fault, EndPoll, Health, Reading
<1>4. CASE ResetReturned
  BY <1>4 DEF ResetReturned, Fault, EndPoll, Cleared, Reading, None
<1>5. CASE Stop \/ Cancel
  <2>1. /\ UNCHANGED <<modem, read, health, zeros, bad, attempted, age, called,
                       frozen, faults>>
        /\ stopping' \in BOOLEAN /\ pc' \in {pc, "done"}
    BY <1>5 DEF Stop, Cancel
  <2> QED
    BY <2>1
<1>6. CASE Change
  BY <1>6 DEF Change
<1>7. CASE UNCHANGED vars
  BY <1>7 DEF vars
<1> QED
  BY <1>1, <1>2, <1>3, <1>4, <1>5, <1>6, <1>7, DecideKeeps, EnableReturnedKeeps,
     TickKeeps DEF WatchdogNext, Step

LEMMA WatchdogInvariant == WatchdogSpec => []WatchdogInv
BY WatchdogStarts, WatchdogKept, PTL DEF WatchdogSpec

(* The counters and the time of the next attempt stay in their bounds. *)
THEOREM WatchdogTypeCorrect == WatchdogSpec => []WatchdogTypeOK
<1>1. WatchdogInv => WatchdogTypeOK
  BY DEF WatchdogInv
<1> QED
  BY <1>1, WatchdogInvariant, PTL

(* The watchdog resets or enables the modem only in a poll that has itself   *)
(* read no signal or a bad registration.                                     *)
THEOREM ActsOnFreshTrouble == WatchdogSpec => []TroubleIsFresh
<1>1. WatchdogInv => TroubleIsFresh
  BY DEF WatchdogInv
<1> QED
  BY <1>1, WatchdogInvariant, PTL

(* Enable is called exactly when the cooldown since the last call is over,   *)
(* for any two cooldowns: the longer pause of a frozen modem is neither      *)
(* shortened nor lengthened by the way it is stored.                         *)
THEOREM EnableKeepsCooldown == WatchdogSpec => EnableSpacing
<1>1. WatchdogInv /\ [WatchdogNext]_vars =>
        [Decide /\ Triggered /\ read.state = "recoverable" =>
           (pc' = "enable" <=> called >= Spacing)]_vars
  <2> SUFFICES ASSUME WatchdogInv, Decide, Triggered, read.state = "recoverable"
               PROVE  pc' = "enable" <=> called >= Spacing
    OBVIOUS
  <2>1. CoolingDown <=> called < Spacing
    BY CooldownAgrees DEF Decide
  <2>2. called \in Int /\ Spacing \in Int
    BY WatchdogAssumption, LongestFact
    DEF WatchdogInv, WatchdogTypeOK, Spacing
  <2>3. TryEnable
    BY DEF Decide
  <2>4. pc' = "enable" <=> ~CoolingDown
    BY <2>3 DEF TryEnable, Skip, EndPoll
  <2> QED
    BY <2>1, <2>2, <2>4
<1> QED
  BY <1>1, WatchdogInvariant, PTL DEF WatchdogSpec, EnableSpacing
=============================================================================
