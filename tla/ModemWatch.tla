----------------------------- MODULE ModemWatch -----------------------------
(***************************************************************************)
(* The MessageAdded watch of ModemManagerClient (modem/client.py) while    *)
(* several coroutines use the client at once: the cached modem path, the   *)
(* handlers attached to modem objects, the flag that says a handler is     *)
(* still owed, and the reset that waits for the modem to come back.        *)
(*                                                                         *)
(* The program makes one chain of calls, "main" (SmsRelay.start, then the  *)
(* watchdog's polls), and deletes messages from MessageAdded handlers at   *)
(* the same time.  An await is two steps: the reply is made (Answer), from *)
(* the modem objects of that moment, and the coroutine goes on with it     *)
(* (Resume), later.  What runs between two awaits is one step.             *)
(*                                                                         *)
(* The one callback of the program is SmsRelay._on_new_sms, so the dict of *)
(* callbacks is the flag `registered'.  One connection is modelled: the    *)
(* program never connects again after it has disconnected.                 *)
(***************************************************************************)
EXTENDS Naturals, FiniteSets

CONSTANTS
  Path,       \* D-Bus paths a modem object may have
  NoPath,     \* None
  Main,       \* the coroutine of start, the watchdog and stop
  Handler,    \* the coroutines that delete messages
  MaxResets,  \* bound: resets of the modem
  MaxChanges, \* bound: modem objects that appear, vanish or become ready
  MaxFaults   \* bound: replies that are errors while the modem is there

ASSUME WatchAssumption ==
  /\ NoPath \notin Path /\ Main \notin Handler
  /\ MaxResets \in Nat /\ MaxChanges \in Nat /\ MaxFaults \in Nat

VARIABLES
  exposed, \* paths ModemManager has a modem object on
  bare,    \* those that do not have the Messaging and 3GPP interfaces yet
  client,  \* the client's fields
  task,    \* the call each coroutine is in
  phase,   \* how far SmsRelay has come
  spent,   \* how many of each bounded event have happened
  aged     \* history: the path of the last reset, whether its object has
           \* vanished since, and the path it was reported to be back on

vars == <<exposed, bare, client, task, phase, spent, aged>>
-----------------------------------------------------------------------------
Task == {Main} \cup Handler
Op == {"none", "watch", "message", "state", "registration", "reset"}
Awaits == {"find1", "look1", "find2", "look2", "find3", "look3", "call", "list"}
Finding == {"find1", "find2", "find3", "list"}
Looking == {"look1", "look2", "look3", "call"}
Replies == {"wait", "error", "listed", "full", "bare", "empty", "unknown", "done"}

(* at: the await the coroutine is in, one of a chain of up to three lookups  *)
(* of a modem object, the D-Bus call itself, or a poll of the reset;         *)
(* inner: the lookup is that of _subscribe_missing_added_watchers, and `ret' *)
(* says who called it; base: the path the caller works with; path: the path  *)
(* looked up; old and gone: reset_modem_path and                             *)
(* reset_modem_path_disappeared.                                             *)
Idle == [op |-> "none", at |-> "idle", reply |-> "wait", seen |-> {},
         inner |-> FALSE, ret |-> "ensure", base |-> NoPath, path |-> NoPath,
         old |-> NoPath, gone |-> FALSE]

Count(event, bound) ==
  spent[event] < bound /\ spent' = [spent EXCEPT ![event] = @ + 1]

(* _unsubscribe_all_added_watchers *)
Unsubscribed(c) ==
  [c EXCEPT !.keys = {},
            !.live = [p \in Path |-> IF p \in c.keys /\ c.live[p] > 0
                                     THEN c.live[p] - 1 ELSE c.live[p]]]

(* Mutated form: the handler is detached but no longer owed. *)
PreparedAndForgotten(c) == [Unsubscribed(c) EXCEPT !.path = NoPath]

(* _prepare_added_watchers_for_modem_path_change, with the path forgotten; *)
(* reset does the same.                                                    *)
Prepared(c) == [Unsubscribed(c) EXCEPT !.path = NoPath, !.owed = c.registered]

(* _needs_added_watch_resubscribe *)
Needs(c) == c.registered /\ (c.path = NoPath \/ c.path \notin c.keys)

Settled(c) == [c EXCEPT !.owed = Needs(c)]

Attached(c, p) ==
  [c EXCEPT !.keys = c.keys \cup {p},
            !.live[p] = IF c.bus THEN c.live[p] + 1 ELSE c.live[p]]

(* Mutated form: the key is not looked at again after the await. *)
SubscribedUnchecked(c, p) == Attached(c, p)

(* The end of _subscribe_added_watch: the key is looked at a second time. *)
Subscribed(c, p) == IF p \in c.keys THEN c ELSE Attached(c, p)
-----------------------------------------------------------------------------
(* The continuations: what a coroutine runs before its next await.  Each    *)
(* takes the coroutine, its record and the client as its code has left them *)
(* so far.                                                                  *)

Await(t, r, c, at, p) ==
  /\ task' = [task EXCEPT ![t] =
       [r EXCEPT !.at = at, !.path = p, !.reply = "wait", !.seen = {}]]
  /\ client' = c
  /\ UNCHANGED <<phase, aged>>

(* The call ends.  What start does next is in `phase'. *)
Return(t, c) ==
  /\ task' = [task EXCEPT ![t] = Idle] /\ client' = c
  /\ phase' \in IF t # Main THEN {phase}
                ELSE CASE phase = "connected" -> {"watched"}
                       [] phase = "watched" -> {"watched", "running"}
                       [] OTHER -> {phase}

Finish(t, c) == Return(t, c) /\ UNCHANGED aged

(* _wait_for_reset_reappear: sleep, then list the modems again. *)
Again(t, r, c, missing) ==
  Await(t, [r EXCEPT !.inner = FALSE, !.gone = @ \/ missing], c, "list", NoPath)

(* A call that raises; `missing' says ModemNotFound.  The poll of a reset    *)
(* catches it, start rolls back, the watchdog and the handlers log it.       *)
Raise(t, r, c, missing) ==
  IF r.ret = "wait"
  THEN Again(t, r, c, missing)
  ELSE /\ task' = [task EXCEPT ![t] = Idle] /\ client' = c
       /\ phase' = IF t = Main /\ phase \in {"connected", "watched"}
                   THEN "failed" ELSE phase
       /\ UNCHANGED aged

(* The interfaces are at hand: watch_added attaches its handler, the other   *)
(* operations make their call.                                               *)
Final(t, r, c) ==
  IF r.op = "watch" THEN Finish(t, Subscribed(c, r.base))
                    ELSE Await(t, [r EXCEPT !.inner = FALSE], c, "call", r.base)

(* After _ensure_modem_path: the lookup of the interfaces, which watch_added *)
(* skips when its key is there.                                              *)
Interface(t, r, c) ==
  IF r.op = "watch" /\ r.base \in c.keys
  THEN Finish(t, c)
  ELSE Await(t, [r EXCEPT !.inner = FALSE], c, "look1", r.base)

(* What called _subscribe_missing_added_watchers goes on. *)
Continue(t, r, c) ==
  \/ r.ret = "ensure" /\ Interface(t, r, c)
  \/ r.ret = "settle" /\ Final(t, r, c)
  \/ /\ r.ret = "wait" /\ Return(t, c)
     /\ aged' = [aged EXCEPT !.back = r.base]

(* _subscribe_missing_added_watchers up to its await, or to its end *)
SubscribeMissing(t, r, c, p) ==
  IF c.registered /\ p \notin c.keys
  THEN Await(t, [r EXCEPT !.inner = TRUE], [c EXCEPT !.owed = TRUE], "look1", p)
  ELSE Continue(t, r, Settled(c))

(* _ensure_modem_path once the path is known *)
Ensured(t, r, c) ==
  LET q == [r EXCEPT !.base = c.path, !.ret = "ensure"]
  IN  IF c.owed THEN SubscribeMissing(t, q, c, c.path) ELSE Interface(t, q, c)

(* A lookup that has found the interfaces.  That of a subscription attaches  *)
(* the handler; if disconnect has emptied the dict meanwhile, its iteration  *)
(* raises.  That of an operation resubscribes if the path has changed, a     *)
(* handler is owed or the Messaging interface was stale (`anyway').          *)
Acquired(t, r, c, anyway) ==
  IF r.inner
  THEN LET d == Subscribed(c, r.path)
       IN  IF d.registered THEN Continue(t, r, Settled(d)) ELSE Raise(t, r, d, FALSE)
  ELSE IF r.path # r.base \/ c.owed \/ anyway
       THEN SubscribeMissing(t, [r EXCEPT !.base = r.path, !.ret = "settle"],
                             Unsubscribed(c), r.path)
       ELSE Final(t, r, c)
-----------------------------------------------------------------------------
(* The calls *)

Messaging(r) == r.inner \/ r.op \in {"watch", "message"}

(* The reply has the interfaces asked for: org.freedesktop.ModemManager1.    *)
(* Modem is there as soon as the object is.                                  *)
Satisfied(r) ==
  \/ r.reply = "full"
  \/ r.reply = "bare" /\ ~r.inner /\ r.op \in {"state", "reset"}

(* Mutated form: the cached path is used without a search. *)
BeginUnsearched(t, op) ==
  LET c == [client EXCEPT !.registered = @ \/ op = "watch"]
  IN  /\ task[t] = Idle
      /\ Ensured(t, [Idle EXCEPT !.op = op], c)
      /\ UNCHANGED <<exposed, bare>>

(* A call of the client.  watch_added registers its callback before anything *)
(* else; a path that is not known is searched for (_ensure_modem_path).      *)
Begin(t, op) ==
  LET c == [client EXCEPT !.registered = @ \/ op = "watch"]
      r == [Idle EXCEPT !.op = op]
  IN  /\ task[t] = Idle
      /\ IF c.path = NoPath THEN Await(t, r, c, "find1", NoPath) ELSE Ensured(t, r, c)
      /\ UNCHANGED <<exposed, bare>>

(* SmsRelay.start: watch_added *)
WatchAdded == phase = "connected" /\ Begin(Main, "watch") /\ UNCHANGED spent

(* SmsRelay.start: list_sms_paths and the deletes of the drain *)
Drain == phase = "watched" /\ Begin(Main, "message") /\ UNCHANGED spent

(* The watchdog's get_signal_quality, get_modem_state and enable, and its    *)
(* get_registration_state and get_operator_name                              *)
Poll ==
  /\ phase = "running" /\ UNCHANGED spent
  /\ \E op \in {"state", "registration"} : Begin(Main, op)

(* ModemManagerClient.reset, called by the watchdog *)
Reset == phase = "running" /\ Count("reset", MaxResets) /\ Begin(Main, "reset")

(* delete_message from a handler or from a retry of an undecoded message *)
DeleteMessage(t) ==
  /\ client.bus
  /\ phase = "running" \/ \E p \in Path : client.live[p] > 0
  /\ Begin(t, "message") /\ UNCHANGED spent

(* What a D-Bus call finds.  An object that is not there is unknown, or has  *)
(* an introspection without interfaces.                                      *)
Found(r) ==
  CASE r.at \in Finding -> {"listed"}
    [] r.at \notin Finding /\ r.path \notin exposed ->
         IF r.at = "call" THEN {"unknown"} ELSE {"unknown", "empty"}
    [] r.at = "call" /\ r.path \in exposed -> {"done"}
    [] OTHER -> IF r.path \in bare THEN {"bare"} ELSE {"full"}

Answer(t) ==
  LET r == task[t]
  IN  /\ r.at # "idle" /\ r.reply = "wait"
      /\ \E reply \in Replies :
           /\ task' = [task EXCEPT ![t].reply = reply,
                                   ![t].seen = IF reply = "listed" THEN exposed ELSE {}]
           /\ \/ client.bus /\ reply \in Found(r) /\ UNCHANGED spent
              \/ client.bus /\ reply = "error" /\ Count("fault", MaxFaults)
              \/ ~client.bus /\ reply = "error" /\ UNCHANGED spent
           /\ aged' = IF r.op = "reset" /\ reply = "done"
                      THEN [old |-> r.path, replaced |-> FALSE, back |-> NoPath] ELSE aged
      /\ UNCHANGED <<exposed, bare, client, phase>>

Resuming(t, ats) ==
  /\ task[t].at \in ats /\ task[t].reply # "wait"
  /\ UNCHANGED <<exposed, bare, spent>>

(* find_modem: the first modem listed; the order is ModemManager's. *)
FindModem(t) ==
  LET r == task[t]
      known(p) == [client EXCEPT !.path = p]
  IN  /\ Resuming(t, {"find1", "find2", "find3"})
      /\ \/ r.seen = {} /\ Raise(t, r, client, r.reply = "listed")
         \/ \E p \in r.seen :
              \/ r.at = "find1" /\ Ensured(t, r, known(p))
              \/ r.at = "find2" /\ Await(t, r, known(p), "look2", p)
              \/ r.at = "find3" /\ Await(t, r, known(p), "look3", p)

(* _get_proxy_object, _get_messaging_interface and                           *)
(* _get_modem_interfaces_from_proxy: an unknown object is searched for       *)
(* once, an interface that is missing is searched for once more.             *)
LookUp(t) ==
  LET r == task[t]
      current == r.path = client.path
      lost == current /\ r.at = "look1" /\ r.reply = "unknown"
      stale == /\ current /\ r.at \in {"look1", "look2"}
               /\ r.reply \in {"bare", "empty"} /\ ~Satisfied(r)
  IN  /\ Resuming(t, {"look1", "look2", "look3"})
      /\ CASE Satisfied(r) -> Acquired(t, r, client, r.at = "look3" /\ Messaging(r))
           [] lost -> Await(t, r, Prepared(client), "find2", NoPath)
           [] stale -> Await(t, r, Prepared(client), "find3", NoPath)
           [] OTHER -> Raise(t, r, client, FALSE)

(* The call of the operation itself has returned; reset goes on to wait for  *)
(* the modem, if a callback is registered.                                   *)
Called(t) ==
  LET r == task[t]
  IN  /\ Resuming(t, {"call"})
      /\ CASE r.reply # "done" -> Raise(t, [r EXCEPT !.ret = "ensure"], client, FALSE)
           [] r.reply = "done" /\ r.op = "reset" /\ client.registered ->
                Await(t, [r EXCEPT !.ret = "wait", !.old = r.path],
                      Prepared(client), "list", NoPath)
           [] r.reply = "done" /\ r.op = "reset" /\ ~client.registered ->
                Finish(t, Prepared(client))
           [] OTHER -> Finish(t, client)

(* Mutated form: the old path counts as the modem being back at once. *)
BackPathsTooSoon(r) == IF r.seen \ {r.old} # {} THEN r.seen \ {r.old} ELSE r.seen

(* The path a poll of the reset takes the modem to be back on: another one,  *)
(* or the old one once it has been missing.                                  *)
BackPaths(r) ==
  IF r.seen \ {r.old} # {} THEN r.seen \ {r.old}
  ELSE IF r.gone THEN r.seen ELSE {}

(* A poll of _wait_for_reset_reappear *)
Reappear(t) ==
  LET r == task[t]
  IN  /\ Resuming(t, {"list"})
      /\ \/ r.reply = "error" /\ Again(t, r, client, FALSE)
         \/ /\ r.reply = "listed" /\ BackPaths(r) = {}
            /\ Again(t, r, [client EXCEPT !.path = NoPath], r.seen = {})
         \/ \E p \in BackPaths(r) :
              SubscribeMissing(t, [r EXCEPT !.base = p], [client EXCEPT !.path = p], p)

(* The reset gives up waiting, between two polls. *)
ReappearTimeout(t) ==
  /\ task[t].at = "list" /\ task[t].reply = "wait"
  /\ Finish(t, client)
  /\ UNCHANGED <<exposed, bare, spent>>
-----------------------------------------------------------------------------
(* connect: nothing is registered yet, so nothing is resubscribed. *)
Connect ==
  /\ phase = "new" /\ phase' = "connected"
  /\ client' = [client EXCEPT !.bus = TRUE]
  /\ UNCHANGED <<exposed, bare, task, spent, aged>>

(* disconnect, by stop or by the rollback of start; the call main was in is  *)
(* cancelled or has raised, those of the handlers go on.                     *)
Disconnect ==
  /\ client.bus /\ phase' = "stopped"
  /\ client' = [Unsubscribed(client) EXCEPT !.bus = FALSE, !.path = NoPath,
                !.registered = FALSE, !.owed = FALSE, !.live = [p \in Path |-> 0]]
  /\ task' = [task EXCEPT ![Main] = Idle]
  /\ UNCHANGED <<exposed, bare, spent, aged>>

(* ModemManager: objects come, without their later interfaces or with them,  *)
(* and go.                                                                   *)
Appear(p) ==
  /\ p \notin exposed /\ Count("change", MaxChanges)
  /\ exposed' = exposed \cup {p} /\ bare' \in {bare, bare \cup {p}}
  /\ UNCHANGED <<client, task, phase, aged>>

Ready(p) ==
  /\ p \in bare /\ bare' = bare \ {p}
  /\ UNCHANGED <<exposed, client, task, phase, spent, aged>>

Vanish(p) ==
  /\ p \in exposed /\ Count("change", MaxChanges)
  /\ exposed' = exposed \ {p} /\ bare' = bare \ {p}
  /\ aged' = [aged EXCEPT !.replaced = @ \/ aged.old = p]
  /\ UNCHANGED <<client, task, phase>>
-----------------------------------------------------------------------------
WatchInit ==
  /\ exposed \in ({{}} \cup {{p} : p \in Path}) /\ bare = {}
  /\ client = [bus |-> FALSE, path |-> NoPath, registered |-> FALSE,
               owed |-> FALSE, keys |-> {}, live |-> [p \in Path |-> 0]]
  /\ task = [t \in Task |-> Idle]
  /\ phase = "new"
  /\ spent = [reset |-> 0, change |-> 0, fault |-> 0]
  /\ aged = [old |-> NoPath, replaced |-> FALSE, back |-> NoPath]

Run(t) ==
  \/ Answer(t) \/ FindModem(t) \/ LookUp(t) \/ Called(t) \/ Reappear(t)

WatchNext ==
  \/ Connect \/ WatchAdded \/ Drain \/ Poll \/ Reset \/ Disconnect
  \/ \E t \in Handler : DeleteMessage(t)
  \/ \E t \in Task : Run(t) \/ ReappearTimeout(t)
  \/ \E p \in Path : Appear(p) \/ Ready(p) \/ Vanish(p)

WatchSpec == WatchInit /\ [][WatchNext]_vars

(* The event loop resumes a coroutine that can run; the watchdog polls for   *)
(* ever; the clock of a waiting reset runs on however often it polls.        *)
Fairness ==
  /\ WF_vars(\E t \in Task : Run(t)) /\ WF_vars(Poll)
  /\ SF_vars(ReappearTimeout(Main))

FairWatchSpec == WatchSpec /\ Fairness
-----------------------------------------------------------------------------
(* The types; and no object is looked up or called without a path, as        *)
(* _ensure_modem_path asserts.                                               *)
WatchTypeOK ==
  /\ exposed \subseteq Path /\ bare \subseteq exposed
  /\ client \in [bus : BOOLEAN, path : Path \cup {NoPath}, registered : BOOLEAN,
                 owed : BOOLEAN, keys : SUBSET Path, live : [Path -> Nat]]
  /\ task \in [Task -> [op : Op, at : Awaits \cup {"idle"}, reply : Replies,
                        seen : SUBSET Path, inner : BOOLEAN,
                        ret : {"ensure", "settle", "wait"}, gone : BOOLEAN,
                        base : Path \cup {NoPath}, path : Path \cup {NoPath},
                        old : Path \cup {NoPath}]]
  /\ phase \in {"new", "connected", "watched", "running", "failed", "stopped"}
  /\ spent \in [{"reset", "change", "fault"} -> Nat]
  /\ aged \in [old : Path \cup {NoPath}, replaced : BOOLEAN, back : Path \cup {NoPath}]
  /\ \A t \in Task : task[t].at \in Looking => task[t].path \in Path

(* However many coroutines resubscribe at once, a modem path has at most one *)
(* handler: no message is handled twice (the second look at the key in       *)
(* _subscribe_added_watch).                                                  *)
OneHandlerPerPath == \A p \in Path : client.live[p] <= 1

(* Once the relay runs, whatever coroutine detaches the handlers leaves      *)
(* behind that one is owed: never is the client without a handler and        *)
(* without the flag that brings one back.                                    *)
OwedUnlessWatched ==
  (phase = "running" /\ ~client.owed) => client.keys # {}

(* When reset reports the modem back on its old path, the object it reset is *)
(* gone and this is another one: a reset is not taken to be over while the   *)
(* dying object is still listed.                                             *)
ReappearedMeansReplaced ==
  (aged.back # NoPath /\ aged.back = aged.old) => aged.replaced

(* Between calls of the client, the cached modem is watched or a handler is  *)
(* owed; otherwise no later call would notice that nobody listens.           *)
WatchedOrOwed ==
  (phase = "running" /\ \A t \in Task : task[t] = Idle) =>
    client.owed \/ ~Needs(client)

(* When one modem stays, ready, and the relay runs, the client listens to it *)
(* from some point on, whatever the modem went through before, provided no   *)
(* two coroutines were inside the client at once (see WatchedOrOwed).        *)
Stable == phase = "running" /\ bare = {} /\ \E p \in Path : exposed = {p}
Listening == \E p \in exposed : client.live[p] > 0
Overlap == \E t, u \in Task : t # u /\ task[t] # Idle /\ task[u] # Idle
EventuallyListening == []~Overlap /\ <>[]Stable => <>[]Listening
=============================================================================
