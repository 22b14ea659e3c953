--------------------------- MODULE ModemWatchProofs ---------------------------
(***************************************************************************)
(* However the calls of the client interleave, a modem path has at most    *)
(* one handler, a running client that has none knows that it owes one, and *)
(* a reset that reports the old path has seen its object go.  For any      *)
(* paths, any number of handlers and of resets.                            *)
(***************************************************************************)
EXTENDS ModemWatch, TLAPS

Place == Path \cup {NoPath}
Record == [op : Op, at : Awaits \cup {"idle"}, reply : Replies,
           seen : SUBSET Path, inner : BOOLEAN,
           ret : {"ensure", "settle", "wait"}, gone : BOOLEAN,
           base : Path \cup {NoPath}, path : Path \cup {NoPath},
           old : Path \cup {NoPath}]
Client == [bus : BOOLEAN, path : Path \cup {NoPath}, registered : BOOLEAN,
           owed : BOOLEAN, keys : SUBSET Path, live : [Path -> Nat]]
Aged == [old : Path \cup {NoPath}, replaced : BOOLEAN, back : Path \cup {NoPath}]
Phases == {"new", "connected", "watched", "running", "failed", "stopped"}
Counts == [{"reset", "change", "fault"} -> Nat]

(* A coroutine that looks something up has the paths it needs; only reset     *)
(* waits for the modem, and watch_added makes no call.                        *)
InPlace(r) ==
  /\ r.at \in Looking => r.path \in Path
  /\ r.at \in Looking \cup {"find2", "find3"} => r.base \in Path
  /\ r.at # "idle" => r.op # "none"
  /\ r.at = "list" \/ r.ret = "wait" => r.op = "reset"
  /\ r.at = "call" => r.op # "watch"

(* Only handlers the client knows are attached, and once. *)
Single(c) == \A p \in Path : c.live[p] = 0 \/ (c.live[p] = 1 /\ p \in c.keys)

(* The relay registers its callback before it runs, and from then on the      *)
(* client watches or owes a handler.                                          *)
Registered ==
  /\ phase \in {"new", "connected"} => task[Main].op \in {"none", "watch"}
  /\ task[Main].op = "watch" => client.registered
  /\ phase \in {"watched", "running"} =>
       client.registered /\ (client.owed \/ client.keys # {})

World ==
  /\ exposed \subseteq Path /\ bare \subseteq exposed
  /\ spent \in Counts /\ aged \in Aged

WatchInv ==
  /\ World /\ phase \in Phases
  /\ client \in Client /\ Single(client)
  /\ task \in [Task -> Record] /\ \A t \in Task : InPlace(task[t])
  /\ Registered

LEMMA WatchInvImplies ==
  WatchInv => WatchTypeOK /\ OneHandlerPerPath /\ OwedUnlessWatched
<1> SUFFICES ASSUME WatchInv
             PROVE WatchTypeOK /\ OneHandlerPerPath /\ OwedUnlessWatched
  OBVIOUS
<1>1. WatchTypeOK
  BY DEF WatchInv, WatchTypeOK, World, Record, Client, Aged, Phases, Counts, InPlace
<1>2. OneHandlerPerPath
  BY DEF WatchInv, Single, OneHandlerPerPath
<1>3. OwedUnlessWatched
  BY DEF WatchInv, Registered, OwedUnlessWatched
<1> QED
  BY <1>1, <1>2, <1>3

LEMMA IdleRecord ==
  /\ Idle \in Record /\ InPlace(Idle)
  /\ Idle.op = "none" /\ Idle.at = "idle" /\ Idle.ret = "ensure"
BY DEF Idle, Record, Op, Replies, InPlace, Looking
-----------------------------------------------------------------------------
(* The operators on the client's fields. *)

LEMMA UnsubscribedClient ==
  ASSUME NEW c \in Client, Single(c)
  PROVE  /\ Unsubscribed(c) \in Client /\ Single(Unsubscribed(c))
         /\ Unsubscribed(c).registered = c.registered
<1> DEFINE live == [p \in Path |-> IF p \in c.keys /\ c.live[p] > 0
                                   THEN c.live[p] - 1 ELSE c.live[p]]
<1>1. \A p \in Path : live[p] = 0
  BY DEF Single, Client
<1>2. live \in [Path -> Nat]
  BY <1>1
<1>3. Unsubscribed(c) = [c EXCEPT !.keys = {}, !.live = live]
  BY DEF Unsubscribed
<1> HIDE DEF live
<1> QED
  BY <1>1, <1>2, <1>3 DEF Client, Single

LEMMA PreparedClient ==
  ASSUME NEW c \in Client, Single(c)
  PROVE  /\ Prepared(c) \in Client /\ Single(Prepared(c))
         /\ Prepared(c).registered = c.registered
         /\ Prepared(c).owed = c.registered
BY UnsubscribedClient DEF Prepared, Client, Single

LEMMA SettledClient ==
  ASSUME NEW c \in Client, Single(c)
  PROVE  /\ Settled(c) \in Client /\ Single(Settled(c))
         /\ Settled(c).registered = c.registered /\ Settled(c).keys = c.keys
BY DEF Settled, Needs, Client, Single

LEMMA SubscribedClient ==
  ASSUME NEW c \in Client, Single(c), NEW p \in Path
  PROVE  /\ Subscribed(c, p) \in Client /\ Single(Subscribed(c, p))
         /\ Subscribed(c, p).registered = c.registered
         /\ p \in Subscribed(c, p).keys
<1>1. CASE p \in c.keys
  BY <1>1 DEF Subscribed
<1>2. CASE p \notin c.keys
  <2>1. Subscribed(c, p) = Attached(c, p) /\ c.live[p] = 0
    BY <1>2 DEF Subscribed, Single
  <2> DEFINE live == [c.live EXCEPT ![p] = IF c.bus THEN c.live[p] + 1 ELSE c.live[p]]
  <2>2. /\ live \in [Path -> Nat]
        /\ live[p] = IF c.bus THEN c.live[p] + 1 ELSE c.live[p]
        /\ \A q \in Path \ {p} : live[q] = c.live[q]
    BY DEF Client
  <2>3. Attached(c, p) = [c EXCEPT !.keys = c.keys \cup {p}, !.live = live]
    BY DEF Attached, Client
  <2> HIDE DEF live
  <2>4. c.keys \cup {p} \in SUBSET Path
    BY DEF Client
  <2> DEFINE keys == c.keys \cup {p}
  <2>5. p \in keys /\ \A q \in Path : q \in c.keys => q \in keys
    OBVIOUS
  <2>6. keys \in SUBSET Path /\ Attached(c, p) = [c EXCEPT !.keys = keys, !.live = live]
    BY <2>3, <2>4
  <2> HIDE DEF keys
  <2>7. /\ Attached(c, p) \in Client
        /\ Attached(c, p).registered = c.registered
        /\ Attached(c, p).keys = keys
        /\ Attached(c, p).live = live
    BY <2>2, <2>6 DEF Client
  <2> QED
    BY <2>1, <2>2, <2>5, <2>7 DEF Single
<1> QED
  BY <1>1, <1>2
-----------------------------------------------------------------------------
(* The continuations.  Mid: a coroutine may go on with its record r and the  *)
(* client's fields c; Covered: to stop here with c, a handler is attached or *)
(* owed; Calm: what the modems do meanwhile is nothing.                      *)
Mid(t, r, c) ==
  /\ r \in Record /\ c \in Client /\ Single(c)
  /\ r.op # "none" /\ (r.ret = "wait" => r.op = "reset")
  /\ client.registered => c.registered
  /\ t = Main => /\ phase \in {"new", "connected"} => r.op = "watch"
                 /\ r.op = "watch" => c.registered

Held(c) == c.registered /\ (c.owed \/ c.keys # {})
Covered(c) == phase \in {"watched", "running"} => c.owed \/ c.keys # {}
Calm == exposed' \subseteq Path /\ bare' \subseteq exposed' /\ spent' \in Counts

LEMMA MoveKeeps ==
  ASSUME WatchInv, World', NEW t \in Task, NEW q \in Record, InPlace(q),
         NEW c \in Client, Single(c),
         task' = [task EXCEPT ![t] = q], client' = c, phase' \in Phases,
         client.registered => c.registered,
         phase' \in {"watched", "running"} => Held(c),
         t # Main => phase' = phase,
         t = Main => /\ phase' \in {"new", "connected"} => q.op \in {"none", "watch"}
                     /\ q.op = "watch" => c.registered
  PROVE  WatchInv'
<1> USE DEF WatchInv
<1>1. task' \in [Task -> Record] /\ \A u \in Task : InPlace(task'[u])
  OBVIOUS
<1>2. Main \in Task
  BY DEF Task
<1>3. CASE t = Main
  <2>1. task'[Main] = q
    BY <1>2, <1>3
  <2>2. Registered'
    BY <1>3, <2>1 DEF Registered, Held
  <2> QED
    BY <1>1, <2>2
<1>4. CASE t # Main
  <2>1. task'[Main] = task[Main] /\ phase' = phase
    BY <1>2, <1>4
  <2>2. Registered'
    BY <2>1 DEF Registered, Held
  <2> QED
    BY <1>1, <2>2
<1> QED
  BY <1>3, <1>4

LEMMA AwaitKeeps ==
  ASSUME WatchInv, Calm, NEW t \in Task, NEW r, NEW c, Mid(t, r, c), Covered(c),
         NEW at \in Awaits, NEW p \in Place,
         at \in Looking => p \in Path,
         at \in Looking \cup {"find2", "find3"} => r.base \in Path,
         at = "list" => r.op = "reset",
         at = "call" => r.op # "watch",
         Await(t, r, c, at, p)
  PROVE  WatchInv'
<1> DEFINE q == [r EXCEPT !.at = at, !.path = p, !.reply = "wait", !.seen = {}]
<1>1. /\ q \in Record /\ q.at = at /\ q.path = p
      /\ q.base = r.base /\ q.op = r.op /\ q.ret = r.ret
  BY DEF Mid, Record, Replies, Place
<1>2. task' = [task EXCEPT ![t] = q] /\ client' = c /\ phase' = phase /\ aged' = aged
  BY DEF Await
<1> HIDE DEF q
<1>3. InPlace(q)
  BY <1>1 DEF InPlace, Mid
<1>4. World' /\ phase' \in Phases
  BY <1>2 DEF WatchInv, World, Calm
<1>5. c \in Client /\ Single(c) /\ (client.registered => c.registered)
  BY DEF Mid
<1>6. phase' \in {"watched", "running"} => Held(c)
  BY <1>2 DEF WatchInv, Registered, Held, Covered, Mid
<1>7. t = Main => /\ phase' \in {"new", "connected"} => q.op \in {"none", "watch"}
                  /\ q.op = "watch" => c.registered
  BY <1>1, <1>2 DEF Mid
<1> QED
  BY <1>1, <1>2, <1>3, <1>4, <1>5, <1>6, <1>7, MoveKeeps

LEMMA ReturnKeeps ==
  ASSUME WatchInv, Calm, aged' \in Aged, NEW t \in Task, NEW c \in Client, Single(c),
         client.registered => c.registered, Covered(c),
         t = Main /\ phase = "connected" => Held(c),
         Return(t, c)
  PROVE  WatchInv'
<1>1. task' = [task EXCEPT ![t] = Idle] /\ client' = c
  BY DEF Return
<1>2. /\ t # Main => phase' = phase
      /\ phase' = phase \/ (t = Main /\ phase \in {"connected", "watched"}
                                /\ phase' \in {"watched", "running"})
  BY DEF Return
<1>3. World' /\ phase' \in Phases
  BY <1>2 DEF WatchInv, World, Calm, Phases
<1>4. phase' \in {"watched", "running"} => Held(c)
  BY <1>2 DEF WatchInv, Registered, Held, Covered
<1> QED
  BY <1>1, <1>2, <1>3, <1>4, IdleRecord, MoveKeeps

LEMMA RaiseKeeps ==
  ASSUME WatchInv, Calm, NEW t \in Task, NEW r, NEW c, NEW missing \in BOOLEAN,
         Mid(t, r, c), Covered(c), Raise(t, r, c, missing)
  PROVE  WatchInv'
<1>1. CASE r.ret = "wait"
  <2> DEFINE q == [r EXCEPT !.inner = FALSE, !.gone = r.gone \/ missing]
  <2>1. q \in Record /\ q.op = r.op /\ q.ret = r.ret /\ q.base = r.base
    BY DEF Mid, Record
  <2>2. Await(t, q, c, "list", NoPath)
    BY <1>1 DEF Raise, Again, Mid, Record
  <2> HIDE DEF q
  <2>3. Mid(t, q, c) /\ q.op = "reset"
    BY <1>1, <2>1 DEF Mid
  <2>4. "list" \in Awaits /\ NoPath \in Place /\ "list" \notin Looking \cup {"find2", "find3"}
    BY DEF Awaits, Place, Looking
  <2> QED
    BY <2>2, <2>3, <2>4, AwaitKeeps
<1>2. CASE r.ret # "wait"
  <2>1. /\ task' = [task EXCEPT ![t] = Idle] /\ client' = c /\ aged' = aged
        /\ phase' = IF t = Main /\ phase \in {"connected", "watched"}
                    THEN "failed" ELSE phase
    BY <1>2 DEF Raise
  <2>2. World' /\ phase' \in Phases
    BY <2>1 DEF WatchInv, World, Calm, Phases
  <2>3. phase' \in {"watched", "running"} => Held(c)
    BY <2>1 DEF WatchInv, Registered, Held, Covered, Mid
  <2>4. c \in Client /\ Single(c) /\ (client.registered => c.registered)
    BY DEF Mid
  <2> QED
    BY <2>1, <2>2, <2>3, <2>4, IdleRecord, MoveKeeps
<1> QED
  BY <1>1, <1>2

LEMMA FinalKeeps ==
  ASSUME WatchInv, Calm, NEW t \in Task, NEW r, NEW c, Mid(t, r, c), Covered(c),
         r.base \in Path, Final(t, r, c)
  PROVE  WatchInv'
<1>1. CASE r.op = "watch"
  <2> DEFINE d == Subscribed(c, r.base)
  <2>1. /\ d \in Client /\ Single(d) /\ d.registered = c.registered
        /\ d.keys # {}
    BY SubscribedClient DEF Mid
  <2>2. Return(t, d) /\ aged' = aged
    BY <1>1 DEF Final, Finish
  <2> HIDE DEF d
  <2>3. Covered(d) /\ aged' \in Aged
    BY <2>1, <2>2 DEF Covered, WatchInv, World
  <2>4. t = Main => Held(d)
    BY <1>1, <2>1 DEF Mid, Held
  <2>5. client.registered => d.registered
    BY <2>1 DEF Mid
  <2> QED
    BY <2>1, <2>2, <2>3, <2>4, <2>5, ReturnKeeps
<1>2. CASE r.op # "watch"
  <2> DEFINE q == [r EXCEPT !.inner = FALSE]
  <2>1. q \in Record /\ q.op = r.op /\ q.ret = r.ret /\ q.base = r.base
    BY DEF Mid, Record
  <2>2. Await(t, q, c, "call", r.base)
    BY <1>2 DEF Final
  <2> HIDE DEF q
  <2>3. Mid(t, q, c) /\ q.op # "watch"
    BY <1>2, <2>1 DEF Mid
  <2>4. "call" \in Awaits /\ r.base \in Place
    BY DEF Awaits, Place
  <2> QED
    BY <2>1, <2>2, <2>3, <2>4, AwaitKeeps
<1> QED
  BY <1>1, <1>2

LEMMA InterfaceKeeps ==
  ASSUME WatchInv, Calm, NEW t \in Task, NEW r, NEW c, Mid(t, r, c), Covered(c),
         r.base \in Path, Interface(t, r, c)
  PROVE  WatchInv'
<1>1. CASE r.op = "watch" /\ r.base \in c.keys
  <2>1. Return(t, c) /\ aged' = aged
    BY <1>1 DEF Interface, Finish
  <2>2. aged' \in Aged
    BY <2>1 DEF WatchInv, World
  <2>3. t = Main => Held(c)
    BY <1>1 DEF Mid, Held
  <2> QED
    BY <2>1, <2>2, <2>3, ReturnKeeps DEF Mid
<1>2. CASE ~(r.op = "watch" /\ r.base \in c.keys)
  <2> DEFINE q == [r EXCEPT !.inner = FALSE]
  <2>1. q \in Record /\ q.op = r.op /\ q.ret = r.ret /\ q.base = r.base
    BY DEF Mid, Record
  <2>2. Await(t, q, c, "look1", r.base)
    BY <1>2 DEF Interface
  <2> HIDE DEF q
  <2>3. Mid(t, q, c)
    BY <2>1 DEF Mid
  <2>4. "look1" \in Awaits /\ r.base \in Place
    BY DEF Awaits, Place
  <2> QED
    BY <2>1, <2>2, <2>3, <2>4, AwaitKeeps
<1> QED
  BY <1>1, <1>2

LEMMA ContinueKeeps ==
  ASSUME WatchInv, Calm, NEW t \in Task, NEW r, NEW c, Mid(t, r, c), Covered(c),
         r.base \in Path, Continue(t, r, c)
  PROVE  WatchInv'
<1>1. CASE r.ret = "ensure" /\ Interface(t, r, c)
  BY <1>1, InterfaceKeeps
<1>2. CASE r.ret = "settle" /\ Final(t, r, c)
  BY <1>2, FinalKeeps
<1>3. CASE r.ret = "wait" /\ Return(t, c) /\ aged' = [aged EXCEPT !.back = r.base]
  <2>1. aged' \in Aged
    BY <1>3 DEF WatchInv, World, Aged
  <2>2. r.op = "reset"
    BY <1>3 DEF Mid
  <2>3. ~(t = Main /\ phase = "connected")
    BY <2>2 DEF Mid
  <2> QED
    BY <1>3, <2>1, <2>3, ReturnKeeps DEF Mid
<1> QED
  BY <1>1, <1>2, <1>3 DEF Continue

LEMMA SubscribeMissingKeeps ==
  ASSUME WatchInv, Calm, NEW t \in Task, NEW r, NEW c, NEW p \in Path, Mid(t, r, c),
         r.base \in Path, SubscribeMissing(t, r, c, p)
  PROVE  WatchInv'
<1>1. CASE c.registered /\ p \notin c.keys
  <2> DEFINE q == [r EXCEPT !.inner = TRUE]
             d == [c EXCEPT !.owed = TRUE]
  <2>1. q \in Record /\ q.op = r.op /\ q.ret = r.ret /\ q.base = r.base
    BY DEF Mid, Record
  <2>2. d \in Client /\ Single(d) /\ d.registered = c.registered /\ d.owed
    BY DEF Mid, Client, Single
  <2>3. Await(t, q, d, "look1", p)
    BY <1>1 DEF SubscribeMissing
  <2> HIDE DEF q, d
  <2>4. Mid(t, q, d) /\ Covered(d)
    BY <2>1, <2>2 DEF Mid, Covered
  <2>5. "look1" \in Awaits /\ p \in Place
    BY DEF Awaits, Place
  <2> QED
    BY <2>1, <2>3, <2>4, <2>5, AwaitKeeps
<1>2. CASE ~(c.registered /\ p \notin c.keys)
  <2>1. Continue(t, r, Settled(c))
    BY <1>2 DEF SubscribeMissing
  <2>2. /\ Settled(c) \in Client /\ Single(Settled(c))
        /\ Settled(c).registered = c.registered /\ Settled(c).keys = c.keys
    BY SettledClient DEF Mid
  <2>3. Mid(t, r, Settled(c))
    BY <2>2 DEF Mid
  <2>4. Covered(Settled(c))
    BY <1>2, <2>2 DEF Mid, Covered, WatchInv, Registered
  <2> QED
    BY <2>1, <2>3, <2>4, ContinueKeeps
<1> QED
  BY <1>1, <1>2

LEMMA EnsuredKeeps ==
  ASSUME WatchInv, Calm, NEW t \in Task, NEW r, NEW c, Mid(t, r, c), Covered(c),
         c.path \in Path, Ensured(t, r, c)
  PROVE  WatchInv'
<1> DEFINE q == [r EXCEPT !.base = c.path, !.ret = "ensure"]
<1>1. q \in Record /\ q.op = r.op /\ q.ret = "ensure" /\ q.base = c.path
  BY DEF Mid, Record
<1>2. IF c.owed THEN SubscribeMissing(t, q, c, c.path) ELSE Interface(t, q, c)
  BY DEF Ensured
<1> HIDE DEF q
<1>3. Mid(t, q, c)
  BY <1>1 DEF Mid
<1> QED
  BY <1>1, <1>2, <1>3, SubscribeMissingKeeps, InterfaceKeeps

LEMMA AcquiredKeeps ==
  ASSUME WatchInv, Calm, NEW t \in Task, NEW r, NEW c, NEW anyway \in BOOLEAN,
         Mid(t, r, c), Covered(c), r.base \in Path, r.path \in Path,
         Acquired(t, r, c, anyway)
  PROVE  WatchInv'
<1>1. CASE r.inner
  <2> DEFINE d == Subscribed(c, r.path)
  <2>1. /\ d \in Client /\ Single(d) /\ d.registered = c.registered
        /\ d.keys # {}
    BY SubscribedClient DEF Mid
  <2>2. IF d.registered THEN Continue(t, r, Settled(d)) ELSE Raise(t, r, d, FALSE)
    BY <1>1 DEF Acquired
  <2> HIDE DEF d
  <2>3. Mid(t, r, d) /\ Covered(d)
    BY <2>1 DEF Mid, Covered
  <2>4. /\ Settled(d) \in Client /\ Single(Settled(d))
        /\ Settled(d).registered = d.registered /\ Settled(d).keys = d.keys
    BY <2>1, SettledClient
  <2>5. Mid(t, r, Settled(d)) /\ Covered(Settled(d))
    BY <2>1, <2>3, <2>4 DEF Mid, Covered
  <2> QED
    BY <2>2, <2>3, <2>5, ContinueKeeps, RaiseKeeps
<1>2. CASE ~r.inner /\ (r.path # r.base \/ c.owed \/ anyway)
  <2> DEFINE q == [r EXCEPT !.base = r.path, !.ret = "settle"]
  <2>1. q \in Record /\ q.op = r.op /\ q.ret = "settle" /\ q.base = r.path
    BY DEF Mid, Record
  <2>2. SubscribeMissing(t, q, Unsubscribed(c), r.path)
    BY <1>2 DEF Acquired
  <2> HIDE DEF q
  <2>3. /\ Unsubscribed(c) \in Client /\ Single(Unsubscribed(c))
        /\ Unsubscribed(c).registered = c.registered
    BY UnsubscribedClient DEF Mid
  <2>4. Mid(t, q, Unsubscribed(c))
    BY <2>1, <2>3 DEF Mid
  <2> QED
    BY <2>1, <2>2, <2>4, SubscribeMissingKeeps
<1>3. CASE ~r.inner /\ ~(r.path # r.base \/ c.owed \/ anyway)
  BY <1>3, FinalKeeps DEF Acquired
<1> QED
  BY <1>1, <1>2, <1>3
-----------------------------------------------------------------------------
(* The actions *)

LEMMA Present ==
  ASSUME WatchInv
  PROVE  /\ Covered(client)
         /\ client \in Client /\ Single(client)
         /\ \A t \in Task : task[t].op # "none" => Mid(t, task[t], client)
BY DEF WatchInv, Registered, Covered, Mid, InPlace, Record, Op

(* Mid and InPlace of a coroutine that is not idle *)
LEMMA Waiting ==
  ASSUME WatchInv, NEW t \in Task, task[t].at # "idle"
  PROVE  /\ Mid(t, task[t], client) /\ Covered(client)
         /\ client \in Client /\ Single(client)
         /\ task[t] \in Record /\ InPlace(task[t])
BY Present DEF WatchInv, InPlace

LEMMA StayCalm ==
  ASSUME WatchInv, UNCHANGED <<exposed, bare, spent>>
  PROVE  Calm
BY DEF WatchInv, World, Calm

LEMMA CountsOn ==
  ASSUME WatchInv, NEW event \in {"reset", "change", "fault"}, NEW bound,
         Count(event, bound)
  PROVE  spent' \in Counts
BY DEF Count, WatchInv, World, Counts

LEMMA BeginKeeps ==
  ASSUME WatchInv, spent' \in Counts, NEW t \in Task, NEW op \in Op \ {"none"},
         t = Main /\ phase \in {"new", "connected"} => op = "watch",
         Begin(t, op)
  PROVE  WatchInv'
<1> DEFINE c == [client EXCEPT !.registered = client.registered \/ op = "watch"]
           r == [Idle EXCEPT !.op = op]
<1>1. /\ c \in Client /\ Single(c) /\ c.path = client.path
      /\ c.owed = client.owed /\ c.keys = client.keys
      /\ client.registered => c.registered
      /\ op = "watch" => c.registered
  BY DEF WatchInv, Client, Single
<1>2. r \in Record /\ r.op = op /\ r.ret = "ensure"
  BY IdleRecord DEF Record
<1>3. /\ IF c.path = NoPath THEN Await(t, r, c, "find1", NoPath) ELSE Ensured(t, r, c)
      /\ UNCHANGED <<exposed, bare>>
  BY DEF Begin, WatchInv, Client
<1> HIDE DEF c, r
<1>4. Calm
  BY <1>3 DEF WatchInv, World, Calm
<1>5. Mid(t, r, c)
  BY <1>1, <1>2 DEF Mid
<1>6. Covered(c)
  BY <1>1, Present DEF Covered
<1>7. CASE c.path = NoPath
  <2>1. "find1" \in Awaits /\ "find1" \notin Looking \cup {"find2", "find3"} /\ NoPath \in Place
    BY DEF Awaits, Looking, Place
  <2> QED
    BY <1>3, <1>4, <1>5, <1>6, <1>7, <2>1, AwaitKeeps
<1>8. CASE c.path # NoPath
  <2>1. c.path \in Path
    BY <1>1, <1>8 DEF Client
  <2> QED
    BY <1>3, <1>4, <1>5, <1>6, <1>8, <2>1, EnsuredKeeps
<1> QED
  BY <1>7, <1>8

LEMMA CallsKeep ==
  ASSUME WatchInv,
         WatchAdded \/ Drain \/ Poll \/ Reset \/ \E t \in Handler : DeleteMessage(t)
  PROVE  WatchInv'
<1>1. Main \in Task /\ Main \notin Handler /\ Handler \subseteq Task
  BY WatchAssumption DEF Task
<1>2. spent \in Counts
  BY DEF WatchInv, World
<1>3. CASE WatchAdded
  BY <1>1, <1>2, <1>3, BeginKeeps DEF WatchAdded, Op
<1>4. CASE Drain
  BY <1>1, <1>2, <1>4, BeginKeeps DEF Drain, Op
<1>5. CASE Poll
  <2>1. PICK op \in {"state", "registration"} : Begin(Main, op)
    BY <1>5 DEF Poll
  <2> QED
    BY <1>1, <1>2, <1>5, <2>1, BeginKeeps DEF Poll, Op
<1>6. CASE Reset
  BY <1>1, <1>6, BeginKeeps, CountsOn DEF Reset, Op
<1>7. ASSUME NEW t \in Handler, DeleteMessage(t) PROVE WatchInv'
  BY <1>1, <1>2, <1>7, BeginKeeps DEF DeleteMessage, Op
<1> QED
  BY <1>3, <1>4, <1>5, <1>6, <1>7

LEMMA AnswerKeeps ==
  ASSUME WatchInv, NEW t \in Task, Answer(t)
  PROVE  WatchInv'
<1> DEFINE r == task[t]
<1>1. /\ r.at # "idle" /\ UNCHANGED <<exposed, bare, client, phase>>
  BY DEF Answer
<1>2. PICK reply \in Replies :
        /\ task' = [task EXCEPT ![t].reply = reply,
                                ![t].seen = IF reply = "listed" THEN exposed ELSE {}]
        /\ UNCHANGED spent \/ Count("fault", MaxFaults)
        /\ aged' = IF r.op = "reset" /\ reply = "done"
                   THEN [old |-> r.path, replaced |-> FALSE, back |-> NoPath] ELSE aged
  BY DEF Answer
<1> DEFINE seen == IF reply = "listed" THEN exposed ELSE {}
           q == [r EXCEPT !.reply = reply, !.seen = seen]
<1>3. r \in Record /\ InPlace(r) /\ Mid(t, r, client)
  BY <1>1, Waiting
<1>4. seen \in SUBSET Path
  BY DEF WatchInv, World
<1>5. task' = [task EXCEPT ![t] = q]
  BY <1>2 DEF WatchInv
<1> HIDE DEF seen
<1>6. /\ q \in Record /\ q.at = r.at /\ q.path = r.path
      /\ q.base = r.base /\ q.op = r.op /\ q.ret = r.ret
  BY <1>3, <1>4 DEF Record
<1>7. InPlace(q)
  BY <1>3, <1>6 DEF InPlace
<1>8. World'
  <2>1. spent' \in Counts
    BY <1>2, CountsOn DEF WatchInv, World
  <2>2. aged' \in Aged
    BY <1>2, <1>3 DEF WatchInv, World, Aged, Record
  <2> QED
    BY <1>1, <2>1, <2>2 DEF WatchInv, World
<1>9. client' \in Client /\ Single(client') /\ client' = client /\ phase' = phase
  BY <1>1 DEF WatchInv
<1> HIDE DEF q, r
<1>10. phase \in Phases /\ (phase \in {"watched", "running"} => Held(client))
  BY DEF WatchInv, Registered, Held
<1>11. t = Main => /\ phase \in {"new", "connected"} => q.op \in {"none", "watch"}
                   /\ q.op = "watch" => client.registered
  BY <1>3, <1>6 DEF Mid
<1> QED
  BY <1>5, <1>6, <1>7, <1>8, <1>9, <1>10, <1>11, MoveKeeps

LEMMA FindModemKeeps ==
  ASSUME WatchInv, NEW t \in Task, FindModem(t)
  PROVE  WatchInv'
<1> DEFINE r == task[t]
           known(p) == [client EXCEPT !.path = p]
<1>1. r.at \in {"find1", "find2", "find3"} /\ Calm
  BY StayCalm DEF FindModem, Resuming
<1>2. Mid(t, r, client) /\ Covered(client) /\ r \in Record /\ InPlace(r)
  BY <1>1, Waiting
<1>3. CASE Raise(t, r, client, r.reply = "listed")
  BY <1>1, <1>2, <1>3, RaiseKeeps
<1>4. ASSUME NEW p \in r.seen,
             \/ r.at = "find1" /\ Ensured(t, r, known(p))
             \/ r.at = "find2" /\ Await(t, r, known(p), "look2", p)
             \/ r.at = "find3" /\ Await(t, r, known(p), "look3", p)
      PROVE  WatchInv'
  <2>1. p \in Path
    BY <1>2 DEF Record
  <2>2. /\ known(p) \in Client /\ Single(known(p)) /\ known(p).path = p
        /\ known(p).registered = client.registered
        /\ known(p).owed = client.owed /\ known(p).keys = client.keys
    BY <2>1 DEF WatchInv, Client, Single
  <2> HIDE DEF known, r
  <2>3. Mid(t, r, known(p)) /\ Covered(known(p))
    BY <1>2, <2>2 DEF Mid, Covered
  <2>4. CASE r.at = "find1" /\ Ensured(t, r, known(p))
    BY <1>1, <2>1, <2>2, <2>3, <2>4, EnsuredKeeps
  <2>5. ASSUME NEW at \in {"look2", "look3"}, r.at \in {"find2", "find3"},
               Await(t, r, known(p), at, p)
        PROVE  WatchInv'
    <3>1. at \in Awaits /\ at \notin {"list", "call"} /\ p \in Place /\ r.base \in Path
      BY <1>2, <2>1, <2>5 DEF Awaits, Place, InPlace
    <3> QED
      BY <1>1, <2>1, <2>3, <2>5, <3>1, AwaitKeeps
  <2> QED
    BY <1>4, <2>4, <2>5
<1> QED
  BY <1>3, <1>4 DEF FindModem

LEMMA LookUpKeeps ==
  ASSUME WatchInv, NEW t \in Task, LookUp(t)
  PROVE  WatchInv'
<1> DEFINE r == task[t]
<1>1. r.at \in {"look1", "look2", "look3"} /\ Calm
  BY StayCalm DEF LookUp, Resuming
<1>2. Mid(t, r, client) /\ Covered(client) /\ r \in Record /\ InPlace(r)
  BY <1>1, Waiting
<1>3. r.base \in Path /\ r.path \in Path
  BY <1>1, <1>2 DEF InPlace, Looking
<1>4. Mid(t, r, Prepared(client)) /\ Covered(Prepared(client))
  <2>1. /\ Prepared(client) \in Client /\ Single(Prepared(client))
        /\ Prepared(client).registered = client.registered
        /\ Prepared(client).owed = client.registered
    BY PreparedClient DEF WatchInv
  <2> QED
    BY <1>2, <2>1 DEF Mid, Covered, WatchInv, Registered
<1>5. \/ Acquired(t, r, client, r.at = "look3" /\ Messaging(r))
      \/ Await(t, r, Prepared(client), "find2", NoPath)
      \/ Await(t, r, Prepared(client), "find3", NoPath)
      \/ Raise(t, r, client, FALSE)
  BY DEF LookUp
<1> HIDE DEF r
<1>6. CASE Acquired(t, r, client, r.at = "look3" /\ Messaging(r))
  BY <1>1, <1>2, <1>3, <1>6, AcquiredKeeps
<1>7. ASSUME NEW at \in {"find2", "find3"}, Await(t, r, Prepared(client), at, NoPath)
      PROVE  WatchInv'
  <2>1. at \in Awaits /\ NoPath \in Place /\ at \notin Looking /\ at \notin {"list", "call"}
    BY DEF Awaits, Place, Looking
  <2> QED
    BY <1>1, <1>3, <1>4, <1>7, <2>1, AwaitKeeps
<1>8. CASE Raise(t, r, client, FALSE)
  BY <1>1, <1>2, <1>8, RaiseKeeps
<1> QED
  BY <1>5, <1>6, <1>7, <1>8

LEMMA CalledKeeps ==
  ASSUME WatchInv, NEW t \in Task, Called(t)
  PROVE  WatchInv'
<1> DEFINE r == task[t]
           q == [r EXCEPT !.ret = "ensure"]
           w == [r EXCEPT !.ret = "wait", !.old = r.path]
<1>1. r.at = "call" /\ Calm /\ UNCHANGED <<exposed, bare, spent>>
  BY StayCalm DEF Called, Resuming
<1>2. Mid(t, r, client) /\ Covered(client) /\ r \in Record /\ InPlace(r)
  BY <1>1, Waiting
<1>3. r.op # "watch"
  BY <1>1, <1>2 DEF InPlace
<1>4. ~(t = Main /\ phase = "connected")
  BY <1>2, <1>3 DEF Mid
<1>5. /\ Prepared(client) \in Client /\ Single(Prepared(client))
      /\ Prepared(client).registered = client.registered
      /\ Prepared(client).owed = client.registered
  BY PreparedClient DEF WatchInv
<1>6. Covered(Prepared(client))
  BY <1>5 DEF Covered, WatchInv, Registered
<1>7. \/ Raise(t, q, client, FALSE)
      \/ r.op = "reset" /\ Await(t, w, Prepared(client), "list", NoPath)
      \/ Finish(t, Prepared(client))
      \/ Finish(t, client)
  BY DEF Called
<1>8. /\ q \in Record /\ q.op = r.op /\ q.ret = "ensure"
      /\ w \in Record /\ w.op = r.op
  BY <1>2 DEF Record
<1> HIDE DEF r, q, w
<1>9. CASE Raise(t, q, client, FALSE)
  <2>1. Mid(t, q, client)
    BY <1>2, <1>8 DEF Mid
  <2> QED
    BY <1>1, <1>2, <1>9, <2>1, RaiseKeeps
<1>10. CASE r.op = "reset" /\ Await(t, w, Prepared(client), "list", NoPath)
  <2>1. Mid(t, w, Prepared(client))
    BY <1>2, <1>5, <1>8, <1>10 DEF Mid
  <2>2. "list" \in Awaits /\ NoPath \in Place /\ "list" \notin Looking \cup {"find2", "find3"}
    BY DEF Awaits, Place, Looking
  <2> QED
    BY <1>1, <1>6, <1>8, <1>10, <2>1, <2>2, AwaitKeeps
<1>11. ASSUME NEW c \in {client, Prepared(client)}, Finish(t, c)
       PROVE  WatchInv'
  <2>1. /\ c \in Client /\ Single(c) /\ Covered(c)
        /\ client.registered => c.registered
    BY <1>2, <1>5, <1>6 DEF Mid
  <2>2. aged' \in Aged /\ Return(t, c)
    BY <1>11 DEF Finish, WatchInv, World
  <2> QED
    BY <1>1, <1>4, <2>1, <2>2, ReturnKeeps
<1> QED
  BY <1>7, <1>9, <1>10, <1>11

LEMMA ReappearKeeps ==
  ASSUME WatchInv, NEW t \in Task, Reappear(t)
  PROVE  WatchInv'
<1> DEFINE r == task[t]
           known(p) == [client EXCEPT !.path = p]
<1>1. r.at = "list" /\ Calm
  BY StayCalm DEF Reappear, Resuming
<1>2. Mid(t, r, client) /\ Covered(client) /\ r \in Record /\ InPlace(r)
  BY <1>1, Waiting
<1>3. r.op = "reset"
  BY <1>1, <1>2 DEF InPlace
<1>4. \A p \in Place : /\ Mid(t, r, known(p)) /\ Covered(known(p))
  <2> SUFFICES ASSUME NEW p \in Place PROVE Mid(t, r, known(p)) /\ Covered(known(p))
    OBVIOUS
  <2>1. /\ known(p) \in Client /\ Single(known(p))
        /\ known(p).registered = client.registered
        /\ known(p).owed = client.owed /\ known(p).keys = client.keys
    BY DEF WatchInv, Client, Single, Place
  <2> HIDE DEF known, r
  <2> QED
    BY <1>2, <2>1 DEF Mid, Covered
<1>5. \/ Again(t, r, client, FALSE)
      \/ Again(t, r, known(NoPath), r.seen = {})
      \/ \E p \in BackPaths(r) : SubscribeMissing(t, [r EXCEPT !.base = p], known(p), p)
  BY DEF Reappear
<1> HIDE DEF r
<1>6. ASSUME NEW missing \in BOOLEAN, NEW c, Mid(t, r, c), Covered(c), Again(t, r, c, missing)
      PROVE  WatchInv'
  <2> DEFINE q == [r EXCEPT !.inner = FALSE, !.gone = r.gone \/ missing]
  <2>1. q \in Record /\ q.op = r.op /\ q.ret = r.ret /\ q.base = r.base
    BY <1>2 DEF Record
  <2>2. Await(t, q, c, "list", NoPath)
    BY <1>2, <1>6 DEF Again, Record
  <2> HIDE DEF q
  <2>3. Mid(t, q, c)
    BY <1>6, <2>1 DEF Mid
  <2>4. "list" \in Awaits /\ NoPath \in Place /\ "list" \notin Looking \cup {"find2", "find3"}
    BY DEF Awaits, Place, Looking
  <2> QED
    BY <1>1, <1>3, <1>6, <2>1, <2>2, <2>3, <2>4, AwaitKeeps
<1>7. ASSUME NEW p \in BackPaths(r),
             SubscribeMissing(t, [r EXCEPT !.base = p], known(p), p)
      PROVE  WatchInv'
  <2>1. p \in Path
    BY <1>2 DEF BackPaths, Record
  <2> DEFINE q == [r EXCEPT !.base = p]
  <2>2. q \in Record /\ q.op = r.op /\ q.ret = r.ret /\ q.base = p
    BY <1>2, <2>1 DEF Record
  <2>3. SubscribeMissing(t, q, known(p), p)
    BY <1>7
  <2>4. Mid(t, r, known(p))
    BY <1>4, <2>1 DEF Place
  <2> HIDE DEF q, known
  <2>5. Mid(t, q, known(p))
    BY <2>2, <2>4 DEF Mid
  <2> QED
    BY <1>1, <2>1, <2>2, <2>3, <2>5, SubscribeMissingKeeps
<1>8. NoPath \in Place
  BY DEF Place
<1> HIDE DEF known
<1> QED
  BY <1>2, <1>4, <1>5, <1>6, <1>7, <1>8

LEMMA TimeoutKeeps ==
  ASSUME WatchInv, NEW t \in Task, ReappearTimeout(t)
  PROVE  WatchInv'
<1>1. task[t].at = "list" /\ Return(t, client) /\ aged' = aged /\ Calm
  BY StayCalm DEF ReappearTimeout, Finish
<1>2. Mid(t, task[t], client) /\ Covered(client) /\ InPlace(task[t])
  BY <1>1, Waiting
<1>3. task[t].op = "reset"
  BY <1>1, <1>2 DEF InPlace
<1>4. ~(t = Main /\ phase = "connected")
  BY <1>2, <1>3 DEF Mid
<1>5. aged' \in Aged /\ client \in Client /\ Single(client)
  BY <1>1 DEF WatchInv, World
<1> QED
  BY <1>1, <1>2, <1>4, <1>5, ReturnKeeps

LEMMA ConnectKeeps ==
  ASSUME WatchInv, Connect
  PROVE  WatchInv'
<1> DEFINE c == [client EXCEPT !.bus = TRUE]
<1>1. c \in Client /\ Single(c) /\ c.registered = client.registered
  BY DEF WatchInv, Client, Single
<1>2. client' = c /\ phase = "new" /\ phase' = "connected" /\ UNCHANGED <<exposed, bare, task, spent, aged>>
  BY DEF Connect
<1> HIDE DEF c
<1> QED
  BY <1>1, <1>2 DEF WatchInv, World, Registered, Phases

LEMMA DisconnectKeeps ==
  ASSUME WatchInv, Disconnect
  PROVE  WatchInv'
<1> DEFINE u == Unsubscribed(client)
           live == [p \in Path |-> 0]
           c == [u EXCEPT !.bus = FALSE, !.path = NoPath, !.registered = FALSE,
                          !.owed = FALSE, !.live = live]
<1>1. u \in Client
  BY UnsubscribedClient DEF WatchInv
<1>2. /\ client' = c /\ phase' = "stopped" /\ task' = [task EXCEPT ![Main] = Idle]
      /\ UNCHANGED <<exposed, bare, spent, aged>>
  BY DEF Disconnect
<1>3. live \in [Path -> Nat] /\ \A p \in Path : live[p] = 0
  OBVIOUS
<1> HIDE DEF u, live
<1>4. c \in Client /\ c.live = live
  BY <1>1, <1>3 DEF Client
<1> HIDE DEF c
<1>5. Single(c)
  BY <1>3, <1>4 DEF Single
<1>6. Main \in Task
  BY DEF Task
<1>7. task' \in [Task -> Record] /\ \A t \in Task : InPlace(task'[t])
  BY <1>2, IdleRecord DEF WatchInv
<1>8. Registered'
  BY <1>2, <1>6, IdleRecord DEF WatchInv, Registered
<1> QED
  BY <1>2, <1>4, <1>5, <1>7, <1>8 DEF WatchInv, World, Phases

LEMMA ModemsKeep ==
  ASSUME WatchInv, NEW p \in Path, Appear(p) \/ Ready(p) \/ Vanish(p)
  PROVE  WatchInv'
<1>1. UNCHANGED <<client, task, phase>>
  BY DEF Appear, Ready, Vanish
<1>2. spent' \in Counts
  BY CountsOn DEF Appear, Ready, Vanish, WatchInv, World
<1>3. exposed' \subseteq Path /\ bare' \subseteq exposed'
  BY DEF Appear, Ready, Vanish, WatchInv, World
<1>4. aged' \in Aged
  BY DEF Appear, Ready, Vanish, WatchInv, World, Aged
<1> QED
  BY <1>1, <1>2, <1>3, <1>4 DEF WatchInv, World, Registered
-----------------------------------------------------------------------------
LEMMA WatchInvInit == WatchInit => WatchInv
<1> SUFFICES ASSUME WatchInit PROVE WatchInv
  OBVIOUS
<1>1. World
  BY DEF WatchInit, World, Counts, Aged
<1>2. client \in Client /\ Single(client)
  BY DEF WatchInit, Client, Single
<1>3. task \in [Task -> Record] /\ \A t \in Task : InPlace(task[t])
  BY IdleRecord DEF WatchInit
<1>4. Main \in Task
  BY DEF Task
<1>5. Registered
  BY <1>4, IdleRecord DEF WatchInit, Registered
<1> QED
  BY <1>1, <1>2, <1>3, <1>5 DEF WatchInit, WatchInv, Phases

LEMMA WatchInvNext == WatchInv /\ [WatchNext]_vars => WatchInv'
<1> SUFFICES ASSUME WatchInv, [WatchNext]_vars PROVE WatchInv'
  OBVIOUS
<1>1. CASE UNCHANGED vars
  BY <1>1 DEF vars, WatchInv, World, Registered
<1>2. CASE Connect
  BY <1>2, ConnectKeeps
<1>3. CASE WatchAdded \/ Drain \/ Poll \/ Reset \/ \E t \in Handler : DeleteMessage(t)
  BY <1>3, CallsKeep
<1>4. CASE Disconnect
  BY <1>4, DisconnectKeeps
<1>5. ASSUME NEW t \in Task, Run(t) \/ ReappearTimeout(t) PROVE WatchInv'
  BY <1>5, AnswerKeeps, FindModemKeeps, LookUpKeeps, CalledKeeps, ReappearKeeps,
     TimeoutKeeps DEF Run
<1>6. ASSUME NEW p \in Path, Appear(p) \/ Ready(p) \/ Vanish(p) PROVE WatchInv'
  BY <1>6, ModemsKeep
<1> QED
  BY <1>1, <1>2, <1>3, <1>4, <1>5, <1>6 DEF WatchNext

LEMMA WatchInvHolds == WatchSpec => []WatchInv
BY WatchInvInit, WatchInvNext, PTL DEF WatchSpec

(* The client's fields and the coroutines keep their types, and nothing is    *)
(* looked up or called without a path (the assertion of _ensure_modem_path).  *)
THEOREM WatchTypeCorrect == WatchSpec => []WatchTypeOK
BY WatchInvHolds, WatchInvImplies, PTL

(* The second look at the key after the await of _subscribe_added_watch is    *)
(* enough: however many coroutines resubscribe, a path has one handler.       *)
THEOREM OneHandler == WatchSpec => []OneHandlerPerPath
BY WatchInvHolds, WatchInvImplies, PTL

(* Whatever lookup, reset or recovery detaches the handlers, a running client *)
(* that has none knows that it owes one.                                      *)
THEOREM OwedIfUnwatched == WatchSpec => []OwedUnlessWatched
BY WatchInvHolds, WatchInvImplies, PTL
-----------------------------------------------------------------------------
(* The reset.  Fit: what a coroutine that waits for the modem knows of the    *)
(* object it has reset; Based: it goes on with that path only once the object *)
(* is gone; ResetOk: both, where it awaits.                                   *)
Fit(t, r) ==
  /\ r.op = "reset" => t = Main
  /\ r.ret # "wait" => ~r.gone
  /\ r.ret = "wait" => aged.old = r.old /\ r.old \in Path /\ (r.gone => aged.replaced)

Based(r) == r.ret = "wait" /\ r.base = r.old => aged.replaced

ResetOk(t, r) ==
  /\ Fit(t, r)
  /\ r.at = "list" => r.ret = "wait"
  /\ r.ret = "wait" =>
       /\ r.at \notin {"find1", "call"} /\ (r.at # "list" => r.inner /\ Based(r))
       /\ r.reply = "listed" /\ r.seen = {} => aged.replaced
  /\ r.at = "call" /\ r.op = "reset" /\ r.reply = "done" => aged.old = r.path

ReplacedInv ==
  /\ aged.old \in Path \ exposed => aged.replaced
  /\ ReappearedMeansReplaced
  /\ \A t \in Task : ResetOk(t, task[t])

LEMMA IdleResetOk == \A t \in Task : ResetOk(t, Idle)
BY DEF ResetOk, Fit, Idle

LEMMA AgeMoves ==
  ASSUME WatchInv, ReplacedInv, UNCHANGED <<exposed, aged>>, NEW t \in Task, NEW q,
         ResetOk(t, q), task' = [task EXCEPT ![t] = q]
  PROVE  ReplacedInv'
BY DEF WatchInv, ReplacedInv, ReappearedMeansReplaced, ResetOk, Fit, Based

LEMMA AwaitAges ==
  ASSUME WatchInv, ReplacedInv, exposed' = exposed, NEW t \in Task, NEW r \in Record,
         NEW c, NEW at, NEW p, Fit(t, r),
         at = "list" => r.ret = "wait",
         r.ret = "wait" => at = "list" \/ (at \notin {"find1", "call"} /\ r.inner /\ Based(r)),
         Await(t, r, c, at, p)
  PROVE  ReplacedInv'
<1> DEFINE q == [r EXCEPT !.at = at, !.path = p, !.reply = "wait", !.seen = {}]
<1>1. /\ q.at = at /\ q.reply = "wait" /\ q.op = r.op /\ q.ret = r.ret /\ q.base = r.base
      /\ q.gone = r.gone /\ q.inner = r.inner /\ q.old = r.old
  BY DEF Record
<1>2. task' = [task EXCEPT ![t] = q] /\ aged' = aged
  BY DEF Await
<1> HIDE DEF q
<1>3. ResetOk(t, q)
  BY <1>1 DEF ResetOk, Fit, Based
<1> QED
  BY <1>2, <1>3, AgeMoves

LEMMA FinishAges ==
  ASSUME WatchInv, ReplacedInv, exposed' = exposed, NEW t \in Task, NEW c,
         Return(t, c),
         aged' = aged \/ \E p : aged' = [aged EXCEPT !.back = p]
                                 /\ (p = aged.old => aged.replaced)
  PROVE  ReplacedInv'
<1>1. task' = [task EXCEPT ![t] = Idle]
  BY DEF Return
<1>2. CASE aged' = aged
  BY <1>1, <1>2, IdleResetOk, AgeMoves
<1>3. ASSUME NEW p, aged' = [aged EXCEPT !.back = p], p = aged.old => aged.replaced
      PROVE  ReplacedInv'
  <2>1. aged'.old = aged.old /\ aged'.replaced = aged.replaced /\ aged'.back = p
    BY <1>3 DEF WatchInv, World, Aged
  <2>2. \A u \in Task : task'[u] = task[u] \/ task'[u] = Idle
    BY <1>1 DEF WatchInv
  <2>3. \A u \in Task : ResetOk(u, task'[u])
    BY <2>2, IdleResetOk DEF ReplacedInv
  <2>4. \A u \in Task : ResetOk(u, task[u])'
    BY <2>1, <2>3 DEF ResetOk, Fit, Based
  <2> QED
    BY <1>3, <2>1, <2>4 DEF ReplacedInv, ReappearedMeansReplaced
<1> QED
  BY <1>2, <1>3

LEMMA RaiseAges ==
  ASSUME WatchInv, ReplacedInv, exposed' = exposed, NEW t \in Task, NEW r \in Record,
         NEW c, NEW missing \in BOOLEAN, Fit(t, r),
         r.ret = "wait" /\ missing => aged.replaced,
         Raise(t, r, c, missing) \/ (r.ret = "wait" /\ Again(t, r, c, missing))
  PROVE  ReplacedInv'
<1>1. CASE r.ret = "wait"
  <2> DEFINE q == [r EXCEPT !.inner = FALSE, !.gone = r.gone \/ missing]
  <2>1. q \in Record /\ q.op = r.op /\ q.ret = r.ret /\ q.old = r.old
        /\ q.gone = (r.gone \/ missing)
    BY DEF Record
  <2>2. Await(t, q, c, "list", NoPath)
    BY <1>1 DEF Raise, Again, Record
  <2> HIDE DEF q
  <2>3. Fit(t, q)
    BY <1>1, <2>1 DEF Fit
  <2> QED
    BY <1>1, <2>1, <2>2, <2>3, AwaitAges
<1>2. CASE r.ret # "wait"
  <2>1. task' = [task EXCEPT ![t] = Idle] /\ aged' = aged
    BY <1>2 DEF Raise
  <2> QED
    BY <2>1, IdleResetOk, AgeMoves
<1> QED
  BY <1>1, <1>2

LEMMA CallAges ==
  ASSUME WatchInv, ReplacedInv, exposed' = exposed, NEW t \in Task, NEW r \in Record,
         NEW c, Fit(t, r), r.ret # "wait",
         Final(t, r, c) \/ Interface(t, r, c)
  PROVE  ReplacedInv'
<1> DEFINE q == [r EXCEPT !.inner = FALSE]
<1>1. q \in Record /\ q.op = r.op /\ q.ret = r.ret /\ q.gone = r.gone
  BY DEF Record
<1>2. \/ \E d : Finish(t, d)
      \/ Await(t, q, c, "call", r.base) \/ Await(t, q, c, "look1", r.base)
  BY DEF Final, Interface
<1> HIDE DEF q
<1>3. Fit(t, q)
  BY <1>1 DEF Fit
<1> QED
  BY <1>1, <1>2, <1>3, AwaitAges, FinishAges DEF Finish

LEMMA ContinueAges ==
  ASSUME WatchInv, ReplacedInv, exposed' = exposed, NEW t \in Task, NEW r \in Record,
         NEW c, Fit(t, r), Based(r), Continue(t, r, c)
  PROVE  ReplacedInv'
<1>1. CASE r.ret # "wait"
  BY <1>1, CallAges DEF Continue
<1>2. CASE r.ret = "wait"
  BY <1>2, FinishAges DEF Continue, Fit, Based
<1> QED
  BY <1>1, <1>2

LEMMA SubscribeMissingAges ==
  ASSUME WatchInv, ReplacedInv, exposed' = exposed, NEW t \in Task, NEW r \in Record,
         NEW c, NEW p, Fit(t, r), Based(r), SubscribeMissing(t, r, c, p)
  PROVE  ReplacedInv'
<1> DEFINE q == [r EXCEPT !.inner = TRUE]
<1>1. q \in Record /\ q.op = r.op /\ q.ret = r.ret /\ q.gone = r.gone /\ q.inner
      /\ q.old = r.old /\ q.base = r.base
  BY DEF Record
<1>2. \/ \E d : Await(t, q, d, "look1", p)
      \/ \E d : Continue(t, r, d)
  BY DEF SubscribeMissing
<1> HIDE DEF q
<1>3. Fit(t, q) /\ Based(q)
  BY <1>1 DEF Fit, Based
<1> QED
  BY <1>1, <1>2, <1>3, AwaitAges, ContinueAges

LEMMA EnsuredAges ==
  ASSUME WatchInv, ReplacedInv, exposed' = exposed, NEW t \in Task, NEW r \in Record,
         NEW c, c.path \in Place, Fit(t, r), r.ret # "wait", Ensured(t, r, c)
  PROVE  ReplacedInv'
<1> DEFINE q == [r EXCEPT !.base = c.path, !.ret = "ensure"]
<1>1. q \in Record /\ q.op = r.op /\ q.ret = "ensure" /\ q.gone = r.gone
  BY DEF Record, Place
<1>2. SubscribeMissing(t, q, c, c.path) \/ Interface(t, q, c)
  BY DEF Ensured
<1> HIDE DEF q
<1>3. Fit(t, q) /\ Based(q)
  BY <1>1 DEF Fit, Based
<1> QED
  BY <1>1, <1>2, <1>3, SubscribeMissingAges, CallAges

LEMMA AcquiredAges ==
  ASSUME WatchInv, ReplacedInv, exposed' = exposed, NEW t \in Task, NEW r \in Record,
         NEW c, NEW anyway, Fit(t, r), r.ret = "wait" => r.inner /\ Based(r),
         Acquired(t, r, c, anyway)
  PROVE  ReplacedInv'
<1>1. CASE r.inner
  <2>1. \/ \E d : Continue(t, r, d)
        \/ \E d : Raise(t, r, d, FALSE)
    BY <1>1 DEF Acquired
  <2> QED
    BY <1>1, <2>1, ContinueAges, RaiseAges DEF Based
<1>2. CASE ~r.inner
  <2> DEFINE q == [r EXCEPT !.base = r.path, !.ret = "settle"]
  <2>1. q \in Record /\ q.op = r.op /\ q.ret = "settle" /\ q.gone = r.gone
    BY DEF Record
  <2>2. SubscribeMissing(t, q, Unsubscribed(c), r.path) \/ Final(t, r, c)
    BY <1>2 DEF Acquired
  <2> HIDE DEF q
  <2>3. Fit(t, q) /\ Based(q)
    BY <1>2, <2>1 DEF Fit, Based
  <2> QED
    BY <1>2, <2>1, <2>2, <2>3, SubscribeMissingAges, CallAges
<1> QED
  BY <1>1, <1>2

LEMMA BeginAges ==
  ASSUME WatchInv, ReplacedInv, NEW t \in Task, NEW op \in Op \ {"none"},
         op = "reset" => t = Main, Begin(t, op)
  PROVE  ReplacedInv'
<1> DEFINE c == [client EXCEPT !.registered = client.registered \/ op = "watch"]
           r == [Idle EXCEPT !.op = op]
<1>1. c.path \in Place
  BY DEF WatchInv, Client, Place
<1>2. r \in Record /\ r.op = op /\ r.ret = "ensure" /\ ~r.gone
  BY IdleRecord DEF Record, Idle
<1>3. /\ IF c.path = NoPath THEN Await(t, r, c, "find1", NoPath) ELSE Ensured(t, r, c)
      /\ exposed' = exposed
  BY DEF Begin, WatchInv, Client
<1> HIDE DEF c, r
<1>4. Fit(t, r)
  BY <1>2 DEF Fit
<1> QED
  BY <1>1, <1>2, <1>3, <1>4, AwaitAges, EnsuredAges

LEMMA CallsAge ==
  ASSUME WatchInv, ReplacedInv,
         WatchAdded \/ Drain \/ Poll \/ Reset \/ \E t \in Handler : DeleteMessage(t)
  PROVE  ReplacedInv'
<1>1. Main \in Task /\ Handler \subseteq Task
  BY DEF Task
<1>2. CASE Poll
  <2>1. PICK op \in {"state", "registration"} : Begin(Main, op)
    BY <1>2 DEF Poll
  <2> QED
    BY <1>1, <2>1, BeginAges DEF Op
<1>3. ASSUME NEW t \in Handler, DeleteMessage(t) PROVE ReplacedInv'
  BY <1>1, <1>3, BeginAges DEF DeleteMessage, Op
<1> QED
  BY <1>1, <1>2, <1>3, BeginAges DEF WatchAdded, Drain, Reset, Op

(* The reset that the modem has obeyed starts the count anew.  Nobody else    *)
(* is waiting for the modem then: only Main resets, and it is in its call.    *)
LEMMA AnswerAges ==
  ASSUME WatchInv, ReplacedInv, NEW t \in Task, Answer(t)
  PROVE  ReplacedInv'
<1> DEFINE r == task[t]
<1>1. r.at # "idle" /\ exposed' = exposed
  BY DEF Answer
<1>2. PICK reply \in Replies :
        /\ task' = [task EXCEPT ![t].reply = reply,
                                ![t].seen = IF reply = "listed" THEN exposed ELSE {}]
        /\ reply \in Found(r) \/ reply = "error"
        /\ aged' = IF r.op = "reset" /\ reply = "done"
                   THEN [old |-> r.path, replaced |-> FALSE, back |-> NoPath] ELSE aged
  BY DEF Answer
<1> DEFINE seen == IF reply = "listed" THEN exposed ELSE {}
           q == [r EXCEPT !.reply = reply, !.seen = seen]
<1>3. r \in Record /\ InPlace(r) /\ ResetOk(t, r)
  BY DEF WatchInv, ReplacedInv
<1>4. task' = [task EXCEPT ![t] = q]
  BY <1>2 DEF WatchInv
<1>5. /\ q.at = r.at /\ q.path = r.path /\ q.base = r.base /\ q.op = r.op
      /\ q.ret = r.ret /\ q.gone = r.gone /\ q.inner = r.inner /\ q.old = r.old
      /\ q.reply = reply /\ (reply = "listed" => q.seen = exposed)
  BY <1>3 DEF Record
<1>6. reply = "done" => r.at = "call" /\ r.path \in exposed
  BY <1>2 DEF Found
<1> HIDE DEF seen, q, r
<1>7. CASE ~(r.op = "reset" /\ reply = "done")
  <2>1. aged' = aged
    BY <1>2, <1>7
  <2>2. r.ret = "wait" /\ reply = "listed" /\ exposed = {} => aged.replaced
    BY <1>3 DEF ResetOk, Fit, ReplacedInv
  <2>3. ResetOk(t, q)
    BY <1>3, <1>5, <1>7, <2>2 DEF ResetOk, Fit, Based
  <2> QED
    BY <1>1, <1>4, <2>1, <2>3, AgeMoves
<1>8. CASE r.op = "reset" /\ reply = "done"
  <2>1. /\ r.at = "call" /\ r.path \in exposed /\ r.path \in Path
        /\ t = Main /\ r.ret # "wait"
    BY <1>3, <1>6, <1>8 DEF ResetOk, Fit, WatchInv, World
  <2>2. aged'.old = r.path /\ ~aged'.replaced /\ aged'.back = NoPath
    BY <1>2, <1>8
  <2>3. \A u \in Task \ {t} : task'[u] = task[u] /\ task[u].op # "reset" /\ task[u].ret # "wait"
    BY <1>4, <2>1 DEF ReplacedInv, ResetOk, Fit, WatchInv, InPlace
  <2>4. \A u \in Task \ {t} : ResetOk(u, task[u])'
    BY <2>3 DEF ReplacedInv, ResetOk, Fit, Based
  <2>5. task'[t] = q
    BY <1>4 DEF WatchInv
  <2>6. ResetOk(t, task[t])'
    BY <1>3, <1>5, <1>8, <2>1, <2>2, <2>5 DEF ResetOk, Fit, Based
  <2>7. \A u \in Task : ResetOk(u, task[u])'
    BY <2>4, <2>6
  <2> QED
    BY <1>1, <2>1, <2>2, <2>7, WatchAssumption DEF ReplacedInv, ReappearedMeansReplaced
<1> QED
  BY <1>7, <1>8

(* What every coroutine that goes on brings with it *)
LEMMA ResumingAges ==
  ASSUME WatchInv, ReplacedInv, NEW t \in Task
  PROVE  task[t] \in Record /\ InPlace(task[t]) /\ ResetOk(t, task[t]) /\ Fit(t, task[t])
BY DEF WatchInv, ReplacedInv, ResetOk

LEMMA FindModemAges ==
  ASSUME WatchInv, ReplacedInv, NEW t \in Task, FindModem(t)
  PROVE  ReplacedInv'
<1> DEFINE r == task[t]
           known(p) == [client EXCEPT !.path = p]
<1>1. /\ r.at \in {"find1", "find2", "find3"} /\ exposed' = exposed
      /\ r \in Record /\ ResetOk(t, r) /\ Fit(t, r)
  BY ResumingAges DEF FindModem, Resuming
<1>2. \A p \in r.seen : known(p).path \in Place
  BY <1>1 DEF Record, Place, WatchInv, Client
<1>3. \/ r.seen = {} /\ Raise(t, r, client, r.reply = "listed")
      \/ r.at = "find1" /\ \E p \in r.seen : Ensured(t, r, known(p))
      \/ r.at \in {"find2", "find3"}
           /\ \E p \in r.seen, at \in {"look2", "look3"} : Await(t, r, known(p), at, p)
  BY DEF FindModem
<1> HIDE DEF r, known
<1>4. CASE r.seen = {} /\ Raise(t, r, client, r.reply = "listed")
  BY <1>1, <1>4, RaiseAges DEF ResetOk
<1>5. CASE r.at = "find1" /\ \E p \in r.seen : Ensured(t, r, known(p))
  BY <1>1, <1>2, <1>5, EnsuredAges DEF ResetOk
<1>6. ASSUME r.at \in {"find2", "find3"}, NEW p \in r.seen, NEW at \in {"look2", "look3"},
             Await(t, r, known(p), at, p)
      PROVE  ReplacedInv'
  BY <1>1, <1>6, AwaitAges DEF ResetOk
<1> QED
  BY <1>3, <1>4, <1>5, <1>6

LEMMA LookUpAges ==
  ASSUME WatchInv, ReplacedInv, NEW t \in Task, LookUp(t)
  PROVE  ReplacedInv'
<1> DEFINE r == task[t]
<1>1. /\ r.at \in {"look1", "look2", "look3"} /\ exposed' = exposed
      /\ r \in Record /\ ResetOk(t, r) /\ Fit(t, r)
  BY ResumingAges DEF LookUp, Resuming
<1>2. r.ret = "wait" => r.inner /\ Based(r)
  BY <1>1 DEF ResetOk
<1>3. \/ \E anyway : Acquired(t, r, client, anyway)
      \/ \E at \in {"find2", "find3"} : Await(t, r, Prepared(client), at, NoPath)
      \/ Raise(t, r, client, FALSE)
  BY DEF LookUp
<1> HIDE DEF r
<1> QED
  BY <1>1, <1>2, <1>3, AcquiredAges, AwaitAges, RaiseAges

LEMMA CalledAges ==
  ASSUME WatchInv, ReplacedInv, NEW t \in Task, Called(t)
  PROVE  ReplacedInv'
<1> DEFINE r == task[t]
           q == [r EXCEPT !.ret = "ensure"]
           w == [r EXCEPT !.ret = "wait", !.old = r.path]
<1>1. /\ r.at = "call" /\ exposed' = exposed /\ r \in Record /\ InPlace(r)
      /\ ResetOk(t, r) /\ Fit(t, r)
  BY ResumingAges DEF Called, Resuming
<1>2. \/ Raise(t, q, client, FALSE)
      \/ r.reply = "done" /\ r.op = "reset" /\ Await(t, w, Prepared(client), "list", NoPath)
      \/ \E c : Finish(t, c)
  BY DEF Called
<1>3. r.ret # "wait" /\ ~r.gone /\ r.path \in Path
  BY <1>1 DEF ResetOk, Fit, InPlace, Looking
<1>4. /\ q \in Record /\ q.op = r.op /\ q.ret = "ensure" /\ q.gone = r.gone
      /\ w \in Record /\ w.op = r.op /\ w.ret = "wait" /\ w.gone = r.gone
      /\ w.old = r.path
  BY <1>1 DEF Record
<1> HIDE DEF r, q, w
<1>5. Fit(t, q)
  BY <1>1, <1>3, <1>4 DEF Fit
<1>6. ASSUME r.reply = "done", r.op = "reset", Await(t, w, Prepared(client), "list", NoPath)
      PROVE  ReplacedInv'
  <2>1. Fit(t, w)
    BY <1>1, <1>3, <1>4, <1>6 DEF ResetOk, Fit
  <2> QED
    BY <1>1, <1>4, <1>6, <2>1, AwaitAges
<1> QED
  BY <1>1, <1>2, <1>4, <1>5, <1>6, RaiseAges, FinishAges DEF Finish

(* The poll that finds the modem: on another path, or on the old one and the  *)
(* object was missing before.                                                 *)
LEMMA ReappearAges ==
  ASSUME WatchInv, ReplacedInv, NEW t \in Task, Reappear(t)
  PROVE  ReplacedInv'
<1> DEFINE r == task[t]
           known(p) == [client EXCEPT !.path = p]
<1>1. /\ r.at = "list" /\ exposed' = exposed
      /\ r \in Record /\ ResetOk(t, r) /\ Fit(t, r)
  BY ResumingAges DEF Reappear, Resuming
<1>2. r.ret = "wait"
  BY <1>1 DEF ResetOk
<1>3. \/ Again(t, r, client, FALSE)
      \/ r.reply = "listed" /\ Again(t, r, known(NoPath), r.seen = {})
      \/ \E p \in BackPaths(r) : SubscribeMissing(t, [r EXCEPT !.base = p], known(p), p)
  BY DEF Reappear
<1> HIDE DEF r, known
<1>4. CASE Again(t, r, client, FALSE)
  BY <1>1, <1>2, <1>4, RaiseAges
<1>5. CASE r.reply = "listed" /\ Again(t, r, known(NoPath), r.seen = {})
  BY <1>1, <1>2, <1>5, RaiseAges DEF ResetOk
<1>6. ASSUME NEW p \in BackPaths(r),
             SubscribeMissing(t, [r EXCEPT !.base = p], known(p), p)
      PROVE  ReplacedInv'
  <2> DEFINE q == [r EXCEPT !.base = p]
  <2>1. p \in Path /\ (p = r.old => r.gone)
    BY <1>1 DEF BackPaths, Record
  <2>2. /\ q \in Record /\ q.op = r.op /\ q.ret = r.ret /\ q.gone = r.gone
        /\ q.old = r.old /\ q.base = p
    BY <1>1, <2>1 DEF Record
  <2>3. SubscribeMissing(t, q, known(p), p)
    BY <1>6
  <2> HIDE DEF q
  <2>4. Fit(t, q) /\ Based(q)
    BY <1>1, <1>2, <2>1, <2>2 DEF Fit, Based
  <2> QED
    BY <1>1, <2>2, <2>3, <2>4, SubscribeMissingAges
<1> QED
  BY <1>3, <1>4, <1>5, <1>6

LEMMA ModemsAge ==
  ASSUME WatchInv, ReplacedInv, NEW p \in Path, Appear(p) \/ Ready(p) \/ Vanish(p)
  PROVE  ReplacedInv'
<1>1. task' = task
  BY DEF Appear, Ready, Vanish
<1>2. /\ aged'.old = aged.old /\ aged'.back = aged.back
      /\ aged.replaced => aged'.replaced
      /\ aged.old \in exposed \ exposed' => aged'.replaced
  BY DEF Appear, Ready, Vanish, WatchInv, World, Aged
<1>3. \A u \in Task : ResetOk(u, task[u])'
  BY <1>1, <1>2 DEF ReplacedInv, ResetOk, Fit, Based
<1> QED
  BY <1>2, <1>3 DEF ReplacedInv, ReappearedMeansReplaced

LEMMA ReplacedInvInit == WatchInit => ReplacedInv
BY IdleResetOk, WatchAssumption DEF WatchInit, ReplacedInv, ReappearedMeansReplaced

LEMMA ReplacedInvNext == WatchInv /\ ReplacedInv /\ [WatchNext]_vars => ReplacedInv'
<1> SUFFICES ASSUME WatchInv, ReplacedInv, [WatchNext]_vars PROVE ReplacedInv'
  OBVIOUS
<1>1. CASE UNCHANGED vars
  BY <1>1 DEF vars, ReplacedInv, ReappearedMeansReplaced, ResetOk, Fit, Based
<1>2. CASE Connect
  BY <1>2 DEF Connect, ReplacedInv, ReappearedMeansReplaced, ResetOk, Fit, Based
<1>3. CASE WatchAdded \/ Drain \/ Poll \/ Reset \/ \E t \in Handler : DeleteMessage(t)
  BY <1>3, CallsAge
<1>4. CASE Disconnect
  BY <1>4, IdleResetOk, AgeMoves DEF Disconnect, Task
<1>5. ASSUME NEW t \in Task, ReappearTimeout(t) PROVE ReplacedInv'
  BY <1>5, FinishAges DEF ReappearTimeout, Finish
<1>6. ASSUME NEW t \in Task, Run(t) PROVE ReplacedInv'
  BY <1>6, AnswerAges, FindModemAges, LookUpAges, CalledAges, ReappearAges DEF Run
<1>7. ASSUME NEW p \in Path, Appear(p) \/ Ready(p) \/ Vanish(p) PROVE ReplacedInv'
  BY <1>7, ModemsAge
<1> QED
  BY <1>1, <1>2, <1>3, <1>4, <1>5, <1>6, <1>7 DEF WatchNext

(* A reset that reports the modem back on its old path has seen the object it *)
(* reset disappear, whatever recoveries and modem objects come between        *)
(* (reset_modem_path_disappeared of _wait_for_reset_reappear).                *)
THEOREM BackIsReplaced == WatchSpec => []ReappearedMeansReplaced
<1>1. ReplacedInv => ReappearedMeansReplaced
  BY DEF ReplacedInv
<1> QED
  BY <1>1, WatchInvHolds, ReplacedInvInit, ReplacedInvNext, PTL DEF WatchSpec
=============================================================================
