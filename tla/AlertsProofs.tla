---------------------------- MODULE AlertsProofs ----------------------------
(***************************************************************************)
(* Machine-checked proofs about Alerts, for every number of rules, metric  *)
(* requests, executions of auto-resolve and containers, every cooldown and *)
(* every set of payloads.                                                  *)
(*                                                                         *)
(* The inductive invariant IInv says what a request and an execution of    *)
(* the resolver carry between their statements: which instants and ids are *)
(* taken, how recent the samples they rest on are, and which notices are   *)
(* owed.                                                                   *)
(***************************************************************************)
EXTENDS Alerts, TLAPS

HandlerRecord == [pc : {"idle", "begun", "stored", "fired", "notify"}, at : Times,
                  todo : Seq(Sample), fired : SUBSET Rules, time : Times,
                  via : [Rules -> SUBSET Channels], made : SUBSET FiniteIds]
ResolverRecord == [pc : {"idle", "system", "between", "docker"},
                   rows : SUBSET [id : FiniteIds, config : Configs],
                   cache : UNION {[D -> Readings] : D \in SUBSET Sources},
                   done : SUBSET [id : FiniteIds, by : Stamp]]

----------------------------------------------------------------------------
(* Type correctness. *)

\* What the proofs use of the type invariant.
LEMMA Typed ==
    ASSUME TypeOK
    PROVE  /\ now \in Times /\ Times \subseteq Nat
           /\ server \in {"row", "gone"}
           /\ phase \in [Rules -> {"new", "row", "gone"}]
           /\ config \in [Rules -> Configs]
           /\ last \in [Rules -> Times \cup {None}]
           /\ latest \in [Sources -> Readings]
           /\ events \subseteq EventRows
           /\ raised \subseteq FiniteIds /\ refused \subseteq FiniteIds
           /\ owed \subseteq Notice /\ enqueued \subseteq Notice
           /\ handler \in [Handlers -> HandlerRecord]
           /\ resolver \in [Executions -> ResolverRecord]
           /\ crashes \in 0 .. MaxCrashes
  BY ConstantsAssumption DEF TypeOK, HandlerRecord, ResolverRecord, Times

LEMMA IdleTyped == IdleHandler \in HandlerRecord /\ IdleResolver \in ResolverRecord
<1>1. 0 \in Times
  BY ConstantsAssumption DEF Times
<1>2. IdleHandler \in HandlerRecord
  BY <1>1 DEF IdleHandler, HandlerRecord
<1>3. <<>> \in [{} -> Readings]
  OBVIOUS
<1>4. <<>> \in UNION {[D -> Readings] : D \in SUBSET Sources}
  BY <1>3
<1>5. IdleResolver \in ResolverRecord
  BY <1>4 DEF IdleResolver, ResolverRecord
<1> QED
  BY <1>2, <1>5

\* The first sample of a payload and what is left of it.
LEMMA HeadAndTail ==
    ASSUME NEW s \in Seq(Sample), s # <<>>
    PROVE  /\ Head(s) \in Sample /\ Head(s) \in Range(s) /\ Head(s).src \in Sources
           /\ Tail(s) \in Seq(Sample) /\ Range(Tail(s)) \subseteq Range(s)
           /\ \A i \in DOMAIN Tail(s) : i + 1 \in DOMAIN s /\ Tail(s)[i] = s[i + 1]
           /\ DOMAIN Tail(s) \subseteq Nat \ {0}
<1>1. /\ Len(s) \in Nat \ {0} /\ DOMAIN s = 1 .. Len(s)
      /\ \A i \in 1 .. Len(s) : s[i] \in Sample
      /\ Head(s) = s[1]
  OBVIOUS
<1>2. Head(s) \in Sample /\ Head(s) \in Range(s)
  BY <1>1 DEF Range
<1>3. /\ Tail(s) \in Seq(Sample) /\ DOMAIN Tail(s) = 1 .. Len(s) - 1
      /\ \A i \in 1 .. Len(s) - 1 : Tail(s)[i] = s[i + 1]
  BY <1>1
<1>4. \A i \in DOMAIN Tail(s) : i + 1 \in DOMAIN s /\ Tail(s)[i] = s[i + 1]
  BY <1>1, <1>3
<1>5. Range(Tail(s)) \subseteq Range(s)
  BY <1>4 DEF Range
<1> QED
  BY <1>2, <1>3, <1>4, <1>5, <1>1 DEF Sample

LEMMA NewestTyped ==
    ASSUME TypeOK, NEW at \in Times, NEW items \in Seq(Sample)
    PROVE  Newest(at, items) \in [Sources -> Readings]
<1> SUFFICES ASSUME NEW src \in Sources
             PROVE  Newest(at, items)[src] \in Readings
  BY DEF Newest
<1> DEFINE own == {s \in Range(items) : s.src = src}
<1>1. Newest(at, items)[src] = IF own = {} \/ (latest[src] # None /\ latest[src].at > at)
                               THEN latest[src]
                               ELSE [at |-> at, val |-> (CHOOSE s \in own : TRUE).val]
  BY DEF Newest
<1>2. latest[src] \in Readings
  BY Typed
<1>3. ASSUME own # {} PROVE (CHOOSE s \in own : TRUE).val \in Values
  <2>1. (CHOOSE s \in own : TRUE) \in own
    BY <1>3
  <2>2. own \subseteq Sample
    BY DEF Range
  <2> QED
    BY <2>1, <2>2 DEF Sample
<1> QED
  BY <1>1, <1>2, <1>3 DEF Readings

----------------------------------------------------------------------------
(* What the steps of a request do, variable by variable. *)

AtPc(h, pcs) == handler[h].pc \in pcs
Active(h) == ~AtPc(h, {"idle"})

\* Only the request in slot h moves.
Moves(h) ==
    /\ handler' \in [Handlers -> HandlerRecord]
    /\ \A g \in Handlers \ {h} : handler'[g] = handler[g]

\* The request in slot h stays at its samples, or leaves the slot.
Keeps(h) == handler'[h].at = handler[h].at /\ handler'[h].todo = handler[h].todo
Ends(h) == handler'[h] = IdleHandler

LEMMA MovesByExcept ==
    ASSUME TypeOK, NEW h \in Handlers, NEW x \in HandlerRecord,
           handler' = [handler EXCEPT ![h] = x]
    PROVE  Moves(h) /\ handler'[h] = x
<1>1. handler \in [Handlers -> HandlerRecord]
  BY Typed
<1> QED
  BY <1>1 DEF Moves

LEMMA BeginEffect ==
    ASSUME TypeOK, NEW h \in Handlers, NEW p \in Payloads, Begin(h, p)
    PROVE  /\ ~Active(h) /\ Moves(h) /\ now' = now + 1 /\ now' \in Times
           /\ handler'[h].pc = "begun" /\ handler'[h].at = now + 1
           /\ handler'[h].todo = p /\ p \in Seq(Sample) /\ OncePerSource(p)
           /\ handler'[h].fired = {} /\ handler'[h].time = 0
           /\ UNCHANGED <<server, phase, config, last, latest, events, raised, owed,
                          enqueued, refused, resolver, crashes>>
<1> DEFINE x == [IdleHandler EXCEPT !.pc = "begun", !.at = now + 1, !.todo = p]
<1>1. now' = now + 1 /\ now' \in Times
  BY Typed, ConstantsAssumption DEF Begin, Times
<1>2. p \in Seq(Sample) /\ OncePerSource(p)
  BY ConstantsAssumption
<1>3. x \in HandlerRecord /\ x.pc = "begun" /\ x.at = now + 1 /\ x.todo = p
      /\ x.fired = {} /\ x.time = 0
  BY <1>1, <1>2, IdleTyped DEF IdleHandler, HandlerRecord
<1>4. Moves(h) /\ handler'[h] = x
  BY <1>3, MovesByExcept DEF Begin
<1> QED
  BY <1>1, <1>2, <1>3, <1>4 DEF Begin, Active, AtPc

LEMMA StoreEffect ==
    ASSUME TypeOK, NEW h \in Handlers, StoreSamples(h)
    PROVE  /\ AtPc(h, {"begun"}) /\ Moves(h) /\ latest' \in [Sources -> Readings]
           /\ \/ /\ server = "row" /\ Keeps(h)
                 /\ handler'[h].pc = "stored" /\ handler'[h].time = handler[h].time
                 /\ latest' = Newest(handler[h].at, handler[h].todo)
              \/ Ends(h) /\ latest' = latest
           /\ UNCHANGED <<now, server, phase, config, last, events, raised, owed,
                          enqueued, refused, resolver, crashes>>
<1> DEFINE x == [handler[h] EXCEPT !.pc = "stored"]
<1>1. handler[h] \in HandlerRecord /\ latest \in [Sources -> Readings]
  BY Typed
<1>2. x \in HandlerRecord /\ x.pc = "stored" /\ x.at = handler[h].at
      /\ x.todo = handler[h].todo /\ x.time = handler[h].time
  BY <1>1 DEF HandlerRecord
<1>3. ASSUME handler' = [handler EXCEPT ![h] = x] PROVE Moves(h) /\ handler'[h] = x
  BY <1>2, <1>3, MovesByExcept
<1>4. ASSUME handler' = [handler EXCEPT ![h] = IdleHandler] PROVE Moves(h) /\ Ends(h)
  BY <1>4, IdleTyped, MovesByExcept DEF Ends
<1>5. Newest(handler[h].at, handler[h].todo) \in [Sources -> Readings]
  BY <1>1, NewestTyped DEF HandlerRecord
<1>6. \/ /\ server = "row" /\ handler' = [handler EXCEPT ![h] = x]
         /\ latest' = Newest(handler[h].at, handler[h].todo)
      \/ /\ handler' = [handler EXCEPT ![h] = IdleHandler] /\ latest' = latest
  BY DEF StoreSamples
<1>7. /\ handler[h].pc = "begun"
      /\ UNCHANGED <<now, server, phase, config, last, events, raised, owed, enqueued,
                     refused, resolver, crashes>>
  BY DEF StoreSamples
<1> HIDE DEF x
<1> QED
  BY <1>1, <1>2, <1>3, <1>4, <1>5, <1>6, <1>7 DEF AtPc, Keeps

\* The channels read with the rules.
LEMMA ChannelsOfTyped ==
    ASSUME TypeOK, NEW rules
    PROVE  ChannelsOf(rules) \in [Rules -> SUBSET Channels]
<1>1. \A r \in Rules : config[r] \in Config
  BY Typed, ConstantsAssumption
<1>2. \A r \in Rules : config[r].channels \in SUBSET Channels
  BY <1>1 DEF Config
<1> QED
  BY <1>2 DEF ChannelsOf

LEMMA EvaluateEffect ==
    ASSUME TypeOK, NEW h \in Handlers, EvaluateRules(h)
    PROVE  /\ AtPc(h, {"stored"}) /\ Moves(h) /\ handler[h].todo # <<>>
           /\ handler'[h].at = handler[h].at
           /\ \/ /\ handler'[h].pc = "stored" /\ handler'[h].todo = Tail(handler[h].todo)
                 /\ handler'[h].time = handler[h].time
              \/ /\ handler'[h].pc = "fired" /\ handler'[h].todo = handler[h].todo
                 /\ handler'[h].fired = Fired(Head(handler[h].todo), now)
                 /\ handler'[h].fired # {} /\ handler'[h].time = now
           /\ UNCHANGED <<now, server, phase, config, last, latest, events, raised, owed,
                          enqueued, refused, resolver, crashes>>
<1> DEFINE todo == handler[h].todo
           fired == Fired(Head(todo), now)
           x == [handler[h] EXCEPT !.todo = Tail(todo)]
           y == [handler[h] EXCEPT !.pc = "fired", !.fired = fired, !.time = now,
                               !.via = ChannelsOf(fired)]
<1>1. handler[h] \in HandlerRecord /\ now \in Times /\ todo \in Seq(Sample)
  BY Typed DEF HandlerRecord
<1>2. todo # <<>> /\ Tail(todo) \in Seq(Sample) /\ fired \in SUBSET Rules
      /\ ChannelsOf(fired) \in [Rules -> SUBSET Channels]
  BY <1>1, ChannelsOfTyped, HeadAndTail DEF EvaluateRules, Fired
<1>3. x \in HandlerRecord /\ x.pc = handler[h].pc /\ x.at = handler[h].at
      /\ x.todo = Tail(todo) /\ x.time = handler[h].time
  BY <1>1, <1>2 DEF HandlerRecord
<1>4. y \in HandlerRecord /\ y.pc = "fired" /\ y.at = handler[h].at /\ y.todo = todo
      /\ y.fired = fired /\ y.time = now
  BY <1>1, <1>2 DEF HandlerRecord
<1>5. handler[h].pc = "stored"
  BY DEF EvaluateRules
<1>6. CASE fired = {}
  <2>1. handler' = [handler EXCEPT ![h] = x]
    BY <1>6 DEF EvaluateRules
  <2>2. Moves(h) /\ handler'[h] = x
    BY <1>3, <2>1, MovesByExcept
  <2> QED
    BY <2>2, <1>2, <1>3, <1>5 DEF EvaluateRules, AtPc
<1>7. CASE fired # {}
  <2>1. handler' = [handler EXCEPT ![h] = y]
    BY <1>7 DEF EvaluateRules
  <2>2. Moves(h) /\ handler'[h] = y
    BY <1>4, <2>1, MovesByExcept
  <2> QED
    BY <2>2, <1>2, <1>4, <1>5, <1>7 DEF EvaluateRules, AtPc
<1> QED
  BY <1>6, <1>7

\* The ids of the events a request is about to commit.
NewIds(h) == {IdOf(e) : e \in NewEvents(h)}

LEMMA NewEventsTyped ==
    ASSUME TypeOK, NEW h \in Handlers, handler[h].todo # <<>>
    PROVE  /\ NewEvents(h) \subseteq EventRows /\ NewIds(h) \subseteq FiniteIds
           /\ Head(handler[h].todo).src \in Sources
           /\ \A e \in NewEvents(h) :
                 /\ e.rule \in handler[h].fired /\ e.src = Head(handler[h].todo).src
                 /\ e.at = handler[h].at /\ e.time = handler[h].time /\ e.closed = None
<1>1. /\ handler[h].at \in Times /\ handler[h].time \in Times
      /\ handler[h].fired \subseteq Rules /\ handler[h].todo \in Seq(Sample)
  BY Typed DEF HandlerRecord
<1>2. Head(handler[h].todo).src \in Sources
  BY <1>1, HeadAndTail
<1>3. ASSUME NEW e \in NewEvents(h)
      PROVE  /\ e \in EventRows /\ IdOf(e) \in FiniteIds
             /\ e.rule \in handler[h].fired /\ e.src = Head(handler[h].todo).src
             /\ e.at = handler[h].at /\ e.time = handler[h].time /\ e.closed = None
  <2>1. PICK r \in handler[h].fired :
          e = [rule |-> r, src |-> Head(handler[h].todo).src, at |-> handler[h].at,
               time |-> handler[h].time, closed |-> None]
    BY <1>3 DEF NewEvents
  <2> QED
    BY <2>1, <1>1, <1>2 DEF EventRows, FiniteIds, IdOf
<1> QED
  BY <1>2, <1>3 DEF NewIds

\* The notices its commit owes.
NewNotices(h) == UNION {Notices(IdOf(e), handler[h].via[e.rule]) : e \in NewEvents(h)}

LEMMA NoticesTyped ==
    ASSUME NEW id \in FiniteIds, NEW channels \in SUBSET Channels
    PROVE  /\ Notices(id, channels) \subseteq Notice
           /\ \A n \in Notices(id, channels) : n.event = id
  BY DEF Notices, Notice

LEMMA NewNoticesTyped ==
    ASSUME TypeOK, NEW h \in Handlers, handler[h].todo # <<>>
    PROVE  /\ NewNotices(h) \subseteq Notice
           /\ \A n \in NewNotices(h) : n.event \in NewIds(h)
           /\ \A id \in NewIds(h) : Notices(id, Via(h, id)) \subseteq NewNotices(h)
<1>1. handler[h].via \in [Rules -> SUBSET Channels]
  BY Typed DEF HandlerRecord
<1>2. ASSUME NEW e \in NewEvents(h)
      PROVE  /\ IdOf(e) \in FiniteIds /\ handler[h].via[e.rule] \in SUBSET Channels
             /\ IdOf(e) \in NewIds(h) /\ IdOf(e).rule = e.rule
  BY <1>1, <1>2, NewEventsTyped DEF EventRows, NewIds, IdOf
<1>3. ASSUME NEW n \in NewNotices(h) PROVE n \in Notice /\ n.event \in NewIds(h)
  <2>1. PICK e \in NewEvents(h) : n \in Notices(IdOf(e), handler[h].via[e.rule])
    BY <1>3 DEF NewNotices
  <2> QED
    BY <1>2, <2>1, NoticesTyped
<1>4. ASSUME NEW id \in NewIds(h) PROVE Notices(id, Via(h, id)) \subseteq NewNotices(h)
  <2>1. PICK e \in NewEvents(h) : id = IdOf(e)
    BY <1>4 DEF NewIds
  <2>2. Via(h, id) = handler[h].via[e.rule]
    BY <1>2, <2>1 DEF Via
  <2> QED
    BY <2>1, <2>2 DEF NewNotices
<1> QED
  BY <1>3, <1>4

LEMMA CommitEventsEffect ==
    ASSUME TypeOK, NEW h \in Handlers, CommitEvents(h), handler[h].todo # <<>>
    PROVE  /\ AtPc(h, {"fired"}) /\ Moves(h)
           /\ UNCHANGED <<now, server, phase, config, latest, enqueued, refused, resolver,
                          crashes>>
           /\ \/ /\ Committable(h) /\ Keeps(h)
                 /\ handler'[h].pc = "notify" /\ handler'[h].time = handler[h].time
                 /\ handler'[h].made = NewIds(h) /\ handler'[h].via = handler[h].via
                 /\ owed' = owed \cup NewNotices(h) /\ owed' \subseteq Notice
                 /\ events' = events \cup NewEvents(h)
                 /\ raised' = raised \cup NewIds(h)
                 /\ last' = Stamped(h) /\ last' \in [Rules -> Times \cup {None}]
              \/ Ends(h) /\ UNCHANGED <<events, raised, owed, last>>
<1> DEFINE x == [handler[h] EXCEPT !.pc = "notify", !.fired = {}, !.made = NewIds(h)]
<1>1. handler[h] \in HandlerRecord
  BY Typed
<1>2. x \in HandlerRecord /\ x.pc = "notify" /\ x.at = handler[h].at
      /\ x.todo = handler[h].todo /\ x.time = handler[h].time
      /\ x.made = NewIds(h) /\ x.via = handler[h].via
  BY <1>1, NewEventsTyped DEF HandlerRecord
<1>3. CASE /\ Committable(h)
           /\ events' = events \cup NewEvents(h)
           /\ raised' = raised \cup NewIds(h)
           /\ owed' = owed \cup NewNotices(h)
           /\ last' = Stamped(h)
           /\ handler' = [handler EXCEPT ![h] = x]
  <2>1. Moves(h) /\ handler'[h] = x
    BY <1>2, <1>3, MovesByExcept
  <2>2. last' \in [Rules -> Times \cup {None}]
    BY <1>1, <1>3, Typed DEF Stamped, HandlerRecord
  <2>3. owed' \subseteq Notice
    BY <1>3, Typed, NewNoticesTyped
  <2> QED
    BY <2>1, <2>2, <2>3, <1>2, <1>3 DEF CommitEvents, AtPc, Keeps
<1>4. CASE /\ handler' = [handler EXCEPT ![h] = IdleHandler]
           /\ UNCHANGED <<events, raised, owed, last>>
  BY <1>4, IdleTyped, MovesByExcept DEF CommitEvents, AtPc, Ends
<1> QED
  BY <1>3, <1>4 DEF CommitEvents, NewIds, NewNotices

\* Some of the channels of one event are notified, the event is refused or not.
LEMMA EnqueueOne ==
    ASSUME TypeOK, NEW h \in Handlers, NEW id \in handler[h].made, Enqueue(h, id)
    PROVE  /\ enqueued' \subseteq Notice /\ refused' \subseteq FiniteIds
           /\ \E reached \in SUBSET Via(h, id) :
                 enqueued' = enqueued \cup Notices(id, reached)
<1>1. /\ id \in FiniteIds /\ id.rule \in Rules
      /\ handler[h].via \in [Rules -> SUBSET Channels]
  BY Typed DEF HandlerRecord, FiniteIds
<1>2. Via(h, id) \in SUBSET Channels
  BY <1>1 DEF Via
<1>3. PICK reached \in SUBSET Via(h, id) : enqueued' = enqueued \cup Notices(id, reached)
  BY DEF Enqueue
<1>4. enqueued' \subseteq Notice
  BY <1>1, <1>2, <1>3, NoticesTyped, Typed
<1>5. refused' \subseteq FiniteIds
  BY <1>1, Typed DEF Enqueue
<1> QED
  BY <1>3, <1>4, <1>5

LEMMA EnqueueEffect ==
    ASSUME TypeOK, NEW h \in Handlers, EnqueueEvent(h), handler[h].todo # <<>>
    PROVE  /\ AtPc(h, {"notify"}) /\ Moves(h)
           /\ enqueued' \subseteq Notice /\ refused' \subseteq FiniteIds
           /\ UNCHANGED <<now, server, phase, config, last, latest, events, raised, owed,
                          resolver, crashes>>
           /\ \/ /\ \E id \in handler[h].made : \E reached \in SUBSET Via(h, id) :
                       enqueued' = enqueued \cup Notices(id, reached)
                 /\ Keeps(h) /\ handler'[h].pc = "notify"
                 /\ handler'[h].made \subseteq handler[h].made
                 /\ handler'[h].via = handler[h].via
                 /\ handler'[h].time = handler[h].time
              \/ Ends(h) /\ enqueued' = enqueued
              \/ /\ handler'[h].pc = "stored" /\ handler'[h].at = handler[h].at
                 /\ handler'[h].todo = Tail(handler[h].todo)
                 /\ handler'[h].time = handler[h].time /\ enqueued' = enqueued
<1>1. /\ handler[h] \in HandlerRecord /\ handler[h].made \subseteq FiniteIds
      /\ enqueued \subseteq Notice /\ refused \subseteq FiniteIds
      /\ handler[h].todo \in Seq(Sample)
      /\ ChannelsOf({}) \in [Rules -> SUBSET Channels]
  BY Typed, ChannelsOfTyped DEF HandlerRecord
<1>2. ASSUME NEW id \in handler[h].made, handler' = [handler EXCEPT ![h].made = @ \ {id}]
      PROVE  /\ Moves(h) /\ Keeps(h) /\ handler'[h].pc = handler[h].pc
             /\ handler'[h].made \subseteq handler[h].made
             /\ handler'[h].via = handler[h].via /\ handler'[h].time = handler[h].time
  <2> DEFINE x == [handler[h] EXCEPT !.made = @ \ {id}]
  <2>1. x \in HandlerRecord /\ x.pc = handler[h].pc /\ x.at = handler[h].at
        /\ x.todo = handler[h].todo /\ x.time = handler[h].time
        /\ x.via = handler[h].via /\ x.made = handler[h].made \ {id}
    BY <1>1 DEF HandlerRecord
  <2>2. Moves(h) /\ handler'[h] = x
    BY <2>1, <1>2, MovesByExcept
  <2> QED
    BY <2>1, <2>2, <1>1 DEF Keeps
<1>3. ASSUME handler' = [handler EXCEPT ![h].pc = "stored", ![h].todo = Tail(@),
                                        ![h].via = ChannelsOf({})]
      PROVE  /\ Moves(h) /\ handler'[h].pc = "stored" /\ handler'[h].at = handler[h].at
             /\ handler'[h].todo = Tail(handler[h].todo)
             /\ handler'[h].time = handler[h].time
  <2> DEFINE x == [handler[h] EXCEPT !.pc = "stored", !.todo = Tail(@),
                                     !.via = ChannelsOf({})]
  <2>1. x \in HandlerRecord /\ x.pc = "stored" /\ x.at = handler[h].at
        /\ x.todo = Tail(handler[h].todo) /\ x.time = handler[h].time
    BY <1>1, HeadAndTail DEF HandlerRecord
  <2>2. handler' = [handler EXCEPT ![h] = x]
    BY <1>1, <1>3 DEF HandlerRecord
  <2>3. Moves(h) /\ handler'[h] = x
    BY <2>1, <2>2, MovesByExcept
  <2> QED
    BY <2>1, <2>3
<1>4. ASSUME handler' = [handler EXCEPT ![h] = IdleHandler]
      PROVE  Moves(h) /\ Ends(h)
  BY <1>4, IdleTyped, MovesByExcept DEF Ends
<1>5. /\ handler[h].pc = "notify"
      /\ UNCHANGED <<now, server, phase, config, last, latest, events, raised, owed,
                     resolver, crashes>>
  BY DEF EnqueueEvent
<1>6. \/ \E id \in handler[h].made :
            Enqueue(h, id) /\ handler' = [handler EXCEPT ![h].made = @ \ {id}]
      \/ /\ handler' = [handler EXCEPT ![h] = IdleHandler]
         /\ UNCHANGED <<enqueued, refused>>
      \/ /\ handler' = [handler EXCEPT ![h].pc = "stored", ![h].todo = Tail(@),
                                        ![h].via = ChannelsOf({})]
         /\ UNCHANGED <<enqueued, refused>>
  BY DEF EnqueueEvent
<1>7. ASSUME NEW id \in handler[h].made, Enqueue(h, id),
             handler' = [handler EXCEPT ![h].made = @ \ {id}]
      PROVE  /\ enqueued' \subseteq Notice /\ refused' \subseteq FiniteIds
             /\ \E i \in handler[h].made : \E reached \in SUBSET Via(h, i) :
                    enqueued' = enqueued \cup Notices(i, reached)
  BY <1>7, EnqueueOne
<1> QED
  BY <1>1, <1>2, <1>3, <1>4, <1>5, <1>6, <1>7 DEF AtPc

LEMMA EndEffect ==
    ASSUME TypeOK, NEW h \in Handlers, Finish(h) \/ CrashHandler(h)
    PROVE  /\ Moves(h) /\ Ends(h)
           /\ UNCHANGED <<now, server, phase, config, last, latest, events, raised, owed,
                          enqueued, refused, resolver>>
  BY IdleTyped, MovesByExcept DEF Finish, CrashHandler, Ends

----------------------------------------------------------------------------
(* What the steps of an execution of auto-resolve do. *)

\* Only the execution in slot x moves.
Turns(x) ==
    /\ resolver' \in [Executions -> ResolverRecord]
    /\ \A y \in Executions \ {x} : resolver'[y] = resolver[y]

\* The execution is between passes or at an end, with nothing read.
Rests(x) == resolver'[x].rows = {} /\ resolver'[x].done = {}

LEMMA TurnsByExcept ==
    ASSUME TypeOK, NEW x \in Executions, NEW y \in ResolverRecord,
           resolver' = [resolver EXCEPT ![x] = y]
    PROVE  Turns(x) /\ resolver'[x] = y
<1>1. resolver \in [Executions -> ResolverRecord]
  BY Typed
<1> QED
  BY <1>1 DEF Turns

LEMMA ResolverFields ==
    ASSUME TypeOK, NEW x \in Executions
    PROVE  /\ resolver[x].pc \in {"idle", "system", "between", "docker"}
           /\ resolver[x].rows \subseteq [id : FiniteIds, config : Configs]
           /\ DOMAIN resolver[x].cache \subseteq Sources
           /\ \A src \in DOMAIN resolver[x].cache : resolver[x].cache[src] \in Readings
           /\ resolver[x].done \subseteq [id : FiniteIds, by : Stamp]
<1>1. resolver[x] \in ResolverRecord
  BY Typed
<1>2. PICK D \in SUBSET Sources : resolver[x].cache \in [D -> Readings]
  BY <1>1 DEF ResolverRecord
<1> QED
  BY <1>1, <1>2 DEF ResolverRecord

LEMMA ReadOpenEffect ==
    ASSUME TypeOK, NEW x \in Executions, NEW kind \in Kinds, NEW from,
           ReadOpen(x, kind, from)
    PROVE  /\ Turns(x)
           /\ resolver'[x].rows = OpenRows(kind) /\ resolver'[x].done = {}
           /\ DOMAIN resolver'[x].cache = {}
           /\ UNCHANGED <<now, server, phase, config, last, latest, events, raised, owed,
                          enqueued, refused, handler, crashes>>
<1> DEFINE y == [IdleResolver EXCEPT !.pc = kind, !.rows = OpenRows(kind)]
<1>1. ASSUME NEW row \in OpenRows(kind)
      PROVE  row \in [id : FiniteIds, config : Configs]
  <2>1. PICK e \in events : row = [id |-> IdOf(e), config |-> config[e.rule]]
    BY <1>1 DEF OpenRows
  <2>2. IdOf(e) \in FiniteIds /\ e.rule \in Rules
    BY Typed DEF EventRows, IdOf, FiniteIds
  <2> QED
    BY <2>1, <2>2, Typed
<1>2. y \in ResolverRecord
  BY <1>1, IdleTyped DEF IdleResolver, ResolverRecord, Kinds
<1>3. y.rows = OpenRows(kind) /\ y.done = {} /\ y.cache = <<>>
  BY DEF IdleResolver
<1>4. Turns(x) /\ resolver'[x] = y
  BY <1>2, TurnsByExcept DEF ReadOpen
<1>5. DOMAIN y.cache = {}
  BY <1>3
<1>6. UNCHANGED <<now, server, phase, config, last, latest, events, raised, owed,
                  enqueued, refused, handler, crashes>>
  BY DEF ReadOpen
<1> HIDE DEF y
<1> QED
  BY <1>3, <1>4, <1>5, <1>6

\* What one row is compared with, and what the pass remembers of it.
Examined(x, row, src, sample) ==
    LET own == resolver[x] IN
    /\ sample = IF src \in DOMAIN own.cache THEN own.cache[src] ELSE latest[src]
    /\ resolver'[x].rows = own.rows \ {row}
    /\ DOMAIN resolver'[x].cache = DOMAIN own.cache \cup {src}
    /\ \A y \in DOMAIN resolver'[x].cache :
          resolver'[x].cache[y] = IF y = src THEN sample ELSE own.cache[y]
    /\ \/ resolver'[x].done = own.done
       \/ /\ sample # None
          /\ resolver'[x].done = own.done \cup
                {[id |-> row.id, by |-> [src |-> src, at |-> sample.at]]}

LEMMA ExamineEffect ==
    ASSUME TypeOK, NEW x \in Executions, Examine(x)
    PROVE  /\ Turns(x)
           /\ \E row \in resolver[x].rows, src \in Sources, sample \in Readings :
                 Examined(x, row, src, sample)
           /\ UNCHANGED <<now, server, phase, config, last, latest, events, raised, owed,
                          enqueued, refused, handler, crashes>>
<1> DEFINE own == resolver[x]
<1>1. PICK row \in own.rows :
        LET src    == SeriesOf(x, row.id)
            sample == IF src \in DOMAIN own.cache THEN own.cache[src] ELSE latest[src]
            settled == sample # None /\ Settles(sample.val, row.config)
        IN  resolver' = [resolver EXCEPT
                ![x].rows = @ \ {row},
                ![x].cache = [y \in DOMAIN own.cache \cup {src} |->
                                 IF y = src THEN sample ELSE own.cache[y]],
                ![x].done = IF settled
                            THEN @ \cup {[id |-> row.id,
                                          by |-> [src |-> src, at |-> sample.at]]}
                            ELSE @]
  BY DEF Examine
<1> DEFINE src    == SeriesOf(x, row.id)
           sample == IF src \in DOMAIN own.cache THEN own.cache[src] ELSE latest[src]
           cache  == [y \in DOMAIN own.cache \cup {src} |->
                        IF y = src THEN sample ELSE own.cache[y]]
           mark   == [id |-> row.id, by |-> [src |-> src, at |-> sample.at]]
           settled == sample # None /\ Settles(sample.val, row.config)
           done   == IF settled THEN own.done \cup {mark} ELSE own.done
           next   == [own EXCEPT !.rows = own.rows \ {row}, !.cache = cache,
                                 !.done = done]
<1>2. resolver' = [resolver EXCEPT ![x] = next]
  <2>1. resolver \in [Executions -> ResolverRecord] /\ own \in ResolverRecord
    BY Typed
  <2> QED
    BY <1>1, <2>1 DEF ResolverRecord
<1>3. row.id \in FiniteIds /\ src \in Sources
  BY ResolverFields DEF SeriesOf, FiniteIds, Sources
<1>4. sample \in Readings
  BY <1>3, Typed, ResolverFields
<1>5. cache \in [DOMAIN own.cache \cup {src} -> Readings]
  BY <1>3, <1>4, ResolverFields
<1>6. cache \in UNION {[D -> Readings] : D \in SUBSET Sources}
  <2> DEFINE C == DOMAIN own.cache \cup {src}
  <2>1. C \in SUBSET Sources
    BY <1>3, ResolverFields
  <2> HIDE DEF C, cache
  <2>2. cache \in [C -> Readings]
    BY <1>5 DEF C
  <2> QED
    BY <2>1, <2>2
<1>7. sample # None => mark \in [id : FiniteIds, by : Stamp]
  BY <1>3, <1>4 DEF Readings, Stamp
<1>8. done \subseteq [id : FiniteIds, by : Stamp]
  BY <1>7, ResolverFields
<1> HIDE DEF src, sample, cache, mark, settled, done
<1>9. /\ next \in ResolverRecord /\ next.rows = own.rows \ {row}
      /\ next.cache = cache /\ next.done = done
  BY <1>6, <1>8, Typed DEF ResolverRecord
<1>10. Turns(x) /\ resolver'[x] = next
  BY <1>2, <1>9, TurnsByExcept
<1>11. Examined(x, row, src, sample)
  <2>1. sample = IF src \in DOMAIN own.cache THEN own.cache[src] ELSE latest[src]
    BY DEF sample
  <2>2. /\ DOMAIN cache = DOMAIN own.cache \cup {src}
        /\ \A y \in DOMAIN cache : cache[y] = IF y = src THEN sample ELSE own.cache[y]
    BY DEF cache
  <2>3. \/ done = own.done
        \/ sample # None /\ done = own.done \cup {mark}
    BY DEF done, settled
  <2> HIDE DEF next
  <2> QED
    BY <2>1, <2>2, <2>3, <1>9, <1>10 DEF Examined, mark
<1> QED
  BY <1>3, <1>4, <1>10, <1>11 DEF Examine

\* A commit writes resolved_at and nothing else: an event keeps its id, a closed one
\* stays closed, and what is written is what the pass decided on.
LEMMA ClosedByKeeps ==
    ASSUME TypeOK, NEW x \in Executions, NEW e \in events
    PROVE  LET f == ClosedBy(x, e)
           IN  /\ f \in EventRows /\ IdOf(f) = IdOf(e)
               /\ f.rule = e.rule /\ f.src = e.src /\ f.at = e.at /\ f.time = e.time
               /\ \/ IdOf(e) \notin Marked(x) /\ f = e
                  \/ /\ IdOf(e) \in Marked(x) /\ f.closed # None
                     /\ \E d \in resolver[x].done : d.id = IdOf(e) /\ f.closed = d.by
<1>1. e \in EventRows
  BY Typed
<1>2. CASE IdOf(e) \notin Marked(x)
  BY <1>1, <1>2 DEF ClosedBy
<1>3. CASE IdOf(e) \in Marked(x)
  <2> DEFINE d == CHOOSE m \in resolver[x].done : m.id = IdOf(e)
             f == [e EXCEPT !.closed = d.by]
  <2>1. d \in resolver[x].done /\ d.id = IdOf(e)
    BY <1>3 DEF Marked
  <2> HIDE DEF d
  <2>2. d.by \in Stamp
    BY <2>1, ResolverFields
  <2>3. d.by # None
    BY <2>2, ConstantsAssumption DEF Stamp, Times
  <2>4. /\ f \in EventRows /\ f.closed = d.by
        /\ f.rule = e.rule /\ f.src = e.src /\ f.at = e.at /\ f.time = e.time
    BY <1>1, <2>2 DEF EventRows
  <2>5. ClosedBy(x, e) = f
    BY <1>3 DEF ClosedBy, d
  <2>6. IdOf(f) = IdOf(e)
    BY <2>4 DEF IdOf
  <2> HIDE DEF f
  <2> QED
    BY <1>3, <2>1, <2>3, <2>4, <2>5, <2>6
<1> QED
  BY <1>2, <1>3

LEMMA CommitResolvedEffect ==
    ASSUME TypeOK, NEW x \in Executions, CommitResolved(x)
    PROVE  /\ Turns(x) /\ Rests(x)
           /\ UNCHANGED <<now, server, phase, config, last, latest, raised, owed,
                          enqueued, refused, handler, crashes>>
           /\ events' \in {events, {ClosedBy(x, e) : e \in events}}
<1>1. \/ \E pc \in {"between", "idle"} :
            resolver' = [resolver EXCEPT ![x] = [IdleResolver EXCEPT !.pc = pc]]
      \/ resolver' = [resolver EXCEPT ![x] = IdleResolver]
  BY DEF CommitResolved
<1>2. Turns(x) /\ Rests(x)
  <2>1. CASE resolver' = [resolver EXCEPT ![x] = IdleResolver]
    <3>1. Turns(x) /\ resolver'[x] = IdleResolver
      BY <2>1, IdleTyped, TurnsByExcept
    <3> QED
      BY <3>1 DEF Rests, IdleResolver
  <2>2. ASSUME NEW pc \in {"between", "idle"},
               resolver' = [resolver EXCEPT ![x] = [IdleResolver EXCEPT !.pc = pc]]
        PROVE  Turns(x) /\ Rests(x)
    <3> DEFINE y == [IdleResolver EXCEPT !.pc = pc]
    <3>1. y \in ResolverRecord /\ y.rows = {} /\ y.done = {}
      BY IdleTyped DEF ResolverRecord, IdleResolver
    <3>2. Turns(x) /\ resolver'[x] = y
      BY <2>2, <3>1, TurnsByExcept
    <3> QED
      BY <3>1, <3>2 DEF Rests
  <2> QED
    BY <1>1, <2>1, <2>2
<1> QED
  BY <1>2 DEF CommitResolved

LEMMA CrashResolverEffect ==
    ASSUME TypeOK, NEW x \in Executions, CrashResolver(x)
    PROVE  /\ Turns(x) /\ Rests(x)
           /\ UNCHANGED <<now, server, phase, config, last, latest, events, raised, owed,
                          enqueued, refused, handler>>
<1>1. Turns(x) /\ resolver'[x] = IdleResolver
  BY IdleTyped, TurnsByExcept DEF CrashResolver
<1> QED
  BY <1>1 DEF CrashResolver, Rests, IdleResolver

----------------------------------------------------------------------------
(* What a request carries. *)

\* A request that has fired or notifies is at a sample; what it decided on is past.
HandlersCarry ==
    \A h \in Handlers :
        /\ OncePerSource(handler[h].todo)
        /\ AtPc(h, {"fired", "notify"}) => handler[h].todo # <<>>
        /\ AtPc(h, {"fired"}) => handler[h].fired # {}
        /\ handler[h].time <= now

Shaped == TypeOK /\ HandlersCarry

LEMMA IdleCarries ==
    /\ IdleHandler.pc = "idle" /\ IdleHandler.todo = <<>> /\ IdleHandler.time = 0
    /\ OncePerSource(<<>>)
  BY DEF IdleHandler, OncePerSource

LEMMA TailOnce ==
    ASSUME NEW s \in Seq(Sample), s # <<>>, OncePerSource(s)
    PROVE  /\ OncePerSource(Tail(s))
           /\ \A i \in DOMAIN Tail(s) : Tail(s)[i].src # Head(s).src
<1>1. \A i \in DOMAIN Tail(s) :
         i \in Nat \ {0} /\ i + 1 \in DOMAIN s /\ Tail(s)[i] = s[i + 1]
  BY HeadAndTail
<1>2. 1 \in DOMAIN s /\ Head(s) = s[1]
  OBVIOUS
<1> QED
  BY <1>1, <1>2 DEF OncePerSource

\* A step of one request leaves the others as they were.
LEMMA CarryByOne ==
    ASSUME Shaped, NEW h \in Handlers, Moves(h), now' >= now,
           OncePerSource(handler'[h].todo),
           handler'[h].pc \in {"fired", "notify"} => handler'[h].todo # <<>>,
           handler'[h].pc = "fired" => handler'[h].fired # {},
           handler'[h].time <= now', now' \in Times
    PROVE  HandlersCarry'
<1> SUFFICES ASSUME NEW g \in Handlers
             PROVE  /\ OncePerSource(handler'[g].todo)
                    /\ handler'[g].pc \in {"fired", "notify"} => handler'[g].todo # <<>>
                    /\ handler'[g].pc = "fired" => handler'[g].fired # {}
                    /\ handler'[g].time <= now'
  BY DEF HandlersCarry, AtPc, OncePerSource
<1>1. CASE g = h
  BY <1>1
<1>2. CASE g # h
  <2>1. handler'[g] = handler[g] /\ handler[g] \in HandlerRecord
    BY <1>2, Typed DEF Moves, Shaped
  <2>2. handler[g].time \in Nat /\ now \in Nat /\ now' \in Nat
    BY <2>1, Typed DEF HandlerRecord, Shaped
  <2> QED
    BY <2>1, <2>2 DEF Shaped, HandlersCarry, AtPc
<1> QED
  BY <1>1, <1>2

\* Every step of a request preserves the shapes.
LEMMA HandlerShaped ==
    ASSUME Shaped, NEW h \in Handlers, HandlerStep(h) \/ CrashHandler(h)
    PROVE  Shaped'
<1>1. /\ handler[h] \in HandlerRecord /\ handler[h].todo \in Seq(Sample)
      /\ handler[h].time \in Nat /\ now \in Nat /\ 0 <= now /\ now \in Times
  BY Typed DEF HandlerRecord, Shaped
<1>2. /\ OncePerSource(handler[h].todo) /\ handler[h].time <= now
      /\ AtPc(h, {"fired", "notify"}) => handler[h].todo # <<>>
  BY DEF Shaped, HandlersCarry
<1>3. CASE StoreSamples(h)
  <2>1. TypeOK'
    BY <1>3, StoreEffect DEF Shaped, TypeOK, Moves, HandlerRecord
  <2>2. HandlersCarry'
    BY <1>1, <1>2, <1>3, StoreEffect, IdleCarries, CarryByOne DEF Keeps, Ends, Shaped
  <2> QED
    BY <2>1, <2>2 DEF Shaped
<1>4. CASE EvaluateRules(h)
  <2>1. TypeOK'
    BY <1>4, EvaluateEffect DEF Shaped, TypeOK, Moves, HandlerRecord
  <2>2. handler[h].todo # <<>> /\ OncePerSource(Tail(handler[h].todo))
    BY <1>1, <1>2, <1>4, EvaluateEffect, TailOnce DEF Shaped
  <2>3. HandlersCarry'
    BY <1>1, <1>2, <2>2, <1>4, EvaluateEffect, CarryByOne DEF Shaped
  <2> QED
    BY <2>1, <2>3 DEF Shaped
<1>5. CASE CommitEvents(h)
  <2>1. handler[h].todo # <<>>
    BY <1>2, <1>5 DEF CommitEvents, AtPc
  <2>2. TypeOK'
    BY <1>5, <2>1, CommitEventsEffect, NewEventsTyped
       DEF Shaped, TypeOK, Moves, HandlerRecord
  <2>3. HandlersCarry'
    BY <1>1, <1>2, <2>1, <1>5, CommitEventsEffect, IdleCarries, CarryByOne
       DEF Keeps, Ends, Shaped
  <2> QED
    BY <2>2, <2>3 DEF Shaped
<1>6. CASE EnqueueEvent(h)
  <2>1. handler[h].todo # <<>>
    BY <1>2, <1>6 DEF EnqueueEvent, AtPc
  <2>2. TypeOK'
    BY <1>6, <2>1, EnqueueEffect DEF Shaped, TypeOK, Moves, HandlerRecord
  <2>3. OncePerSource(Tail(handler[h].todo))
    BY <1>1, <1>2, <2>1, TailOnce
  <2>4. HandlersCarry'
    BY <1>1, <1>2, <2>1, <2>3, <1>6, EnqueueEffect, IdleCarries, CarryByOne
       DEF Keeps, Ends, Shaped
  <2> QED
    BY <2>2, <2>4 DEF Shaped
<1>7. CASE Finish(h) \/ CrashHandler(h)
  <2>1. crashes' \in 0 .. MaxCrashes
    BY <1>7, Typed, ConstantsAssumption DEF Finish, CrashHandler, Shaped
  <2>2. TypeOK'
    BY <1>7, <2>1, EndEffect DEF Shaped, TypeOK, Moves, HandlerRecord
  <2>3. HandlersCarry'
    BY <1>1, <1>7, EndEffect, IdleCarries, CarryByOne DEF Ends, Shaped
  <2> QED
    BY <2>2, <2>3 DEF Shaped
<1> QED
  BY <1>3, <1>4, <1>5, <1>6, <1>7 DEF HandlerStep

\* Auto-resolve.
LEMMA ResolverShaped ==
    ASSUME Shaped, NEW x \in Executions, ResolverStep(x) \/ CrashResolver(x)
    PROVE  Shaped'
<1>1. ASSUME UNCHANGED <<now, handler>> PROVE HandlersCarry'
  BY <1>1 DEF Shaped, HandlersCarry, AtPc
<1>2. ASSUME NEW kind \in Kinds, NEW from, ReadOpen(x, kind, from) PROVE Shaped'
  <2>1. TypeOK'
    BY <1>2, ReadOpenEffect DEF Shaped, TypeOK, Turns, ResolverRecord
  <2> QED
    BY <1>1, <1>2, <2>1, ReadOpenEffect DEF Shaped
<1>3. CASE Examine(x)
  <2>1. TypeOK'
    BY <1>3, ExamineEffect DEF Shaped, TypeOK, Turns, ResolverRecord
  <2> QED
    BY <1>1, <1>3, <2>1, ExamineEffect DEF Shaped
<1>4. CASE CommitResolved(x)
  <2>1. events' \subseteq EventRows
    BY <1>4, CommitResolvedEffect, ClosedByKeeps, Typed DEF Shaped
  <2>2. TypeOK'
    BY <1>4, <2>1, CommitResolvedEffect DEF Shaped, TypeOK, Turns, ResolverRecord
  <2> QED
    BY <1>1, <1>4, <2>2, CommitResolvedEffect DEF Shaped
<1>5. CASE CrashResolver(x)
  <2>1. crashes' \in 0 .. MaxCrashes
    BY <1>5, Typed, ConstantsAssumption DEF CrashResolver, Shaped
  <2>2. TypeOK'
    BY <1>5, <2>1, CrashResolverEffect DEF Shaped, TypeOK, Turns, ResolverRecord
  <2> QED
    BY <1>1, <1>5, <2>2, CrashResolverEffect DEF Shaped
<1> QED
  BY <1>2, <1>3, <1>4, <1>5 DEF ResolverStep, Kinds

LEMMA NextShaped == Shaped /\ [Next]_vars => Shaped'
<1> SUFFICES ASSUME Shaped, [Next]_vars PROVE Shaped'
  OBVIOUS
<1>1. now \in Times /\ \A h \in Handlers : handler[h].time \in Nat
  BY Typed DEF Shaped, HandlerRecord
<1>2. ASSUME UNCHANGED handler, now' \in Times, now' >= now PROVE HandlersCarry'
  BY <1>1, <1>2 DEF Shaped, HandlersCarry, AtPc, Times
<1>3. CASE Tick
  <2>1. TypeOK' /\ now' \in Times /\ now' >= now
    BY <1>1, <1>3, ConstantsAssumption DEF Tick, Shaped, TypeOK, Times
  <2> QED
    BY <1>2, <1>3, <2>1 DEF Tick, Shaped
<1>4. ASSUME NEW r \in Rules, NEW c \in Configs, CreateRule(r, c) \/ UpdateRule(r, c)
      PROVE  Shaped'
  <2>1. /\ phase' \in [Rules -> {"new", "row", "gone"}]
        /\ config' \in [Rules -> Configs]
    BY <1>4, Typed DEF CreateRule, UpdateRule, Shaped
  <2>2. UNCHANGED <<now, server, last, latest, events, raised, owed, enqueued, refused,
                    handler, resolver, crashes>>
    BY <1>4 DEF CreateRule, UpdateRule
  <2>3. TypeOK'
    BY <2>1, <2>2 DEF Shaped, TypeOK
  <2> QED
    BY <1>1, <1>2, <2>2, <2>3 DEF Shaped, Times
<1>5. ASSUME NEW r \in Rules, DeleteRule(r) PROVE Shaped'
  <2>1. TypeOK' /\ now' \in Times /\ now' >= now
    BY <1>1, <1>5, ConstantsAssumption DEF DeleteRule, Shaped, TypeOK, Times
  <2> QED
    BY <1>2, <1>5, <2>1 DEF DeleteRule, Shaped
<1>6. ASSUME NEW h \in Handlers, NEW p \in Payloads, Begin(h, p) PROVE Shaped'
  <2>1. TypeOK'
    BY <1>6, BeginEffect DEF Shaped, TypeOK, Moves, HandlerRecord
  <2>2. now' >= now /\ 0 <= now'
    BY <1>1, <1>6, BeginEffect DEF Shaped, Times
  <2>3. HandlersCarry'
    BY <1>6, <2>2, BeginEffect, CarryByOne DEF Shaped
  <2> QED
    BY <2>1, <2>3 DEF Shaped
<1>7. ASSUME NEW h \in Handlers, HandlerStep(h) \/ CrashHandler(h) PROVE Shaped'
  BY <1>7, HandlerShaped
<1>8. ASSUME NEW x \in Executions, ResolverStep(x) \/ CrashResolver(x) PROVE Shaped'
  BY <1>8, ResolverShaped
<1>9. CASE UNCHANGED vars
  BY <1>9 DEF vars, Shaped, TypeOK, HandlersCarry, AtPc
<1>10. CASE DeleteServer
  <2>1. /\ phase' \in [Rules -> {"new", "row", "gone"}] /\ server' \in {"row", "gone"}
        /\ latest' \in [Sources -> Readings] /\ events' \subseteq EventRows
    BY <1>10, Typed DEF DeleteServer, Shaped, Readings
  <2>2. UNCHANGED <<now, config, last, raised, owed, enqueued, refused, handler, resolver,
                    crashes>>
    BY <1>10 DEF DeleteServer
  <2>3. TypeOK'
    BY <2>1, <2>2 DEF Shaped, TypeOK
  <2> QED
    BY <1>1, <1>2, <2>2, <2>3 DEF Shaped, Times
<1> QED
  BY <1>3, <1>4, <1>5, <1>6, <1>7, <1>8, <1>9, <1>10 DEF Next

LEMMA InitShaped == Init => Shaped
<1> SUFFICES ASSUME Init PROVE Shaped
  OBVIOUS
<1>1. now \in Times /\ crashes \in 0 .. MaxCrashes
  BY ConstantsAssumption DEF Init, Times
<1>2. config \in [Rules -> Configs]
  <2>1. (CHOOSE c \in Configs : TRUE) \in Configs
    BY ConstantsAssumption
  <2> QED
    BY <2>1 DEF Init
<1>3. latest \in [Sources -> Readings]
  BY DEF Init, Readings
<1>4. /\ handler \in [Handlers -> HandlerRecord]
      /\ resolver \in [Executions -> ResolverRecord]
  BY IdleTyped DEF Init
<1>5. TypeOK
  BY <1>1, <1>2, <1>3, <1>4 DEF Init, TypeOK, HandlerRecord, ResolverRecord
<1>6. HandlersCarry
  BY IdleCarries DEF Init, HandlersCarry, AtPc
<1> QED
  BY <1>5, <1>6 DEF Shaped

\* The shapes hold in every reachable state.
LEMMA AlwaysShaped == Spec => []Shaped
  BY InitShaped, NextShaped, PTL DEF Spec

\* Type correctness of the alert model (threshold.py, alert_resolver.py, alerts.py).
THEOREM TypeCorrect == Spec => []TypeOK
<1>1. Shaped => TypeOK
  BY DEF Shaped
<1> QED
  BY <1>1, AlwaysShaped, PTL

----------------------------------------------------------------------------
(* Instants and ids. *)

\* A request begins at an instant of its own, and nothing was recorded before its time.
AtsApart ==
    /\ \A h \in Handlers : Active(h) => handler[h].at <= now
    /\ \A g, h \in Handlers :
          g # h /\ Active(g) /\ Active(h) => handler[g].at # handler[h].at
    /\ \A id \in raised : id.at <= now

\* No event of a sample that a request has still to evaluate is recorded.
Fresh ==
    \A h \in Handlers : Active(h) => \A id \in raised : id.at = handler[h].at =>
        \A i \in DOMAIN handler[h].todo :
            handler[h].todo[i].src = id.src => AtPc(h, {"notify"}) /\ i = 1

\* What a step of one request may do to the instants and to raised.
LEMMA FreshByOne ==
    ASSUME Shaped, AtsApart, Fresh, NEW h \in Handlers, Moves(h), Active(h), now' = now,
           handler'[h].pc # "idle" => handler'[h].at = handler[h].at,
           raised \subseteq raised', raised' \subseteq FiniteIds,
           \A id \in raised' \ raised :
               /\ id.at = handler[h].at /\ handler'[h].pc = "notify"
               /\ \A i \in DOMAIN handler'[h].todo :
                     handler'[h].todo[i].src = id.src => i = 1,
           handler'[h].pc # "idle" =>
               \A i \in DOMAIN handler'[h].todo, id \in raised :
                   id.at = handler[h].at /\ handler'[h].todo[i].src = id.src =>
                       handler'[h].pc = "notify" /\ i = 1
    PROVE  AtsApart' /\ Fresh'
<1>1. \A g \in Handlers \ {h} : handler'[g] = handler[g]
  BY DEF Moves
<1>2. AtsApart'
  BY <1>1 DEF AtsApart, Active, AtPc
<1>3. ASSUME NEW g \in Handlers, handler'[g].pc # "idle", NEW id \in raised',
             id.at = handler'[g].at, NEW i \in DOMAIN handler'[g].todo,
             handler'[g].todo[i].src = id.src
      PROVE  handler'[g].pc = "notify" /\ i = 1
  <2>1. CASE g = h
    <3>1. CASE id \in raised
      BY <1>3, <2>1, <3>1
    <3>2. CASE id \notin raised
      BY <1>3, <2>1, <3>2
    <3> QED
      BY <3>1, <3>2
  <2>2. CASE g # h
    <3>1. handler'[g] = handler[g] /\ Active(g)
      BY <1>1, <1>3, <2>2 DEF Active, AtPc
    <3>2. id \in raised
      BY <1>3, <2>2, <3>1 DEF AtsApart
    <3> QED
      BY <1>3, <3>1, <3>2 DEF Fresh, AtPc
  <2> QED
    BY <2>1, <2>2
<1>4. Fresh'
  BY <1>3 DEF Fresh, Active, AtPc
<1> QED
  BY <1>2, <1>4

\* The ids of a request about to commit are new, and each stands for one event.
LEMMA NewIdsFresh ==
    ASSUME Shaped, Fresh, NEW h \in Handlers, AtPc(h, {"fired"})
    PROVE  /\ NewIds(h) \cap raised = {}
           /\ \A e, f \in NewEvents(h) : IdOf(e) = IdOf(f) => e = f
<1>1. handler[h].todo # <<>> /\ handler[h].todo \in Seq(Sample)
  BY Typed DEF Shaped, HandlersCarry, AtPc, HandlerRecord
<1>2. 1 \in DOMAIN handler[h].todo /\ Head(handler[h].todo) = handler[h].todo[1]
  BY <1>1
<1>3. ASSUME NEW e \in NewEvents(h) PROVE IdOf(e) \notin raised
  <2>1. e.src = handler[h].todo[1].src /\ e.at = handler[h].at
    BY <1>1, <1>2, NewEventsTyped DEF Shaped
  <2>2. IdOf(e).src = e.src /\ IdOf(e).at = e.at
    BY DEF IdOf
  <2> QED
    BY <1>2, <2>1, <2>2 DEF Fresh, Active, AtPc
<1>4. ASSUME NEW e \in NewEvents(h), NEW f \in NewEvents(h), IdOf(e) = IdOf(f)
      PROVE  e = f
  <2>1. e.rule = f.rule
    BY <1>4 DEF IdOf
  <2> QED
    BY <2>1 DEF NewEvents
<1> QED
  BY <1>3, <1>4 DEF NewIds

LEMMA HandlerFresh ==
    ASSUME Shaped, AtsApart, Fresh, NEW h \in Handlers, HandlerStep(h) \/ CrashHandler(h)
    PROVE  AtsApart' /\ Fresh'
<1>1. /\ handler[h] \in HandlerRecord /\ handler[h].todo \in Seq(Sample)
      /\ raised \subseteq FiniteIds /\ OncePerSource(handler[h].todo)
  BY Typed DEF HandlerRecord, Shaped, HandlersCarry
<1>2. ASSUME handler[h].todo # <<>>
      PROVE  \A i \in DOMAIN Tail(handler[h].todo) :
                /\ i + 1 \in DOMAIN handler[h].todo /\ i + 1 # 1
                /\ Tail(handler[h].todo)[i] = handler[h].todo[i + 1]
  BY <1>1, <1>2, HeadAndTail
<1>3. \A id \in raised, i \in DOMAIN handler[h].todo :
         Active(h) /\ id.at = handler[h].at /\ handler[h].todo[i].src = id.src =>
             AtPc(h, {"notify"}) /\ i = 1
  BY DEF Fresh
<1>4. CASE StoreSamples(h)
  <2>1. handler[h].pc = "begun" /\ Moves(h) /\ now' = now /\ raised' = raised
    BY <1>4, StoreEffect DEF Shaped, AtPc
  <2>2. CASE Keeps(h)
    BY <1>1, <1>3, <2>1, <2>2, FreshByOne DEF Keeps, Active, AtPc
  <2>3. CASE Ends(h)
    BY <1>1, <2>1, <2>3, IdleCarries, FreshByOne DEF Ends, Active, AtPc
  <2> QED
    BY <1>4, <2>2, <2>3, StoreEffect DEF Shaped
<1>5. CASE EvaluateRules(h)
  <2>1. /\ handler[h].pc = "stored" /\ Moves(h) /\ handler[h].todo # <<>>
        /\ handler'[h].at = handler[h].at /\ now' = now /\ raised' = raised
    BY <1>5, EvaluateEffect DEF Shaped, AtPc
  <2>2. \A i \in DOMAIN handler'[h].todo, id \in raised :
           ~ (id.at = handler[h].at /\ handler'[h].todo[i].src = id.src)
    <3>1. CASE handler'[h].todo = handler[h].todo
      BY <1>3, <2>1, <3>1 DEF Active, AtPc
    <3>2. CASE handler'[h].todo = Tail(handler[h].todo)
      BY <1>2, <1>3, <2>1, <3>2 DEF Active, AtPc
    <3> QED
      BY <1>5, <3>1, <3>2, EvaluateEffect DEF Shaped
  <2> QED
    BY <1>1, <2>1, <2>2, FreshByOne DEF Active, AtPc
<1>6. CASE CommitEvents(h)
  <2>1. handler[h].todo # <<>>
    BY <1>6 DEF CommitEvents, AtPc, Shaped, HandlersCarry
  <2>2. ASSUME NEW id \in NewIds(h), NEW i \in DOMAIN handler[h].todo,
               handler[h].todo[i].src = id.src
        PROVE  i = 1
    <3>1. id.src = handler[h].todo[1].src /\ 1 \in DOMAIN handler[h].todo
      BY <1>1, <2>1, NewEventsTyped DEF NewIds, IdOf, Shaped
    <3> QED
      BY <1>1, <2>2, <3>1 DEF OncePerSource
  <2>3. \A id \in NewIds(h) : id.at = handler[h].at
    BY <2>1, NewEventsTyped DEF NewIds, IdOf, Shaped
  <2> QED
    BY <1>1, <1>3, <2>1, <2>2, <2>3, <1>6, CommitEventsEffect, NewEventsTyped, IdleCarries,
       FreshByOne DEF Keeps, Ends, Active, AtPc, Shaped
<1>7. CASE EnqueueEvent(h)
  <2>1. handler[h].todo # <<>>
    BY <1>7 DEF EnqueueEvent, AtPc, Shaped, HandlersCarry
  <2>2. handler[h].pc = "notify" /\ Moves(h) /\ now' = now /\ raised' = raised
    BY <1>7, <2>1, EnqueueEffect DEF Shaped, AtPc
  <2>3. CASE Ends(h)
    BY <1>1, <2>2, <2>3, IdleCarries, FreshByOne DEF Ends, Active, AtPc
  <2>4. CASE Keeps(h) /\ handler'[h].pc = "notify"
    BY <1>1, <1>3, <2>2, <2>4, FreshByOne DEF Keeps, Active, AtPc
  <2>5. CASE handler'[h].at = handler[h].at /\ handler'[h].todo = Tail(handler[h].todo)
    <3>1. \A i \in DOMAIN handler'[h].todo, id \in raised :
             ~ (id.at = handler[h].at /\ handler'[h].todo[i].src = id.src)
      BY <1>2, <1>3, <2>1, <2>2, <2>5 DEF Active, AtPc
    <3> QED
      BY <1>1, <2>2, <2>5, <3>1, FreshByOne DEF Active, AtPc
  <2> QED
    BY <1>7, <2>1, <2>3, <2>4, <2>5, EnqueueEffect DEF Shaped
<1>8. CASE Finish(h) \/ CrashHandler(h)
  BY <1>1, <1>8, EndEffect, IdleCarries, FreshByOne
     DEF Ends, Active, AtPc, Shaped, Finish, CrashHandler
<1> QED
  BY <1>4, <1>5, <1>6, <1>7, <1>8 DEF HandlerStep

LEMMA NextFresh == Shaped /\ AtsApart /\ Fresh /\ [Next]_vars => AtsApart' /\ Fresh'
<1> SUFFICES ASSUME Shaped, AtsApart, Fresh, [Next]_vars PROVE AtsApart' /\ Fresh'
  OBVIOUS
<1>1. now \in Nat /\ \A g \in Handlers : handler[g].at \in Nat
  BY Typed DEF Shaped, HandlerRecord
<1>2. \A id \in raised : id.at \in Nat
  BY Typed DEF Shaped, FiniteIds
<1>3. ASSUME UNCHANGED <<handler, raised>>, now' \in Nat, now' >= now
      PROVE  AtsApart' /\ Fresh'
  <2>1. AtsApart'
    <3>1. \A g \in Handlers : Active(g) => handler[g].at <= now'
      BY <1>1, <1>3 DEF AtsApart
    <3>2. \A id \in raised : id.at <= now'
      BY <1>1, <1>2, <1>3 DEF AtsApart
    <3> QED
      BY <1>3, <3>1, <3>2 DEF AtsApart, Active, AtPc
  <2>2. Fresh'
    BY <1>3 DEF Fresh, Active, AtPc
  <2> QED
    BY <2>1, <2>2
<1>4. ASSUME UNCHANGED <<now, handler, raised>> PROVE AtsApart' /\ Fresh'
  BY <1>1, <1>3, <1>4
<1>5. CASE Tick
  BY <1>1, <1>3, <1>5, Typed DEF Tick, Shaped
<1>6. ASSUME NEW r \in Rules, NEW c \in Configs, CreateRule(r, c) \/ UpdateRule(r, c)
      PROVE  AtsApart' /\ Fresh'
  BY <1>4, <1>6 DEF CreateRule, UpdateRule
<1>7. ASSUME NEW h \in Handlers, NEW p \in Payloads, Begin(h, p)
      PROVE  AtsApart' /\ Fresh'
  <2>1. /\ ~Active(h) /\ now' = now + 1 /\ handler'[h].at = now + 1 /\ raised' = raised
        /\ \A g \in Handlers \ {h} : handler'[g] = handler[g]
    BY <1>7, BeginEffect DEF Shaped, Moves
  <2>2. \A g \in Handlers \ {h} : Active(g) => handler'[g].at < now'
    <3> TAKE g \in Handlers \ {h}
    <3>1. Active(g) => handler[g].at <= now
      BY DEF AtsApart
    <3> QED
      BY <1>1, <2>1, <3>1
  <2>3. AtsApart'
    <3>1. \A g \in Handlers : handler'[g].pc # "idle" => handler'[g].at <= now'
      BY <1>1, <2>1, <2>2 DEF Active, AtPc
    <3>2. \A f, g \in Handlers : f # g /\ handler'[f].pc # "idle" /\ handler'[g].pc # "idle"
             => handler'[f].at # handler'[g].at
      BY <1>1, <2>1, <2>2 DEF AtsApart, Active, AtPc
    <3>3. \A id \in raised' : id.at <= now'
      BY <1>1, <1>2, <2>1 DEF AtsApart
    <3> QED
      BY <3>1, <3>2, <3>3 DEF AtsApart, Active, AtPc
  <2>4. ASSUME NEW g \in Handlers, handler'[g].pc # "idle", NEW id \in raised',
               id.at = handler'[g].at
        PROVE  g # h
    BY <1>1, <1>2, <2>1, <2>4 DEF AtsApart
  <2>5. Fresh'
    BY <2>1, <2>4 DEF Fresh, Active, AtPc
  <2> QED
    BY <2>3, <2>5
<1>8. ASSUME NEW h \in Handlers, HandlerStep(h) \/ CrashHandler(h) PROVE AtsApart' /\ Fresh'
  BY <1>8, HandlerFresh
<1>9. ASSUME NEW x \in Executions, ResolverStep(x) \/ CrashResolver(x)
      PROVE  AtsApart' /\ Fresh'
  BY <1>4, <1>9, ReadOpenEffect, ExamineEffect, CommitResolvedEffect, CrashResolverEffect
     DEF ResolverStep, Shaped, Kinds
<1>10. CASE UNCHANGED vars
  BY <1>4, <1>10 DEF vars
<1>11. ASSUME NEW r \in Rules, DeleteRule(r) PROVE AtsApart' /\ Fresh'
  BY <1>4, <1>11 DEF DeleteRule
<1>12. CASE DeleteServer
  BY <1>4, <1>12 DEF DeleteServer
<1> QED
  BY <1>5, <1>6, <1>7, <1>8, <1>9, <1>10, <1>11, <1>12 DEF Next

----------------------------------------------------------------------------
(* The three kinds of steps that write events. *)

Recording(h) ==
    /\ AtPc(h, {"fired"}) /\ handler[h].todo # <<>> /\ Committable(h)
    /\ events' = events \cup NewEvents(h)
    /\ raised' = raised \cup NewIds(h)
    /\ owed' = owed \cup NewNotices(h)
    /\ last' = Stamped(h) /\ handler'[h].pc = "notify" /\ Moves(h)
    /\ UNCHANGED <<now, server, phase, config, latest, enqueued, resolver>>

Closing(x) ==
    /\ events' = {ClosedBy(x, e) : e \in events}
    /\ UNCHANGED <<now, server, phase, config, last, latest, raised, owed, enqueued,
                   handler>>

\* A rule is deleted, or the server with all its rules.
Deleting(rules) ==
    /\ \A r \in rules : phase[r] = "row"
    /\ events' = events \ Orphaned(rules)
    /\ phase' = [r \in Rules |-> IF r \in rules THEN "gone" ELSE phase[r]]
    /\ UNCHANGED <<now, config, last, raised, owed, enqueued, handler, resolver>>

\* The rules deleted so far.
Deleted == {r \in Rules : phase[r] = "gone"}

\* The other steps.
Quiet ==
    /\ UNCHANGED <<events, raised, owed, last>>
    /\ Deleted' = Deleted
    /\ \A r \in Rules : phase[r] = "row" => phase'[r] = "row"

LEMMA EventSteps ==
    ASSUME Shaped, [Next]_vars
    PROVE  \/ Quiet
           \/ \E h \in Handlers : Recording(h)
           \/ \E x \in Executions : Closing(x)
           \/ \E rules \in SUBSET Rules : Deleting(rules)
<1>1. ASSUME UNCHANGED <<events, raised, owed, last, phase>> PROVE Quiet
  BY <1>1 DEF Quiet, Deleted
<1>2. CASE Tick
  BY <1>1, <1>2 DEF Tick
<1>3. ASSUME NEW r \in Rules, NEW c \in Configs, CreateRule(r, c) PROVE Quiet
  <2>1. /\ phase[r] = "new" /\ phase' = [phase EXCEPT ![r] = "row"]
        /\ UNCHANGED <<events, raised, owed, last>>
    BY <1>3 DEF CreateRule
  <2> QED
    BY <2>1, Typed DEF Shaped, Quiet, Deleted
<1>4. ASSUME NEW r \in Rules, NEW c \in Configs, UpdateRule(r, c) PROVE Quiet
  BY <1>1, <1>4 DEF UpdateRule
<1>5. ASSUME NEW r \in Rules, DeleteRule(r)
      PROVE  \E rules \in SUBSET Rules : Deleting(rules)
  <2>1. phase' = [s \in Rules |-> IF s \in {r} THEN "gone" ELSE phase[s]]
    BY <1>5, Typed DEF DeleteRule, Shaped
  <2>2. Deleting({r})
    BY <1>5, <2>1 DEF DeleteRule, Deleting
  <2> QED
    BY <2>2
<1>6. ASSUME DeleteServer PROVE \E rules \in SUBSET Rules : Deleting(rules)
  <2> DEFINE rules == {r \in Rules : phase[r] = "row"}
  <2>1. /\ events' = events \ Orphaned(rules)
        /\ phase' = [r \in Rules |-> IF r \in rules THEN "gone" ELSE phase[r]]
        /\ UNCHANGED <<now, config, last, raised, owed, enqueued, handler, resolver>>
    BY <1>6 DEF DeleteServer
  <2>2. Deleting(rules)
    BY <2>1 DEF Deleting
  <2> QED
    BY <2>2
<1>7. ASSUME NEW h \in Handlers, NEW p \in Payloads, Begin(h, p) PROVE Quiet
  BY <1>1, <1>7, BeginEffect DEF Shaped
<1>8. ASSUME NEW h \in Handlers, StoreSamples(h) PROVE Quiet
  BY <1>1, <1>8, StoreEffect DEF Shaped
<1>9. ASSUME NEW h \in Handlers, EvaluateRules(h) PROVE Quiet
  BY <1>1, <1>9, EvaluateEffect DEF Shaped
<1>10. ASSUME NEW h \in Handlers, CommitEvents(h) PROVE Quiet \/ Recording(h)
  <2>1. handler[h].todo # <<>>
    BY <1>10 DEF CommitEvents, AtPc, Shaped, HandlersCarry
  <2> QED
    BY <1>1, <1>10, <2>1, CommitEventsEffect DEF Shaped, Recording
<1>11. ASSUME NEW h \in Handlers, EnqueueEvent(h) PROVE Quiet
  BY <1>1, <1>11 DEF EnqueueEvent
<1>12. ASSUME NEW h \in Handlers, Finish(h) \/ CrashHandler(h) PROVE Quiet
  BY <1>1, <1>12, EndEffect DEF Shaped
<1>13. ASSUME NEW x \in Executions, ResolverStep(x) \/ CrashResolver(x)
       PROVE  Quiet \/ Closing(x)
  <2>1. ASSUME NEW kind \in Kinds, NEW from, ReadOpen(x, kind, from) PROVE Quiet
    BY <1>1, <2>1, ReadOpenEffect DEF Shaped
  <2>2. CASE Examine(x)
    BY <1>1, <2>2, ExamineEffect DEF Shaped
  <2>3. CASE CommitResolved(x)
    BY <1>1, <2>3, CommitResolvedEffect DEF Shaped, Closing
  <2>4. CASE CrashResolver(x)
    BY <1>1, <2>4, CrashResolverEffect DEF Shaped
  <2> QED
    BY <1>13, <2>1, <2>2, <2>3, <2>4 DEF ResolverStep, Kinds
<1>14. CASE UNCHANGED vars
  BY <1>1, <1>14 DEF vars
<1> QED
  BY <1>2, <1>3, <1>4, <1>5, <1>6, <1>7, <1>8, <1>9, <1>10, <1>11, <1>12, <1>13, <1>14
     DEF Next, HandlerStep

\* What a commit of auto-resolve leaves is the events as they were, but for closed.
LEMMA ClosingKeeps ==
    ASSUME Shaped, NEW x \in Executions, Closing(x), NEW f \in events'
    PROVE  \E e \in events : /\ f = ClosedBy(x, e) /\ IdOf(f) = IdOf(e)
                             /\ f.rule = e.rule /\ f.src = e.src /\ f.at = e.at
                             /\ f.time = e.time
<1>1. PICK e \in events : f = ClosedBy(x, e)
  BY DEF Closing
<1> QED
  BY <1>1, ClosedByKeeps DEF Shaped

----------------------------------------------------------------------------
(* Events have rules. *)

LEMMA NextHaveRules == Shaped /\ EventsHaveRules /\ [Next]_vars => EventsHaveRules'
<1> SUFFICES ASSUME Shaped, EventsHaveRules, [Next]_vars PROVE EventsHaveRules'
  OBVIOUS
<1>1. \A e \in events : e.rule \in Rules
  BY Typed DEF Shaped, EventRows
<1>2. ASSUME Quiet PROVE EventsHaveRules'
  BY <1>1, <1>2 DEF EventsHaveRules, Quiet
<1>3. ASSUME NEW h \in Handlers, Recording(h) PROVE EventsHaveRules'
  <2>1. \A e \in NewEvents(h) : e.rule \in handler[h].fired
    BY <1>3, NewEventsTyped DEF Shaped, Recording
  <2> QED
    BY <1>3, <2>1 DEF EventsHaveRules, Recording, Committable
<1>4. ASSUME NEW x \in Executions, Closing(x) PROVE EventsHaveRules'
  <2>1. \A f \in events' : \E e \in events : f.rule = e.rule
    BY <1>4, ClosingKeeps
  <2> QED
    BY <1>4, <2>1 DEF EventsHaveRules, Closing
<1>5. ASSUME NEW rules \in SUBSET Rules, Deleting(rules) PROVE EventsHaveRules'
  <2>1. \A e \in events' : e \in events /\ e.rule \notin rules
    BY <1>5 DEF Deleting, Orphaned
  <2>2. \A e \in events' : phase'[e.rule] = phase[e.rule]
    BY <1>1, <1>5, <2>1 DEF Deleting
  <2> QED
    BY <2>1, <2>2 DEF EventsHaveRules
<1> QED
  BY <1>2, <1>3, <1>4, <1>5, EventSteps

\* However evaluations, commits and the deletions of rules and of the server interleave,
\* no event is left without its rule (models/alert_event.py).
THEOREM RulesOutliveEvents == Spec => []EventsHaveRules
<1>1. Init => EventsHaveRules
  BY DEF Init, EventsHaveRules
<1> QED
  BY <1>1, NextHaveRules, AlwaysShaped, PTL DEF Spec

----------------------------------------------------------------------------
(* What is recorded. *)

\* Every event was raised, and no two events share an id.
Recorded ==
    /\ \A e \in events : IdOf(e) \in raised
    /\ \A e, f \in events : IdOf(e) = IdOf(f) => e = f

LEMMA NextRecorded == Shaped /\ Fresh /\ Recorded /\ [Next]_vars => Recorded'
<1> SUFFICES ASSUME Shaped, Fresh, Recorded, [Next]_vars PROVE Recorded'
  OBVIOUS
<1>1. ASSUME Quiet PROVE Recorded'
  BY <1>1 DEF Recorded, Quiet
<1>2. ASSUME NEW h \in Handlers, Recording(h) PROVE Recorded'
  <2>1. /\ NewIds(h) \cap raised = {}
        /\ \A e, f \in NewEvents(h) : IdOf(e) = IdOf(f) => e = f
    BY <1>2, NewIdsFresh DEF Recording
  <2>2. \A e \in NewEvents(h) : IdOf(e) \in NewIds(h)
    BY DEF NewIds
  <2>3. events' = events \cup NewEvents(h) /\ raised' = raised \cup NewIds(h)
    BY <1>2 DEF Recording
  <2>4. \A e \in events' : IdOf(e) \in raised'
    BY <2>2, <2>3 DEF Recorded
  <2>5. \A e \in events : IdOf(e) \in raised
    BY DEF Recorded
  <2>6. ASSUME NEW e \in events', NEW f \in events', IdOf(e) = IdOf(f) PROVE e = f
    <3> DEFINE new == NewEvents(h)
    <3>1. e \in events \/ e \in new
      BY <2>3
    <3>2. f \in events \/ f \in new
      BY <2>3
    <3>3. e \in events /\ f \in events => e = f
      BY <2>6 DEF Recorded
    <3>4. e \in new /\ f \in new => e = f
      BY <2>1, <2>6
    <3>5. ~(e \in events /\ f \in new) /\ ~(e \in new /\ f \in events)
      BY <2>1, <2>2, <2>5, <2>6
    <3> HIDE DEF new
    <3> QED
      BY <3>1, <3>2, <3>3, <3>4, <3>5
  <2> QED
    BY <2>4, <2>6 DEF Recorded
<1>3. ASSUME NEW x \in Executions, Closing(x) PROVE Recorded'
  <2>1. \A e \in events' : \E c \in events : e = ClosedBy(x, c) /\ IdOf(e) = IdOf(c)
    BY <1>3, ClosingKeeps
  <2>2. \A e \in events' : IdOf(e) \in raised'
    BY <1>3, <2>1 DEF Recorded, Closing
  <2>3. ASSUME NEW e \in events', NEW f \in events', IdOf(e) = IdOf(f) PROVE e = f
    <3>1. PICK c \in events : e = ClosedBy(x, c) /\ IdOf(e) = IdOf(c)
      BY <2>1
    <3>2. PICK d \in events : f = ClosedBy(x, d) /\ IdOf(f) = IdOf(d)
      BY <2>1
    <3>3. c = d
      BY <2>3, <3>1, <3>2 DEF Recorded
    <3> QED
      BY <3>1, <3>2, <3>3
  <2> QED
    BY <2>2, <2>3 DEF Recorded
<1>4. ASSUME NEW rules \in SUBSET Rules, Deleting(rules) PROVE Recorded'
  BY <1>4 DEF Recorded, Deleting
<1> QED
  BY <1>1, <1>2, <1>3, <1>4, EventSteps

----------------------------------------------------------------------------
(* Samples only get fresher, until the server takes them along. *)

\* The stored series of src reaches the instant at, or went with the server.
StoredUpTo(src, at) ==
    \/ server = "gone" /\ latest[src] = None
    \/ server = "row" /\ latest[src] # None /\ latest[src].at >= at

\* Evaluated samples and the samples that raised events are stored.
SamplesAreStored ==
    /\ \A h \in Handlers : AtPc(h, {"stored", "fired", "notify"}) =>
         \A s \in Range(handler[h].todo) : StoredUpTo(s.src, handler[h].at)
    /\ \A e \in events : StoredUpTo(e.src, e.at)

LEMMA NewestCovers ==
    ASSUME TypeOK, NEW h \in Handlers, NEW src \in Sources,
           NEW top \in Readings, top = Newest(handler[h].at, handler[h].todo)[src]
    PROVE  /\ latest[src] # None => top # None /\ top.at >= latest[src].at
           /\ \A s \in Range(handler[h].todo) :
                 s.src = src => top # None /\ top.at >= handler[h].at
<1> DEFINE at == handler[h].at
           own == {s \in Range(handler[h].todo) : s.src = src}
           val == (CHOOSE s \in own : TRUE).val
<1>1. at \in Nat /\ latest[src] \in Readings /\ handler[h].todo \in Seq(Sample)
  BY Typed DEF HandlerRecord
<1>2. top = IF own = {} \/ (latest[src] # None /\ latest[src].at > at) THEN latest[src]
            ELSE [at |-> at, val |-> val]
  BY DEF Newest
<1>3. latest[src] # None => latest[src].at \in Nat
  BY <1>1 DEF Readings, Times
<1>4. own # {} => val \in Values
  <2>1. own # {} => (CHOOSE s \in own : TRUE) \in own
    OBVIOUS
  <2>2. own \subseteq Sample
    BY <1>1 DEF Range
  <2> QED
    BY <2>1, <2>2 DEF Sample
<1>5. \A s \in Range(handler[h].todo) : s.src = src => own # {}
  OBVIOUS
<1> HIDE DEF own, val
<1>6. own # {} => [at |-> at, val |-> val] # None
  BY <1>1, <1>4, ConstantsAssumption
<1> QED
  BY <1>1, <1>2, <1>3, <1>5, <1>6

\* What was stored stays stored.
LEMMA StoredStays ==
    ASSUME Shaped, [Next]_vars, NEW src \in Sources, NEW at \in Nat, StoredUpTo(src, at)
    PROVE  StoredUpTo(src, at)'
<1>1. ASSUME UNCHANGED <<server, latest>> PROVE StoredUpTo(src, at)'
  BY <1>1 DEF StoredUpTo
<1>2. ASSUME NEW h \in Handlers, StoreSamples(h) PROVE StoredUpTo(src, at)'
  <2>1. CASE latest' = latest
    BY <1>1, <1>2, <2>1, StoreEffect DEF Shaped
  <2>2. CASE server = "row" /\ latest' = Newest(handler[h].at, handler[h].todo)
    <3>1. latest'[src] \in Readings /\ latest[src] \in Readings /\ server' = server
      BY <1>2, Typed, StoreEffect DEF Shaped
    <3>2. latest[src] # None /\ latest[src].at >= at /\ latest[src].at \in Nat
      BY <2>2, <3>1, Typed DEF Shaped, StoredUpTo, Readings
    <3>3. latest'[src] # None /\ latest'[src].at >= latest[src].at
      BY <2>2, <3>1, <3>2, NewestCovers DEF Shaped
    <3>4. latest'[src].at \in Nat
      BY <3>1, <3>3, Typed DEF Readings, Shaped
    <3> QED
      BY <2>2, <3>1, <3>2, <3>3, <3>4 DEF StoredUpTo
  <2> QED
    BY <1>2, <2>1, <2>2, StoreEffect DEF Shaped
<1>3. ASSUME DeleteServer PROVE StoredUpTo(src, at)'
  BY <1>3 DEF DeleteServer, StoredUpTo
<1>4. \A h \in Handlers, p \in Payloads : Begin(h, p) => UNCHANGED <<server, latest>>
  BY DEF Begin
<1>5. \A h \in Handlers : EvaluateRules(h) \/ CommitEvents(h) \/ EnqueueEvent(h)
          \/ Finish(h) \/ CrashHandler(h) => UNCHANGED <<server, latest>>
  BY DEF EvaluateRules, CommitEvents, EnqueueEvent, Finish, CrashHandler
<1>6. \A x \in Executions : ResolverStep(x) \/ CrashResolver(x)
          => UNCHANGED <<server, latest>>
  BY DEF ResolverStep, ReadOpen, Examine, CommitResolved, CrashResolver
<1>7. \A r \in Rules, c \in Configs : CreateRule(r, c) \/ UpdateRule(r, c)
          => UNCHANGED <<server, latest>>
  BY DEF CreateRule, UpdateRule
<1>8. (Tick \/ UNCHANGED vars \/ \E r \in Rules : DeleteRule(r))
          => UNCHANGED <<server, latest>>
  BY DEF Tick, vars, DeleteRule
<1> QED
  BY <1>1, <1>2, <1>3, <1>4, <1>5, <1>6, <1>7, <1>8 DEF Next, HandlerStep

\* Only a request that stores its samples enters the stages after the store.
LEMMA StageSteps ==
    ASSUME Shaped, [Next]_vars, NEW h \in Handlers,
           handler'[h].pc \in {"stored", "fired", "notify"}
    PROVE  /\ handler'[h].at = handler[h].at
           /\ Range(handler'[h].todo) \subseteq Range(handler[h].todo)
           /\ \/ AtPc(h, {"stored", "fired", "notify"})
              \/ /\ server' = "row"
                 /\ latest' = Newest(handler[h].at, handler[h].todo)
<1> DEFINE Goal == /\ handler'[h].at = handler[h].at
                   /\ Range(handler'[h].todo) \subseteq Range(handler[h].todo)
                   /\ \/ AtPc(h, {"stored", "fired", "notify"})
                      \/ /\ server' = "row"
                         /\ latest' = Newest(handler[h].at, handler[h].todo)
<1>1. handler[h].todo \in Seq(Sample)
  BY Typed DEF Shaped, HandlerRecord
<1>2. handler[h].todo # <<>> =>
         Range(Tail(handler[h].todo)) \subseteq Range(handler[h].todo)
  BY <1>1, HeadAndTail
<1>3. ASSUME handler'[h] = handler[h] PROVE Goal
  BY <1>3 DEF AtPc
<1>4. ASSUME NEW g \in Handlers, g # h, Moves(g) PROVE Goal
  BY <1>3, <1>4 DEF Moves
<1>5. ASSUME NEW g \in Handlers, NEW p \in Payloads, Begin(g, p) PROVE Goal
  <2>1. g # h /\ Moves(g)
    BY <1>5, BeginEffect DEF Shaped
  <2> QED
    BY <1>4, <2>1
<1>6. ASSUME NEW g \in Handlers, HandlerStep(g) \/ CrashHandler(g) PROVE Goal
  <2>1. AtPc(g, {"fired", "notify"}) => handler[g].todo # <<>>
    BY DEF Shaped, HandlersCarry
  <2>2. Moves(g)
    BY <1>6, <2>1, StoreEffect, EvaluateEffect, CommitEventsEffect, EnqueueEffect, EndEffect
       DEF HandlerStep, Shaped, CommitEvents, EnqueueEvent, AtPc
  <2>3. CASE g # h
    BY <1>4, <2>2, <2>3
  <2>4. CASE g = h
    <3>1. ~Ends(h)
      BY IdleCarries DEF Ends
    <3>2. CASE StoreSamples(h)
      BY <3>1, <3>2, StoreEffect DEF Shaped, Keeps
    <3>3. CASE EvaluateRules(h)
      BY <1>2, <3>3, EvaluateEffect DEF Shaped, AtPc
    <3>4. CASE CommitEvents(h)
      <4>1. handler[h].todo # <<>>
        BY <3>4, <2>1, <2>4 DEF CommitEvents, AtPc
      <4> QED
        BY <3>1, <3>4, <4>1, CommitEventsEffect DEF Shaped, Keeps, AtPc
    <3>5. CASE EnqueueEvent(h)
      <4>1. handler[h].todo # <<>>
        BY <3>5, <2>1, <2>4 DEF EnqueueEvent, AtPc
      <4> QED
        BY <1>2, <3>1, <3>5, <4>1, EnqueueEffect DEF Shaped, Keeps, AtPc
    <3>6. CASE Finish(h) \/ CrashHandler(h)
      BY <3>1, <3>6, EndEffect DEF Shaped
    <3> QED
      BY <1>6, <2>4, <3>2, <3>3, <3>4, <3>5, <3>6 DEF HandlerStep
  <2> QED
    BY <2>3, <2>4
<1>7. handler' = handler => Goal
  BY <1>3
<1> HIDE DEF Goal
<1>8. (Tick \/ UNCHANGED vars) => handler' = handler
  BY DEF Tick, vars
<1>9. \A r \in Rules, c \in Configs :
         CreateRule(r, c) \/ UpdateRule(r, c) => handler' = handler
  BY DEF CreateRule, UpdateRule
<1>10. \A r \in Rules : DeleteRule(r) => handler' = handler
  BY DEF DeleteRule
<1>11. \A x \in Executions : ResolverStep(x) \/ CrashResolver(x) => handler' = handler
  BY DEF ResolverStep, ReadOpen, Examine, CommitResolved, CrashResolver
<1>12. \A g \in Handlers, p \in Payloads : Begin(g, p) => Goal
  BY <1>5
<1>13. \A g \in Handlers : HandlerStep(g) \/ CrashHandler(g) => Goal
  BY <1>6
<1>14. DeleteServer => handler' = handler
  BY DEF DeleteServer
<1>15. Goal
  BY <1>7, <1>8, <1>9, <1>10, <1>11, <1>12, <1>13, <1>14 DEF Next
<1> QED
  BY <1>15 DEF Goal

LEMMA NextStored == Shaped /\ SamplesAreStored /\ [Next]_vars => SamplesAreStored'
<1> SUFFICES ASSUME Shaped, SamplesAreStored, [Next]_vars PROVE SamplesAreStored'
  OBVIOUS
<1>1. \A e \in events : e.src \in Sources /\ e.at \in Nat
  BY Typed DEF Shaped, EventRows
<1>2. \A h \in Handlers : /\ handler[h].at \in Nat /\ handler[h].todo \in Seq(Sample)
                          /\ \A s \in Range(handler[h].todo) : s.src \in Sources
  <2> TAKE h \in Handlers
  <2>1. handler[h].at \in Nat /\ handler[h].todo \in Seq(Sample)
    BY Typed DEF Shaped, HandlerRecord
  <2>2. Range(handler[h].todo) \subseteq Sample
    BY <2>1 DEF Range
  <2> QED
    BY <2>1, <2>2 DEF Sample
<1>3. ASSUME NEW h \in Handlers, handler'[h].pc \in {"stored", "fired", "notify"},
             NEW s \in Range(handler'[h].todo)
      PROVE  StoredUpTo(s.src, handler[h].at)' /\ handler'[h].at = handler[h].at
  <2>1. handler'[h].at = handler[h].at /\ s \in Range(handler[h].todo)
    BY <1>3, StageSteps
  <2>2. CASE AtPc(h, {"stored", "fired", "notify"})
    <3>1. StoredUpTo(s.src, handler[h].at)
      BY <2>1, <2>2 DEF SamplesAreStored
    <3>2. StoredUpTo(s.src, handler[h].at)'
      BY <1>2, <2>1, <3>1, StoredStays
    <3> QED
      BY <2>1, <3>2
  <2>3. CASE server' = "row" /\ latest' = Newest(handler[h].at, handler[h].todo)
    <3>1. latest'[s.src] \in Readings
      BY <1>2, <2>1, <2>3, NewestTyped, Typed DEF Shaped, HandlerRecord
    <3> QED
      BY <1>2, <2>1, <2>3, <3>1, NewestCovers DEF Shaped, StoredUpTo
  <2> QED
    BY <1>3, <2>2, <2>3, StageSteps
<1>4. \A e \in events : StoredUpTo(e.src, e.at)'
  BY <1>1, StoredStays DEF SamplesAreStored
<1>5. \A e \in events' : StoredUpTo(e.src, e.at)'
  <2>1. ASSUME NEW h \in Handlers, Recording(h), NEW e \in NewEvents(h)
        PROVE  StoredUpTo(e.src, e.at)'
    <3>1. /\ e.src = Head(handler[h].todo).src /\ e.at = handler[h].at
          /\ Head(handler[h].todo) \in Range(handler[h].todo)
      BY <1>2, <2>1, NewEventsTyped, HeadAndTail DEF Shaped, Recording
    <3>2. StoredUpTo(e.src, e.at)
      BY <2>1, <3>1 DEF SamplesAreStored, Recording, AtPc
    <3> QED
      BY <1>2, <3>1, <3>2, StoredStays
  <2>2. ASSUME NEW x \in Executions, Closing(x), NEW f \in events'
        PROVE  StoredUpTo(f.src, f.at)'
    <3>1. PICK e \in events : f.src = e.src /\ f.at = e.at
      BY <2>2, ClosingKeeps
    <3> QED
      BY <1>4, <3>1
  <2>3. ASSUME Quiet, NEW e \in events' PROVE StoredUpTo(e.src, e.at)'
    BY <1>4, <2>3 DEF Quiet
  <2>4. ASSUME NEW rules \in SUBSET Rules, Deleting(rules), NEW e \in events'
        PROVE  StoredUpTo(e.src, e.at)'
    BY <1>4, <2>4 DEF Deleting
  <2>5. ASSUME NEW h \in Handlers, Recording(h), NEW e \in events'
        PROVE  StoredUpTo(e.src, e.at)'
    BY <1>4, <2>1, <2>5 DEF Recording
  <2> QED
    BY <2>2, <2>3, <2>4, <2>5, EventSteps
<1> QED
  BY <1>3, <1>5 DEF SamplesAreStored, AtPc, StoredUpTo

----------------------------------------------------------------------------
(* What auto-resolve rests on. *)

\* What a pass compares an event with is no older than the sample that raised it; it
\* finds none at all once the server is gone.
FreshFor(x) ==
    /\ \A row \in resolver[x].rows :
        /\ StoredUpTo(row.id.src, row.id.at)
        /\ row.id.src \in DOMAIN resolver[x].cache =>
            \/ resolver[x].cache[row.id.src] = None
            \/ resolver[x].cache[row.id.src].at >= row.id.at
    /\ \A d \in resolver[x].done : d.by.src = d.id.src => d.by.at >= d.id.at

ReadingsFresh == \A x \in Executions : FreshFor(x)

\* The reads and the commit of one execution.
LEMMA ResolverSteps ==
    ASSUME Shaped, [Next]_vars, NEW x \in Executions
    PROVE  \/ resolver'[x] = resolver[x]
           \/ Rests(x)
           \/ \E kind \in Kinds : /\ resolver'[x].rows = OpenRows(kind)
                                  /\ resolver'[x].done = {}
                                  /\ DOMAIN resolver'[x].cache = {}
                                  /\ UNCHANGED <<server, events, latest>>
           \/ \E row \in resolver[x].rows, src \in Sources, sample \in Readings :
                 Examined(x, row, src, sample) /\ UNCHANGED <<server, events, latest>>
<1>1. ASSUME NEW kind \in Kinds, NEW from, ReadOpen(x, kind, from)
      PROVE  /\ resolver'[x].rows = OpenRows(kind) /\ resolver'[x].done = {}
             /\ DOMAIN resolver'[x].cache = {} /\ UNCHANGED <<server, events, latest>>
  BY <1>1, ReadOpenEffect DEF Shaped
<1>2. ASSUME Examine(x)
      PROVE  \E row \in resolver[x].rows, src \in Sources, sample \in Readings :
                 Examined(x, row, src, sample) /\ UNCHANGED <<server, events, latest>>
  BY <1>2, ExamineEffect DEF Shaped
<1>3. ASSUME CommitResolved(x) \/ CrashResolver(x) PROVE Rests(x)
  BY <1>3, CommitResolvedEffect, CrashResolverEffect DEF Shaped
<1>4. ASSUME NEW y \in Executions, y # x, ResolverStep(y) \/ CrashResolver(y)
      PROVE  resolver'[x] = resolver[x]
  <2>1. Turns(y)
    BY <1>4, ReadOpenEffect, ExamineEffect, CommitResolvedEffect, CrashResolverEffect
       DEF ResolverStep, Shaped, Kinds
  <2> QED
    BY <1>4, <2>1 DEF Turns
<1>5. ASSUME NEW r \in Rules, NEW c \in Configs, CreateRule(r, c) \/ UpdateRule(r, c)
      PROVE  resolver' = resolver
  BY <1>5 DEF CreateRule, UpdateRule
<1>6. ASSUME NEW r \in Rules, DeleteRule(r) PROVE resolver' = resolver
  BY <1>6 DEF DeleteRule
<1>7. ASSUME NEW h \in Handlers, NEW p \in Payloads, Begin(h, p)
      PROVE  resolver' = resolver
  BY <1>7 DEF Begin
<1>8. ASSUME NEW h \in Handlers, HandlerStep(h) \/ CrashHandler(h)
      PROVE  resolver' = resolver
  BY <1>8 DEF HandlerStep, StoreSamples, EvaluateRules, CommitEvents, EnqueueEvent,
              Finish, CrashHandler
<1>9. ASSUME Tick \/ DeleteServer \/ UNCHANGED vars PROVE resolver' = resolver
  BY <1>9 DEF Tick, DeleteServer, vars
<1>10. ASSUME ResolverStep(x) \/ CrashResolver(x)
       PROVE  \/ Rests(x)
              \/ \E kind \in Kinds, from \in {"idle", "between"} : ReadOpen(x, kind, from)
              \/ Examine(x)
  BY <1>3, <1>10 DEF ResolverStep, Kinds
<1>11. ASSUME NEW y \in Executions, ResolverStep(y) \/ CrashResolver(y)
       PROVE  \/ resolver'[x] = resolver[x]
              \/ ResolverStep(x) \/ CrashResolver(x)
  BY <1>4, <1>11
<1>12. resolver' = resolver \/ \E y \in Executions : ResolverStep(y) \/ CrashResolver(y)
  BY <1>5, <1>6, <1>7, <1>8, <1>9 DEF Next
<1> QED
  BY <1>1, <1>2, <1>10, <1>11, <1>12

LEMMA ExamineFresh ==
    ASSUME NEW x \in Executions, FreshFor(x), NEW row \in resolver[x].rows, NEW src,
           NEW sample, Examined(x, row, src, sample), UNCHANGED <<server, latest>>
    PROVE  FreshFor(x)'
<1> DEFINE own == resolver[x]
           next == resolver'[x]
           mark == [id |-> row.id, by |-> [src |-> src, at |-> sample.at]]
<1>1. /\ next.rows \subseteq own.rows
      /\ sample = IF src \in DOMAIN own.cache THEN own.cache[src] ELSE latest[src]
      /\ DOMAIN next.cache = DOMAIN own.cache \cup {src}
      /\ \A y \in DOMAIN next.cache :
            next.cache[y] = IF y = src THEN sample ELSE own.cache[y]
      /\ \/ next.done = own.done
         \/ sample # None /\ next.done = own.done \cup {mark}
  BY DEF Examined
<1>2. mark.id = row.id /\ mark.by.src = src /\ mark.by.at = sample.at
  OBVIOUS
<1> HIDE DEF mark
<1>3. \A r \in own.rows : r.id.src = src => sample = None \/ sample.at >= r.id.at
  BY <1>1 DEF FreshFor, StoredUpTo
<1>4. ASSUME NEW r \in next.rows
      PROVE  /\ StoredUpTo(r.id.src, r.id.at)'
             /\ r.id.src \in DOMAIN next.cache =>
                 next.cache[r.id.src] = None \/ next.cache[r.id.src].at >= r.id.at
  <2>1. r \in own.rows
    BY <1>1
  <2>2. StoredUpTo(r.id.src, r.id.at)'
    BY <2>1 DEF FreshFor, StoredUpTo
  <2>3. CASE r.id.src = src
    BY <1>1, <1>3, <2>1, <2>2, <2>3
  <2>4. CASE r.id.src # src
    BY <1>1, <2>1, <2>2, <2>4 DEF FreshFor
  <2> QED
    BY <2>3, <2>4
<1>5. \A d \in next.done : d.by.src = d.id.src => d.by.at >= d.id.at
  BY <1>1, <1>2, <1>3 DEF FreshFor
<1> QED
  BY <1>4, <1>5 DEF FreshFor, StoredUpTo

LEMMA NextReadings ==
    Shaped /\ SamplesAreStored /\ ReadingsFresh /\ [Next]_vars => ReadingsFresh'
<1> SUFFICES ASSUME Shaped, SamplesAreStored, ReadingsFresh, [Next]_vars,
                    NEW x \in Executions
             PROVE  FreshFor(x)'
  BY DEF ReadingsFresh
<1>1. FreshFor(x)
  BY DEF ReadingsFresh
<1>2. CASE resolver'[x] = resolver[x]
  <2>1. ASSUME NEW row \in resolver[x].rows PROVE StoredUpTo(row.id.src, row.id.at)'
    <3>1. row.id.src \in Sources /\ row.id.at \in Nat
      BY ResolverFields, Typed DEF Shaped, FiniteIds
    <3>2. StoredUpTo(row.id.src, row.id.at)
      BY <1>1 DEF FreshFor
    <3> QED
      BY <3>1, <3>2, StoredStays
  <2> QED
    BY <1>1, <1>2, <2>1 DEF FreshFor, StoredUpTo
<1>3. CASE Rests(x)
  BY <1>3 DEF Rests, FreshFor
<1>4. ASSUME NEW kind \in Kinds, resolver'[x].rows = OpenRows(kind),
             resolver'[x].done = {}, DOMAIN resolver'[x].cache = {},
             UNCHANGED <<server, events, latest>>
      PROVE  FreshFor(x)'
  <2>1. \A row \in OpenRows(kind) : \E e \in events :
           row.id.src = e.src /\ row.id.at = e.at
    BY DEF OpenRows, IdOf
  <2>2. \A row \in OpenRows(kind) : StoredUpTo(row.id.src, row.id.at)
    BY <2>1 DEF SamplesAreStored
  <2> QED
    BY <1>4, <2>2 DEF FreshFor, StoredUpTo
<1>5. ASSUME NEW row \in resolver[x].rows, NEW src \in Sources, NEW sample \in Readings,
             Examined(x, row, src, sample), UNCHANGED <<server, events, latest>>
      PROVE  FreshFor(x)'
  BY <1>1, <1>5, ExamineFresh
<1> QED
  BY <1>2, <1>3, <1>4, <1>5, ResolverSteps

LEMMA NextClosed ==
    Shaped /\ ReadingsFresh /\ ClosedOnFresherSample /\ [Next]_vars
        => ClosedOnFresherSample'
<1> SUFFICES ASSUME Shaped, ReadingsFresh, ClosedOnFresherSample, [Next]_vars
             PROVE  ClosedOnFresherSample'
  OBVIOUS
<1>1. ASSUME NEW h \in Handlers, Recording(h) PROVE ClosedOnFresherSample'
  <2>1. \A e \in NewEvents(h) : e.closed = None
    BY <1>1, NewEventsTyped DEF Shaped, Recording
  <2> QED
    BY <1>1, <2>1 DEF ClosedOnFresherSample, Recording
<1>2. ASSUME NEW x \in Executions, Closing(x), NEW f \in events', f.closed # None,
             f.closed.src = f.src
      PROVE  f.closed.at >= f.at
  <2>1. PICK e \in events : f = ClosedBy(x, e)
    BY <1>2 DEF Closing
  <2>2. /\ f.src = e.src /\ f.at = e.at
        /\ \/ f = e
           \/ \E d \in resolver[x].done : d.id = IdOf(e) /\ f.closed = d.by
    BY <2>1, ClosedByKeeps DEF Shaped
  <2>3. ASSUME NEW d \in resolver[x].done, d.id = IdOf(e), f.closed = d.by
        PROVE  f.closed.at >= f.at
    <3>1. d.id.src = f.src /\ d.id.at = f.at
      BY <2>2, <2>3 DEF IdOf
    <3> QED
      BY <1>2, <2>3, <3>1 DEF ReadingsFresh, FreshFor
  <2>4. CASE f = e
    BY <1>2, <2>4 DEF ClosedOnFresherSample
  <2> QED
    BY <2>2, <2>3, <2>4
<1>3. ASSUME events' \subseteq events PROVE ClosedOnFresherSample'
  BY <1>3 DEF ClosedOnFresherSample
<1>4. \A x \in Executions : Closing(x) => ClosedOnFresherSample'
  BY <1>2 DEF ClosedOnFresherSample
<1> QED
  BY <1>1, <1>3, <1>4, EventSteps DEF Deleting, Quiet

----------------------------------------------------------------------------
(* The notices of an event are owed before any of them is sent. *)

MadeOwed ==
    \A h \in Handlers : AtPc(h, {"notify"}) =>
        \A id \in handler[h].made : Notices(id, Via(h, id)) \subseteq owed

\* A request that notifies has just committed, or has fewer events left to announce.
LEMMA NotifySteps ==
    ASSUME Shaped, [Next]_vars, NEW h \in Handlers, handler'[h].pc = "notify"
    PROVE  /\ handler'[h].via = handler[h].via
           /\ \/ AtPc(h, {"notify"}) /\ handler'[h].made \subseteq handler[h].made
              \/ Recording(h) /\ handler'[h].made = NewIds(h)
<1> DEFINE Goal == /\ handler'[h].via = handler[h].via
                   /\ \/ AtPc(h, {"notify"}) /\ handler'[h].made \subseteq handler[h].made
                      \/ Recording(h) /\ handler'[h].made = NewIds(h)
<1>1. ASSUME handler'[h] = handler[h] PROVE Goal
  BY <1>1 DEF AtPc
<1>2. ASSUME NEW g \in Handlers, g # h, Moves(g) PROVE Goal
  BY <1>1, <1>2 DEF Moves
<1>3. ASSUME NEW g \in Handlers, NEW p \in Payloads, Begin(g, p) PROVE Goal
  <2>1. handler'[g].pc = "begun" /\ Moves(g)
    BY <1>3, BeginEffect DEF Shaped
  <2> QED
    BY <1>2, <2>1
<1>4. ASSUME NEW g \in Handlers, HandlerStep(g) \/ CrashHandler(g) PROVE Goal
  <2>1. AtPc(g, {"fired", "notify"}) => handler[g].todo # <<>>
    BY DEF Shaped, HandlersCarry
  <2>2. Moves(g)
    BY <1>4, <2>1, StoreEffect, EvaluateEffect, CommitEventsEffect, EnqueueEffect, EndEffect
       DEF HandlerStep, Shaped, CommitEvents, EnqueueEvent, AtPc
  <2>3. CASE g # h
    BY <1>2, <2>2, <2>3
  <2>4. CASE g = h
    <3>1. ~Ends(h)
      BY IdleCarries DEF Ends
    <3>2. ~StoreSamples(h) /\ ~EvaluateRules(h) /\ ~Finish(h) /\ ~CrashHandler(h)
      BY <3>1, StoreEffect, EvaluateEffect, EndEffect DEF Shaped
    <3>3. CASE CommitEvents(h)
      <4>1. handler[h].todo # <<>>
        BY <2>1, <2>4, <3>3 DEF CommitEvents, AtPc
      <4> QED
        BY <3>1, <3>3, <4>1, CommitEventsEffect DEF Shaped, Recording
    <3>4. CASE EnqueueEvent(h)
      <4>1. handler[h].todo # <<>>
        BY <2>1, <2>4, <3>4 DEF EnqueueEvent, AtPc
      <4> QED
        BY <3>1, <3>4, <4>1, EnqueueEffect DEF Shaped
    <3> QED
      BY <1>4, <2>4, <3>2, <3>3, <3>4 DEF HandlerStep
  <2> QED
    BY <2>3, <2>4
<1>5. handler' = handler => Goal
  BY <1>1
<1> HIDE DEF Goal
<1>6. (Tick \/ DeleteServer \/ UNCHANGED vars) => handler' = handler
  BY DEF Tick, DeleteServer, vars
<1>7. \A r \in Rules, c \in Configs :
         CreateRule(r, c) \/ UpdateRule(r, c) => handler' = handler
  BY DEF CreateRule, UpdateRule
<1>8. \A r \in Rules : DeleteRule(r) => handler' = handler
  BY DEF DeleteRule
<1>9. \A x \in Executions : ResolverStep(x) \/ CrashResolver(x) => handler' = handler
  BY DEF ResolverStep, ReadOpen, Examine, CommitResolved, CrashResolver
<1>10. \A g \in Handlers, p \in Payloads : Begin(g, p) => Goal
  BY <1>3
<1>11. \A g \in Handlers : HandlerStep(g) \/ CrashHandler(g) => Goal
  BY <1>4
<1>12. Goal
  BY <1>5, <1>6, <1>7, <1>8, <1>9, <1>10, <1>11 DEF Next
<1> QED
  BY <1>12 DEF Goal

LEMMA NextOwed == Shaped /\ MadeOwed /\ [Next]_vars => MadeOwed'
<1> SUFFICES ASSUME Shaped, MadeOwed, [Next]_vars, NEW h \in Handlers,
                    handler'[h].pc = "notify", NEW id \in handler'[h].made
             PROVE  Notices(id, handler'[h].via[id.rule]) \subseteq owed'
  BY DEF MadeOwed, AtPc, Via, Notices
<1>1. owed \subseteq owed'
  BY EventSteps DEF Quiet, Recording, Closing, Deleting
<1>2. handler'[h].via[id.rule] = Via(h, id)
  BY NotifySteps DEF Via
<1>3. CASE AtPc(h, {"notify"}) /\ handler'[h].made \subseteq handler[h].made
  BY <1>1, <1>2, <1>3 DEF MadeOwed
<1>4. CASE Recording(h) /\ handler'[h].made = NewIds(h)
  <2>1. Notices(id, Via(h, id)) \subseteq NewNotices(h)
    BY <1>4, NewNoticesTyped DEF Shaped, Recording
  <2> QED
    BY <1>2, <1>4, <2>1 DEF Recording
<1> QED
  BY <1>3, <1>4, NotifySteps

----------------------------------------------------------------------------
(* The inductive invariant. *)

IInv ==
    /\ Shaped /\ AtsApart /\ Fresh /\ Recorded
    /\ SamplesAreStored /\ ReadingsFresh /\ MadeOwed

LEMMA InitIInv == Init => IInv
<1> SUFFICES ASSUME Init PROVE IInv
  OBVIOUS
<1>1. /\ \A x \in Executions : resolver[x].rows = {} /\ resolver[x].done = {}
      /\ events = {} /\ raised = {}
      /\ \A h \in Handlers : handler[h].pc = "idle"
  BY IdleCarries DEF Init, IdleResolver
<1>2. AtsApart /\ Fresh /\ Recorded /\ SamplesAreStored
  BY <1>1 DEF AtsApart, Fresh, Recorded, SamplesAreStored, Active, AtPc
<1>3. ReadingsFresh
  BY <1>1 DEF ReadingsFresh, FreshFor
<1>4. MadeOwed
  BY <1>1 DEF MadeOwed, AtPc
<1> QED
  BY <1>2, <1>3, <1>4, InitShaped DEF IInv

LEMMA AlwaysIInv == Spec => []IInv
<1>1. IInv /\ [Next]_vars => IInv'
  BY NextShaped, NextFresh, NextRecorded, NextStored, NextReadings, NextOwed DEF IInv
<1> QED
  BY <1>1, InitIInv, PTL DEF Spec

\* alert_resolver.py:40-66: no event is ever closed on a sample of its own series older
\* than the one that raised it, although executions overlap and each may rewrite
\* what the other wrote.
THEOREM NeverClosedOnOlderSample == Spec => []ClosedOnFresherSample
<1>1. Init => ClosedOnFresherSample
  BY DEF Init, ClosedOnFresherSample
<1>2. IInv /\ ClosedOnFresherSample /\ [Next]_vars => ClosedOnFresherSample'
  BY NextClosed DEF IInv
<1> QED
  BY <1>1, <1>2, AlwaysIInv, PTL DEF Spec

----------------------------------------------------------------------------
(* The cooldown, when requests do not overlap. *)

\* The stamp of a rule is its youngest event, and a rule fires only a cooldown later.
Stamps ==
    /\ \A e \in events : last[e.rule] # None /\ e.time <= last[e.rule]
    /\ \A h \in Handlers : AtPc(h, {"fired"}) =>
         \A r \in handler[h].fired : last[r] = None \/ handler[h].time - last[r] >= Cooldown

\* A request that has fired was there, or has just read the stamps.
LEMMA FiringSteps ==
    ASSUME Shaped, [Next]_vars, NEW h \in Handlers, handler'[h].pc = "fired"
    PROVE  \/ handler'[h] = handler[h]
           \/ /\ last' = last
              /\ \A r \in handler'[h].fired :
                    last[r] = None \/ handler'[h].time - last[r] >= Cooldown
<1> DEFINE Read == /\ last' = last
                   /\ \A r \in handler'[h].fired :
                         last[r] = None \/ handler'[h].time - last[r] >= Cooldown
           Goal == handler'[h] = handler[h] \/ Read
<1>1. \A g \in Handlers : g # h /\ Moves(g) => Goal
  BY DEF Moves
<1>2. ASSUME NEW g \in Handlers, NEW p \in Payloads, Begin(g, p) PROVE Goal
  <2>1. handler'[g].pc = "begun" /\ Moves(g)
    BY <1>2, BeginEffect DEF Shaped
  <2> QED
    BY <1>1, <2>1
<1>3. ASSUME NEW g \in Handlers, HandlerStep(g) \/ CrashHandler(g) PROVE Goal
  <2>1. AtPc(g, {"fired", "notify"}) => handler[g].todo # <<>>
    BY DEF Shaped, HandlersCarry
  <2>2. Moves(g)
    BY <1>3, <2>1, StoreEffect, EvaluateEffect, CommitEventsEffect, EnqueueEffect, EndEffect
       DEF HandlerStep, Shaped, CommitEvents, EnqueueEvent, AtPc
  <2>3. ~(g = h /\ Ends(h))
    BY IdleCarries DEF Ends
  <2>4. StoreSamples(g) \/ Finish(g) \/ CrashHandler(g) => g # h
    BY <2>3, StoreEffect, EndEffect DEF Shaped
  <2>5. EnqueueEvent(g) \/ CommitEvents(g) => g # h
    BY <2>1, <2>3, CommitEventsEffect, EnqueueEffect
       DEF Shaped, CommitEvents, EnqueueEvent, AtPc
  <2>6. EvaluateRules(g) /\ g = h => Goal
    <3> SUFFICES ASSUME EvaluateRules(h) PROVE Read
      OBVIOUS
    <3>1. /\ handler'[h].fired = Fired(Head(handler[h].todo), now)
          /\ handler'[h].time = now /\ last' = last
      BY EvaluateEffect DEF Shaped
    <3>2. \A r \in handler'[h].fired : ~Cooling(r, now)
      BY <3>1 DEF Fired
    <3>3. ASSUME NEW r \in handler'[h].fired
          PROVE  last[r] = None \/ now - last[r] >= Cooldown
      <4>1. r \in Rules
        BY <3>1 DEF Fired
      <4>2. last[r] = None \/ last[r] \in Nat
        BY <4>1, Typed DEF Shaped
      <4>3. now \in Nat /\ Cooldown \in Nat
        BY Typed, ConstantsAssumption DEF Shaped
      <4> QED
        BY <3>2, <4>2, <4>3 DEF Cooling
    <3> QED
      BY <3>1, <3>3
  <2> QED
    BY <1>1, <1>3, <2>2, <2>4, <2>5, <2>6 DEF HandlerStep
<1>4. handler' = handler => Goal
  OBVIOUS
<1> HIDE DEF Goal
<1>5. (Tick \/ UNCHANGED vars) => handler' = handler
  BY DEF Tick, vars
<1>6. \A r \in Rules, c \in Configs :
         CreateRule(r, c) \/ UpdateRule(r, c) => handler' = handler
  BY DEF CreateRule, UpdateRule
<1>7. \A r \in Rules : DeleteRule(r) => handler' = handler
  BY DEF DeleteRule
<1>8. \A x \in Executions : ResolverStep(x) \/ CrashResolver(x) => handler' = handler
  BY DEF ResolverStep, ReadOpen, Examine, CommitResolved, CrashResolver
<1>9. \A g \in Handlers, p \in Payloads : Begin(g, p) => Goal
  BY <1>2
<1>10. \A g \in Handlers : HandlerStep(g) \/ CrashHandler(g) => Goal
  BY <1>3
<1>11. DeleteServer => handler' = handler
  BY DEF DeleteServer
<1>12. Goal
  BY <1>4, <1>5, <1>6, <1>7, <1>8, <1>9, <1>10, <1>11 DEF Next
<1> QED
  BY <1>12 DEF Goal

LEMMA NextStamps ==
    ASSUME IInv, Stamps, CooldownHolds, [Next]_vars, \A g, h \in Handlers : g = h
    PROVE  Stamps' /\ CooldownHolds'
<1>1. /\ Shaped /\ Recorded' /\ Cooldown \in Nat
      /\ \A e \in events : e.rule \in Rules /\ e.time \in Nat
      /\ \A r \in Rules : last[r] = None \/ last[r] \in Nat
      /\ \A h \in Handlers : handler[h].time \in Nat /\ handler[h].fired \subseteq Rules
  BY NextRecorded, Typed, ConstantsAssumption DEF IInv, Shaped, EventRows, HandlerRecord
\* What fired keeps its distance to the stamps.
<1>2. ASSUME NEW h \in Handlers, handler'[h].pc = "fired", NEW r \in handler'[h].fired
      PROVE  last'[r] = None \/ handler'[h].time - last'[r] >= Cooldown
  <2>1. CASE handler'[h] = handler[h]
    <3>1. last[r] = None \/ handler[h].time - last[r] >= Cooldown
      BY <1>2, <2>1 DEF Stamps, AtPc
    <3>2. ~\E g \in Handlers : Recording(g)
      BY <1>2 DEF Recording
    <3>3. last' = last
      BY <1>1, <3>2, EventSteps DEF Closing, Deleting, Quiet
    <3> QED
      BY <2>1, <3>1, <3>3
  <2>2. CASE last' = last /\ \A x \in handler'[h].fired :
                 last[x] = None \/ handler'[h].time - last[x] >= Cooldown
    BY <1>2, <2>2
  <2> QED
    BY <1>1, <1>2, <2>1, <2>2, FiringSteps
<1> DEFINE EventStamps == \A e \in events : last[e.rule] # None /\ e.time <= last[e.rule]
<1>3. EventStamps' /\ CooldownHolds' => Stamps' /\ CooldownHolds'
  BY <1>2 DEF Stamps, AtPc
\* An event row that was there, or was closed, or is new.
<1>4. ASSUME NEW h \in Handlers, Recording(h) PROVE EventStamps' /\ CooldownHolds'
  <2>1. /\ \A e \in NewEvents(h) : e.rule \in handler[h].fired /\ e.time = handler[h].time
        /\ \A e, f \in NewEvents(h) : e.rule = f.rule => e = f
    BY <1>1, <1>4, NewEventsTyped DEF Recording, NewEvents
  <2>2. /\ events' = events \cup NewEvents(h)
        /\ \A r \in Rules :
              last'[r] = IF r \in handler[h].fired THEN handler[h].time ELSE last[r]
    BY <1>4 DEF Recording, Stamped
  <2>3. \A r \in handler[h].fired : last[r] = None \/ handler[h].time - last[r] >= Cooldown
    BY <1>4 DEF Recording, Stamps
  <2>4. ASSUME NEW e \in events, e.rule \in handler[h].fired
        PROVE  handler[h].time - e.time >= Cooldown /\ handler[h].time \in Nat
    <3>1. last[e.rule] # None /\ e.time <= last[e.rule] /\ e.rule \in Rules /\ e.time \in Nat
      BY <1>1 DEF Stamps
    <3>2. handler[h].time - last[e.rule] >= Cooldown /\ last[e.rule] \in Nat
      BY <1>1, <2>3, <2>4, <3>1
    <3> QED
      BY <1>1, <3>1, <3>2
  <2>5. handler[h].time # None /\ handler[h].time \in Nat
    BY <1>1, ConstantsAssumption
  <2>6. EventStamps'
    <3>1. ASSUME NEW e \in events PROVE last'[e.rule] # None /\ e.time <= last'[e.rule]
      <4>1. /\ last[e.rule] # None /\ e.time <= last[e.rule]
            /\ e.rule \in Rules /\ e.time \in Nat
        BY <1>1 DEF Stamps
      <4>2. CASE e.rule \in handler[h].fired
        BY <1>1, <2>2, <2>4, <2>5, <4>1, <4>2
      <4>3. CASE e.rule \notin handler[h].fired
        BY <2>2, <4>1, <4>3
      <4> QED
        BY <4>2, <4>3
    <3>2. ASSUME NEW e \in NewEvents(h) PROVE last'[e.rule] # None /\ e.time <= last'[e.rule]
      BY <1>1, <2>1, <2>2, <2>5
    <3> QED
      BY <2>2, <3>1, <3>2
  <2>7. ASSUME NEW e \in events', NEW f \in events', e # f, e.rule = f.rule
        PROVE  e.time - f.time >= Cooldown \/ f.time - e.time >= Cooldown
    <3> DEFINE new == NewEvents(h)
    <3>1. e \in events /\ f \in events =>
             e.time - f.time >= Cooldown \/ f.time - e.time >= Cooldown
      BY <2>7 DEF CooldownHolds
    <3>2. ~(e \in new /\ f \in new)
      BY <2>1, <2>7
    <3>3. e \in new /\ f \in events => e.time - f.time >= Cooldown
      BY <2>1, <2>4, <2>7
    <3>4. e \in events /\ f \in new => f.time - e.time >= Cooldown
      BY <2>1, <2>4, <2>7
    <3>5. (e \in events \/ e \in new) /\ (f \in events \/ f \in new)
      BY <2>2
    <3> HIDE DEF new
    <3> QED
      BY <3>1, <3>2, <3>3, <3>4, <3>5
  <2> QED
    BY <2>6, <2>7 DEF CooldownHolds
<1>5. ASSUME NEW x \in Executions, Closing(x) PROVE EventStamps' /\ CooldownHolds'
  <2>1. last' = last
    BY <1>5 DEF Closing
  <2>2. \A e \in events' : \E d \in events :
           IdOf(d) = IdOf(e) /\ d.rule = e.rule /\ d.time = e.time
    BY <1>1, <1>5, ClosingKeeps
  <2>3. EventStamps'
    BY <2>1, <2>2 DEF Stamps
  <2>4. CooldownHolds'
    <3> SUFFICES ASSUME NEW e \in events', NEW f \in events', e # f, e.rule = f.rule
                 PROVE  e.time - f.time >= Cooldown \/ f.time - e.time >= Cooldown
      BY DEF CooldownHolds
    <3>1. IdOf(e) # IdOf(f)
      BY <1>1 DEF Recorded
    <3>2. PICK c \in events : IdOf(c) = IdOf(e) /\ c.rule = e.rule /\ c.time = e.time
      BY <2>2
    <3>3. PICK d \in events : IdOf(d) = IdOf(f) /\ d.rule = f.rule /\ d.time = f.time
      BY <2>2
    <3> QED
      BY <3>1, <3>2, <3>3 DEF CooldownHolds
  <2> QED
    BY <2>3, <2>4
<1>6. (events' \subseteq events /\ last' = last) => EventStamps' /\ CooldownHolds'
  BY DEF Stamps, CooldownHolds
<1>7. EventStamps' /\ CooldownHolds'
  <2> HIDE DEF EventStamps
  <2>1. \A h \in Handlers : Recording(h) => EventStamps' /\ CooldownHolds'
    BY <1>4
  <2>2. \A x \in Executions : Closing(x) => EventStamps' /\ CooldownHolds'
    BY <1>5
  <2>3. \A rules \in SUBSET Rules : Deleting(rules) => EventStamps' /\ CooldownHolds'
    BY <1>6 DEF Deleting
  <2>4. Quiet => EventStamps' /\ CooldownHolds'
    BY <1>6 DEF Quiet
  <2> QED
    BY <1>1, <2>1, <2>2, <2>3, <2>4, EventSteps
<1> QED
  BY <1>3, <1>7

\* threshold.py:72-76: while requests are handled one at a time, two events of a rule are
\* at least the cooldown apart, whatever the containers of a payload.
THEOREM CooldownOfOneRequest ==
    ASSUME \A g, h \in Handlers : g = h
    PROVE  Spec => []CooldownHolds
<1>1. Init => Stamps /\ CooldownHolds
  BY IdleCarries DEF Init, Stamps, CooldownHolds, AtPc
<1>2. IInv /\ Stamps /\ CooldownHolds /\ [Next]_vars => Stamps' /\ CooldownHolds'
  BY NextStamps
<1> QED
  BY <1>1, <1>2, AlwaysIInv, PTL DEF Spec

----------------------------------------------------------------------------
(* What becomes of the notices. *)

\* What is owed was raised with the channels that the request which raised it carries.
OwedAsRaised ==
    /\ \A n \in owed : n.event \in raised
    /\ \A h \in Handlers : AtPc(h, {"notify"}) =>
          /\ handler[h].made \subseteq raised
          /\ \A n \in owed : n.event \in handler[h].made =>
                n \in Notices(n.event, Via(h, n.event))

\* An event that a request has still to announce has its row, if its rule has.
MadeStands ==
    \A h \in Handlers : AtPc(h, {"notify"}) =>
        \A id \in handler[h].made : Refreshable(id) \/ phase[id.rule] = "gone"

LEMMA NewNoticesVia ==
    ASSUME Shaped, NEW h \in Handlers, handler[h].todo # <<>>, NEW n \in NewNotices(h)
    PROVE  n.event \in NewIds(h) /\ n \in Notices(n.event, Via(h, n.event))
<1>1. PICK e \in NewEvents(h) : n \in Notices(IdOf(e), handler[h].via[e.rule])
  BY DEF NewNotices
<1>2. n.event = IdOf(e) /\ IdOf(e).rule = e.rule /\ IdOf(e) \in NewIds(h)
  BY <1>1 DEF Notices, IdOf, NewIds
<1> QED
  BY <1>1, <1>2 DEF Via

LEMMA NextAsRaised == Shaped /\ Fresh /\ OwedAsRaised /\ [Next]_vars => OwedAsRaised'
<1> SUFFICES ASSUME Shaped, Fresh, OwedAsRaised, [Next]_vars PROVE OwedAsRaised'
  OBVIOUS
<1>1. \/ owed' = owed /\ raised' = raised
      \/ \E h \in Handlers : Recording(h)
  BY EventSteps DEF Quiet, Closing, Deleting
<1>2. ASSUME NEW h \in Handlers, Recording(h)
      PROVE  /\ owed' = owed \cup NewNotices(h) /\ raised' = raised \cup NewIds(h)
             /\ NewIds(h) \cap raised = {}
             /\ \A n \in NewNotices(h) : /\ n.event \in NewIds(h)
                                         /\ n \in Notices(n.event, Via(h, n.event))
  BY <1>2, NewIdsFresh, NewNoticesVia DEF Recording
<1>3. raised \subseteq raised'
  BY <1>1, <1>2
<1>4. \A n \in owed' : n.event \in raised'
  BY <1>1, <1>2 DEF OwedAsRaised
<1>5. ASSUME NEW h \in Handlers, handler'[h].pc = "notify"
      PROVE  /\ handler'[h].made \subseteq raised'
             /\ \A n \in owed' : n.event \in handler'[h].made =>
                   n \in Notices(n.event, Via(h, n.event))
  <2>1. CASE AtPc(h, {"notify"}) /\ handler'[h].made \subseteq handler[h].made
    <3>1. handler'[h].made \subseteq raised
      BY <2>1 DEF OwedAsRaised
    <3>2. ASSUME NEW n \in owed', n.event \in handler'[h].made PROVE n \in owed
      BY <1>1, <1>2, <3>1, <3>2
    <3> QED
      BY <1>3, <2>1, <3>1, <3>2 DEF OwedAsRaised
  <2>2. CASE Recording(h) /\ handler'[h].made = NewIds(h)
    <3>1. \A n \in owed : n.event \notin NewIds(h)
      BY <1>2, <2>2 DEF OwedAsRaised
    <3> QED
      BY <1>2, <2>2, <3>1
  <2> QED
    BY <1>5, <2>1, <2>2, NotifySteps
<1>6. ASSUME NEW h \in Handlers, NEW id, handler'[h].pc = "notify"
      PROVE  Via(h, id)' = Via(h, id)
  BY <1>6, NotifySteps DEF Via
<1>7. ASSUME NEW h \in Handlers, AtPc(h, {"notify"})', NEW n \in owed',
             n.event \in handler'[h].made
      PROVE  n \in Notices(n.event, Via(h, n.event)')
  BY <1>5, <1>6, <1>7 DEF AtPc
<1> QED
  BY <1>4, <1>5, <1>7 DEF OwedAsRaised, AtPc, Notices

LEMMA NextStands == Shaped /\ MadeStands /\ [Next]_vars => MadeStands'
<1> SUFFICES ASSUME Shaped, MadeStands, [Next]_vars, NEW h \in Handlers,
                    handler'[h].pc = "notify", NEW id \in handler'[h].made
             PROVE  (\E e \in events' : IdOf(e) = id) \/ phase'[id.rule] = "gone"
  BY DEF MadeStands, AtPc, Refreshable, IdOf
<1>1. CASE AtPc(h, {"notify"}) /\ handler'[h].made \subseteq handler[h].made
  <2>1. Refreshable(id) \/ phase[id.rule] = "gone"
    BY <1>1 DEF MadeStands
  <2>2. id.rule \in Rules
    BY <1>1, Typed DEF Shaped, HandlerRecord, FiniteIds
  <2>3. ASSUME phase[id.rule] = "gone" PROVE phase'[id.rule] = "gone"
    BY <2>2, <2>3, EventSteps DEF Quiet, Deleted, Recording, Closing, Deleting
  <2>4. ASSUME NEW e \in events, IdOf(e) = id
        PROVE  (\E f \in events' : IdOf(f) = id) \/ phase'[id.rule] = "gone"
    <3>1. CASE Quiet \/ \E g \in Handlers : Recording(g)
      BY <2>4, <3>1 DEF Quiet, Recording
    <3>2. ASSUME NEW x \in Executions, Closing(x) PROVE \E f \in events' : IdOf(f) = id
      <4>1. ClosedBy(x, e) \in events' /\ IdOf(ClosedBy(x, e)) = IdOf(e)
        BY <3>2, ClosedByKeeps DEF Closing, Shaped
      <4> QED
        BY <2>4, <4>1
    <3>3. ASSUME NEW rules \in SUBSET Rules, Deleting(rules)
          PROVE  e \in events' \/ phase'[id.rule] = "gone"
      BY <2>2, <2>4, <3>3 DEF Deleting, Orphaned, IdOf
    <3> QED
      BY <2>4, <3>1, <3>2, <3>3, EventSteps
  <2> QED
    BY <2>1, <2>3, <2>4 DEF Refreshable
<1>2. CASE Recording(h) /\ handler'[h].made = NewIds(h)
  BY <1>2 DEF Recording, NewIds
<1> QED
  BY <1>1, <1>2, NotifySteps

\* What was handed over or refused stays so, and what has failed stays failed.
LEMMA OutcomesStay ==
    ASSUME Shaped, [Next]_vars
    PROVE  /\ enqueued \subseteq enqueued' /\ refused \subseteq refused'
           /\ NothingFailed' => NothingFailed /\ crashes' = crashes
<1>1. enqueued \subseteq enqueued' /\ refused \subseteq refused'
  <2>1. ASSUME NEW h \in Handlers, HandlerStep(h) \/ CrashHandler(h)
        PROVE  enqueued \subseteq enqueued' /\ refused \subseteq refused'
    BY <2>1 DEF HandlerStep, StoreSamples, EvaluateRules, CommitEvents, EnqueueEvent,
                Enqueue, Finish, CrashHandler
  <2>2. ASSUME NEW h \in Handlers, NEW p \in Payloads, Begin(h, p)
        PROVE  enqueued' = enqueued /\ refused' = refused
    BY <2>2 DEF Begin
  <2>3. ASSUME NEW r \in Rules, NEW c \in Configs, CreateRule(r, c) \/ UpdateRule(r, c)
        PROVE  enqueued' = enqueued /\ refused' = refused
    BY <2>3 DEF CreateRule, UpdateRule
  <2>4. ASSUME NEW r \in Rules, DeleteRule(r)
        PROVE  enqueued' = enqueued /\ refused' = refused
    BY <2>4 DEF DeleteRule
  <2>5. ASSUME NEW x \in Executions, ResolverStep(x) \/ CrashResolver(x)
        PROVE  enqueued' = enqueued /\ refused' = refused
    BY <2>5 DEF ResolverStep, ReadOpen, Examine, CommitResolved, CrashResolver
  <2>6. ASSUME Tick \/ DeleteServer \/ UNCHANGED vars
        PROVE  enqueued' = enqueued /\ refused' = refused
    BY <2>6 DEF Tick, DeleteServer, vars
  <2> QED
    BY <2>1, <2>2, <2>3, <2>4, <2>5, <2>6 DEF Next
<1>2. crashes' = crashes \/ crashes' = crashes + 1
  <2>1. ASSUME NEW h \in Handlers, HandlerStep(h) \/ CrashHandler(h)
        PROVE  crashes' = crashes \/ crashes' = crashes + 1
    BY <2>1 DEF HandlerStep, StoreSamples, EvaluateRules, CommitEvents, EnqueueEvent,
                Finish, CrashHandler
  <2>2. ASSUME NEW h \in Handlers, NEW p \in Payloads, Begin(h, p)
        PROVE  crashes' = crashes
    BY <2>2 DEF Begin
  <2>3. ASSUME NEW r \in Rules, NEW c \in Configs, CreateRule(r, c) \/ UpdateRule(r, c)
        PROVE  crashes' = crashes
    BY <2>3 DEF CreateRule, UpdateRule
  <2>4. ASSUME NEW r \in Rules, DeleteRule(r) PROVE crashes' = crashes
    BY <2>4 DEF DeleteRule
  <2>5. ASSUME NEW x \in Executions, ResolverStep(x) \/ CrashResolver(x)
        PROVE  crashes' = crashes \/ crashes' = crashes + 1
    BY <2>5 DEF ResolverStep, ReadOpen, Examine, CommitResolved, CrashResolver
  <2>6. ASSUME Tick \/ DeleteServer \/ UNCHANGED vars PROVE crashes' = crashes
    BY <2>6 DEF Tick, DeleteServer, vars
  <2> QED
    BY <2>1, <2>2, <2>3, <2>4, <2>5, <2>6 DEF Next
<1>3. \A r \in Rules : phase[r] = "gone" => phase'[r] = "gone"
  BY EventSteps DEF Quiet, Deleted, Recording, Closing, Deleting
<1>4. crashes \in Nat
  BY Typed, ConstantsAssumption DEF Shaped
<1>5. NothingFailed' => NothingFailed /\ crashes' = crashes
  BY <1>2, <1>3, <1>4 DEF NothingFailed
<1> QED
  BY <1>1, <1>5

\* Only the enqueue or a crash moves a request that notifies.
LEMMA NotifyingMoves ==
    ASSUME Shaped, [Next]_vars, NEW h \in Handlers, AtPc(h, {"notify"})
    PROVE  handler'[h] = handler[h] \/ EnqueueEvent(h) \/ CrashHandler(h)
<1> DEFINE Goal == handler'[h] = handler[h] \/ EnqueueEvent(h) \/ CrashHandler(h)
<1>1. ASSUME NEW g \in Handlers, HandlerStep(g) \/ CrashHandler(g) PROVE Goal
  <2>1. AtPc(g, {"fired", "notify"}) => handler[g].todo # <<>>
    BY DEF Shaped, HandlersCarry
  <2>2. Moves(g)
    BY <1>1, <2>1, StoreEffect, EvaluateEffect, CommitEventsEffect, EnqueueEffect, EndEffect
       DEF HandlerStep, Shaped, CommitEvents, EnqueueEvent, AtPc
  <2>3. CASE g # h
    BY <2>2, <2>3 DEF Moves
  <2>4. CASE g = h
    BY <1>1, <2>4 DEF HandlerStep, StoreSamples, EvaluateRules, CommitEvents, Finish, AtPc
  <2> QED
    BY <2>3, <2>4
<1>2. ASSUME NEW g \in Handlers, NEW p \in Payloads, Begin(g, p) PROVE Goal
  <2>1. Moves(g) /\ g # h
    BY <1>2, BeginEffect DEF Begin, AtPc, Shaped
  <2> QED
    BY <2>1 DEF Moves
<1>3. ASSUME NEW r \in Rules, NEW c \in Configs, CreateRule(r, c) \/ UpdateRule(r, c)
      PROVE  Goal
  BY <1>3 DEF CreateRule, UpdateRule
<1>4. ASSUME NEW r \in Rules, DeleteRule(r) PROVE Goal
  BY <1>4 DEF DeleteRule
<1>5. ASSUME NEW x \in Executions, ResolverStep(x) \/ CrashResolver(x) PROVE Goal
  BY <1>5 DEF ResolverStep, ReadOpen, Examine, CommitResolved, CrashResolver
<1>6. ASSUME Tick \/ DeleteServer \/ UNCHANGED vars PROVE Goal
  BY <1>6 DEF Tick, DeleteServer, vars
<1> HIDE DEF Goal
<1>7. Goal
  BY <1>1, <1>2, <1>3, <1>4, <1>5, <1>6 DEF Next
<1> QED
  BY <1>7 DEF Goal

\* The enqueue hands a notice over, is refused, or leaves it for later.
LEMMA EnqueueAccounts ==
    ASSUME Shaped, NEW h \in Handlers, EnqueueEvent(h),
           \A id \in handler[h].made : Refreshable(id),
           NEW n, n.event \in handler[h].made, n \in Notices(n.event, Via(h, n.event))
    PROVE  \/ n \in enqueued' \/ n.event \in refused'
           \/ AtPc(h, {"notify"})' /\ n.event \in handler'[h].made
<1>1. PICK id \in handler[h].made :
        Enqueue(h, id) /\ handler' = [handler EXCEPT ![h].made = @ \ {id}]
  BY DEF EnqueueEvent
<1>2. CASE n.event = id
  BY <1>1, <1>2 DEF Enqueue
<1>3. CASE n.event # id
  <2>1. handler'[h].pc = "notify" /\ handler'[h].made = handler[h].made \ {id}
    BY <1>1, Typed DEF EnqueueEvent, Shaped, HandlerRecord
  <2> QED
    BY <1>3, <2>1 DEF AtPc
<1> QED
  BY <1>2, <1>3

\* The property, with the request still at its enqueues.
Accounted ==
    NothingFailed => \A n \in owed :
        \/ n \in enqueued \/ n.event \in refused
        \/ \E h \in Handlers : AtPc(h, {"notify"}) /\ n.event \in handler[h].made

LEMMA NextAccounted ==
    Shaped /\ OwedAsRaised /\ MadeStands /\ Accounted /\ [Next]_vars => Accounted'
<1> SUFFICES ASSUME Shaped, OwedAsRaised, MadeStands, Accounted, [Next]_vars,
                    NothingFailed', NEW n \in owed'
             PROVE  \/ n \in enqueued' \/ n.event \in refused'
                    \/ \E h \in Handlers : /\ AtPc(h, {"notify"})'
                                           /\ n.event \in handler'[h].made
  BY DEF Accounted
<1>1. /\ enqueued \subseteq enqueued' /\ refused \subseteq refused'
      /\ NothingFailed /\ crashes' = crashes
  BY OutcomesStay
<1>2. CASE n \in owed
  <2>1. ASSUME NEW h \in Handlers, AtPc(h, {"notify"}), n.event \in handler[h].made
        PROVE  \/ n \in enqueued' \/ n.event \in refused'
               \/ AtPc(h, {"notify"})' /\ n.event \in handler'[h].made
    <3>1. n \in Notices(n.event, Via(h, n.event))
      BY <1>2, <2>1 DEF OwedAsRaised
    <3>2. \A id \in handler[h].made : id.rule \in Rules
      BY <2>1, Typed DEF Shaped, HandlerRecord, FiniteIds
    <3>3. \A id \in handler[h].made : Refreshable(id)
      BY <1>1, <2>1, <3>2 DEF MadeStands, NothingFailed
    <3>4. ~CrashHandler(h)
      BY <1>1, Typed, ConstantsAssumption DEF CrashHandler, Shaped
    <3>5. CASE handler'[h] = handler[h]
      BY <2>1, <3>5 DEF AtPc
    <3>6. CASE EnqueueEvent(h)
      BY <2>1, <3>1, <3>3, <3>6, EnqueueAccounts
    <3> QED
      BY <2>1, <3>4, <3>5, <3>6, NotifyingMoves
  <2> QED
    BY <1>1, <1>2, <2>1 DEF Accounted
<1>3. CASE n \notin owed
  <2>1. PICK h \in Handlers : Recording(h)
    BY <1>3, EventSteps DEF Quiet, Closing, Deleting
  <2>2. n.event \in NewIds(h)
    BY <1>3, <2>1, NewNoticesVia DEF Recording
  <2>3. handler'[h].pc = "notify" /\ ~AtPc(h, {"notify"})
    BY <2>1 DEF Recording, AtPc
  <2>4. handler'[h].made = NewIds(h)
    BY <2>3, NotifySteps
  <2> QED
    BY <2>2, <2>3, <2>4 DEF AtPc
<1> QED
  BY <1>2, <1>3

\* threshold.py:13-28, 93-98: without a crash or a deletion no notice gets lost between
\* the commit of its event and the queue, but for those of an event on which the
\* broker failed, however requests overlap and whatever becomes of the rules' channels.
THEOREM NoNoticeLost == Spec => []NoticesAccounted
<1>1. Init => OwedAsRaised /\ MadeStands /\ Accounted
  BY IdleCarries DEF Init, OwedAsRaised, MadeStands, Accounted, AtPc
<1>2. IInv /\ OwedAsRaised /\ MadeStands /\ Accounted /\ [Next]_vars
        => OwedAsRaised' /\ MadeStands' /\ Accounted'
  BY NextAsRaised, NextStands, NextAccounted DEF IInv
<1>3. Accounted => NoticesAccounted
  BY DEF Accounted, NoticesAccounted
<1> QED
  BY <1>1, <1>2, <1>3, AlwaysIInv, PTL DEF Spec

----------------------------------------------------------------------------
(* Alerts implements Incidents. *)

OpenIds == {IdOf(e) : e \in {x \in events : x.closed = None}}
ClosedIds == {IdOf(e) : e \in {x \in events : x.closed # None}}

\* Only what is owed is announced, one event at a time.
LEMMA EnqueueSteps ==
    ASSUME IInv, [Next]_vars
    PROVE  \/ enqueued' = enqueued
           \/ /\ UNCHANGED <<events, raised, owed, phase>>
              /\ \E sent \in SUBSET owed : /\ enqueued' = enqueued \cup sent
                                           /\ \A m, n \in sent : m.event = n.event
<1> DEFINE Goal == \/ enqueued' = enqueued
                   \/ /\ UNCHANGED <<events, raised, owed, phase>>
                      /\ \E sent \in SUBSET owed :
                            /\ enqueued' = enqueued \cup sent
                            /\ \A m, n \in sent : m.event = n.event
<1>1. ASSUME NEW h \in Handlers, EnqueueEvent(h) PROVE Goal
  <2>1. handler[h].todo # <<>>
    BY <1>1 DEF EnqueueEvent, AtPc, IInv, Shaped, HandlersCarry
  <2>2. AtPc(h, {"notify"}) /\ UNCHANGED <<events, raised, owed, phase>>
    BY <1>1, <2>1, EnqueueEffect DEF IInv, Shaped
  <2>3. ASSUME NEW id \in handler[h].made, NEW reached \in SUBSET Via(h, id),
               enqueued' = enqueued \cup Notices(id, reached)
        PROVE  Goal
    <3>1. Notices(id, reached) \subseteq Notices(id, Via(h, id))
      BY DEF Notices
    <3>2. Notices(id, Via(h, id)) \subseteq owed
      BY <2>2 DEF IInv, MadeOwed
    <3>3. \A m, n \in Notices(id, reached) : m.event = n.event
      BY DEF Notices
    <3> DEFINE sent == Notices(id, reached)
    <3>4. sent \in SUBSET owed /\ \A m, n \in sent : m.event = n.event
      BY <3>1, <3>2, <3>3
    <3> QED
      BY <2>2, <2>3, <3>4
  <2>4. CASE enqueued' = enqueued
    BY <2>4
  <2> QED
    BY <1>1, <2>1, <2>3, <2>4, EnqueueEffect DEF IInv, Shaped
<1>2. ASSUME NEW h \in Handlers, HandlerStep(h) \/ CrashHandler(h) PROVE Goal
  BY <1>1, <1>2 DEF HandlerStep, StoreSamples, EvaluateRules, CommitEvents, Finish,
                    CrashHandler
<1>3. ASSUME NEW h \in Handlers, NEW p \in Payloads, Begin(h, p) PROVE Goal
  BY <1>3 DEF Begin
<1>4. ASSUME NEW r \in Rules, NEW c \in Configs, CreateRule(r, c) \/ UpdateRule(r, c)
      PROVE  Goal
  BY <1>4 DEF CreateRule, UpdateRule
<1>5. ASSUME NEW r \in Rules, DeleteRule(r) PROVE Goal
  BY <1>5 DEF DeleteRule
<1>6. ASSUME NEW x \in Executions, ResolverStep(x) \/ CrashResolver(x) PROVE Goal
  BY <1>6 DEF ResolverStep, ReadOpen, Examine, CommitResolved, CrashResolver
<1>7. ASSUME Tick \/ DeleteServer \/ UNCHANGED vars PROVE Goal
  BY <1>7 DEF Tick, DeleteServer, vars
<1> HIDE DEF Goal
<1>8. Goal
  BY <1>2, <1>3, <1>4, <1>5, <1>6, <1>7 DEF Next
<1> QED
  BY <1>8 DEF Goal

\* Recording new events opens them and touches no other; their rules still exist.
LEMMA RecordingRaises ==
    ASSUME IInv, NEW h \in Handlers, Recording(h)
    PROVE  /\ OpenIds' = OpenIds \cup NewIds(h) /\ ClosedIds' = ClosedIds
           /\ OpenIds' \ OpenIds = NewIds(h)
           /\ NewIds(h) # {} /\ NewIds(h) \cap raised = {}
           /\ \A i \in NewIds(h) : i.rule \notin Deleted
           /\ \A n \in owed' \ owed : n.event \in NewIds(h)
           /\ owed' = owed \cup (owed' \ owed)
<1>1. NewIds(h) \cap raised = {}
  BY NewIdsFresh DEF IInv, Recording
<1>2. \A e \in NewEvents(h) : e.closed = None /\ e.rule \in handler[h].fired
  BY NewEventsTyped DEF IInv, Shaped, Recording
<1>3. NewIds(h) # {}
  <2>1. PICK r \in handler[h].fired : TRUE
    BY DEF IInv, Shaped, HandlersCarry, Recording
  <2> DEFINE e == [rule |-> r, src |-> Head(handler[h].todo).src, at |-> handler[h].at,
                   time |-> handler[h].time, closed |-> None]
  <2>2. e \in NewEvents(h)
    BY DEF NewEvents
  <2> QED
    BY <2>2 DEF NewIds
<1>4. events' = events \cup NewEvents(h)
  BY DEF Recording
<1>5. OpenIds' = OpenIds \cup NewIds(h) /\ ClosedIds' = ClosedIds
  BY <1>2, <1>4 DEF OpenIds, ClosedIds, NewIds, IdOf
<1>6. OpenIds \subseteq raised
  BY DEF OpenIds, IInv, Recorded
<1>7. \A i \in NewIds(h) : i.rule \notin Deleted
  <2>1. \A i \in NewIds(h) : i.rule \in handler[h].fired
    BY <1>2 DEF NewIds, IdOf
  <2> QED
    BY <2>1 DEF Recording, Committable, Deleted
<1>8. owed' = owed \cup NewNotices(h) /\ \A n \in NewNotices(h) : n.event \in NewIds(h)
  BY NewNoticesTyped DEF IInv, Shaped, Recording
<1> QED
  BY <1>1, <1>3, <1>5, <1>6, <1>7, <1>8

\* The commit of resolved_at moves ids from open to closed; one that is closed already
\* stays there.
LEMMA ClosingCloses ==
    ASSUME IInv, NEW x \in Executions, Closing(x)
    PROVE  LET done == OpenIds \cap Marked(x)
           IN  OpenIds' = OpenIds \ done /\ ClosedIds' = ClosedIds \cup done
<1> DEFINE done == OpenIds \cap Marked(x)
<1>1. \A e \in events : LET f == ClosedBy(x, e) IN
         /\ f \in events' /\ IdOf(f) = IdOf(e)
         /\ \/ IdOf(e) \notin Marked(x) /\ f = e
            \/ IdOf(e) \in Marked(x) /\ f.closed # None
  BY ClosedByKeeps DEF Closing, IInv, Shaped
<1>2. \A f \in events' : \E e \in events : f = ClosedBy(x, e)
  BY DEF Closing
<1>3. ASSUME NEW i \in OpenIds' PROVE i \in OpenIds \ done
  <2>1. PICK f \in events' : f.closed = None /\ i = IdOf(f)
    BY <1>3 DEF OpenIds
  <2>2. PICK e \in events : f = ClosedBy(x, e)
    BY <1>2
  <2>3. f = e /\ i \notin Marked(x)
    BY <1>1, <2>1, <2>2
  <2> QED
    BY <2>1, <2>3 DEF OpenIds
<1>4. ASSUME NEW i \in OpenIds \ done PROVE i \in OpenIds'
  <2>1. PICK e \in events : e.closed = None /\ i = IdOf(e)
    BY <1>4 DEF OpenIds
  <2>2. e \in events'
    BY <1>1, <1>4, <2>1
  <2> QED
    BY <2>1, <2>2 DEF OpenIds
<1>5. ASSUME NEW i \in ClosedIds' PROVE i \in ClosedIds \cup done
  <2>1. PICK f \in events' : f.closed # None /\ i = IdOf(f)
    BY <1>5 DEF ClosedIds
  <2>2. PICK e \in events : f = ClosedBy(x, e)
    BY <1>2
  <2>3. i = IdOf(e) /\ (f = e \/ i \in Marked(x))
    BY <1>1, <2>1, <2>2
  <2> QED
    BY <2>1, <2>3 DEF OpenIds, ClosedIds
<1>6. ASSUME NEW i \in ClosedIds \cup done PROVE i \in ClosedIds'
  <2>1. PICK e \in events : i = IdOf(e) /\ (e.closed # None \/ i \in Marked(x))
    BY <1>6 DEF OpenIds, ClosedIds
  <2> DEFINE f == ClosedBy(x, e)
  <2>2. f \in events' /\ i = IdOf(f) /\ f.closed # None
    BY <1>1, <2>1
  <2> HIDE DEF f
  <2> QED
    BY <2>2 DEF ClosedIds
<1> HIDE DEF done
<1>7. OpenIds' = OpenIds \ done /\ ClosedIds' = ClosedIds \cup done
  BY <1>3, <1>4, <1>5, <1>6
<1> QED
  BY <1>7 DEF done

\* Deleting rules takes the events of these rules, and of no other.
LEMMA DeletingPurges ==
    ASSUME Shaped, NEW rules \in SUBSET Rules, Deleting(rules)
    PROVE  /\ Deleted' = Deleted \cup rules /\ Deleted' \ Deleted = rules
           /\ OpenIds' = {i \in OpenIds : i.rule \notin rules}
           /\ ClosedIds' = {i \in ClosedIds : i.rule \notin rules}
<1>1. Deleted' = Deleted \cup rules /\ Deleted' \ Deleted = rules
  BY DEF Deleting, Deleted
<1>2. \A e \in events : e \in events' <=> e.rule \notin rules
  BY DEF Deleting, Orphaned
<1>3. events' \subseteq events
  BY DEF Deleting
<1>4. \A e \in events : IdOf(e).rule = e.rule
  BY DEF IdOf
<1>5. OpenIds' = {i \in OpenIds : i.rule \notin rules}
  BY <1>2, <1>3, <1>4 DEF OpenIds
<1>6. ClosedIds' = {i \in ClosedIds : i.rule \notin rules}
  BY <1>2, <1>3, <1>4 DEF ClosedIds
<1> QED
  BY <1>1, <1>5, <1>6

LEMMA StepKeepsPromise ==
    IInv /\ [Next]_vars => [Promise!IncidentNext]_(Promise!incidentVars)
<1> SUFFICES ASSUME IInv, [Next]_vars
             PROVE  [Promise!IncidentNext]_(Promise!incidentVars)
  OBVIOUS
<1> DEFINE Promised == [Promise!IncidentNext]_(Promise!incidentVars)
<1> USE DEF Promise!IncidentNext, Promise!incidentVars
<1>1. ASSUME UNCHANGED <<OpenIds, ClosedIds, Deleted, raised, owed, enqueued>>
      PROVE  Promised
  BY <1>1 DEF OpenIds, ClosedIds, Deleted
<1>2. ASSUME UNCHANGED <<OpenIds, ClosedIds, Deleted, raised, owed>>,
             NEW sent \in SUBSET owed, enqueued' = enqueued \cup sent,
             \A m, n \in sent : m.event = n.event
      PROVE  Promised
  <2>1. CASE sent \subseteq enqueued
    <3>1. enqueued' = enqueued
      BY <1>2, <2>1
    <3> QED
      BY <1>1, <1>2, <3>1
  <2>2. CASE ~(sent \subseteq enqueued)
    <3>1. LET told == enqueued' \ enqueued
          IN  /\ told # {} /\ told \subseteq owed
              /\ \A m, n \in told : m.event = n.event
              /\ enqueued' = enqueued \cup told
      BY <1>2, <2>2
    <3>2. Promise!Announce
      BY <1>2, <3>1 DEF Promise!Announce, OpenIds, ClosedIds, Deleted
    <3> QED
      BY <3>2
  <2> QED
    BY <2>1, <2>2
<1>3. ASSUME NEW h \in Handlers, Recording(h) PROVE Promised
  <2>1. /\ OpenIds' = OpenIds \cup NewIds(h) /\ ClosedIds' = ClosedIds
        /\ OpenIds' \ OpenIds = NewIds(h)
        /\ NewIds(h) # {} /\ NewIds(h) \cap raised = {}
        /\ \A i \in NewIds(h) : i.rule \notin Deleted
        /\ \A n \in owed' \ owed : n.event \in NewIds(h)
        /\ owed' = owed \cup (owed' \ owed)
    BY <1>3, RecordingRaises
  <2>2. raised' = raised \cup NewIds(h) /\ Deleted' = Deleted /\ enqueued' = enqueued
    BY <1>3 DEF Recording, Deleted
  <2>3. Promise!Raise
    BY <2>1, <2>2 DEF Promise!Raise, OpenIds, ClosedIds, Deleted
  <2> QED
    BY <2>3
<1>4. ASSUME NEW x \in Executions, Closing(x) PROVE Promised
  <2> DEFINE done == OpenIds \cap Marked(x)
  <2>1. OpenIds' = OpenIds \ done /\ ClosedIds' = ClosedIds \cup done
    BY <1>4, ClosingCloses
  <2>2. UNCHANGED <<Deleted, raised, owed, enqueued>> /\ done \subseteq OpenIds
    BY <1>4 DEF Closing, Deleted
  <2> HIDE DEF done
  <2>3. CASE done = {}
    BY <1>1, <2>1, <2>2, <2>3
  <2>4. CASE done # {}
    <3>1. OpenIds \ OpenIds' = done
      BY <2>1, <2>2
    <3>2. Promise!Close
      BY <2>1, <2>2, <2>4, <3>1 DEF Promise!Close, OpenIds, ClosedIds, Deleted
    <3> QED
      BY <3>2
  <2> QED
    BY <2>3, <2>4
<1>5. ASSUME NEW rules \in SUBSET Rules, Deleting(rules) PROVE Promised
  <2>1. /\ Deleted' = Deleted \cup rules /\ Deleted' \ Deleted = rules
        /\ OpenIds' = {i \in OpenIds : i.rule \notin rules}
        /\ ClosedIds' = {i \in ClosedIds : i.rule \notin rules}
    BY <1>5, DeletingPurges DEF IInv
  <2>2. UNCHANGED <<raised, owed, enqueued>>
    BY <1>5 DEF Deleting
  <2>3. CASE rules = {}
    BY <1>1, <2>1, <2>2, <2>3
  <2>4. CASE rules # {}
    <3>1. Promise!Purge
      BY <2>1, <2>2, <2>4 DEF Promise!Purge, OpenIds, ClosedIds, Deleted
    <3> QED
      BY <3>1
  <2> QED
    BY <2>3, <2>4
<1> HIDE DEF Promised
<1>6. ASSUME Quiet PROVE Promised
  <2>1. UNCHANGED <<OpenIds, ClosedIds, Deleted, raised, owed>>
    BY <1>6 DEF Quiet, OpenIds, ClosedIds
  <2>2. ASSUME NEW sent \in SUBSET owed, enqueued' = enqueued \cup sent,
               \A m, n \in sent : m.event = n.event
        PROVE  Promised
    BY <1>2, <2>1, <2>2
  <2> QED
    BY <1>1, <2>1, <2>2, EnqueueSteps
<1>7. Promised
  BY <1>3, <1>4, <1>5, <1>6, EventSteps DEF IInv
<1> QED
  BY <1>7 DEF Promised

\* Through every race, failed commit, crash and broker failure, with any number of
\* requests and of overlapping executions of auto-resolve, and through the deletion of
\* rules and of the whole server: an event is raised once and for a rule that exists, is
\* never reopened (though a second execution may rewrite its resolved_at), is removed
\* exactly with its rule, and is announced only after it was recorded, on the channels it
\* was recorded for (threshold.py, alert_resolver.py, alerts.py, telegram_bot.py:368).
THEOREM AlertsKeepThePromise == Spec => KeepsPromise
<1>1. Init => Promise!IncidentInit
  BY DEF Init, Promise!IncidentInit
<1> QED
  BY <1>1, StepKeepsPromise, AlwaysIInv, PTL
     DEF Spec, KeepsPromise, Promise!IncidentSpec
=============================================================================
