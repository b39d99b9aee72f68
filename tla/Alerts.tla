------------------------------- MODULE Alerts -------------------------------
(***************************************************************************)
(* Alert rules and events of one server of PulseWatch: metric requests     *)
(* that store samples and evaluate the rules, the auto-resolve task, the   *)
(* rule commands of the REST API and the deletion of the server.           *)
(*                                                                         *)
(* A request commits its samples first.  It then evaluates the rules once  *)
(* per sample: read the rules, decide in memory, commit the events with    *)
(* the rules' last_triggered_at, enqueue the notifications.  auto-resolve  *)
(* reads the open events with their rules, then the latest samples, and    *)
(* commits last.  Nothing is locked between these statements, and beat may *)
(* start an execution of auto-resolve while another one is running.        *)
(*                                                                         *)
(* A commit writes its rows in one step: where two commits wait for each   *)
(* other's rows PostgreSQL aborts one of them, and the outcome is the one  *)
(* of the other commit coming first.                                       *)
(***************************************************************************)
EXTENDS Integers, Sequences, FiniteSets, Functions

CONSTANTS
    Rules,        \* ids of table "alert_rules"
    Handlers,     \* slots for metric requests being handled at once
    Executions,   \* slots for executions of task_resolve_alerts running at once
    Host,         \* the source of system metrics (table "metrics")
    Containers,   \* container names (table "docker_metrics")
    Values,       \* metric values
    Configs,      \* the rule settings that POST and PATCH choose from
    Payloads,     \* the metric requests explored: sequences of samples
    Cooldown,     \* cooldown_seconds, in ticks
    None,
    MaxTime,      \* bound on the clock
    MaxCrashes,   \* bound on the crashes explored
    MaxRefusals   \* bound on the events whose .delay fails

Sources == {Host} \cup Containers
Kinds == {"system", "docker"}
Operators == {"gt", "gte", "lt", "lte", "eq", "neq"}
Channels == {"telegram", "email"}
Config == [kind : Kinds, container : Containers \cup {None}, field : {"value", "other"},
           op : Operators, limit : Values, active : BOOLEAN, channels : SUBSET Channels]
Sample == [src : Sources, val : Values]

\* docker_collector.py lists a container once, and metrics.py stores one sample.
OncePerSource(items) ==
    \A i, j \in DOMAIN items : items[i].src = items[j].src => i = j

ASSUME ConstantsAssumption ==
    /\ Values \subseteq Int
    /\ Configs \subseteq Config /\ Configs # {}
    /\ Payloads \subseteq {p \in Seq(Sample) : OncePerSource(p)}
    /\ Cooldown \in Nat /\ MaxTime \in Nat
    /\ MaxCrashes \in Nat /\ MaxRefusals \in Nat
    /\ Host \notin Containers
    /\ None \notin Sources \cup Int
    /\ None \notin [at : Nat, val : Values]
    /\ None \notin [src : Sources, at : Nat]

VARIABLES
    now,          \* the clock; every request begins at an instant of its own
    server,       \* "row" | "gone": the row of table "servers"
    phase,        \* [Rules -> "new" | "row" | "gone"]
    config,       \* the settings of each rule
    last,         \* alert_rules.last_triggered_at
    latest,       \* [Sources -> the stored sample with the greatest collected_at]
    events,       \* table "alert_events"
    raised,       \* history: ids of every event ever committed
    owed,         \* history: the notices those events were committed with
    enqueued,     \* the notices handed to Celery
    refused,      \* history: ids of the events whose .delay failed
    handler,      \* the metric requests in progress
    resolver,     \* the executions of task_resolve_alerts
    crashes

vars == <<now, server, phase, config, last, latest, events, raised, owed, enqueued,
          refused, handler, resolver, crashes>>

----------------------------------------------------------------------------
(* Data. *)

\* An event is identified by its rule and the sample that raised it.
Id == [rule : Rules, src : Sources, at : Nat]
IdOf(e) == [rule |-> e.rule, src |-> e.src, at |-> e.at]

\* time is when its rule was evaluated; closed is NULL until resolved_at is
\* set, then (history) the sample that closed it.
Event == [rule : Rules, src : Sources, at : Nat, time : Nat,
          closed : [src : Sources, at : Nat] \cup {None}]

\* What one send task is enqueued for: an event, on one of the rule's channels.
Notices(id, channels) == {[event |-> id, channel |-> c] : c \in channels}

IdleHandler == [pc |-> "idle", at |-> 0, todo |-> <<>>, fired |-> {}, time |-> 0,
                via |-> [r \in Rules |-> {}], made |-> {}]
IdleResolver == [pc |-> "idle", rows |-> {}, cache |-> <<>>, done |-> {}]

\* _compare
Compare(actual, operator, limit) ==
    \/ operator = "gt"  /\ actual > limit
    \/ operator = "gte" /\ actual >= limit
    \/ operator = "lt"  /\ actual < limit
    \/ operator = "lte" /\ actual <= limit
    \/ operator = "eq"  /\ actual = limit
    \/ operator = "neq" /\ actual # limit

\* A sample has no value for a metric_field it does not know.
Breaches(val, c) == c.field = "value" /\ Compare(val, c.op, c.limit)
Settles(val, c)  == c.field = "value" /\ ~Compare(val, c.op, c.limit)

KindOf(src) == IF src = Host THEN "system" ELSE "docker"

\* The rules an evaluation of a sample considers: WHERE and container filter.
Applies(c, src) ==
    /\ c.active
    /\ c.kind = KindOf(src)
    /\ c.kind = "docker" => c.container \in {None, src}

Cooling(r, time) == last[r] # None /\ time - last[r] < Cooldown

----------------------------------------------------------------------------
Init ==
    /\ now = 0
    /\ server = "row"
    /\ phase = [r \in Rules |-> "new"]
    /\ config = [r \in Rules |-> CHOOSE c \in Configs : TRUE]
    /\ last = [r \in Rules |-> None]
    /\ latest = [src \in Sources |-> None]
    /\ events = {} /\ raised = {} /\ owed = {} /\ enqueued = {} /\ refused = {}
    /\ handler = [h \in Handlers |-> IdleHandler]
    /\ resolver = [x \in Executions |-> IdleResolver]
    /\ crashes = 0

Tick ==
    /\ now < MaxTime
    /\ now' = now + 1
    /\ UNCHANGED <<server, phase, config, last, latest, events, raised, owed,
                   enqueued, refused, handler, resolver, crashes>>

(* Commands on the rules and on the server. *)

\* POST /alerts/rules, which keeps the default channels, and the bot's /createrule.
CreateRule(r, c) ==
    /\ server = "row"
    /\ phase[r] = "new"
    /\ phase' = [phase EXCEPT ![r] = "row"]
    /\ config' = [config EXCEPT ![r] = c]
    /\ UNCHANGED <<now, server, last, latest, events, raised, owed, enqueued,
                   refused, handler, resolver, crashes>>

\* PATCH /alerts/rules/{id} and the bot's /toggle: any of the settings.
UpdateRule(r, c) ==
    /\ phase[r] = "row"
    /\ config' = [config EXCEPT ![r] = c]
    /\ UNCHANGED <<now, server, phase, last, latest, events, raised, owed, enqueued,
                   refused, handler, resolver, crashes>>

\* Variant: events that were resolved stay behind.
OrphanedUnresolved(rules) == {e \in events : e.rule \in rules /\ e.closed = None}

\* Deleting rules takes their events along: alert_events.rule_id is ON DELETE CASCADE.
Orphaned(rules) == {e \in events : e.rule \in rules}

\* DELETE /alerts/rules/{id}.
DeleteRule(r) ==
    /\ phase[r] = "row"
    /\ phase' = [phase EXCEPT ![r] = "gone"]
    /\ events' = events \ Orphaned({r})
    /\ UNCHANGED <<now, server, config, last, latest, raised, owed, enqueued,
                   refused, handler, resolver, crashes>>

\* The bot's /delete: the cascade takes the samples, the rules and their events in
\* the one commit that takes the server.
DeleteServer ==
    LET rules == {r \in Rules : phase[r] = "row"} IN
    /\ server = "row"
    /\ server' = "gone"
    /\ phase' = [r \in Rules |-> IF r \in rules THEN "gone" ELSE phase[r]]
    /\ latest' = [src \in Sources |-> None]
    /\ events' = events \ Orphaned(rules)
    /\ UNCHANGED <<now, config, last, raised, owed, enqueued, refused, handler,
                   resolver, crashes>>

----------------------------------------------------------------------------
(* A metric request. *)

\* verify_api_key opens the transaction whose start is the collected_at (and
\* created_at) default of the samples.
Begin(h, payload) ==
    /\ server = "row"
    /\ handler[h].pc = "idle"
    /\ now < MaxTime
    /\ now' = now + 1
    /\ handler' = [handler EXCEPT ![h] =
                      [IdleHandler EXCEPT !.pc = "begun", !.at = now + 1,
                                          !.todo = payload]]
    /\ UNCHANGED <<server, phase, config, last, latest, events, raised, owed,
                   enqueued, refused, resolver, crashes>>

\* Variant: the latest sample is the one stored last.
NewestStored(at, items) ==
    [src \in Sources |->
        LET own == {s \in Range(items) : s.src = src} IN
        IF own = {} THEN latest[src]
        ELSE [at |-> at, val |-> (CHOOSE s \in own : TRUE).val]]

\* The stored samples with the latest collected_at once the items are in.
Newest(at, items) ==
    [src \in Sources |->
        LET own == {s \in Range(items) : s.src = src} IN
        IF own = {} \/ (latest[src] # None /\ latest[src].at > at)
        THEN latest[src]
        ELSE [at |-> at, val |-> (CHOOSE s \in own : TRUE).val]]

\* The first commit: the samples are visible before any rule is evaluated.  Once
\* the server is deleted the commit fails, and the request with it.
StoreSamples(h) ==
    /\ handler[h].pc = "begun"
    /\ \/ /\ server = "row"
          /\ latest' = Newest(handler[h].at, handler[h].todo)
          /\ handler' = [handler EXCEPT ![h].pc = "stored"]
       \/ /\ server = "gone"
          /\ handler' = [handler EXCEPT ![h] = IdleHandler]
          /\ UNCHANGED latest
    /\ UNCHANGED <<now, server, phase, config, last, events, raised, owed, enqueued,
                   refused, resolver, crashes>>

\* The rules that fire on a sample, as the rows stand when they are read.
Fired(item, time) ==
    {r \in Rules : /\ phase[r] = "row"
                   /\ Applies(config[r], item.src)
                   /\ Breaches(item.val, config[r])
                   /\ ~Cooling(r, time)}

\* rule.notification_channels, read with the rules; expire_on_commit is off, so it is
\* what the handler uses after the commit.
ChannelsOf(rules) == [r \in Rules |-> IF r \in rules THEN config[r].channels ELSE {}]

\* One sample's rules are read and decided on; without a hit the next sample is up.
EvaluateRules(h) ==
    LET item == Head(handler[h].todo)
        fired == Fired(item, now)
    IN  /\ handler[h].pc = "stored"
        /\ handler[h].todo # <<>>
        /\ \/ fired = {} /\ handler' = [handler EXCEPT ![h].todo = Tail(@)]
           \/ fired # {} /\ handler' = [handler EXCEPT ![h].pc = "fired",
                                            ![h].fired = fired, ![h].time = now,
                                            ![h].via = ChannelsOf(fired)]
        /\ UNCHANGED <<now, server, phase, config, last, latest, events, raised,
                       owed, enqueued, refused, resolver, crashes>>

NewEvents(h) ==
    {[rule |-> r, src |-> Head(handler[h].todo).src, at |-> handler[h].at,
      time |-> handler[h].time, closed |-> None] : r \in handler[h].fired}

\* Variant: no foreign key, and an UPDATE that does not mind matching no row.
CommittableAnyway(h) == TRUE

\* Every rule that fired still has its row.
Committable(h) == \A r \in handler[h].fired : phase[r] = "row"

\* Variant: last_triggered_at is not written.
StampedNever(h) == last

\* Variant: last_triggered_at holds the end of the cooldown.
StampedAhead(h) ==
    [r \in Rules |-> IF r \in handler[h].fired THEN handler[h].time + Cooldown
                     ELSE last[r]]

\* rule.last_triggered_at = now, for the rules that fired.
Stamped(h) ==
    [r \in Rules |-> IF r \in handler[h].fired THEN handler[h].time ELSE last[r]]

\* The commit of the events and of last_triggered_at.  If a rule is gone by
\* now it fails; the handler's "except" swallows that, and with it the events
\* of the other rules and the samples not yet evaluated.
CommitEvents(h) ==
    /\ handler[h].pc = "fired"
    /\ \/ /\ Committable(h)
          /\ events' = events \cup NewEvents(h)
          /\ raised' = raised \cup {IdOf(e) : e \in NewEvents(h)}
          /\ owed' = owed \cup UNION {Notices(IdOf(e), handler[h].via[e.rule]) :
                                       e \in NewEvents(h)}
          /\ last' = Stamped(h)
          /\ handler' = [handler EXCEPT ![h] =
                            [@ EXCEPT !.pc = "notify", !.fired = {},
                                      !.made = {IdOf(e) : e \in NewEvents(h)}]]
       \/ /\ ~Committable(h)
          /\ handler' = [handler EXCEPT ![h] = IdleHandler]
          /\ UNCHANGED <<events, raised, owed, last>>
    /\ UNCHANGED <<now, server, phase, config, latest, enqueued, refused, resolver,
                   crashes>>

\* The row of an event this handler committed is still there.
Refreshable(id) == \E e \in events : IdOf(e) = id

\* Variant: the channels of the rule as it stands after the commit.
ViaNow(h, id) == config[id.rule].channels

\* The channels an event is sent on, as read at the evaluation.
Via(h, id) == handler[h].via[id.rule]

\* _enqueue_notifications: one .delay per channel, Telegram first.  The "except"
\* swallows a broker's failure, which leaves out the channels not yet reached.
Enqueue(h, id) ==
    LET channels == Via(h, id) IN
    \/ /\ enqueued' = enqueued \cup Notices(id, channels)
       /\ UNCHANGED refused
    \/ /\ channels # {}
       /\ Cardinality(refused) < MaxRefusals
       /\ \E reached \in {{}, channels \cap {"telegram"}, channels} :
             enqueued' = enqueued \cup Notices(id, reached)
       /\ refused' = refused \cup {id}

\* db.refresh and _enqueue_notifications, one event at a time; refreshing an
\* event that was deleted meanwhile raises and ends the evaluation.
EnqueueEvent(h) ==
    /\ handler[h].pc = "notify"
    /\ \/ \E id \in handler[h].made :
            IF Refreshable(id)
            THEN /\ Enqueue(h, id)
                 /\ handler' = [handler EXCEPT ![h].made = @ \ {id}]
            ELSE /\ handler' = [handler EXCEPT ![h] = IdleHandler]
                 /\ UNCHANGED <<enqueued, refused>>
       \/ /\ handler[h].made = {}
          /\ handler' = [handler EXCEPT ![h].pc = "stored", ![h].todo = Tail(@),
                                        ![h].via = ChannelsOf({})]
          /\ UNCHANGED <<enqueued, refused>>
    /\ UNCHANGED <<now, server, phase, config, last, latest, events, raised, owed,
                   resolver, crashes>>

\* Every sample is evaluated; what is left is the best-effort publication.
Finish(h) ==
    /\ handler[h].pc = "stored"
    /\ handler[h].todo = <<>>
    /\ handler' = [handler EXCEPT ![h] = IdleHandler]
    /\ UNCHANGED <<now, server, phase, config, last, latest, events, raised, owed,
                   enqueued, refused, resolver, crashes>>

\* The app dies, or the database fails the handler's statement.
CrashHandler(h) ==
    /\ handler[h].pc # "idle"
    /\ crashes < MaxCrashes
    /\ handler' = [handler EXCEPT ![h] = IdleHandler]
    /\ crashes' = crashes + 1
    /\ UNCHANGED <<now, server, phase, config, last, latest, events, raised, owed,
                   enqueued, refused, resolver>>

----------------------------------------------------------------------------
(* task_resolve_alerts: the system pass, then the docker pass.              *)

\* Variant: only the events of the container the rule names.
OpenRowsNamed(kind) ==
    {[id |-> IdOf(e), config |-> config[e.rule]] :
        e \in {x \in events : /\ x.closed = None
                              /\ config[x.rule].kind = kind
                              /\ kind = "docker" => x.src = config[x.rule].container}}

\* The SELECT of the open events with their rules, as the rows stand.
OpenRows(kind) ==
    {[id |-> IdOf(e), config |-> config[e.rule]] :
        e \in {x \in events : /\ x.closed = None
                              /\ config[x.rule].kind = kind
                              /\ kind = "docker" => x.src # Host}}

ReadOpen(x, kind, from) ==
    /\ resolver[x].pc = from
    /\ resolver' = [resolver EXCEPT ![x] =
                       [IdleResolver EXCEPT !.pc = kind, !.rows = OpenRows(kind)]]
    /\ UNCHANGED <<now, server, phase, config, last, latest, events, raised, owed,
                   enqueued, refused, handler, crashes>>

\* The metric series a pass compares an event with.
SeriesOf(x, id) == IF resolver[x].pc = "system" THEN Host ELSE id.src

\* One row: the latest sample of its series is read once per pass.
Examine(x) ==
    /\ resolver[x].pc \in Kinds
    /\ \E row \in resolver[x].rows :
         LET src    == SeriesOf(x, row.id)
             cache  == resolver[x].cache
             sample == IF src \in DOMAIN cache THEN cache[src] ELSE latest[src]
             settled == sample # None /\ Settles(sample.val, row.config)
         IN  resolver' = [resolver EXCEPT
                 ![x].rows = @ \ {row},
                 ![x].cache = [y \in DOMAIN cache \cup {src} |->
                                  IF y = src THEN sample ELSE cache[y]],
                 ![x].done = IF settled
                             THEN @ \cup {[id |-> row.id,
                                           by |-> [src |-> src, at |-> sample.at]]}
                             ELSE @]
    /\ UNCHANGED <<now, server, phase, config, last, latest, events, raised, owed,
                   enqueued, refused, handler, crashes>>

\* The ids of the events a pass writes.
Marked(x) == {d.id : d \in resolver[x].done}

\* Variant: writing an event that is closed reopens it.
Toggled(x, e) ==
    IF IdOf(e) \in Marked(x)
    THEN [e EXCEPT !.closed = IF e.closed = None
                              THEN (CHOOSE d \in resolver[x].done : d.id = IdOf(e)).by
                              ELSE None]
    ELSE e

\* The UPDATE names an event by its id alone: an event that another execution closed
\* meanwhile gets its resolved_at rewritten.
ClosedBy(x, e) ==
    IF IdOf(e) \in Marked(x)
    THEN [e EXCEPT !.closed = (CHOOSE d \in resolver[x].done : d.id = IdOf(e)).by]
    ELSE e

\* The rows of all the events to be closed are still there.
RowsRemain(x) == Marked(x) \subseteq {IdOf(e) : e \in events}

\* The commit of resolved_at.  Where an event was deleted meanwhile the UPDATE matches
\* too few rows: that fails the pass and the task with it, unless several events are
\* updated in one batch, for which asyncpg reports no row count.
CommitResolved(x) ==
    /\ resolver[x].pc \in Kinds
    /\ resolver[x].rows = {}
    /\ \/ /\ RowsRemain(x) \/ Cardinality(Marked(x)) > 1
          /\ events' = {ClosedBy(x, e) : e \in events}
          /\ resolver' = [resolver EXCEPT ![x] = [IdleResolver EXCEPT !.pc =
                             IF resolver[x].pc = "system" THEN "between" ELSE "idle"]]
       \/ /\ ~RowsRemain(x)
          /\ resolver' = [resolver EXCEPT ![x] = IdleResolver]
          /\ UNCHANGED events
    /\ UNCHANGED <<now, server, phase, config, last, latest, raised, owed, enqueued,
                   refused, handler, crashes>>

CrashResolver(x) ==
    /\ resolver[x].pc # "idle"
    /\ crashes < MaxCrashes
    /\ resolver' = [resolver EXCEPT ![x] = IdleResolver]
    /\ crashes' = crashes + 1
    /\ UNCHANGED <<now, server, phase, config, last, latest, events, raised, owed,
                   enqueued, refused, handler>>

----------------------------------------------------------------------------
HandlerStep(h) ==
    \/ StoreSamples(h)
    \/ EvaluateRules(h)
    \/ CommitEvents(h)
    \/ EnqueueEvent(h)
    \/ Finish(h)

ResolverStep(x) ==
    \/ ReadOpen(x, "system", "idle")
    \/ ReadOpen(x, "docker", "between")
    \/ Examine(x)
    \/ CommitResolved(x)

Next ==
    \/ Tick
    \/ \E r \in Rules, c \in Configs : CreateRule(r, c) \/ UpdateRule(r, c)
    \/ \E r \in Rules : DeleteRule(r)
    \/ DeleteServer
    \/ \E h \in Handlers, p \in Payloads : Begin(h, p)
    \/ \E h \in Handlers : HandlerStep(h) \/ CrashHandler(h)
    \/ \E x \in Executions : ResolverStep(x) \/ CrashResolver(x)

Spec == Init /\ [][Next]_vars

\* Beat keeps starting the task, its steps and the handlers' proceed, and time
\* passes.  No request and no user command is fair.
FairSpec ==
    /\ Spec
    /\ \A x \in Executions : WF_vars(ResolverStep(x))
    /\ \A h \in Handlers : WF_vars(HandlerStep(h))
    /\ WF_vars(Tick)

----------------------------------------------------------------------------
(* Properties. *)

Times == 0 .. MaxTime
FiniteIds == [rule : Rules, src : Sources, at : Times]
Notice == [event : FiniteIds, channel : Channels]
Stamp == [src : Sources, at : Times]
Readings == [at : Times, val : Values] \cup {None}
EventRows == [rule : Rules, src : Sources, at : Times, time : Times,
              closed : Stamp \cup {None}]

\* The type invariant.
TypeOK ==
    /\ now \in Times
    /\ server \in {"row", "gone"}
    /\ phase \in [Rules -> {"new", "row", "gone"}]
    /\ config \in [Rules -> Configs]
    /\ last \in [Rules -> Times \cup {None}]
    /\ latest \in [Sources -> Readings]
    /\ events \subseteq EventRows
    /\ raised \subseteq FiniteIds /\ refused \subseteq FiniteIds
    /\ owed \subseteq Notice /\ enqueued \subseteq Notice
    /\ handler \in [Handlers ->
           [pc : {"idle", "begun", "stored", "fired", "notify"}, at : Times,
            todo : Seq(Sample), fired : SUBSET Rules, time : Times,
            via : [Rules -> SUBSET Channels], made : SUBSET FiniteIds]]
    /\ resolver \in [Executions ->
           [pc : {"idle", "system", "between", "docker"},
            rows : SUBSET [id : FiniteIds, config : Configs],
            cache : UNION {[D -> Readings] : D \in SUBSET Sources},
            done : SUBSET [id : FiniteIds, by : Stamp]]]
    /\ crashes \in 0 .. MaxCrashes

\* alert_events.rule_id references an existing rule: an evaluation that raced
\* with the deletion of its rule has left no event behind.
EventsHaveRules == \A e \in events : phase[e.rule] = "row"

\* alert_resolver.py:40-66: an event is never closed on a sample of its own
\* series that is older than the sample that raised it, although the resolver
\* reads the events and the samples in different statements, requests commit
\* out of order, and an overlapping execution closes it a second time.
ClosedOnFresherSample ==
    \A e \in events :
        e.closed # None /\ e.closed.src = e.src => e.closed.at >= e.at

\* threshold.py:72-76: two events of a rule are at least the cooldown apart.
\* It holds for one request at a time, over all the containers of a payload.
CooldownHolds ==
    \A e, f \in events : e # f /\ e.rule = f.rule =>
        e.time - f.time >= Cooldown \/ f.time - e.time >= Cooldown

\* Alerts implements the promise made in Incidents, through every race, failed
\* commit, crash and broker failure, and through the deletion of the server.
Promise == INSTANCE Incidents WITH
    open <- {IdOf(e) : e \in {x \in events : x.closed = None}},
    closed <- {IdOf(e) : e \in {x \in events : x.closed # None}},
    deleted <- {r \in Rules : phase[r] = "gone"},
    announced <- enqueued

KeepsPromise == Promise!IncidentSpec

\* threshold.py:13-28, 93-98: as long as nothing crashes and neither a rule nor the
\* server is deleted, every notice an event was recorded with, on the channels its rule
\* had at the evaluation, is in the queue or still with the request that recorded it.
\* A broker that fails costs the notices of the event it fails on, and of no other.
NothingFailed == crashes = 0 /\ \A r \in Rules : phase[r] # "gone"

NoticesAccounted ==
    NothingFailed => \A n \in owed :
        \/ n \in enqueued
        \/ n.event \in refused
        \/ \E h \in Handlers : n.event \in handler[h].made

OpenIn(id) == \E e \in events : IdOf(e) = id /\ e.closed = None

\* The latest sample of the event's series no longer breaches its rule.
Settled(id) ==
    latest[id.src] # None /\ Settles(latest[id.src].val, config[id.rule])

\* README.md:161, for a rule that still watches the kind of series that raised
\* the event: while the latest sample does not breach, the event gets closed.
SettledEventsClose ==
    \A id \in FiniteIds :
        LET due == /\ OpenIn(id) /\ Settled(id)
                   /\ config[id.rule].kind = KindOf(id.src)
        IN  due ~> ~due

\* tests/test_threshold.py:212: a rule without container_name applies to every
\* container: one that breaches is passed over only if an event of that very
\* container is younger than the cooldown.
AppliesToEveryContainer ==
    [][\A h \in Handlers, r \in Rules :
         LET item == Head(handler[h].todo) IN
         (/\ handler[h].pc = "stored" /\ handler[h].todo # <<>>
          /\ handler'[h].todo = Tail(handler[h].todo)
          /\ phase[r] = "row" /\ Applies(config[r], item.src)
          /\ Breaches(item.val, config[r]))
         => \E e \in events : /\ e.rule = r /\ e.src = item.src
                              /\ now - e.time < Cooldown]_vars
=============================================================================
