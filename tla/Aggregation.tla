------------------------------ MODULE Aggregation ------------------------------
(***************************************************************************)
(* The aggregation tasks of one period: a pass over all servers that reads *)
(* the samples of the last complete window and writes one row per server   *)
(* and series, the host's first and then one per container.                *)
(*                                                                         *)
(* Passes may run late and at the same time: beat sends a task per period  *)
(* whether or not a worker is there.  A pass keeps one database session;   *)
(* a row it wrote and did not commit is locked, and a statement that fails *)
(* leaves the session's transaction aborted.  An aggregate is modelled by  *)
(* the set of requests whose samples it was computed from.                 *)
(***************************************************************************)
EXTENDS Windows, FiniteSets

CONSTANTS
    Servers,      \* servers registered at the start
    Containers,   \* container names
    Passes,       \* executions of the task that may run at once
    Width,        \* length of the period
    MaxTime,      \* bound on the clock
    MaxPosts,     \* bound on the metric requests
    MaxStarts     \* bound on the executions

ASSUME ConstantsAssumption ==
    /\ Width \in Nat \ {0} /\ MaxTime \in Nat /\ MaxPosts \in Nat
    /\ MaxStarts \in Nat
    /\ "host" \notin Containers
    /\ IsFiniteSet(Servers) /\ IsFiniteSet(Containers)

VARIABLES
    now,
    servers,      \* rows of servers
    posts,        \* metric requests so far: number, server, series, time, committed
    agg,          \* rows of metric_aggregates and docker_aggregates, by key
    pass,         \* the executions
    starts,       \* executions started so far
    overlapped    \* history: two executions have had the same window at once

vars == <<now, servers, posts, agg, pass, starts, overlapped>>

Series == {"host"} \cup Containers
Starts == {k * Width : k \in 0 .. MaxTime \div Width - 1}
Keys == Servers \X Series \X Starts

\* dirty are the rows written and not committed.  Histories: due, the requests
\* whose samples were there at the start; served, the servers gone through.
Idle == [pc |-> "idle", start |-> 0, todo |-> {}, server |-> {}, names |-> {},
         series |-> {}, read |-> {}, dirty |-> {}, aborted |-> FALSE,
         due |-> {}, served |-> {}]
Busy(p) == pass[p].pc # "idle"
At(p, pc) == pass[p].pc = pc

Init ==
    /\ now = 0
    /\ servers = Servers
    /\ posts = {}
    /\ agg = [k \in Keys |-> {}]
    /\ pass = [p \in Passes |-> Idle]
    /\ starts = 0
    /\ overlapped = FALSE

----------------------------------------------------------------------------
(* Metric requests and the owner. *)

Tick ==
    /\ now < MaxTime
    /\ now' = now + 1
    /\ UNCHANGED <<servers, posts, agg, pass, starts, overlapped>>

\* collected_at is the instant the transaction begins.  submit_metric stores a
\* sample of the host, submit_docker_metrics one of each container it lists.
Post(s) ==
    /\ Cardinality(posts) < MaxPosts
    /\ s \in servers
    /\ \E what \in {{"host"}} \cup (SUBSET Containers \ {{}}) :
         posts' = posts \cup {[n |-> Cardinality(posts) + 1, server |-> s,
                               series |-> what, at |-> now, stored |-> FALSE]}
    /\ UNCHANGED <<now, servers, agg, pass, starts, overlapped>>

CommitPost(r) ==
    /\ ~r.stored
    /\ r.server \in servers
    /\ posts' = (posts \ {r}) \cup {[r EXCEPT !.stored = TRUE]}
    /\ UNCHANGED <<now, servers, agg, pass, starts, overlapped>>

\* Samples and aggregates go with the server.  Uncommitted aggregates have the
\* row locked against it.
DeleteServer(s) ==
    /\ s \in servers
    /\ \A p \in Passes : pass[p].dirty # {} => pass[p].server # {s}
    /\ servers' = servers \ {s}
    /\ posts' = {[r EXCEPT !.stored = @ /\ r.server # s] : r \in posts}
    /\ agg' = [k \in Keys |-> IF k[1] = s THEN {} ELSE agg[k]]
    /\ UNCHANGED <<now, pass, starts, overlapped>>

----------------------------------------------------------------------------
(* An execution. *)

\* The stored samples of a server's series in a window.
InWindow(s, x, start) ==
    {r.n : r \in {q \in posts : /\ q.stored /\ q.server = s /\ x \in q.series
                                /\ Inside(q.at, start, Width)}}

Window(t) == LastComplete(t, Width)

\* The window is computed and SELECT servers.id executed.
Start(p) ==
    /\ ~Busy(p)
    /\ starts < MaxStarts
    /\ now >= Width
    /\ starts' = starts + 1
    /\ LET start == Window(now)
       IN  /\ pass' = [pass EXCEPT ![p] = [Idle EXCEPT
                !.pc = "next", !.start = start, !.todo = servers,
                !.due = UNION {InWindow(s, x, start) : s \in servers, x \in Series}]]
           /\ overlapped' = (overlapped \/ \E q \in Passes : Busy(q) /\ pass[q].start = start)
    /\ UNCHANGED <<now, servers, posts, agg>>

Unchanged == UNCHANGED <<now, servers, posts, starts, overlapped>>

\* Only one server per execution in the loop.
This(p) == CHOOSE s \in Servers : pass[p].server = {s}

\* The next server of the list, which has no order, and its samples of the host.
NextServer(p) ==
    /\ At(p, "next")
    /\ \E s \in pass[p].todo :
         LET found == InWindow(s, "host", pass[p].start)
         IN  pass' = IF pass[p].aborted THEN [pass EXCEPT ![p].todo = @ \ {s}]
                     ELSE [pass EXCEPT
                        ![p].todo = @ \ {s}, ![p].server = {s}, ![p].read = found,
                        ![p].pc = IF found = {} THEN "containers" ELSE "write system"]
    /\ UNCHANGED agg /\ Unchanged

End(p) ==
    /\ At(p, "next")
    /\ pass[p].todo = {}
    /\ pass' = [pass EXCEPT ![p] = Idle]
    /\ UNCHANGED agg /\ Unchanged

Left(p) == [pass[p] EXCEPT !.pc = "next", !.server = {}, !.names = {},
                          !.series = {}, !.read = {}, !.dirty = {}]

\* Variant: the server is put back on the list.
FailRetrying(p) ==
    pass' = [pass EXCEPT ![p] = [Left(p) EXCEPT !.todo = @ \cup pass[p].server]]

\* A statement raised.  The exception is logged and the loop continues, but nobody
\* rolls back: every later statement of the session is refused.
Fail(p) == pass' = [pass EXCEPT ![p] = [Left(p) EXCEPT !.aborted = TRUE]]

\* Variant: only the samples not counted yet.
Uncounted(old, new) == new \ old
\* Variant: ON CONFLICT DO NOTHING.
Insert(old, new) == IF old = {} THEN new ELSE old
\* ON CONFLICT DO UPDATE: the row is replaced.
Upsert(old, new) == new

\* The upsert and its commit; without the server, a foreign key error.
WriteSystem(p) ==
    /\ At(p, "write system")
    /\ \/ /\ This(p) \in servers
          /\ agg' = [agg EXCEPT ![<<This(p), "host", pass[p].start>>] =
                                    Upsert(@, pass[p].read)]
          /\ pass' = [pass EXCEPT ![p].pc = "containers", ![p].read = {}]
       \/ This(p) \notin servers /\ Fail(p) /\ UNCHANGED agg
    /\ Unchanged

\* Nothing of the server is left to do.
Served(p) ==
    [pass EXCEPT ![p] = [Left(p) EXCEPT !.served = @ \cup pass[p].server]]

ListContainers(p) ==
    /\ At(p, "containers")
    /\ LET found == {x \in Containers : InWindow(This(p), x, pass[p].start) # {}}
       IN  pass' = IF found = {} THEN Served(p)
                   ELSE [pass EXCEPT ![p].pc = "docker", ![p].names = found]
    /\ UNCHANGED agg /\ Unchanged

\* One of the containers that are left, in no order.
ReadDocker(p) ==
    /\ At(p, "docker")
    /\ \E x \in pass[p].names :
         LET found == InWindow(This(p), x, pass[p].start)
         IN  pass' = [pass EXCEPT
                ![p].names = @ \ {x}, ![p].read = found,
                ![p].series = IF found = {} THEN {} ELSE {x},
                ![p].pc = IF found = {} THEN "docker" ELSE "write docker"]
    /\ UNCHANGED agg /\ Unchanged

\* The row that p wants to write is one that q has not committed.
WaitsFor(p, q) ==
    /\ p # q
    /\ At(p, "write docker")
    /\ pass[q].server = pass[p].server /\ pass[q].start = pass[p].start
    /\ \E row \in pass[q].dirty : {row.series} = pass[p].series

WriteDocker(p) ==
    /\ At(p, "write docker")
    /\ ~ \E q \in Passes : WaitsFor(p, q)
    /\ \/ /\ This(p) \in servers
          /\ pass' = [pass EXCEPT
                ![p].dirty = @ \cup {[series |-> x, read |-> pass[p].read] :
                                     x \in pass[p].series},
                ![p].pc = "docker", ![p].series = {}, ![p].read = {}]
       \/ This(p) \notin servers /\ Fail(p)
    /\ UNCHANGED agg /\ Unchanged

\* Two executions that wait for each other: the database fails one of them.
BreakDeadlock(p) ==
    /\ \E q \in Passes : WaitsFor(p, q) /\ WaitsFor(q, p)
    /\ Fail(p)
    /\ UNCHANGED agg /\ Unchanged

CommitDocker(p) ==
    /\ At(p, "docker")
    /\ pass[p].names = {}
    /\ agg' = [k \in Keys |->
                 IF {k[1]} = pass[p].server /\ k[3] = pass[p].start
                    /\ \E row \in pass[p].dirty : row.series = k[2]
                 THEN Upsert(agg[k], (CHOOSE row \in pass[p].dirty :
                                        row.series = k[2]).read)
                 ELSE agg[k]]
    /\ pass' = Served(p)
    /\ Unchanged

\* The worker dies; the task was acknowledged and its transaction is rolled back.
Crash(p) ==
    /\ Busy(p)
    /\ pass' = [pass EXCEPT ![p] = Idle]
    /\ UNCHANGED <<now, servers, posts, agg, starts, overlapped>>

Step(p) ==
    \/ NextServer(p) \/ End(p) \/ WriteSystem(p)
    \/ ListContainers(p) \/ ReadDocker(p) \/ WriteDocker(p)
    \/ BreakDeadlock(p) \/ CommitDocker(p)

Next ==
    \/ Tick
    \/ \E s \in Servers : Post(s) \/ DeleteServer(s)
    \/ \E r \in posts : CommitPost(r)
    \/ \E p \in Passes : Start(p) \/ Step(p) \/ Crash(p)

Spec == Init /\ [][Next]_vars

----------------------------------------------------------------------------
(* Properties. *)

\* A row counts samples of its own server, series and window only, so that a sample
\* is never in two rows of a series; and a window is never written before it is
\* over.
RowsCountTheirWindow ==
    \A k \in Keys : \A r \in posts : r.n \in agg[k] =>
        /\ r.server = k[1] /\ k[2] \in r.series
        /\ r.at \div Width = k[3] \div Width
        /\ now >= k[3] + Width

\* What was stored when an execution began is in the rows of every server it has
\* gone through, whatever became of the servers after that: a failure takes the
\* servers that follow with it and none before.  Two executions for one window may
\* replace each other's rows.
ServedIsCounted ==
    ~overlapped => \A p \in Passes : At(p, "next") =>
        \A r \in posts : r.stored /\ r.n \in pass[p].due /\ r.server \in pass[p].served =>
            \A x \in r.series : r.n \in agg[<<r.server, x, pass[p].start>>]

\* A row never loses a sample it counted, although it is recomputed and replaced:
\* only the deletion of its server removes it.  Two executions for one window may
\* write an older reading over a newer one.
RowsOnlyGrow ==
    [][~overlapped' => \A k \in Keys :
          agg[k] \subseteq agg'[k] \/ k[1] \notin servers']_vars

\* What an execution has before it: the servers on its list, each with two
\* statements per container and three others, and the rest of the present one.
Work(p) ==
    LET containers == 2 * Cardinality(Containers)
        rest == CASE At(p, "next") -> 1
                  [] At(p, "write system") -> 4 + containers
                  [] At(p, "containers") -> 3 + containers
                  [] At(p, "write docker") -> 3 + 2 * Cardinality(pass[p].names)
                  [] At(p, "docker") -> 2 + 2 * Cardinality(pass[p].names)
    IN  IF Busy(p) THEN Cardinality(pass[p].todo) * (4 + containers) + rest ELSE 0

\* Every execution ends if the database answers: each statement brings it nearer to
\* its end, also one that fails, and two that wait for each other do not for long.
EveryStepNearsTheEnd ==
    [][\A p \in Passes : Busy(p) /\ pass'[p] # pass[p] => Work(p)' < Work(p)]_vars
=============================================================================
