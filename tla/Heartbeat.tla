------------------------------ MODULE Heartbeat ------------------------------
(***************************************************************************)
(* Server liveness in PulseWatch: the agents' metric requests, the Celery  *)
(* heartbeat task that flips servers.is_active, and the bot commands that  *)
(* pause, resume and delete a server.                                      *)
(*                                                                         *)
(* All of them share rows of the table "servers" under PostgreSQL READ     *)
(* COMMITTED.  A request authenticates in one statement and writes in a    *)
(* later one; the heartbeat task runs two UPDATEs in one transaction and   *)
(* enqueues the notifications after its commit.  A row an UPDATE has       *)
(* written stays locked until the commit: other writers of the row wait,   *)
(* readers still see the committed version.                                *)
(***************************************************************************)
EXTENDS Integers, FiniteSets

CONSTANTS
    Servers,      \* ids of table "servers"
    Requests,     \* slots for metric requests being handled at once
    Runs,         \* slots for executions of task_check_heartbeat at once
    Timeout,      \* timedelta(minutes=5), in ticks of the model's clock
    None,         \* SQL NULL of last_seen_at, and "no server"
    MaxTime,      \* bound on the clock
    MaxCrashes    \* bound on the worker and app crashes explored

ASSUME ConstantsAssumption ==
    /\ Timeout \in Nat \ {0}
    /\ MaxTime \in Nat
    /\ MaxCrashes \in Nat
    /\ None \notin Int
    /\ None \notin Servers

VARIABLES
    now,          \* the database and worker clock
    phase,        \* [Servers -> "new" | "row" | "gone"]: registered, deleted
    active,       \* servers.is_active
    paused,       \* servers.paused
    seen,         \* servers.last_seen_at
    req,          \* [Requests -> a metric request past verify_api_key, or idle]
    run,          \* [Runs -> an execution of _run_heartbeat_check, or idle]
    told,         \* [Servers -> the last notification enqueued for the owner]
    mark,         \* history: the last committed deactivation of each server
    crashes,
    overlapped    \* history: two executions of the task have overlapped

vars == <<now, phase, active, paused, seen, req, run, told, mark, crashes, overlapped>>

----------------------------------------------------------------------------
IdleReq == [pc |-> "idle", server |-> None, at |-> 0]
IdleRun == [pc |-> "idle", thr |-> 0, down |-> {}, up |-> {}]

Uncommitted == {"downed", "upped"}

\* Variant: the two UPDATEs replaced by SELECTs that lock nothing.
LocksNothing(h) == {}

\* The rows an uncommitted heartbeat transaction has written and so locks.
Locks(h) == IF run[h].pc \in Uncommitted THEN run[h].down \cup run[h].up ELSE {}

Locked(s) == \E h \in Runs : s \in Locks(h)

\* last_seen_at < t and last_seen_at >= t: both false of NULL.
SeenBefore(s, t) == seen[s] # None /\ seen[s] < t
SeenSince(s, t)  == seen[s] # None /\ seen[s] >= t

\* Variant: the first UPDATE without "paused == False".
SilentOrPaused(h) ==
    {s \in Servers : phase[s] = "row" /\ active[s] /\ SeenBefore(s, run[h].thr)}

\* Variant: the timeout subtracted twice.
SilentTooLate(h) ==
    {s \in Servers : /\ phase[s] = "row" /\ active[s] /\ ~paused[s]
                     /\ SeenBefore(s, run[h].thr - Timeout)}

\* Variant: the second UPDATE without its condition on last_seen_at.
ReturnedAnyway(h) ==
    {s \in Servers : phase[s] = "row" /\ ~paused[s] /\ ~active[s]}

\* The WHERE clause of the two UPDATEs; h sees its own uncommitted writes.
Silent(h) ==
    {s \in Servers : /\ phase[s] = "row" /\ active[s] /\ ~paused[s]
                     /\ SeenBefore(s, run[h].thr)}

Returned(h) ==
    {s \in Servers : /\ phase[s] = "row" /\ ~paused[s]
                     /\ ~active[s] \/ s \in run[h].down
                     /\ SeenSince(s, run[h].thr)}

----------------------------------------------------------------------------
Init ==
    /\ now = 0
    /\ phase = [s \in Servers |-> "new"]
    /\ active = [s \in Servers |-> TRUE]
    /\ paused = [s \in Servers |-> FALSE]
    /\ seen = [s \in Servers |-> None]
    /\ req = [q \in Requests |-> IdleReq]
    /\ run = [h \in Runs |-> IdleRun]
    /\ told = [s \in Servers |-> "nothing"]
    /\ mark = [s \in Servers |-> [thr |-> -Timeout, seen |-> None]]
    /\ crashes = 0
    /\ overlapped = FALSE

Tick ==
    /\ now < MaxTime
    /\ now' = now + 1
    /\ UNCHANGED <<phase, active, paused, seen, req, run, told, mark, crashes,
                   overlapped>>

\* POST /servers: a new row, is_active by default, never seen.
Register(s) ==
    /\ phase[s] = "new"
    /\ phase' = [phase EXCEPT ![s] = "row"]
    /\ UNCHANGED <<now, active, paused, seen, req, run, told, mark, crashes,
                   overlapped>>

\* Variant: verify_api_key without its is_active check.
AuthenticateInactive(q, s) ==
    /\ req[q].pc = "idle"
    /\ phase[s] = "row"
    /\ ~paused[s]
    /\ req' = [req EXCEPT ![q] = [pc |-> "authed", server |-> s, at |-> now]]
    /\ UNCHANGED <<now, phase, active, paused, seen, run, told, mark, crashes,
                   overlapped>>

\* verify_api_key and the paused check on the row it returned.  The row's
\* transaction starts here, so the func.now() of the later UPDATE is this time.
\* A 401 and the answer "paused" change nothing.
Authenticate(q, s) ==
    /\ req[q].pc = "idle"
    /\ phase[s] = "row"
    /\ active[s]
    /\ ~paused[s]
    /\ req' = [req EXCEPT ![q] = [pc |-> "authed", server |-> s, at |-> now]]
    /\ UNCHANGED <<now, phase, active, paused, seen, run, told, mark, crashes,
                   overlapped>>

\* An UPDATE of a servers row waits while a heartbeat transaction holds it.
RowFree(s) == ~Locked(s)

\* The UPDATE of last_seen_at and the commit; a deleted row fails the request.
CommitMetric(q) ==
    LET s == req[q].server IN
    /\ req[q].pc = "authed"
    /\ RowFree(s)
    /\ seen' = IF phase[s] = "row" THEN [seen EXCEPT ![s] = req[q].at] ELSE seen
    /\ req' = [req EXCEPT ![q] = IdleReq]
    /\ UNCHANGED <<now, phase, active, paused, run, told, mark, crashes,
                   overlapped>>

\* The app dies with the request in flight: its transaction is rolled back.
CrashRequest(q) ==
    /\ req[q].pc = "authed"
    /\ crashes < MaxCrashes
    /\ req' = [req EXCEPT ![q] = IdleReq]
    /\ crashes' = crashes + 1
    /\ UNCHANGED <<now, phase, active, paused, seen, run, told, mark, overlapped>>

\* /pause and /resume: nothing to do if the row already has the value.
SetPaused(s, value) ==
    /\ phase[s] = "row"
    /\ paused[s] # value
    /\ RowFree(s)
    /\ paused' = [paused EXCEPT ![s] = value]
    /\ UNCHANGED <<now, phase, active, seen, req, run, told, mark, crashes,
                   overlapped>>

\* /delete <id> confirm.
Delete(s) ==
    /\ phase[s] = "row"
    /\ RowFree(s)
    /\ phase' = [phase EXCEPT ![s] = "gone"]
    /\ UNCHANGED <<now, active, paused, seen, req, run, told, mark, crashes,
                   overlapped>>

----------------------------------------------------------------------------
(* task_check_heartbeat: beat enqueues it every 60 s; a backlog or a slow   *)
(* execution lets two of them overlap in the worker's processes.            *)

\* Variant: the timeout added instead of subtracted.
StartCheckAhead(h) ==
    /\ run[h].pc = "idle"
    /\ run' = [run EXCEPT ![h] = [pc |-> "started", thr |-> now + Timeout,
                                  down |-> {}, up |-> {}]]
    /\ overlapped' = (overlapped \/ \E g \in Runs : run[g].pc # "idle")
    /\ UNCHANGED <<now, phase, active, paused, seen, req, told, mark, crashes>>

StartCheck(h) ==
    /\ run[h].pc = "idle"
    /\ run' = [run EXCEPT ![h] = [pc |-> "started", thr |-> now - Timeout,
                                  down |-> {}, up |-> {}]]
    /\ overlapped' = (overlapped \/ \E g \in Runs : run[g].pc # "idle")
    /\ UNCHANGED <<now, phase, active, paused, seen, req, told, mark, crashes>>

\* First UPDATE ... RETURNING: waits for every matching row another holds.
MarkInactive(h) ==
    /\ run[h].pc = "started"
    /\ \A s \in Silent(h) : RowFree(s)
    /\ run' = [run EXCEPT ![h] = [@ EXCEPT !.pc = "downed", !.down = Silent(h)]]
    /\ UNCHANGED <<now, phase, active, paused, seen, req, told, mark, crashes,
                   overlapped>>

\* Second UPDATE ... RETURNING, in the same transaction.
MarkActive(h) ==
    /\ run[h].pc = "downed"
    /\ \A s \in Returned(h) : \A g \in Runs \ {h} : s \notin Locks(g)
    /\ run' = [run EXCEPT ![h] = [@ EXCEPT !.pc = "upped", !.up = Returned(h)]]
    /\ UNCHANGED <<now, phase, active, paused, seen, req, told, mark, crashes,
                   overlapped>>

\* The commit publishes both UPDATEs and releases the rows.
CommitCheck(h) ==
    /\ run[h].pc = "upped"
    /\ active' = [s \in Servers |-> IF s \in run[h].up THEN TRUE
                                    ELSE IF s \in run[h].down THEN FALSE
                                    ELSE active[s]]
    /\ mark' = [s \in Servers |-> IF s \in run[h].down
                                  THEN [thr |-> run[h].thr, seen |-> seen[s]]
                                  ELSE mark[s]]
    /\ run' = [run EXCEPT ![h].pc = "notify"]
    /\ UNCHANGED <<now, phase, paused, seen, req, told, crashes, overlapped>>

\* Variant: only the recoveries are enqueued.
EnqueueUpOnly(h) ==
    /\ run[h].pc = "notify"
    /\ \/ \E s \in run[h].up :
            /\ told' = [told EXCEPT ![s] = "up"]
            /\ run' = [run EXCEPT ![h].up = @ \ {s}]
       \/ /\ run[h].up = {}
          /\ run' = [run EXCEPT ![h] = IdleRun]
          /\ UNCHANGED told
    /\ UNCHANGED <<now, phase, active, paused, seen, req, mark, crashes,
                   overlapped>>

\* send_heartbeat_down.delay for each deactivated row, then
\* send_heartbeat_recovery.delay for each reactivated one.
Enqueue(h) ==
    /\ run[h].pc = "notify"
    /\ \/ \E s \in run[h].down :
            /\ told' = [told EXCEPT ![s] = "down"]
            /\ run' = [run EXCEPT ![h].down = @ \ {s}]
       \/ /\ run[h].down = {}
          /\ \E s \in run[h].up :
               /\ told' = [told EXCEPT ![s] = "up"]
               /\ run' = [run EXCEPT ![h].up = @ \ {s}]
       \/ /\ run[h].down = {} /\ run[h].up = {}
          /\ run' = [run EXCEPT ![h] = IdleRun]
          /\ UNCHANGED told
    /\ UNCHANGED <<now, phase, active, paused, seen, req, mark, crashes,
                   overlapped>>

\* The worker process dies: an open transaction is rolled back; after the
\* commit the notifications not yet enqueued are lost (the task is acked early).
CrashRun(h) ==
    /\ run[h].pc # "idle"
    /\ crashes < MaxCrashes
    /\ run' = [run EXCEPT ![h] = IdleRun]
    /\ crashes' = crashes + 1
    /\ UNCHANGED <<now, phase, active, paused, seen, req, told, mark, overlapped>>

----------------------------------------------------------------------------
RunStep(h) ==
    StartCheck(h) \/ MarkInactive(h) \/ MarkActive(h) \/ CommitCheck(h) \/ Enqueue(h)

Next ==
    \/ Tick
    \/ \E s \in Servers : Register(s) \/ Delete(s)
    \/ \E s \in Servers, v \in BOOLEAN : SetPaused(s, v)
    \/ \E q \in Requests, s \in Servers : Authenticate(q, s)
    \/ \E q \in Requests : CommitMetric(q) \/ CrashRequest(q)
    \/ \E h \in Runs : RunStep(h) \/ CrashRun(h)

Spec == Init /\ [][Next]_vars

\* Beat keeps starting the task and each execution proceeds; time passes; a
\* request in flight is answered.  No user command is fair.
FairSpec ==
    /\ Spec
    /\ WF_vars(Tick)
    /\ \A h \in Runs : WF_vars(RunStep(h))
    /\ \A q \in Requests : WF_vars(CommitMetric(q))

\* The agent also keeps posting: a slot that can take a request of s gets one.
AgentFairSpec ==
    /\ FairSpec
    /\ \A s \in Servers : SF_vars(\E q \in Requests : Authenticate(q, s))

----------------------------------------------------------------------------
(* Properties. *)

Times == 0 .. MaxTime

\* The type invariant.
TypeOK ==
    /\ now \in Times
    /\ phase \in [Servers -> {"new", "row", "gone"}]
    /\ active \in [Servers -> BOOLEAN]
    /\ paused \in [Servers -> BOOLEAN]
    /\ seen \in [Servers -> Times \cup {None}]
    /\ req \in [Requests -> [pc : {"idle", "authed"}, server : Servers \cup {None},
                             at : Times]]
    /\ \A q \in Requests : req[q].pc = "authed" => req[q].server \in Servers
    /\ run \in [Runs -> [pc : {"idle", "started", "downed", "upped", "notify"},
                         thr : -Timeout .. MaxTime,
                         down : SUBSET Servers, up : SUBSET Servers]]
    /\ told \in [Servers -> {"nothing", "down", "up"}]
    /\ mark \in [Servers -> [thr : -Timeout .. MaxTime, seen : Times \cup {None}]]
    /\ crashes \in 0 .. MaxCrashes
    /\ overlapped \in BOOLEAN

\* What an uncommitted heartbeat transaction has decided is still true of the
\* rows when it commits, whatever requests, bot commands and other executions
\* of the task do in between, and no two executions have decided on one row.
PendingMarksHold ==
    \A h \in Runs : run[h].pc \in Uncommitted =>
        /\ \A s \in run[h].down : /\ phase[s] = "row" /\ active[s] /\ ~paused[s]
                                  /\ SeenBefore(s, run[h].thr)
        /\ \A s \in run[h].up : /\ phase[s] = "row" /\ ~active[s] /\ ~paused[s]
                                /\ SeenSince(s, run[h].thr)
        /\ \A g \in Runs \ {h} : Locks(g) \cap Locks(h) = {}

\* heartbeat_tasks.py:31: the task takes no server down that is paused, that
\* never reported, or that reported within the last five minutes, as the row
\* stands at the moment the change becomes visible.
NoFalseDown ==
    [][\A s \in Servers : active[s] /\ ~active'[s] =>
           phase[s] = "row" /\ ~paused[s] /\ SeenBefore(s, now - Timeout)]_vars

\* heartbeat_tasks.py:45: as long as no two executions of the task overlapped,
\* a server is declared back only after a metric newer than the one it was
\* taken down for.
RecoveryNeedsMetric ==
    [][\A s \in Servers : ~overlapped /\ ~active[s] /\ active'[s] =>
           ~paused[s] /\ SeenSince(s, mark[s].seen + 1)]_vars

\* README.md:256: without a crash and without overlapping executions, whenever
\* no check is under way the last notification agrees with servers.is_active.
NoticesMatchStatus ==
    (crashes = 0 /\ ~overlapped /\ \A h \in Runs : run[h].pc = "idle") =>
        \A s \in Servers : active[s] <=> told[s] # "down"

\* s is down, no request of it passed verify_api_key before it went down, and
\* no execution of the task is about to bring it back.
LockedOut(s) ==
    /\ phase[s] = "row" /\ ~active[s] /\ SeenBefore(s, now - Timeout)
    /\ \A q \in Requests : req[q].server # s
    /\ \A h \in Runs :
         /\ run[h].pc \in Uncommitted => s \notin run[h].up
         /\ run[h].pc \in {"started", "downed"} => SeenBefore(s, run[h].thr)

\* deps.py:74: a deactivated server is refused, so nothing but a request that
\* was already past verify_api_key can bring it back: from a locked-out state
\* there is no way out except deletion.
LockedOutForGood ==
    [][\A s \in Servers : LockedOut(s) => LockedOut(s)' \/ phase'[s] = "gone"]_vars

\* heartbeat_tasks.py:33: a server whose last metric is older than the timeout
\* is eventually marked inactive, unless it reports, is paused or is deleted.
SilentGoesDown ==
    \A s \in Servers, t \in Times : t + Timeout < MaxTime =>
        (phase[s] = "row" /\ active[s] /\ ~paused[s] /\ seen[s] = t)
            ~> (~active[s] \/ paused[s] \/ phase[s] = "gone" \/ seen[s] # t)

\* README.md:256 and heartbeat_tasks.py:45: when metrics resume, the server is
\* back.  The agent keeps posting, so a server taken down should come back.
ReturnsWhenMetricsResume ==
    \A s \in Servers :
        (phase[s] = "row" /\ ~active[s])
            ~> (active[s] \/ paused[s] \/ phase[s] = "gone")
=============================================================================
