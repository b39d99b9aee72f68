------------------------------ MODULE LogIngest ------------------------------
(***************************************************************************)
(* The log stream of one agent: its WebSocket handler, which buffers each  *)
(* line and broadcasts it to the dashboards, the handler's periodic flush, *)
(* and the registry of dashboards.                                         *)
(*                                                                         *)
(* Everything runs on one asyncio loop, so a coroutine yields only at an   *)
(* await: sending to a dashboard, committing a batch, waiting for          *)
(* flush_lock, receiving.  The two coroutines of the handler share the     *)
(* buffer and one database session.                                        *)
(***************************************************************************)
EXTENDS Integers, Sequences, Functions

CONSTANTS
    BatchSize,    \* LOG_BATCH_MAX_SIZE
    Dashboards,   \* the dashboard sockets, each connecting at most once
    MaxLines,     \* bound on the lines of the connection
    MaxFailures   \* bound on the database failures explored

ASSUME ConstantsAssumption ==
    /\ BatchSize \in Nat \ {0}
    /\ MaxLines \in Nat
    /\ MaxFailures \in Nat

VARIABLES
    received,     \* lines received so far; they are numbered in this order
    buffer,       \* the lines waiting to be stored
    receiver,     \* where the handler's receive loop stands
    flusher,      \* where its periodic flush stands
    batch,        \* the lines whose commit each coroutine has under way
    rows,         \* table "logs", in the order of the ids
    lost,         \* history: the lines that will never be in the table
    pruned,       \* history: the lines that grew too old for the table
    stale,        \* a rollback has expired the session's Server object
    cut,          \* a commit was cancelled half-way
    server,       \* the server's row exists
    failures,
    subs,         \* manager._subscribers of the server
    dash,         \* [Dashboards -> "new" | "open" | "gone" | "left"]
    shown,        \* the lines each dashboard has received
    targets,      \* the dashboards the current line has still to be sent to
    failed        \* those a send of the current line has failed on

store == <<rows, lost, pruned, stale, cut, server, failures>>
session == <<buffer, batch, store>>
sockets == <<subs, dash, shown>>
broadcast == <<targets, failed>>
vars == <<received, receiver, flusher, session, sockets, broadcast>>

Lines == 1 .. MaxLines
Coroutines == {"receiver", "flusher"}

Init ==
    /\ received = 0
    /\ buffer = <<>>
    /\ batch = [who \in Coroutines |-> <<>>]
    /\ receiver = "waiting"
    /\ flusher = "asleep"
    /\ rows = <<>> /\ lost = {} /\ pruned = {}
    /\ stale = FALSE /\ cut = FALSE /\ server = TRUE
    /\ failures = 0
    /\ subs = {} /\ targets = {} /\ failed = {}
    /\ dash = [d \in Dashboards |-> "new"]
    /\ shown = [d \in Dashboards |-> <<>>]

----------------------------------------------------------------------------
(* The receive loop. *)

\* A line is buffered and its targets are snapshot.
Receive ==
    /\ receiver = "waiting"
    /\ received < MaxLines
    /\ ~stale
    /\ received' = received + 1
    /\ receiver' = "sending"
    /\ buffer' = Append(buffer, received')
    /\ targets' = subs
    /\ failed' = {}
    /\ UNCHANGED <<flusher, batch, store, sockets>>

\* Variant: the first failed send ends the broadcast.
SendAndStop(d) ==
    /\ receiver = "sending"
    /\ d \in targets
    /\ \/ /\ dash[d] = "open"
          /\ shown' = [shown EXCEPT ![d] = Append(@, received)]
          /\ targets' = targets \ {d}
          /\ UNCHANGED failed
       \/ /\ dash[d] # "open"
          /\ failed' = failed \cup {d}
          /\ targets' = {}
          /\ UNCHANGED shown
    /\ UNCHANGED <<received, receiver, flusher, session, subs, dash>>

\* One send_text.  To a socket whose client is gone it raises or, before the
\* server has noticed, goes nowhere.
Send(d) ==
    /\ receiver = "sending"
    /\ d \in targets
    /\ targets' = targets \ {d}
    /\ \/ /\ dash[d] = "open"
          /\ shown' = [shown EXCEPT ![d] = Append(@, received)]
          /\ UNCHANGED failed
       \/ /\ dash[d] # "open"
          /\ failed' \in {failed, failed \cup {d}}
          /\ UNCHANGED shown
    /\ UNCHANGED <<received, receiver, flusher, session, subs, dash>>

\* Variant: the buffer is flushed only once it has outgrown its maximum size.
EndBroadcastLate ==
    /\ receiver = "sending"
    /\ targets = {}
    /\ subs' = subs \ failed
    /\ receiver' = IF Len(buffer) > BatchSize THEN "flush" ELSE "waiting"
    /\ UNCHANGED <<received, flusher, session, dash, shown, broadcast>>

\* The sockets that failed are dropped; a full buffer is flushed.
EndBroadcast ==
    /\ receiver = "sending"
    /\ targets = {}
    /\ subs' = subs \ failed
    /\ receiver' = IF Len(buffer) >= BatchSize THEN "flush" ELSE "waiting"
    /\ UNCHANGED <<received, flusher, session, dash, shown, broadcast>>

----------------------------------------------------------------------------
(* flush, called by both coroutines; flush_lock is held during the commit. *)

\* Variant: no flush_lock.
LockIgnored == TRUE

LockFree == \A who \in Coroutines : batch[who] = <<>>

\* Variant: the buffer is not cleared.
ClearedNever == buffer

\* buffer.clear()
Cleared == <<>>

\* Variant: the periodic flush ends at its first empty buffer.
FlusherAfterEnding == IF buffer = <<>> THEN "ended" ELSE "asleep"

\* Where the periodic flush is after a flush.
FlusherAfter == "asleep"

\* flush returns to its caller; the one in "finally" is the handler's last act.
Return(who) ==
    IF who = "receiver"
    THEN /\ receiver' = IF receiver = "final" THEN "done" ELSE "waiting"
         /\ UNCHANGED flusher
    ELSE /\ flusher' = FlusherAfter
         /\ UNCHANGED receiver

Flushing(who) ==
    IF who = "receiver" THEN receiver \in {"flush", "final"} ELSE flusher = "flush"

\* The lock is taken; the buffer is copied and cleared before the commit starts.
BeginFlush(who) ==
    /\ Flushing(who)
    /\ batch[who] = <<>>
    /\ LockFree
    /\ IF buffer = <<>>
       THEN Return(who) /\ UNCHANGED <<buffer, batch>>
       ELSE /\ batch' = [batch EXCEPT ![who] = buffer]
            /\ buffer' = Cleared
            /\ UNCHANGED <<receiver, flusher>>
    /\ UNCHANGED <<received, store, sockets, broadcast>>

\* The batch gets its ids at the commit; without the server's row the foreign
\* key refuses it.
Commit(who) ==
    /\ server
    /\ rows' = rows \o batch[who]
    /\ UNCHANGED <<lost, stale, failures>>

\* The commit fails: rollback, and the batch is dropped.  After a cancelled
\* commit the session refuses its next use without the database's doing.
Fail(who) ==
    /\ lost' = lost \cup Range(batch[who])
    /\ stale' = TRUE
    /\ \/ (~server \/ cut) /\ UNCHANGED failures
       \/ failures < MaxFailures /\ failures' = failures + 1
    /\ UNCHANGED rows

FinishFlush(who) ==
    /\ batch[who] # <<>>
    /\ Commit(who) \/ Fail(who)
    /\ batch' = [batch EXCEPT ![who] = <<>>]
    /\ Return(who)
    /\ UNCHANGED <<received, buffer, pruned, cut, server, sockets, broadcast>>

\* asyncio.sleep(LOG_BATCH_MAX_AGE_SECONDS) is over.
WakeFlusher ==
    /\ flusher = "asleep"
    /\ flusher' = "flush"
    /\ UNCHANGED <<received, receiver, session, sockets, broadcast>>

\* finally: the periodic flush is cancelled, at its sleep, at the lock or in its
\* commit.  CancelledError passes the "except Exception" of flush, so the batch
\* is in the table only if the database had committed by then.  One more line
\* may have been dropped on the way here.
CloseDropping(lines) ==
    /\ receiver = "waiting"
    /\ receiver' = "final"
    /\ flusher' = "ended"
    /\ batch' = [batch EXCEPT !["flusher"] = <<>>]
    /\ \/ /\ batch["flusher"] = <<>>
          /\ lost' = lost \cup lines
          /\ UNCHANGED <<rows, cut>>
       \/ /\ batch["flusher"] # <<>>
          /\ cut' = TRUE
          /\ \/ /\ server
                /\ rows' = rows \o batch["flusher"]
                /\ lost' = lost \cup lines
             \/ /\ lost' = lost \cup lines \cup Range(batch["flusher"])
                /\ UNCHANGED rows
    /\ UNCHANGED <<buffer, pruned, stale, server, failures, sockets, broadcast>>

\* receive_text raises WebSocketDisconnect.
Disconnect == CloseDropping({}) /\ UNCHANGED received

\* A line arrives after a rollback has expired the Server object: reading
\* server.id raises, which ends the loop before the line is buffered.
ReceiveExpired ==
    /\ stale
    /\ received < MaxLines
    /\ received' = received + 1
    /\ CloseDropping({received'})

----------------------------------------------------------------------------
(* Around the handler. *)

\* accept, then manager.subscribe.
Subscribe(d) ==
    /\ dash[d] = "new"
    /\ dash' = [dash EXCEPT ![d] = "open"]
    /\ subs' = subs \cup {d}
    /\ UNCHANGED <<received, receiver, flusher, session, shown, broadcast>>

\* The client of a dashboard goes away.
Leave(d) ==
    /\ dash[d] = "open"
    /\ dash' = [dash EXCEPT ![d] = "gone"]
    /\ UNCHANGED <<received, receiver, flusher, session, subs, shown, broadcast>>

\* The handler notices and unsubscribes.
Unsubscribe(d) ==
    /\ dash[d] = "gone"
    /\ dash' = [dash EXCEPT ![d] = "left"]
    /\ subs' = subs \ {d}
    /\ UNCHANGED <<received, receiver, flusher, session, shown, broadcast>>

\* /delete <id> confirm: the server's lines go with it; the stream stays open.
DeleteServer ==
    /\ server
    /\ server' = FALSE
    /\ lost' = lost \cup Range(rows)
    /\ rows' = <<>>
    /\ UNCHANGED <<received, receiver, flusher, buffer, batch, pruned, stale, cut,
                   failures, sockets, broadcast>>

\* task_prune_old_logs: the rows created before an instant go.  Ids follow the times
\* of creation; that the rows of one batch have the same time is not looked at.
Prune ==
    \E n \in 1 .. Len(rows) :
        /\ rows' = SubSeq(rows, n + 1, Len(rows))
        /\ pruned' = pruned \cup {rows[i] : i \in 1 .. n}
        /\ UNCHANGED <<received, receiver, flusher, buffer, batch, lost, stale, cut,
                       server, failures, sockets, broadcast>>

----------------------------------------------------------------------------
FlushStep(who) == BeginFlush(who) \/ FinishFlush(who)

Next ==
    \/ Receive
    \/ \E d \in Dashboards : Send(d) \/ Subscribe(d) \/ Leave(d) \/ Unsubscribe(d)
    \/ EndBroadcast
    \/ Disconnect
    \/ ReceiveExpired
    \/ \E who \in Coroutines : FlushStep(who)
    \/ WakeFlusher
    \/ DeleteServer
    \/ Prune

Spec == Init /\ [][Next]_vars

\* Timers fire and commits end.  A send to a dashboard may hang for ever.
FairSpec ==
    /\ Spec
    /\ WF_vars(WakeFlusher)
    /\ \A who \in Coroutines : WF_vars(FlushStep(who))

----------------------------------------------------------------------------
(* Properties. *)

SeqUpTo(n) == UNION {[1 .. m -> Lines] : m \in 0 .. n}

\* The type invariant; no batch is larger than LOG_BATCH_MAX_SIZE.
TypeOK ==
    /\ received \in 0 .. MaxLines
    /\ buffer \in SeqUpTo(BatchSize)
    /\ batch \in [Coroutines -> SeqUpTo(BatchSize)]
    /\ receiver \in {"waiting", "sending", "flush", "final", "done"}
    /\ flusher \in {"asleep", "flush", "ended"}
    /\ rows \in Seq(Lines) /\ lost \subseteq Lines /\ pruned \subseteq Lines
    /\ stale \in BOOLEAN /\ cut \in BOOLEAN /\ server \in BOOLEAN
    /\ failures \in 0 .. MaxFailures
    /\ subs \subseteq Dashboards /\ targets \subseteq Dashboards
    /\ failed \subseteq Dashboards
    /\ dash \in [Dashboards -> {"new", "open", "gone", "left"}]
    /\ shown \in [Dashboards -> Seq(Lines)]

\* websocket.py:73: the lock keeps the two coroutines' batches in the order in
\* which the agent sent the lines; the table holds no line twice.
RowsInOrder == \A i, j \in DOMAIN rows : i < j => rows[i] < rows[j]

\* websocket.py:75-85: a line received is in the buffer, in one commit, in the
\* table, lost or too old, and in one of them only; it is lost only by a failed or
\* cancelled commit or with its server, and a line goes for its age only when every
\* older one has gone or was lost.
EveryLineAccounted ==
    LET places == <<Range(buffer), Range(batch["receiver"]), Range(batch["flusher"]),
                    Range(rows), lost, pruned>>
    IN  /\ UNION Range(places) = 1 .. received
        /\ \A i, j \in 1 .. 6 : i # j => places[i] \cap places[j] = {}
        /\ lost # {} => failures > 0 \/ cut \/ ~server
        /\ \A p \in pruned : 1 .. p \subseteq pruned \cup lost

\* connection_manager.py:36-46: a dashboard sees the lines in order and, while
\* it is connected, without a gap, whatever happens to the other dashboards.
ShownWithoutGaps ==
    \A d \in Dashboards : \A i \in 2 .. Len(shown[d]) :
        shown[d][i] = shown[d][i - 1] + 1

\* websocket.py:87-90: a buffered line is stored or dropped in the end, even if
\* a dashboard hangs and with it the receive loop.
BufferedLinesLeave ==
    \A i \in Lines : i \in Range(buffer) ~> i \notin Range(buffer)

\* README.md:180: the lines are saved, in batches; so a line is missing from the
\* table only if the database failed or the server was deleted.
LinesAreSaved == lost # {} => failures > 0 \/ ~server
=============================================================================
