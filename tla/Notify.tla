-------------------------------- MODULE Notify --------------------------------
(***************************************************************************)
(* The notification tasks of one server: alert tasks, one per event and    *)
(* channel and retried, and heartbeat tasks, which serve both channels     *)
(* once.  Celery workers take them from the queue in Redis, acknowledged   *)
(* before they run.  The owner mutes and switches channels meanwhile, and  *)
(* a provider may accept a message although its answer is lost.            *)
(***************************************************************************)
EXTENDS Naturals, Sequences

CONSTANTS
    Workers,      \* processes of the Celery worker
    MaxRetries,   \* max_retries of an alert task
    MaxEvents,    \* bound on the alert events
    MaxNotices,   \* bound on the heartbeat notices
    MaxRaised,    \* bound on both together
    Deployments,  \* sets of channels that may be configured
    MaxChanges,   \* bound on what the owner changes
    MaxCrashes    \* bound on the tasks that die or raise something else

ASSUME ConstantsAssumption ==
    /\ MaxRetries \in Nat /\ MaxEvents \in Nat
    /\ MaxNotices \in Nat /\ MaxRaised \in Nat
    /\ MaxChanges \in Nat /\ MaxCrashes \in Nat
    /\ Deployments \subseteq SUBSET {"telegram", "email"}

Channels == {"telegram", "email"}

VARIABLES
    configured,   \* channels whose token or SMTP host is in the settings
    on,           \* channels the owner has linked or enabled
    muted,        \* keys mute:*
    gone,         \* kinds of job whose rows are deleted
    raised,       \* number of alert events, and of heartbeat notices
    queue,        \* the broker's list
    waiting,      \* alert jobs to be retried when their countdown is over
    worker,       \* what each worker process runs
    attempts,     \* sends of each message that were begun
    copies,       \* history: how often the provider accepted each message
    ended,        \* history: jobs that will not run again
    received,     \* history: the last notice that arrived on each channel
    changes,      \* mutes, switches and deletions so far
    overlapped,   \* history: two heartbeat tasks have run at the same time
    crashes

settings == <<configured, on, muted, gone>>
history == <<copies, ended, received>>
vars == <<settings, raised, queue, waiting, worker, attempts, history, changes,
          overlapped, crashes>>

Alert(e, ch) == [kind |-> "alert", n |-> e, ch |-> ch]
Heartbeat(n) == [kind |-> "heartbeat", n |-> n, ch |-> "telegram"]

\* A message is a notification on one channel; a heartbeat job has two.
Messages == [kind : {"alert"}, n : 1 .. MaxEvents, ch : Channels]
            \cup [kind : {"heartbeat"}, n : 1 .. MaxNotices, ch : Channels]
MessagesOf(job) == IF job.kind = "alert" THEN {job}
                   ELSE {[job EXCEPT !.ch = ch] : ch \in Channels}

\* job is the message being served, late the channels muted since it was taken.
Idle == [pc |-> "idle", job |-> Heartbeat(0), on |-> {}, late |-> {}]
Busy(w) == worker[w].pc # "idle"

Init ==
    /\ configured \in Deployments
    /\ on = Channels /\ muted = {} /\ gone = {}
    /\ raised = [alert |-> 0, heartbeat |-> 0]
    /\ queue = <<>> /\ waiting = {}
    /\ worker = [w \in Workers |-> Idle]
    /\ attempts = [m \in Messages |-> 0]
    /\ copies = [m \in Messages |-> 0]
    /\ ended = {} /\ received = [ch \in Channels |-> 0]
    /\ changes = 0 /\ overlapped = FALSE
    /\ crashes = 0

----------------------------------------------------------------------------
(* What enqueues: an evaluation and the heartbeat check. *)

\* One delay per channel of the rule, Telegram first; a broker that fails ends
\* the enqueueing, so any set of channels may result.
EnqueueAlert ==
    /\ raised.alert < MaxEvents /\ raised.alert + raised.heartbeat < MaxRaised
    /\ raised' = [raised EXCEPT !.alert = @ + 1]
    /\ \E chs \in SUBSET Channels :
         LET jobs(ch) == IF ch \in chs THEN <<Alert(raised'.alert, ch)>> ELSE <<>>
         IN  queue' = queue \o jobs("telegram") \o jobs("email")
    /\ UNCHANGED <<settings, waiting, worker, attempts, history, changes,
                   overlapped, crashes>>

EnqueueHeartbeat ==
    /\ raised.heartbeat < MaxNotices
    /\ raised.alert + raised.heartbeat < MaxRaised
    /\ raised' = [raised EXCEPT !.heartbeat = @ + 1]
    /\ queue' = Append(queue, Heartbeat(raised'.heartbeat))
    /\ UNCHANGED <<settings, waiting, worker, attempts, history, changes,
                   overlapped, crashes>>

----------------------------------------------------------------------------
(* The owner. *)

Change == changes < MaxChanges /\ changes' = changes + 1

Mute(ch) ==
    /\ muted' = muted \cup {ch}
    /\ worker' = [w \in Workers |->
                    IF Busy(w) THEN [worker[w] EXCEPT !.late = @ \cup {ch}]
                    ELSE worker[w]]
    /\ Change
    /\ UNCHANGED <<configured, on, gone, raised, queue, waiting, attempts, history,
                   overlapped, crashes>>

MuteExpires(ch) ==
    /\ ch \in muted
    /\ muted' = muted \ {ch}
    /\ UNCHANGED <<configured, on, gone, raised, queue, waiting, worker, attempts,
                   history, changes, overlapped, crashes>>

\* /start and PATCH /me/telegram, PATCH /me/email-alerts.
Switch(ch) ==
    /\ on' = IF ch \in on THEN on \ {ch} ELSE on \cup {ch}
    /\ Change
    /\ UNCHANGED <<configured, muted, gone, raised, queue, waiting, worker, attempts,
                   history, overlapped, crashes>>

\* A rule goes with its events, a server with its rules.
DeleteRows(kinds) ==
    /\ gone' = gone \cup kinds
    /\ Change
    /\ UNCHANGED <<configured, on, muted, raised, queue, waiting, worker, attempts,
                   history, overlapped, crashes>>

----------------------------------------------------------------------------
(* A worker process. *)

\* Variant: the newest job is taken.
TakeNewest(w) ==
    /\ ~Busy(w)
    /\ queue # <<>>
    /\ LET job == queue[Len(queue)]
       IN  /\ worker' = [worker EXCEPT ![w] = [Idle EXCEPT !.pc = "read", !.job = job]]
           /\ overlapped' = (overlapped \/ \E v \in Workers :
                Busy(v) /\ job.kind = "heartbeat" /\ worker[v].job.kind = "heartbeat")
    /\ queue' = SubSeq(queue, 1, Len(queue) - 1)
    /\ UNCHANGED <<settings, raised, waiting, attempts, history, changes, crashes>>

\* The job is acknowledged, so no other process will get it.
Take(w) ==
    /\ ~Busy(w)
    /\ queue # <<>>
    /\ LET job == Head(queue)
       IN  /\ worker' = [worker EXCEPT ![w] = [Idle EXCEPT !.pc = "read", !.job = job]]
           /\ overlapped' = (overlapped \/ \E v \in Workers :
                Busy(v) /\ job.kind = "heartbeat" /\ worker[v].job.kind = "heartbeat")
    /\ queue' = Tail(queue)
    /\ UNCHANGED <<settings, raised, waiting, attempts, history, changes, crashes>>

Leave(w) ==
    /\ worker' = [worker EXCEPT ![w] = Idle]
    /\ ended' = ended \cup MessagesOf(worker[w].job)

\* Variant: a heartbeat job that could not send on Telegram is over.
ProceedNever(w) == Leave(w)

\* A heartbeat job goes on with the e-mail whatever became of the Telegram message.
Proceed(w) ==
    LET job == worker[w].job
    IN  \/ /\ job = Heartbeat(job.n)
           /\ worker' = [worker EXCEPT ![w].pc = "mute", ![w].job.ch = "email"]
           /\ UNCHANGED ended
        \/ job # Heartbeat(job.n) /\ Leave(w)

\* Variant: a task whose row is missing waits for it.
ReadBlocking(w) ==
    /\ worker[w].pc = "read"
    /\ worker[w].job.kind \notin gone
    /\ worker' = [worker EXCEPT ![w].pc = "mute", ![w].on = on]
    /\ UNCHANGED <<settings, raised, queue, waiting, attempts, history, changes,
                   overlapped, crashes>>

\* The rows are read, with them chat_id and email_alerts_enabled.
Read(w) ==
    /\ worker[w].pc = "read"
    /\ \/ worker[w].job.kind \in gone /\ Leave(w)
       \/ /\ worker[w].job.kind \notin gone
          /\ worker' = [worker EXCEPT ![w].pc = "mute", ![w].on = on]
          /\ UNCHANGED ended
    /\ UNCHANGED <<settings, raised, queue, waiting, attempts, copies, received,
                   changes, overlapped, crashes>>

\* Variant: a retry does not look at the mute again.
ConsiderOnce(w) ==
    LET m == worker[w].job
    IN  /\ worker[w].pc = "mute"
        /\ \/ /\ m.ch \notin worker[w].on \/ (m.ch \in muted /\ attempts[m] = 0)
              /\ Proceed(w)
           \/ /\ m.ch \in worker[w].on
              /\ m.ch \notin muted \/ attempts[m] > 0
              /\ worker' = [worker EXCEPT ![w].pc = "send"]
              /\ UNCHANGED ended
        /\ UNCHANGED <<settings, raised, queue, waiting, attempts, copies, received,
                       changes, overlapped, crashes>>

\* The switch as it was read, the mute key as it is now.
Consider(w) ==
    LET ch == worker[w].job.ch
    IN  /\ worker[w].pc = "mute"
        /\ \/ ch \notin worker[w].on \cap (Channels \ muted) /\ Proceed(w)
           \/ /\ ch \in worker[w].on \ muted
              /\ worker' = [worker EXCEPT ![w].pc = "send"]
              /\ UNCHANGED ended
        /\ UNCHANGED <<settings, raised, queue, waiting, attempts, copies, received,
                       changes, overlapped, crashes>>

NotConfigured(w) ==
    /\ worker[w].pc = "send"
    /\ worker[w].job.ch \notin configured
    /\ Proceed(w)
    /\ UNCHANGED <<settings, raised, queue, waiting, attempts, copies, received,
                   changes, overlapped, crashes>>

\* What the provider does with one request: it arrives, or not.
Arrive(m) ==
    /\ copies' = [copies EXCEPT ![m] = @ + 1]
    /\ received' = IF m.kind = "heartbeat" THEN [received EXCEPT ![m.ch] = m.n]
                   ELSE received

Accepted(w) ==
    LET m == worker[w].job
    IN  /\ worker[w].pc = "send"
        /\ m.ch \in configured
        /\ attempts' = [attempts EXCEPT ![m] = @ + 1]
        /\ Arrive(m)
        /\ Proceed(w)
        /\ UNCHANGED <<settings, raised, queue, waiting, changes, overlapped,
                       crashes>>

\* Variant: one retry too many.
AgainOnceMore(m) == attempts[m] <= MaxRetries
\* autoretry_for: the attempt that failed was not the last one.
Again(m) == attempts[m] < MaxRetries

\* Refused, timed out before it arrived, or accepted and the answer lost.
SendFails(w) ==
    LET m == worker[w].job
    IN  /\ worker[w].pc = "send"
        /\ m.ch \in configured
        /\ attempts' = [attempts EXCEPT ![m] = @ + 1]
        /\ Arrive(m) \/ UNCHANGED <<copies, received>>
        /\ \/ /\ m.kind = "alert" /\ Again(m)
              /\ waiting' = waiting \cup {m}
              /\ worker' = [worker EXCEPT ![w] = Idle]
              /\ UNCHANGED ended
           \/ /\ ~(m.kind = "alert" /\ Again(m))
              /\ Proceed(w)
              /\ UNCHANGED waiting
        /\ UNCHANGED <<settings, raised, queue, changes, overlapped, crashes>>

\* The countdown of a retry is over: the job is queued anew.
RetryDue(m) ==
    /\ m \in waiting
    /\ waiting' = waiting \ {m}
    /\ queue' = Append(queue, m)
    /\ UNCHANGED <<settings, raised, worker, attempts, history, changes,
                   overlapped, crashes>>

\* The process dies, or Redis or the database fails: an exception that is not in
\* autoretry_for.  Nothing runs the job again.
Abort(w) ==
    /\ Busy(w)
    /\ crashes < MaxCrashes
    /\ crashes' = crashes + 1
    /\ Leave(w)
    /\ UNCHANGED <<settings, raised, queue, waiting, attempts, copies, received,
                   changes, overlapped>>

Step(w) == \/ Take(w) \/ Read(w) \/ Consider(w)
           \/ NotConfigured(w) \/ Accepted(w) \/ SendFails(w)

Next ==
    \/ EnqueueAlert \/ EnqueueHeartbeat
    \/ \E ch \in Channels : Mute(ch) \/ MuteExpires(ch) \/ Switch(ch)
    \/ DeleteRows({"alert"}) \/ DeleteRows({"alert", "heartbeat"})
    \/ \E w \in Workers : Step(w) \/ Abort(w)
    \/ \E m \in Messages : RetryDue(m)

Spec == Init /\ [][Next]_vars

\* Workers take jobs and every request times out; a countdown ends.  Neither the
\* owner nor the checks are fair.
FairSpec ==
    /\ Spec
    /\ \A w \in Workers : WF_vars(Step(w))
    /\ WF_vars(\E m \in Messages : RetryDue(m))

----------------------------------------------------------------------------
(* Properties. *)

LimitOf(m) == IF m.kind = "alert" THEN MaxRetries + 1 ELSE 1

\* A heartbeat job is queued once for both channels.
Jobs == {m \in Messages : m.kind = "alert"} \cup {Heartbeat(n) : n \in 1 .. MaxNotices}
Activities == [pc : {"idle", "read", "mute", "send"}, job : Messages \cup {Heartbeat(0)},
               on : SUBSET Channels, late : SUBSET Channels]

\* Every variable has its shape; only alert jobs are retried, and no message is sent
\* more often than max_retries allows.
TypeOK ==
    /\ configured \in Deployments /\ on \subseteq Channels /\ muted \subseteq Channels
    /\ gone \subseteq {"alert", "heartbeat"}
    /\ raised \in [alert : 0 .. MaxEvents, heartbeat : 0 .. MaxNotices]
    /\ queue \in Seq(Jobs) /\ waiting \subseteq {m \in Messages : m.kind = "alert"}
    /\ worker \in [Workers -> Activities]
    /\ \A w \in Workers : Busy(w) => worker[w].job \in Messages
    /\ attempts \in [Messages -> Nat] /\ copies \in [Messages -> Nat]
    /\ \A m \in Messages : attempts[m] <= LimitOf(m)
    /\ ended \subseteq Messages /\ received \in [Channels -> 0 .. MaxNotices]
    /\ changes \in 0 .. MaxChanges /\ crashes \in 0 .. MaxCrashes
    /\ overlapped \in BOOLEAN

JobsAt(w) == IF Busy(w) THEN MessagesOf(worker[w].job) ELSE {}
Queued == UNION {MessagesOf(queue[i]) : i \in 1 .. Len(queue)}
Open == Queued \cup waiting \cup UNION {JobsAt(w) : w \in Workers}

\* Nothing is forgotten: if no setting changes, no row goes and no task dies, a
\* message on a configured channel that will not be tried again was accepted, or
\* tried as often as the code promises.  In particular one channel's failure does
\* not cost the owner the other one.
NobodyForgotten ==
    changes + crashes = 0 => \A m \in ended :
        \/ m.ch \notin configured
        \/ copies[m] > 0
        \/ attempts[m] = LimitOf(m)

\* While a channel is muted nothing arrives on it, unless the task that sends was
\* already running when the mute was set.  The mute has to be looked at again on
\* every retry and for each channel of a heartbeat.
MuteIsHeard ==
    [][\A m \in Messages : copies'[m] > copies[m] =>
          \/ m.ch \notin muted
          \/ \E w \in Workers : Busy(w) /\ worker[w].job = m
                                /\ m.ch \in worker[w].late]_vars

\* On every channel heartbeat notices arrive in the order in which the check
\* enqueued them, so that the last one tells the server's state.  Two processes
\* that run such tasks at the same time may swap them.
NoticesInOrder ==
    [][~overlapped' => \A ch \in Channels : received'[ch] >= received[ch]]_vars

\* Delivery promised: abstractly, a message is accepted at most once, an alert at
\* most once per attempt, and only between its enqueueing and its end.
Promise == INSTANCE Delivery WITH open <- Open, over <- ended, Limit <- LimitOf
KeepsPromise == Promise!Spec

\* Whatever fails, the work that was raised comes to an end: retries are bounded
\* and no process waits for ever.
WorkEnds == Open # {} ~> Open = {}
=============================================================================
