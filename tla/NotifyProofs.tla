------------------------------ MODULE NotifyProofs ------------------------------
(***************************************************************************)
(* What holds of the notification tasks for every number of processes,     *)
(* events, notices, retries, changes and crashes.                          *)
(*                                                                         *)
(* Both messages of a heartbeat travel as one job, so the invariants speak *)
(* of jobs: a job is at one place at a time, in the queue, waiting for its *)
(* retry or at one process.  Every property of messages rests on that.     *)
(***************************************************************************)
EXTENDS Notify, SequenceTheorems, TLAPS

\* The job that carries a message, and the one a process is busy with.
JobOf(m) == IF m.kind = "alert" THEN m ELSE Heartbeat(m.n)
Doing(w) == JobOf(worker[w].job)

\* The last event or notice, whichever m is about, when r is raised.
LastOf(r, m) == IF m.kind = "alert" THEN r.alert ELSE r.heartbeat
Places == 1 .. Len(queue)

LEMMA MessageFields ==
    ASSUME NEW m \in Messages
    PROVE  /\ m = [kind |-> m.kind, n |-> m.n, ch |-> m.ch]
           /\ m.kind \in {"alert", "heartbeat"} /\ m.ch \in Channels /\ m.n \in Nat
           /\ m.kind = "alert" => m.n \in 1 .. MaxEvents
           /\ m.kind = "heartbeat" => m.n \in 1 .. MaxNotices
BY ConstantsAssumption DEF Messages, Channels

\* The messages of a job are those it carries.
LEMMA CarriedBy ==
    ASSUME NEW m \in Messages
    PROVE  /\ MessagesOf(m) = {x \in Messages : JobOf(x) = JobOf(m)}
           /\ JobOf(m) \in Jobs /\ JobOf(JobOf(m)) = JobOf(m)
           /\ JobOf(m).n = m.n /\ JobOf(m).kind = m.kind
           /\ m \in MessagesOf(m)
<1>1. CASE m.kind = "alert"
  BY <1>1, MessageFields DEF MessagesOf, JobOf, Heartbeat, Jobs, Messages
<1>2. CASE m.kind = "heartbeat"
  <2>1. m.n \in 1 .. MaxNotices
    BY <1>2, MessageFields
  <2>2. JobOf(m) = [kind |-> "heartbeat", n |-> m.n, ch |-> "telegram"]
    BY <1>2 DEF JobOf, Heartbeat
  <2>3. MessagesOf(m) = {[kind |-> "heartbeat", n |-> m.n, ch |-> ch] : ch \in Channels}
    BY <1>2, MessageFields DEF MessagesOf
  <2>4. \A ch \in Channels :
          /\ [kind |-> "heartbeat", n |-> m.n, ch |-> ch] \in Messages
          /\ JobOf([kind |-> "heartbeat", n |-> m.n, ch |-> ch]) = JobOf(m)
    BY <2>1, <2>2 DEF Messages, JobOf, Heartbeat
  <2>5. ASSUME NEW x \in Messages, JobOf(x) = JobOf(m)
        PROVE  x \in {[kind |-> "heartbeat", n |-> m.n, ch |-> ch] : ch \in Channels}
    <3>1. x = [kind |-> x.kind, n |-> x.n, ch |-> x.ch] /\ x.ch \in Channels
          /\ x.kind \in {"alert", "heartbeat"}
      BY MessageFields
    <3>2. x.kind # "alert"
      BY <2>2, <2>5 DEF JobOf
    <3>3. x.n = m.n
      BY <2>2, <2>5, <3>2 DEF JobOf, Heartbeat
    <3> QED
      BY <3>1, <3>2, <3>3
  <2>6. MessagesOf(m) = {x \in Messages : JobOf(x) = JobOf(m)}
    BY <2>3, <2>4, <2>5
  <2> QED
    BY <1>2, <2>1, <2>2, <2>6 DEF Jobs, JobOf, Heartbeat
<1> QED
  BY <1>1, <1>2, MessageFields

\* A job that is queued is the job of its messages.
LEMMA JobsAreMessages ==
    ASSUME NEW j \in Jobs
    PROVE  j \in Messages /\ JobOf(j) = j
BY DEF Jobs, Messages, JobOf, Heartbeat, Channels

----------------------------------------------------------------------------
(* What a step does to the record of the process that takes it. *)

Only(w) == \A v \in Workers : v # w => worker'[v] = worker[v]

\* w goes on with the e-mail of a heartbeat.
GoesOn(w) ==
    /\ worker' \in [Workers -> Activities]
    /\ worker[w].job.kind = "heartbeat" /\ worker[w].job.ch = "telegram"
    /\ worker'[w].pc = "mute" /\ worker'[w].on = worker[w].on
    /\ worker'[w].late = worker[w].late
    /\ worker'[w].job = [kind |-> "heartbeat", n |-> worker[w].job.n, ch |-> "email"]
    /\ Only(w) /\ ended' = ended

\* w is done with its job.
Ends(w) ==
    /\ worker' \in [Workers -> Activities]
    /\ worker'[w] = Idle /\ Only(w)
    /\ ended' = ended \cup MessagesOf(worker[w].job)

\* w keeps its job and goes to pc.
Reaches(w, pc) ==
    /\ worker' \in [Workers -> Activities]
    /\ worker'[w].pc = pc /\ worker'[w].job = worker[w].job
    /\ worker'[w].late = worker[w].late
    /\ Only(w) /\ ended' = ended

LEMMA IdleShape == Idle \in Activities /\ Idle.pc = "idle"
BY DEF Idle, Activities, Heartbeat

LEMMA WhatLeaveDoes ==
    ASSUME TypeOK, NEW w \in Workers, Leave(w)
    PROVE  Ends(w)
BY IdleShape DEF TypeOK, Leave, Ends, Only

LEMMA WhatProceedDoes ==
    ASSUME TypeOK, NEW w \in Workers, Busy(w), Proceed(w)
    PROVE  \/ GoesOn(w)
           \/ Ends(w) /\ (worker[w].job.kind = "alert" \/ worker[w].job.ch = "email")
<1> DEFINE job == worker[w].job
<1>1. job \in Messages
  BY DEF TypeOK
<1>2. job = [kind |-> job.kind, n |-> job.n, ch |-> job.ch]
      /\ job.kind \in {"alert", "heartbeat"} /\ job.ch \in Channels
  BY <1>1, MessageFields
<1>3. CASE job = Heartbeat(job.n)
  <2>1. worker' = [worker EXCEPT ![w].pc = "mute", ![w].job.ch = "email"] /\ ended' = ended
    BY <1>3 DEF Proceed
  <2>2. job.kind = "heartbeat" /\ job.ch = "telegram"
    BY <1>3 DEF Heartbeat
  <2>3. /\ worker'[w].pc = "mute" /\ worker'[w].job = [job EXCEPT !.ch = "email"]
        /\ worker'[w].on = worker[w].on /\ worker'[w].late = worker[w].late
        /\ Only(w)
    BY <2>1 DEF TypeOK, Activities, Only
  <2>4. [job EXCEPT !.ch = "email"] = [kind |-> "heartbeat", n |-> job.n, ch |-> "email"]
    BY <1>2, <2>2
  <2>5. [kind |-> "heartbeat", n |-> job.n, ch |-> "email"] \in Messages
    BY <1>1, <2>2, MessageFields DEF Messages, Channels
  <2>6. worker' \in [Workers -> Activities]
    <3> DEFINE r == [worker[w] EXCEPT !.pc = "mute", !.job.ch = "email"]
    <3>1. r \in Activities
      <4>1. r = [worker[w] EXCEPT !.pc = "mute", !.job = [job EXCEPT !.ch = "email"]]
        OBVIOUS
      <4>2. [job EXCEPT !.ch = "email"] \in Messages
        BY <2>4, <2>5
      <4>3. \A j \in Messages : [worker[w] EXCEPT !.pc = "mute", !.job = j] \in Activities
        BY DEF TypeOK, Activities
      <4> QED
        BY <4>1, <4>2, <4>3
    <3>2. worker' = [worker EXCEPT ![w] = r]
      BY <2>1 DEF TypeOK
    <3> HIDE DEF r
    <3> QED
      BY <3>1, <3>2 DEF TypeOK
  <2> QED
    BY <2>1, <2>2, <2>3, <2>4, <2>6 DEF GoesOn
<1>4. CASE job # Heartbeat(job.n)
  <2>1. Leave(w)
    BY <1>4 DEF Proceed
  <2> QED
    BY <1>2, <1>4, <2>1, WhatLeaveDoes DEF Heartbeat, Channels
<1> QED
  BY <1>3, <1>4

\* A process takes the head of the queue.
LEMMA WhatTakeDoes ==
    ASSUME TypeOK, NEW w \in Workers, Take(w)
    PROVE  /\ worker' \in [Workers -> Activities]
           /\ ~Busy(w) /\ worker'[w].pc = "read" /\ worker'[w].job = queue[1] /\ Only(w)
           /\ queue # <<>> /\ queue' = Tail(queue) /\ queue[1] \in Jobs
           /\ overlapped' = (overlapped \/ \E v \in Workers :
                Busy(v) /\ queue[1].kind = "heartbeat" /\ worker[v].job.kind = "heartbeat")
           /\ UNCHANGED <<settings, raised, waiting, attempts, history, changes, crashes>>
<1>1. queue[1] \in Jobs /\ Head(queue) = queue[1]
  BY DEF TypeOK, Take
<1>2. queue[1] \in Messages
  BY <1>1, JobsAreMessages
<1>3. worker' = [worker EXCEPT ![w] = [Idle EXCEPT !.pc = "read", !.job = queue[1]]]
  BY <1>1 DEF Take
<1> DEFINE r == [Idle EXCEPT !.pc = "read", !.job = queue[1]]
<1>4. r.pc = "read" /\ r.job = queue[1] /\ r \in Activities
  BY <1>2, IdleShape DEF Activities
<1> HIDE DEF r
<1>5. worker' \in [Workers -> Activities] /\ worker'[w] = r /\ Only(w)
  BY <1>3, <1>4 DEF TypeOK, r, Only
<1> QED
  BY <1>1, <1>4, <1>5 DEF Take

\* The rows are read, or they are gone.
LEMMA WhatReadDoes ==
    ASSUME TypeOK, NEW w \in Workers, Read(w)
    PROVE  /\ worker[w].pc = "read" /\ Busy(w)
           /\ \/ worker[w].job.kind \in gone /\ Ends(w)
              \/ Reaches(w, "mute") /\ worker'[w].on = on
           /\ UNCHANGED <<settings, raised, queue, waiting, attempts, copies, received,
                          changes, overlapped, crashes>>
<1>1. CASE worker[w].job.kind \in gone /\ Leave(w)
  BY <1>1, WhatLeaveDoes DEF Read, Busy
<1>2. CASE worker' = [worker EXCEPT ![w].pc = "mute", ![w].on = on] /\ ended' = ended
  <2>1. /\ worker'[w].pc = "mute" /\ worker'[w].on = on
        /\ worker'[w].job = worker[w].job /\ worker'[w].late = worker[w].late /\ Only(w)
    BY <1>2 DEF TypeOK, Activities, Only
  <2>2. worker' \in [Workers -> Activities]
    <3> DEFINE r == [worker[w] EXCEPT !.pc = "mute", !.on = on]
    <3>1. r \in Activities
      BY DEF TypeOK, Activities
    <3>2. worker' = [worker EXCEPT ![w] = r]
      BY <1>2 DEF TypeOK
    <3> HIDE DEF r
    <3> QED
      BY <3>1, <3>2 DEF TypeOK
  <2> QED
    BY <1>2, <2>1, <2>2 DEF Read, Busy, Reaches
<1> QED
  BY <1>1, <1>2 DEF Read

\* A channel that is switched off or muted is passed over.
LEMMA WhatConsiderDoes ==
    ASSUME TypeOK, NEW w \in Workers, Consider(w)
    PROVE  /\ worker[w].pc = "mute" /\ Busy(w)
           /\ \/ worker[w].job.ch \notin worker[w].on \cap (Channels \ muted) /\ Proceed(w)
              \/ /\ worker[w].job.ch \in worker[w].on \ muted
                 /\ Reaches(w, "send") /\ worker'[w].on = worker[w].on
           /\ UNCHANGED <<settings, raised, queue, waiting, attempts, copies, received,
                          changes, overlapped, crashes>>
<1>1. CASE worker[w].job.ch \notin worker[w].on \cap (Channels \ muted) /\ Proceed(w)
  BY <1>1 DEF Consider, Busy
<1>2. CASE /\ worker[w].job.ch \in worker[w].on \ muted
           /\ worker' = [worker EXCEPT ![w].pc = "send"] /\ ended' = ended
  <2>1. /\ worker'[w].pc = "send" /\ worker'[w].on = worker[w].on
        /\ worker'[w].job = worker[w].job /\ worker'[w].late = worker[w].late /\ Only(w)
    BY <1>2 DEF TypeOK, Activities, Only
  <2>2. worker' \in [Workers -> Activities]
    <3> DEFINE r == [worker[w] EXCEPT !.pc = "send"]
    <3>1. r \in Activities
      BY DEF TypeOK, Activities
    <3>2. worker' = [worker EXCEPT ![w] = r]
      BY <1>2 DEF TypeOK
    <3> HIDE DEF r
    <3> QED
      BY <3>1, <3>2 DEF TypeOK
  <2> QED
    BY <1>2, <2>1, <2>2 DEF Consider, Busy, Reaches
<1> QED
  BY <1>1, <1>2 DEF Consider

\* A mute is noted at every process that is busy.
LEMMA WhatMuteDoes ==
    ASSUME TypeOK, NEW ch \in Channels, Mute(ch)
    PROVE  /\ worker' \in [Workers -> Activities]
           /\ \A w \in Workers :
                /\ worker'[w].pc = worker[w].pc /\ worker'[w].job = worker[w].job
                /\ worker'[w].on = worker[w].on
                /\ worker'[w].late = IF Busy(w) THEN worker[w].late \cup {ch}
                                     ELSE worker[w].late
<1>1. \A w \in Workers :
        worker'[w] = IF Busy(w) THEN [worker[w] EXCEPT !.late = @ \cup {ch}] ELSE worker[w]
  BY DEF Mute
<1>2. \A w \in Workers :
        LET r == [worker[w] EXCEPT !.late = @ \cup {ch}]
        IN  /\ r \in Activities /\ r.pc = worker[w].pc /\ r.job = worker[w].job
            /\ r.on = worker[w].on /\ r.late = worker[w].late \cup {ch}
  BY DEF TypeOK, Activities
<1>3. DOMAIN worker' = Workers /\ worker' = [w \in Workers |-> worker'[w]]
  BY DEF Mute
<1>4. \A w \in Workers : worker'[w] \in Activities
  BY <1>1, <1>2 DEF TypeOK
<1>5. worker' \in [Workers -> Activities]
  BY <1>3, <1>4
<1> QED
  BY <1>1, <1>2, <1>5

----------------------------------------------------------------------------
(* How jobs move from place to place.  Every step is one of these. *)

\* No job moves; a process may turn from a heartbeat's message to its e-mail.
Keeps ==
    /\ UNCHANGED <<raised, queue, waiting, ended>>
    /\ \A w \in Workers :
         /\ Busy(w)' <=> Busy(w)
         /\ Doing(w)' = Doing(w) /\ worker'[w].job.n = worker[w].job.n
         /\ worker'[w].job.kind = worker[w].job.kind
         /\ \/ worker'[w].job = worker[w].job
            \/ worker[w].job.ch = "telegram" /\ worker'[w].job.ch = "email"

\* Jobs of a new event or notice are queued.
Raises ==
    /\ UNCHANGED <<worker, waiting, ended>>
    /\ raised'.alert \in Nat /\ raised.alert <= raised'.alert
    /\ raised'.heartbeat \in Nat /\ raised.heartbeat <= raised'.heartbeat
    /\ queue' \in Seq(Jobs) /\ Len(queue) <= Len(queue')
    /\ \A i \in Places : queue'[i] = queue[i]
    /\ \A i \in Places' \ Places :
         /\ queue'[i].n = LastOf(raised', queue'[i])
         /\ LastOf(raised, queue'[i]) < queue'[i].n
         /\ queue'[i].kind = "heartbeat" => i = Len(queue) + 1 /\ Len(queue') = i
         /\ \A j \in Places' \ Places : i # j => queue'[i] # queue'[j]

\* A retry is due.
Requeues(m) ==
    /\ UNCHANGED <<raised, worker, ended>>
    /\ m \in waiting /\ waiting' = waiting \ {m}
    /\ queue' \in Seq(Jobs) /\ Len(queue') = Len(queue) + 1
    /\ queue'[Len(queue) + 1] = m
    /\ \A i \in Places : queue'[i] = queue[i]

Takes(w) ==
    /\ UNCHANGED <<raised, waiting, ended>>
    /\ ~Busy(w) /\ Busy(w)' /\ worker'[w].job = queue[1] /\ Only(w)
    /\ Len(queue) > 0 /\ Len(queue') = Len(queue) - 1 /\ queue[1] \in Jobs
    /\ queue' \in Seq(Jobs)
    /\ \A i \in Places' : queue'[i] = queue[i + 1]

EndsAt(w) == Busy(w) /\ Ends(w) /\ UNCHANGED <<raised, queue, waiting>>

\* An alert job fails and waits for its retry.
WaitsAt(w) ==
    /\ UNCHANGED <<raised, queue, ended>>
    /\ Busy(w) /\ worker'[w] = Idle /\ Only(w)
    /\ worker[w].job.kind = "alert" /\ waiting' = waiting \cup {worker[w].job}

LEMMA MoveOfEnqueueAlert ==
    ASSUME TypeOK, EnqueueAlert
    PROVE  Raises
<1> USE ConstantsAssumption
<1>1. PICK chs \in SUBSET Channels :
        LET jobs(ch) == IF ch \in chs THEN <<Alert(raised'.alert, ch)>> ELSE <<>>
        IN  queue' = queue \o jobs("telegram") \o jobs("email")
  BY DEF EnqueueAlert
<1> DEFINE n == raised.alert + 1
           a == IF "telegram" \in chs THEN <<Alert(n, "telegram")>> ELSE <<>>
           b == IF "email" \in chs THEN <<Alert(n, "email")>> ELSE <<>>
<1>2. raised'.alert = n /\ raised'.heartbeat = raised.heartbeat /\ n \in 1 .. MaxEvents
      /\ raised.alert \in Nat
  BY DEF EnqueueAlert, TypeOK
<1>3. queue' = (queue \o a) \o b
  BY <1>1, <1>2
<1>4. \A ch \in Channels : /\ Alert(n, ch) \in Jobs /\ Alert(n, ch).n = n
                           /\ Alert(n, ch).kind = "alert" /\ Alert(n, ch).ch = ch
  BY <1>2 DEF Alert, Jobs, Messages, Channels
<1>5. queue \in Seq(Jobs) /\ Len(queue) \in Nat
  BY DEF TypeOK
<1>6. a \in Seq(Jobs) /\ Len(a) \in 0 .. 1 /\ (Len(a) = 1 => a[1] = Alert(n, "telegram"))
  BY <1>4 DEF Channels
<1>7. b \in Seq(Jobs) /\ Len(b) \in 0 .. 1 /\ (Len(b) = 1 => b[1] = Alert(n, "email"))
  BY <1>4 DEF Channels
<1> HIDE DEF n, a, b
<1>8. /\ queue \o a \in Seq(Jobs) /\ Len(queue \o a) = Len(queue) + Len(a)
      /\ \A i \in 1 .. Len(queue) + Len(a) :
           (queue \o a)[i] = IF i <= Len(queue) THEN queue[i] ELSE a[i - Len(queue)]
  BY <1>5, <1>6, ConcatProperties
<1>9. /\ queue' \in Seq(Jobs) /\ Len(queue') = Len(queue) + Len(a) + Len(b)
      /\ \A i \in 1 .. Len(queue) + Len(a) + Len(b) :
           queue'[i] = IF i <= Len(queue) + Len(a) THEN (queue \o a)[i]
                       ELSE b[i - (Len(queue) + Len(a))]
  BY <1>3, <1>7, <1>8, ConcatProperties
<1>10. \A i \in Places : queue'[i] = queue[i]
  BY <1>5, <1>6, <1>7, <1>8, <1>9 DEF Places
<1>11. ASSUME NEW i \in Places' \ Places
       PROVE  \/ i = Len(queue) + 1 /\ Len(a) = 1 /\ queue'[i] = Alert(n, "telegram")
              \/ /\ i = Len(queue) + Len(a) + 1 /\ Len(b) = 1
                 /\ queue'[i] = Alert(n, "email")
  <2>1. i \in Nat /\ Len(queue) < i /\ i <= Len(queue) + Len(a) + Len(b)
    BY <1>5, <1>6, <1>7, <1>9 DEF Places
  <2>2. CASE i <= Len(queue) + Len(a)
    <3>1. i = Len(queue) + 1 /\ Len(a) = 1 /\ i - Len(queue) = 1
      <4>1. Len(queue) \in Nat /\ Len(a) \in 0 .. 1
        BY <1>5, <1>6
      <4>2. \A x, y \in Nat, z \in 0 .. 1 : y < x /\ x <= y + z
                                           => x = y + 1 /\ z = 1 /\ x - y = 1
        OBVIOUS
      <4> QED
        BY <2>1, <2>2, <4>1, <4>2
    <3>2. queue'[i] = (queue \o a)[i]
      BY <2>1, <2>2, <1>5, <1>6, <1>7, <1>9
    <3>3. (queue \o a)[i] = a[i - Len(queue)]
      BY <2>1, <2>2, <1>5, <1>6, <1>8
    <3> QED
      BY <3>1, <3>2, <3>3, <1>6
  <2>3. CASE i > Len(queue) + Len(a)
    <3>1. i = Len(queue) + Len(a) + 1 /\ Len(b) = 1 /\ i - (Len(queue) + Len(a)) = 1
      <4>1. Len(queue) + Len(a) \in Nat /\ Len(b) \in 0 .. 1
        BY <1>5, <1>6, <1>7
      <4>2. \A x, y \in Nat, z \in 0 .. 1 : y < x /\ x <= y + z
                                           => x = y + 1 /\ z = 1 /\ x - y = 1
        OBVIOUS
      <4> QED
        BY <2>1, <2>3, <4>1, <4>2
    <3>2. queue'[i] = b[i - (Len(queue) + Len(a))]
      BY <2>1, <2>3, <1>5, <1>6, <1>7, <1>9
    <3> QED
      BY <3>1, <3>2, <1>7
  <2> QED
    BY <2>1, <2>2, <2>3, <1>5, <1>6
<1>12. Alert(n, "telegram") # Alert(n, "email")
  BY <1>4 DEF Channels
<1>13. ASSUME NEW i \in Places' \ Places
       PROVE  /\ queue'[i].n = LastOf(raised', queue'[i])
              /\ LastOf(raised, queue'[i]) < queue'[i].n
              /\ queue'[i].kind # "heartbeat"
  <2>1. queue'[i].kind = "alert" /\ queue'[i].n = n
    BY <1>4, <1>11 DEF Channels
  <2> QED
    BY <2>1, <1>2 DEF LastOf, n
<1>14. ASSUME NEW i \in Places' \ Places, NEW j \in Places' \ Places, i # j
       PROVE  queue'[i] # queue'[j]
  BY <1>5, <1>6, <1>11, <1>12, <1>14
<1>15. Len(queue) <= Len(queue')
  BY <1>5, <1>6, <1>7, <1>9
<1> QED
  <2>1. UNCHANGED <<worker, waiting, ended>>
    BY DEF EnqueueAlert, history
  <2>2. /\ raised'.alert \in Nat /\ raised.alert <= raised'.alert
        /\ raised'.heartbeat \in Nat /\ raised.heartbeat <= raised'.heartbeat
    BY <1>2 DEF n, TypeOK
  <2> QED
    BY <2>1, <2>2, <1>9, <1>10, <1>13, <1>14, <1>15 DEF Raises

LEMMA MoveOfEnqueueHeartbeat ==
    ASSUME TypeOK, EnqueueHeartbeat
    PROVE  Raises
<1> USE ConstantsAssumption
<1> DEFINE n == raised.heartbeat + 1
<1>1. raised'.heartbeat = n /\ raised'.alert = raised.alert /\ n \in 1 .. MaxNotices
      /\ raised.heartbeat \in Nat /\ raised.alert \in Nat
  BY DEF EnqueueHeartbeat, TypeOK
<1>2. Heartbeat(n) \in Jobs /\ Heartbeat(n).n = n /\ Heartbeat(n).kind = "heartbeat"
  BY <1>1 DEF Jobs, Heartbeat
<1>3. queue' = Append(queue, Heartbeat(n))
  BY <1>1 DEF EnqueueHeartbeat
<1> HIDE DEF n
<1>4. /\ queue' \in Seq(Jobs) /\ Len(queue') = Len(queue) + 1 /\ Len(queue) \in Nat
      /\ queue'[Len(queue) + 1] = Heartbeat(n)
      /\ \A i \in 1 .. Len(queue) : queue'[i] = queue[i]
  BY <1>2, <1>3 DEF TypeOK
<1>5. \A i \in Places' \ Places : i = Len(queue) + 1
  BY <1>4 DEF Places
<1>6. LastOf(raised, Heartbeat(n)) < n /\ LastOf(raised', Heartbeat(n)) = n
  BY <1>1, <1>2 DEF LastOf, Heartbeat, n
<1> QED
  <2>1. UNCHANGED <<worker, waiting, ended>>
    BY DEF EnqueueHeartbeat, history
  <2>2. /\ raised'.alert \in Nat /\ raised.alert <= raised'.alert
        /\ raised'.heartbeat \in Nat /\ raised.heartbeat <= raised'.heartbeat
    BY <1>1 DEF n
  <2>3. Len(queue) <= Len(queue') /\ \A i \in Places : queue'[i] = queue[i]
    BY <1>4 DEF Places
  <2>4. ASSUME NEW i \in Places' \ Places
        PROVE  /\ queue'[i].n = LastOf(raised', queue'[i])
               /\ LastOf(raised, queue'[i]) < queue'[i].n
               /\ i = Len(queue) + 1 /\ Len(queue') = i
    BY <1>2, <1>4, <1>5, <1>6
  <2>5. \A i, j \in Places' \ Places : i = j
    BY <1>5
  <2> QED
    BY <1>4, <2>1, <2>2, <2>3, <2>4, <2>5 DEF Raises

LEMMA KeepsOfReaches ==
    ASSUME TypeOK, NEW w \in Workers, Busy(w), NEW pc, pc # "idle", Reaches(w, pc),
           UNCHANGED <<raised, queue, waiting>>
    PROVE  Keeps
BY DEF Reaches, Keeps, Busy, Doing, Only

LEMMA KeepsOfGoesOn ==
    ASSUME TypeOK, NEW w \in Workers, Busy(w), GoesOn(w),
           UNCHANGED <<raised, queue, waiting>>
    PROVE  Keeps
<1>1. Doing(w)' = Doing(w) /\ worker'[w].job.ch = "email" /\ Busy(w)'
      /\ worker'[w].job.n = worker[w].job.n /\ worker'[w].job.kind = worker[w].job.kind
  BY DEF GoesOn, Doing, JobOf, Heartbeat, Busy
<1>2. ASSUME NEW v \in Workers, v # w
      PROVE  worker'[v] = worker[v]
  BY <1>2 DEF GoesOn, Only
<1> QED
  BY <1>1, <1>2 DEF GoesOn, Keeps, Busy, Doing

\* The moves of a process.
LEMMA MoveOfProcess ==
    ASSUME TypeOK, NEW w \in Workers, Step(w) \/ Abort(w)
    PROVE  Takes(w) \/ Keeps \/ EndsAt(w) \/ WaitsAt(w)
<1>1. CASE Take(w)
  <2>1. queue \in Seq(Jobs) /\ queue # <<>>
    BY <1>1 DEF TypeOK, Take
  <2>2. /\ queue' \in Seq(Jobs) /\ Len(queue) > 0 /\ Len(queue') = Len(queue) - 1
        /\ \A i \in 1 .. Len(queue') : queue'[i] = queue[i + 1]
    <3>1. queue' = Tail(queue)
      BY <1>1, WhatTakeDoes
    <3> QED
      BY <2>1, <3>1, HeadTailProperties
  <2> QED
    BY <1>1, <2>2, WhatTakeDoes DEF Takes, Busy, Places, history
<1>2. CASE Read(w)
  BY <1>2, WhatReadDoes, KeepsOfReaches DEF EndsAt
<1>3. CASE Consider(w)
  BY <1>3, WhatConsiderDoes, WhatProceedDoes, KeepsOfReaches, KeepsOfGoesOn DEF EndsAt
<1>4. CASE NotConfigured(w)
  BY <1>4, WhatProceedDoes, KeepsOfGoesOn DEF NotConfigured, EndsAt, Busy
<1>5. CASE Accepted(w)
  BY <1>5, WhatProceedDoes, KeepsOfGoesOn DEF Accepted, EndsAt, Busy
<1>6. CASE SendFails(w)
  <2>1. Busy(w) /\ UNCHANGED <<raised, queue>>
    BY <1>6 DEF SendFails, Busy
  <2>2. CASE Proceed(w) /\ UNCHANGED waiting
    BY <2>1, <2>2, WhatProceedDoes, KeepsOfGoesOn DEF EndsAt
  <2>3. CASE /\ worker[w].job.kind = "alert" /\ waiting' = waiting \cup {worker[w].job}
             /\ worker' = [worker EXCEPT ![w] = Idle] /\ ended' = ended
    BY <2>1, <2>3 DEF WaitsAt, Only, TypeOK
  <2> QED
    BY <1>6, <2>2, <2>3 DEF SendFails
<1>7. CASE Abort(w)
  BY <1>7, WhatLeaveDoes DEF Abort, EndsAt
<1> QED
  BY <1>1, <1>2, <1>3, <1>4, <1>5, <1>6, <1>7 DEF Step

LEMMA MoveOfOwner ==
    ASSUME TypeOK, NEW ch \in Channels, Mute(ch) \/ MuteExpires(ch) \/ Switch(ch)
    PROVE  Keeps
<1>1. CASE Mute(ch)
  <2>1. UNCHANGED <<raised, queue, waiting, ended>>
    BY <1>1 DEF Mute, history
  <2> QED
    BY <1>1, <2>1, WhatMuteDoes DEF Keeps, Busy, Doing
<1>2. CASE MuteExpires(ch) \/ Switch(ch)
  BY <1>2 DEF MuteExpires, Switch, history, Keeps, Busy, Doing
<1> QED
  BY <1>1, <1>2

LEMMA MoveOfRetryDue ==
    ASSUME TypeOK, NEW m \in Messages, RetryDue(m)
    PROVE  Requeues(m)
<1>1. m \in Jobs
  BY DEF TypeOK, RetryDue, Jobs
<1>2. queue' = Append(queue, m) /\ queue \in Seq(Jobs)
  BY DEF RetryDue, TypeOK
<1> QED
  BY <1>1, <1>2 DEF RetryDue, history, Requeues, Places

LEMMA EveryStepMoves ==
    ASSUME TypeOK, [Next]_vars
    PROVE  \/ Keeps \/ Raises
           \/ \E m \in Messages : Requeues(m)
           \/ \E w \in Workers : Takes(w) \/ EndsAt(w) \/ WaitsAt(w)
<1>1. ASSUME UNCHANGED vars
      PROVE  Keeps
  BY <1>1 DEF vars, history, Keeps, Busy, Doing
<1>2. ASSUME NEW kinds, DeleteRows(kinds)
      PROVE  Keeps
  BY <1>2 DEF DeleteRows, history, Keeps, Busy, Doing
<1> QED
  BY <1>1, <1>2, MoveOfEnqueueAlert, MoveOfEnqueueHeartbeat, MoveOfOwner, MoveOfRetryDue,
     MoveOfProcess DEF Next

----------------------------------------------------------------------------
(* Every job is at one place. *)

\* What is on its way or ended belongs to an event or notice that was raised.
Numbered ==
    /\ \A i \in Places : queue[i].n <= LastOf(raised, queue[i])
    /\ \A m \in waiting \cup ended : m.n <= LastOf(raised, m)
    /\ \A w \in Workers : Busy(w) => worker[w].job.n <= LastOf(raised, worker[w].job)

QueuedOnce ==
    /\ \A i, j \in Places : i # j => queue[i] # queue[j]
    /\ \A i \in Places : queue[i] \notin waiting
RunsOnce ==
    \A w \in Workers : Busy(w) =>
        /\ \A i \in Places : queue[i] # Doing(w)
        /\ Doing(w) \notin waiting
        /\ \A v \in Workers : v # w /\ Busy(v) => Doing(v) # Doing(w)
EndsOnce ==
    \A x \in ended :
        /\ JobOf(x) \notin waiting
        /\ \A i \in Places : JobOf(x) # queue[i]
        /\ \A w \in Workers : Busy(w) => JobOf(x) # Doing(w)
Apart == QueuedOnce /\ RunsOnce /\ EndsOnce

LEMMA QueueTyped ==
    ASSUME TypeOK
    PROVE  /\ Len(queue) \in Nat
           /\ \A i \in Places : /\ queue[i] \in Jobs /\ queue[i] \in Messages
                                /\ JobOf(queue[i]) = queue[i]
           /\ \A m \in waiting : m \in Messages /\ m.kind = "alert" /\ JobOf(m) = m
           /\ \A x \in ended : x \in Messages
<1>1. Len(queue) \in Nat /\ \A i \in Places : queue[i] \in Jobs
  BY DEF TypeOK, Places
<1>2. \A m \in waiting : m \in Messages /\ m.kind = "alert" /\ JobOf(m) = m
  BY DEF TypeOK, JobOf
<1> QED
  BY <1>1, <1>2, JobsAreMessages DEF TypeOK

\* A process that is busy, and the job it does.
LEMMA BusyTyped ==
    ASSUME TypeOK, NEW w \in Workers, Busy(w)
    PROVE  /\ worker[w].job \in Messages
           /\ Doing(w).n = worker[w].job.n /\ Doing(w).kind = worker[w].job.kind
           /\ MessagesOf(worker[w].job) = {x \in Messages : JobOf(x) = Doing(w)}
BY CarriedBy DEF TypeOK, Doing

LEMMA SameNumbers ==
    ASSUME NEW x \in Messages, NEW r
    PROVE  /\ LastOf(r, JobOf(x)) = LastOf(r, x) /\ JobOf(x).n = x.n
           /\ LastOf(r, x) \in {r.alert, r.heartbeat}
BY CarriedBy DEF LastOf

LEMMA NumberedByMove ==
    ASSUME TypeOK, Numbered,
           \/ Keeps \/ Raises
           \/ \E m \in Messages : Requeues(m)
           \/ \E w \in Workers : Takes(w) \/ EndsAt(w) \/ WaitsAt(w)
    PROVE  Numbered'
<1>1. CASE Keeps
  BY <1>1 DEF Keeps, Numbered, Places, LastOf
<1>2. CASE Raises
  <2>1. ASSUME NEW x \in Messages, x.n <= LastOf(raised, x)
        PROVE  x.n <= LastOf(raised', x)
    BY <1>2, <2>1, MessageFields DEF Raises, LastOf, TypeOK
  <2>2. \A i \in Places' : queue'[i].n <= LastOf(raised', queue'[i])
    <3>1. \A i \in Places' \ Places : queue'[i].n <= LastOf(raised', queue'[i])
      <4>1. \A i \in Places' \ Places : queue'[i].n \in Nat
        <5>1. \A i \in Places' : queue'[i] \in Jobs
          BY <1>2 DEF Raises, Places
        <5> QED
          BY <5>1, JobsAreMessages, MessageFields
      <4> QED
        BY <1>2, <4>1 DEF Raises
    <3>2. \A i \in Places : queue'[i].n <= LastOf(raised', queue'[i])
      BY <1>2, <2>1, QueueTyped DEF Raises, Numbered
    <3> QED
      BY <3>1, <3>2
  <2>3. \A m \in waiting \cup ended : m.n <= LastOf(raised', m)
    BY <2>1, QueueTyped DEF Numbered
  <2>4. \A w \in Workers : Busy(w) => worker[w].job.n <= LastOf(raised', worker[w].job)
    BY <2>1, BusyTyped DEF Numbered
  <2>5. UNCHANGED <<worker, waiting, ended>>
    BY <1>2 DEF Raises
  <2> QED
    BY <2>2, <2>3, <2>4, <2>5 DEF Numbered, Busy
<1>3. ASSUME NEW m \in Messages, Requeues(m)
      PROVE  Numbered'
  <2>1. \A i \in Places' : i \in Places \/ i = Len(queue) + 1
    BY <1>3, QueueTyped DEF Requeues, Places
  <2>2. \A i \in Places' : queue'[i].n <= LastOf(raised, queue'[i])
    BY <1>3, <2>1 DEF Requeues, Numbered
  <2> QED
    BY <1>3, <2>2 DEF Requeues, Numbered, Busy
<1>4. ASSUME NEW w \in Workers, Takes(w)
      PROVE  Numbered'
  <2>1. 1 \in Places /\ \A i \in Places' : i + 1 \in Places
    BY <1>4, QueueTyped DEF Takes, Places
  <2>2. \A v \in Workers : Busy(v)' => worker'[v].job.n <= LastOf(raised, worker'[v].job)
    BY <1>4, <2>1 DEF Takes, Numbered, Only, Busy
  <2>3. \A i \in Places' : queue'[i].n <= LastOf(raised, queue'[i])
    BY <1>4, <2>1 DEF Takes, Numbered
  <2> QED
    BY <1>4, <2>2, <2>3 DEF Takes, Numbered
<1>5. ASSUME NEW w \in Workers, EndsAt(w)
      PROVE  Numbered'
  <2>1. \A x \in MessagesOf(worker[w].job) : x.n <= LastOf(raised, x)
    BY <1>5, BusyTyped, SameNumbers DEF EndsAt, Numbered, Doing
  <2>2. \A v \in Workers : Busy(v)' => worker'[v] = worker[v] /\ Busy(v)
    BY <1>5, IdleShape DEF EndsAt, Ends, Only, Busy
  <2> QED
    BY <1>5, <2>1, <2>2 DEF EndsAt, Ends, Numbered, Places
<1>6. ASSUME NEW w \in Workers, WaitsAt(w)
      PROVE  Numbered'
  <2>1. \A v \in Workers : Busy(v)' => worker'[v] = worker[v] /\ Busy(v)
    BY <1>6, IdleShape DEF WaitsAt, Only, Busy
  <2> QED
    BY <1>6, <2>1 DEF WaitsAt, Numbered, Places
<1> QED
  BY <1>1, <1>2, <1>3, <1>4, <1>5, <1>6

\* A job that was just raised is nowhere yet.
LEMMA NewIsNowhere ==
    ASSUME TypeOK, Numbered, NEW j \in Jobs, LastOf(raised, j) < j.n
    PROVE  /\ \A i \in Places : queue[i] # j
           /\ j \notin waiting
           /\ \A w \in Workers : Busy(w) => Doing(w) # j
           /\ \A x \in ended : JobOf(x) # j
<1>1. /\ j \in Messages /\ j.n \in Nat
      /\ LastOf(raised, j) \in Nat /\ ~(j.n <= LastOf(raised, j))
  BY JobsAreMessages, MessageFields DEF LastOf, TypeOK
<1>2. \A i \in Places : queue[i] # j
  BY <1>1 DEF Numbered
<1>3. j \notin waiting
  BY <1>1 DEF Numbered
<1>4. ASSUME NEW x \in Messages, JobOf(x) = j
      PROVE  ~(x.n <= LastOf(raised, x))
  BY <1>1, <1>4, SameNumbers
<1>5. \A w \in Workers : Busy(w) => Doing(w) # j
  BY <1>4, BusyTyped DEF Numbered, Doing
<1>6. \A x \in ended : JobOf(x) # j
  BY <1>4, QueueTyped DEF Numbered
<1> QED
  BY <1>2, <1>3, <1>5, <1>6

LEMMA ApartByRaises ==
    ASSUME TypeOK, Numbered, Apart, Raises
    PROVE  Apart'
<1>1. /\ UNCHANGED <<worker, waiting, ended>>
      /\ \A i \in Places : queue'[i] = queue[i]
      /\ \A i \in Places' \ Places :
           \A j \in Places' \ Places : i # j => queue'[i] # queue'[j]
  BY DEF Raises
<1>2. ASSUME NEW i \in Places' \ Places
      PROVE  /\ \A k \in Places : queue[k] # queue'[i]
             /\ queue'[i] \notin waiting
             /\ \A w \in Workers : Busy(w) => Doing(w) # queue'[i]
             /\ \A x \in ended : JobOf(x) # queue'[i]
  <2>1. queue'[i] \in Jobs /\ LastOf(raised, queue'[i]) < queue'[i].n
    BY DEF Raises, Places
  <2> QED
    BY <2>1, NewIsNowhere
<1>3. QueuedOnce'
  BY <1>1, <1>2 DEF Apart, QueuedOnce
<1>4. RunsOnce'
  BY <1>1, <1>2 DEF Apart, RunsOnce, Busy, Doing
<1>5. EndsOnce'
  BY <1>1, <1>2 DEF Apart, EndsOnce, Busy, Doing
<1> QED
  BY <1>3, <1>4, <1>5 DEF Apart

LEMMA ApartByRequeues ==
    ASSUME TypeOK, Apart, NEW m \in Messages, Requeues(m)
    PROVE  Apart'
<1>1. /\ UNCHANGED <<worker, ended>> /\ m \in waiting /\ waiting' = waiting \ {m}
      /\ \A i \in Places' : i \in Places \/ i = Len(queue) + 1
      /\ Len(queue) + 1 \notin Places /\ queue'[Len(queue) + 1] = m
      /\ \A i \in Places : queue'[i] = queue[i]
  BY QueueTyped DEF Requeues, Places
<1>2. \A i \in Places' : queue'[i] = m \/ (i \in Places /\ queue'[i] = queue[i])
  BY <1>1
<1>3. QueuedOnce'
  BY <1>1 DEF Apart, QueuedOnce
<1>4. RunsOnce'
  BY <1>1, <1>2 DEF Apart, RunsOnce, Busy, Doing
<1>5. EndsOnce'
  BY <1>1, <1>2 DEF Apart, EndsOnce, Busy, Doing
<1> QED
  BY <1>3, <1>4, <1>5 DEF Apart

LEMMA ApartByTakes ==
    ASSUME TypeOK, Apart, NEW w \in Workers, Takes(w)
    PROVE  Apart'
<1>1. /\ 1 \in Places /\ Doing(w)' = queue[1] /\ ~Busy(w)
      /\ \A v \in Workers : v # w => (Busy(v)' <=> Busy(v)) /\ Doing(v)' = Doing(v)
  BY QueueTyped DEF Takes, Places, Doing, Busy, Only
<1>2. \A i \in Places' : i + 1 \in Places /\ i + 1 # 1 /\ queue'[i] = queue[i + 1]
  BY QueueTyped DEF Takes, Places
<1>3. UNCHANGED <<waiting, ended>>
  BY DEF Takes
<1>4. QueuedOnce'
  <2>1. \A i, j \in Places' : i # j => i + 1 # j + 1
    BY DEF Places
  <2> QED
    BY <1>2, <1>3, <2>1 DEF Apart, QueuedOnce
<1>5. RunsOnce'
  <2>1. ASSUME NEW v \in Workers, Busy(v)'
        PROVE  /\ \A i \in Places' : queue'[i] # Doing(v)'
               /\ Doing(v)' \notin waiting'
               /\ \A u \in Workers : u # v /\ Busy(u)' => Doing(u)' # Doing(v)'
    <3>1. CASE v = w
      BY <3>1, <1>1, <1>2, <1>3 DEF Apart, QueuedOnce, RunsOnce
    <3>2. CASE v # w
      BY <2>1, <3>2, <1>1, <1>2, <1>3 DEF Apart, RunsOnce
    <3> QED
      BY <3>1, <3>2
  <2> QED
    BY <2>1 DEF RunsOnce
<1>6. EndsOnce'
  <2>1. ASSUME NEW x \in ended
        PROVE  /\ JobOf(x) \notin waiting
               /\ \A i \in Places' : JobOf(x) # queue'[i]
               /\ \A v \in Workers : Busy(v)' => JobOf(x) # Doing(v)'
    BY <1>1, <1>2 DEF Apart, EndsOnce
  <2> QED
    BY <1>3, <2>1 DEF EndsOnce
<1> QED
  BY <1>4, <1>5, <1>6 DEF Apart

LEMMA ApartByMove ==
    ASSUME TypeOK, Numbered, Apart,
           \/ Keeps \/ Raises
           \/ \E m \in Messages : Requeues(m)
           \/ \E w \in Workers : Takes(w) \/ EndsAt(w) \/ WaitsAt(w)
    PROVE  Apart'
<1>1. CASE Keeps
  BY <1>1 DEF Keeps, Apart, QueuedOnce, RunsOnce, EndsOnce, Places
<1>2. ASSUME NEW w \in Workers, EndsAt(w)
      PROVE  Apart'
  <2>1. /\ \A v \in Workers : Busy(v)' => v # w /\ Busy(v) /\ Doing(v)' = Doing(v)
        /\ UNCHANGED <<queue, waiting>> /\ Busy(w)
    BY <1>2, IdleShape DEF EndsAt, Ends, Only, Busy, Doing
  <2>2. ended' = ended \cup {x \in Messages : JobOf(x) = Doing(w)}
    BY <1>2, BusyTyped DEF EndsAt, Ends
  <2>3. QueuedOnce'
    BY <2>1 DEF Apart, QueuedOnce, Places
  <2>4. RunsOnce'
    BY <2>1 DEF Apart, RunsOnce, Places
  <2>5. EndsOnce'
    BY <2>1, <2>2 DEF Apart, RunsOnce, EndsOnce, Places
  <2> QED
    BY <2>3, <2>4, <2>5 DEF Apart
<1>3. ASSUME NEW w \in Workers, WaitsAt(w)
      PROVE  Apart'
  <2>1. /\ \A v \in Workers : Busy(v)' => v # w /\ Busy(v) /\ Doing(v)' = Doing(v)
        /\ UNCHANGED <<queue, ended>> /\ Busy(w) /\ waiting' = waiting \cup {Doing(w)}
    BY <1>3, IdleShape DEF WaitsAt, Only, Busy, Doing, JobOf
  <2>2. QueuedOnce'
    BY <2>1 DEF Apart, QueuedOnce, RunsOnce, Places
  <2>3. RunsOnce'
    BY <2>1 DEF Apart, RunsOnce, Places
  <2>4. EndsOnce'
    BY <2>1 DEF Apart, EndsOnce, Places
  <2> QED
    BY <2>2, <2>3, <2>4 DEF Apart
<1> QED
  BY <1>1, <1>2, <1>3, ApartByRaises, ApartByRequeues, ApartByTakes

----------------------------------------------------------------------------
(* How often a message is sent. *)

\* w sends its message; what becomes of the job then.
SendsAt(w) ==
    LET m == worker[w].job
    IN  /\ worker[w].pc = "send" /\ m.ch \in configured
        /\ attempts' = [attempts EXCEPT ![m] = @ + 1]
        /\ Arrive(m) \/ UNCHANGED <<copies, received>>
        /\ \/ GoesOn(w) /\ UNCHANGED <<raised, queue, waiting>>
           \/ /\ EndsAt(w) /\ (m.kind = "alert" \/ m.ch = "email")
              /\ Arrive(m) \/ ~(m.kind = "alert" /\ Again(m))
           \/ WaitsAt(w) /\ Again(m)
        /\ UNCHANGED <<settings, changes, crashes, overlapped>>

LEMMA OnlyProcessesSend ==
    ASSUME TypeOK, [Next]_vars
    PROVE  UNCHANGED <<attempts, copies, received>> \/ \E w \in Workers : SendsAt(w)
<1>1. ASSUME NEW w \in Workers, Step(w) \/ Abort(w)
      PROVE  UNCHANGED <<attempts, copies, received>> \/ SendsAt(w)
  <2>1. CASE Accepted(w)
    <3>1. Busy(w)
      BY <2>1 DEF Accepted, Busy
    <3>2. \/ GoesOn(w)
          \/ Ends(w) /\ (worker[w].job.kind = "alert" \/ worker[w].job.ch = "email")
      BY <2>1, <3>1, WhatProceedDoes DEF Accepted
    <3> QED
      BY <2>1, <3>1, <3>2 DEF Accepted, SendsAt, EndsAt
  <2>2. CASE SendFails(w)
    <3>1. Busy(w)
      BY <2>2 DEF SendFails, Busy
    <3>2. CASE /\ ~(worker[w].job.kind = "alert" /\ Again(worker[w].job))
               /\ Proceed(w) /\ UNCHANGED waiting
      <4>1. \/ GoesOn(w)
            \/ Ends(w) /\ (worker[w].job.kind = "alert" \/ worker[w].job.ch = "email")
        BY <3>1, <3>2, WhatProceedDoes
      <4> QED
        BY <2>2, <3>1, <3>2, <4>1 DEF SendFails, SendsAt, EndsAt
    <3>3. CASE /\ worker[w].job.kind = "alert" /\ Again(worker[w].job)
               /\ waiting' = waiting \cup {worker[w].job}
               /\ worker' = [worker EXCEPT ![w] = Idle] /\ UNCHANGED ended
      <4>1. WaitsAt(w)
        BY <2>2, <3>1, <3>3 DEF WaitsAt, SendFails, Only, TypeOK
      <4> QED
        BY <2>2, <3>3, <4>1 DEF SendFails, SendsAt
    <3> QED
      BY <2>2, <3>2, <3>3 DEF SendFails
  <2>3. CASE Take(w) \/ Read(w) \/ Consider(w) \/ NotConfigured(w) \/ Abort(w)
    BY <2>3 DEF Take, Read, Consider, NotConfigured, Abort, history
  <2> QED
    BY <1>1, <2>1, <2>2, <2>3 DEF Step
<1>2. ASSUME NEW ch, Mute(ch) \/ MuteExpires(ch) \/ Switch(ch)
      PROVE  UNCHANGED <<attempts, copies, received>>
  BY <1>2 DEF Mute, MuteExpires, Switch, history
<1>3. ASSUME NEW kinds, DeleteRows(kinds)
      PROVE  UNCHANGED <<attempts, copies, received>>
  BY <1>3 DEF DeleteRows, history
<1>4. ASSUME NEW m, RetryDue(m)
      PROVE  UNCHANGED <<attempts, copies, received>>
  BY <1>4 DEF RetryDue, history
<1>5. ASSUME EnqueueAlert \/ EnqueueHeartbeat \/ UNCHANGED vars
      PROVE  UNCHANGED <<attempts, copies, received>>
  BY <1>5 DEF EnqueueAlert, EnqueueHeartbeat, vars, history
<1> QED
  BY <1>1, <1>2, <1>3, <1>4, <1>5 DEF Next

\* Whatever may still be sent has an attempt left.
Left(x) == attempts[x] < LimitOf(x)
NewLeft == \A x \in Messages : LastOf(raised, x) < x.n => Left(x)
QueueLeft == \A x \in Messages, i \in Places : JobOf(x) = queue[i] => Left(x)
WaitingLeft == \A x \in waiting : Left(x)
\* Of a heartbeat that went on to its e-mail only that is still to be sent.
ToSend(w, x) ==
    Busy(w) /\ JobOf(x) = Doing(w) /\ (x = worker[w].job \/ worker[w].job.ch = "telegram")
RunningLeft == \A w \in Workers, x \in Messages : ToSend(w, x) => Left(x)
Counted ==
    /\ attempts \in [Messages -> Nat] /\ copies \in [Messages -> Nat]
    /\ \A x \in Messages : copies[x] <= attempts[x] /\ attempts[x] <= LimitOf(x)
Budget == Counted /\ NewLeft /\ QueueLeft /\ WaitingLeft /\ RunningLeft

LEMMA LimitIsPositive ==
    ASSUME NEW x
    PROVE  LimitOf(x) \in Nat \ {0}
BY ConstantsAssumption DEF LimitOf

\* As long as nothing is sent.
LEMMA BudgetByMove ==
    ASSUME TypeOK, Budget, UNCHANGED <<attempts, copies>>,
           \/ Keeps \/ Raises
           \/ \E m \in Messages : Requeues(m)
           \/ \E w \in Workers : Takes(w) \/ EndsAt(w) \/ WaitsAt(w)
    PROVE  Budget'
<1>1. Counted' /\ \A x \in Messages : Left(x)' <=> Left(x)
  BY DEF Budget, Counted, Left, LimitOf
<1>2. CASE Keeps
  <2>1. \A w \in Workers, x \in Messages : ToSend(w, x)' => ToSend(w, x)
    <3> SUFFICES ASSUME NEW w \in Workers, NEW x \in Messages, ToSend(w, x)'
                 PROVE  ToSend(w, x)
      OBVIOUS
    <3>1. Busy(w) /\ JobOf(x) = Doing(w)
      BY <1>2 DEF Keeps, ToSend
    <3>2. \/ worker'[w].job = worker[w].job
          \/ worker[w].job.ch = "telegram" /\ worker'[w].job.ch = "email"
      BY <1>2 DEF Keeps
    <3> QED
      BY <3>1, <3>2 DEF ToSend
  <2> QED
    <3>1. UNCHANGED <<raised, queue, waiting>>
      BY <1>2 DEF Keeps
    <3>2. NewLeft'
      BY <1>1, <3>1 DEF Budget, NewLeft
    <3>3. QueueLeft'
      BY <1>1, <3>1 DEF Budget, QueueLeft, Places
    <3>4. WaitingLeft'
      BY <1>1, <3>1 DEF Budget, WaitingLeft, TypeOK
    <3>5. RunningLeft'
      BY <1>1, <2>1 DEF Budget, RunningLeft
    <3> QED
      BY <1>1, <3>2, <3>3, <3>4, <3>5 DEF Budget
<1>3. CASE Raises
  <2>1. NewLeft'
    <3> SUFFICES ASSUME NEW x \in Messages, LastOf(raised', x) < x.n
                 PROVE  Left(x)
      BY <1>1 DEF NewLeft
    <3>1. x.n \in Nat /\ LastOf(raised, x) <= LastOf(raised', x)
          /\ LastOf(raised', x) \in Nat /\ LastOf(raised, x) \in Nat
      BY <1>3, MessageFields DEF Raises, LastOf, TypeOK
    <3> QED
      BY <3>1 DEF Budget, NewLeft
  <2>2. QueueLeft'
    <3> SUFFICES ASSUME NEW x \in Messages, NEW i \in Places', JobOf(x) = queue'[i]
                 PROVE  Left(x)
      BY <1>1 DEF QueueLeft
    <3>1. CASE i \in Places
      BY <1>3, <3>1 DEF Raises, Budget, QueueLeft
    <3>2. CASE i \notin Places
      <4>1. LastOf(raised, JobOf(x)) < JobOf(x).n
        BY <1>3, <3>2 DEF Raises
      <4> QED
        BY <4>1, SameNumbers DEF Budget, NewLeft
    <3> QED
      BY <3>1, <3>2
  <2> QED
    <3>1. UNCHANGED <<worker, waiting>>
      BY <1>3 DEF Raises
    <3>2. WaitingLeft'
      BY <1>1, <3>1 DEF Budget, WaitingLeft, TypeOK
    <3>3. RunningLeft'
      BY <1>1, <3>1 DEF Budget, RunningLeft, ToSend, Busy, Doing
    <3> QED
      BY <1>1, <2>1, <2>2, <3>2, <3>3 DEF Budget
<1>4. ASSUME NEW m \in Messages, Requeues(m)
      PROVE  Budget'
  <2>1. \A i \in Places' : i \in Places \/ i = Len(queue) + 1
    BY <1>4, QueueTyped DEF Requeues, Places
  <2>2. QueueLeft'
    <3> SUFFICES ASSUME NEW x \in Messages, NEW i \in Places', JobOf(x) = queue'[i]
                 PROVE  Left(x)
      BY <1>1 DEF QueueLeft
    <3>1. CASE i \in Places
      BY <1>4, <3>1 DEF Requeues, Budget, QueueLeft
    <3>2. CASE i = Len(queue) + 1
      <4>1. JobOf(x) = m /\ m.kind = "alert" /\ m \in waiting
        BY <1>4, <3>2, QueueTyped DEF Requeues
      <4>2. x = m
        BY <4>1 DEF JobOf, Heartbeat
      <4> QED
        BY <4>1, <4>2 DEF Budget, WaitingLeft
    <3> QED
      BY <2>1, <3>1, <3>2
  <2>3. WaitingLeft' /\ NewLeft' /\ RunningLeft'
    BY <1>1, <1>4
       DEF Requeues, Budget, WaitingLeft, NewLeft, RunningLeft, ToSend, Busy, Doing, TypeOK
  <2> QED
    BY <1>1, <2>2, <2>3 DEF Budget
<1>5. ASSUME NEW w \in Workers, Takes(w)
      PROVE  Budget'
  <2>1. 1 \in Places /\ \A i \in Places' : i + 1 \in Places /\ queue'[i] = queue[i + 1]
    BY <1>5, QueueTyped DEF Takes, Places
  <2>2. QueueLeft' /\ WaitingLeft' /\ NewLeft'
    BY <1>1, <1>5, <2>1 DEF Takes, Budget, QueueLeft, WaitingLeft, NewLeft, TypeOK
  <2>3. RunningLeft'
    <3> SUFFICES ASSUME NEW v \in Workers, NEW x \in Messages, ToSend(v, x)'
                 PROVE  Left(x)
      BY <1>1 DEF RunningLeft
    <3>1. CASE v = w
      <4>1. JobOf(x) = queue[1]
        BY <1>5, <2>1, <3>1, QueueTyped DEF Takes, ToSend, Doing
      <4> QED
        BY <2>1, <4>1 DEF Budget, QueueLeft
    <3>2. CASE v # w
      <4>1. ToSend(v, x)
        BY <1>5, <3>2 DEF Takes, Only, ToSend, Busy, Doing
      <4> QED
        BY <4>1 DEF Budget, RunningLeft
    <3> QED
      BY <3>1, <3>2
  <2> QED
    BY <1>1, <2>2, <2>3 DEF Budget
<1>6. ASSUME NEW w \in Workers, EndsAt(w) \/ WaitsAt(w)
      PROVE  Budget'
  <2>1. UNCHANGED <<raised, queue>>
    BY <1>6 DEF EndsAt, WaitsAt
  <2>2. \A v \in Workers, x \in Messages : ToSend(v, x)' => ToSend(v, x)
    BY <1>6, IdleShape DEF EndsAt, Ends, WaitsAt, Only, ToSend, Busy, Doing
  <2>3. WaitingLeft'
    <3>1. CASE EndsAt(w)
      BY <1>1, <3>1 DEF EndsAt, Budget, WaitingLeft, TypeOK
    <3>2. CASE WaitsAt(w)
      <4>1. ToSend(w, worker[w].job) /\ worker[w].job \in Messages
        BY <3>2, BusyTyped DEF WaitsAt, ToSend, Doing
      <4> QED
        BY <1>1, <3>2, <4>1 DEF WaitsAt, Budget, WaitingLeft, RunningLeft, TypeOK
    <3> QED
      BY <1>6, <3>1, <3>2
  <2> QED
    BY <1>1, <2>1, <2>2, <2>3 DEF Budget, NewLeft, QueueLeft, RunningLeft, Places
<1> QED
  BY <1>2, <1>3, <1>4, <1>5, <1>6

\* A send uses up one attempt of its message, which nobody else has.
LEMMA BudgetBySend ==
    ASSUME TypeOK, Numbered, Apart, Budget, NEW w \in Workers, SendsAt(w)
    PROVE  Budget'
<1> USE ConstantsAssumption
<1> DEFINE m == worker[w].job
<1>1. Busy(w) /\ m \in Messages /\ JobOf(m) = Doing(w) /\ Left(m)
  <2>1. Busy(w)
    BY DEF SendsAt, Busy
  <2>2. m \in Messages /\ JobOf(m) = Doing(w)
    BY <2>1, BusyTyped DEF Doing
  <2> QED
    BY <2>1, <2>2 DEF Budget, RunningLeft, ToSend
<1>2. attempts' = [attempts EXCEPT ![m] = @ + 1]
  BY DEF SendsAt
<1>3. \A x \in Messages : x # m => (Left(x)' <=> Left(x))
  BY <1>2 DEF Budget, Counted, Left, LimitOf
<1>4. Counted'
  <2>1. copies' \in [Messages -> Nat] /\ \A x \in Messages : copies'[x] <= attempts'[x]
    <3>1. CASE copies' = [copies EXCEPT ![m] = @ + 1]
      BY <1>1, <1>2, <3>1 DEF Budget, Counted
    <3>2. CASE copies' = copies
      BY <1>1, <1>2, <3>2 DEF Budget, Counted
    <3> QED
      BY <3>1, <3>2 DEF SendsAt, Arrive
  <2>2. attempts' \in [Messages -> Nat]
    BY <1>1, <1>2 DEF Budget, Counted
  <2>3. \A x \in Messages : attempts'[x] <= LimitOf(x)
    BY <1>1, <1>2, LimitIsPositive DEF Budget, Counted, Left
  <2>4. \A x \in Messages : LimitOf(x)' = LimitOf(x)
    BY DEF LimitOf
  <2> QED
    BY <2>1, <2>2, <2>3, <2>4 DEF Counted
<1>5. UNCHANGED <<raised, queue>>
  BY DEF SendsAt, EndsAt, WaitsAt
<1>6. NewLeft'
  <2>1. m.n <= LastOf(raised, m) /\ m.n \in Nat /\ LastOf(raised, m) \in Nat
    BY <1>1, MessageFields DEF Numbered, LastOf, TypeOK
  <2>2. ~(LastOf(raised, m) < m.n)
    BY <2>1
  <2> QED
    BY <1>3, <1>5, <2>2 DEF Budget, NewLeft
<1>7. QueueLeft'
  BY <1>1, <1>3, <1>5 DEF Budget, QueueLeft, Apart, RunsOnce, Places
<1>8. WaitingLeft'
  <2>1. CASE waiting' = waiting
    <3>1. \A x \in waiting : x # m
      BY <1>1, QueueTyped DEF Apart, RunsOnce
    <3> QED
      BY <1>3, <2>1, <3>1, QueueTyped DEF Budget, WaitingLeft
  <2>2. CASE WaitsAt(w) /\ Again(m)
    <3>1. attempts'[m] < MaxRetries + 1
      <4>1. attempts'[m] = attempts[m] + 1 /\ attempts[m] \in Nat
        BY <1>1, <1>2 DEF Budget, Counted
      <4> QED
        BY <2>2, <4>1 DEF Again
    <3>2. m.kind = "alert" /\ waiting' = waiting \cup {m}
      BY <2>2 DEF WaitsAt
    <3> HIDE DEF m
    <3>3. PICK y : y = m
      OBVIOUS
    <3>4. Left(y)' /\ waiting' = waiting \cup {y}
      BY <3>1, <3>2, <3>3 DEF Left, LimitOf
    <3>5. \A x \in waiting : x # y => Left(x)'
      BY <1>3, <3>3, QueueTyped DEF Budget, WaitingLeft
    <3> QED
      BY <3>4, <3>5 DEF WaitingLeft
  <2> QED
    BY <2>1, <2>2 DEF SendsAt, EndsAt
<1>9. RunningLeft'
  <2> SUFFICES ASSUME NEW v \in Workers, NEW x \in Messages, ToSend(v, x)'
               PROVE  Left(x)'
    BY DEF RunningLeft
  <2>1. CASE v # w
    <3>1. ToSend(v, x) /\ worker'[v] = worker[v]
      BY <2>1 DEF SendsAt, GoesOn, EndsAt, Ends, WaitsAt, Only, ToSend, Busy, Doing
    <3>2. x # m
      BY <1>1, <2>1, <3>1 DEF ToSend, Apart, RunsOnce
    <3> QED
      BY <1>3, <3>1, <3>2 DEF Budget, RunningLeft
  <2>2. CASE v = w
    <3>1. GoesOn(w)
      BY <2>2, IdleShape DEF SendsAt, EndsAt, Ends, WaitsAt, ToSend, Busy
    <3>2. m.ch = "telegram" /\ Doing(w)' = Doing(w) /\ worker'[w].job.ch = "email"
      BY <3>1 DEF GoesOn, Doing, JobOf, Heartbeat
    <3>3. x = worker'[w].job /\ JobOf(x) = Doing(w)
      BY <2>2, <3>2 DEF ToSend
    <3>4. x # m /\ ToSend(w, x)
      BY <1>1, <3>2, <3>3 DEF ToSend
    <3> QED
      BY <1>3, <3>4 DEF Budget, RunningLeft
  <2> QED
    BY <2>1, <2>2
<1> QED
  BY <1>4, <1>6, <1>7, <1>8, <1>9 DEF Budget

----------------------------------------------------------------------------
(* The inductive invariant. *)

IInv == TypeOK /\ Numbered /\ Apart /\ Budget

LEMMA InvInit ==
    ASSUME Init
    PROVE  IInv
<1> USE ConstantsAssumption
<1>1. queue \in Seq(Jobs) /\ Len(queue) = 0 /\ Places = {}
  BY DEF Init, Places
<1>2. \A w \in Workers : worker[w] = Idle /\ ~Busy(w)
  BY IdleShape DEF Init, Busy
<1>3. worker \in [Workers -> Activities]
  BY IdleShape DEF Init
<1>4. raised \in [alert : 0 .. MaxEvents, heartbeat : 0 .. MaxNotices]
  BY DEF Init
<1>5. Counted /\ \A x \in Messages : Left(x)
  BY LimitIsPositive DEF Init, Counted, Left
<1>6. configured \in Deployments /\ on = Channels /\ muted = {} /\ gone = {}
      /\ waiting = {} /\ ended = {} /\ changes = 0 /\ crashes = 0
      /\ overlapped = FALSE
  BY DEF Init
<1>7. received \in [Channels -> 0 .. MaxNotices]
  BY DEF Init
<1>8. TypeOK
  <2>1. 0 \in 0 .. MaxChanges /\ 0 \in 0 .. MaxCrashes
    OBVIOUS
  <2>2. waiting \subseteq {m \in Messages : m.kind = "alert"} /\ ended \subseteq Messages
    BY <1>6
  <2> QED
    BY <1>1, <1>2, <1>3, <1>4, <1>5, <1>6, <1>7, <2>1, <2>2 DEF TypeOK, Counted
<1>9. Numbered /\ Apart
  BY <1>1, <1>2, <1>6 DEF Numbered, Apart, QueuedOnce, RunsOnce, EndsOnce
<1>10. Budget
  BY <1>1, <1>5, <1>6 DEF Budget, NewLeft, QueueLeft, WaitingLeft, RunningLeft
<1> QED
  BY <1>8, <1>9, <1>10 DEF IInv

\* The switches, the counters and what arrived keep their shape.
LEMMA SettingsStep ==
    ASSUME TypeOK, [Next]_vars
    PROVE  /\ configured' \in Deployments
           /\ on' \subseteq Channels /\ muted' \subseteq Channels
           /\ gone' \subseteq {"alert", "heartbeat"}
           /\ changes' \in 0 .. MaxChanges /\ crashes' \in 0 .. MaxCrashes
           /\ overlapped' \in BOOLEAN
<1> USE ConstantsAssumption
<1>1. ASSUME NEW ch \in Channels, Mute(ch) \/ MuteExpires(ch) \/ Switch(ch)
      PROVE  /\ UNCHANGED <<configured, gone, crashes, overlapped>>
             /\ on' \subseteq Channels /\ muted' \subseteq Channels
             /\ changes' \in 0 .. MaxChanges
  BY <1>1 DEF Mute, MuteExpires, Switch, Change, TypeOK
<1>2. ASSUME NEW kinds \in SUBSET {"alert", "heartbeat"}, DeleteRows(kinds)
      PROVE  /\ UNCHANGED <<configured, on, muted, crashes, overlapped>>
             /\ gone' \subseteq {"alert", "heartbeat"}
             /\ changes' \in 0 .. MaxChanges
  BY <1>2 DEF DeleteRows, Change, TypeOK
<1>3. ASSUME NEW w \in Workers, Step(w)
      PROVE  UNCHANGED <<settings, changes, crashes>> /\ overlapped' \in BOOLEAN
  BY <1>3 DEF Step, Take, Read, Consider, NotConfigured, Accepted, SendFails, TypeOK
<1>4. ASSUME NEW w \in Workers, Abort(w)
      PROVE  UNCHANGED <<settings, changes, overlapped>> /\ crashes' \in 0 .. MaxCrashes
  BY <1>4 DEF Abort, TypeOK
<1>5. ASSUME EnqueueAlert \/ EnqueueHeartbeat \/ UNCHANGED vars
             \/ \E m \in Messages : RetryDue(m)
      PROVE  UNCHANGED <<settings, changes, crashes, overlapped>>
  BY <1>5 DEF EnqueueAlert, EnqueueHeartbeat, vars, RetryDue
<1> QED
  BY <1>1, <1>2, <1>3, <1>4, <1>5 DEF Next, settings, TypeOK

\* What a move leaves of the places.
LEMMA PlacesStep ==
    ASSUME TypeOK, [Next]_vars
    PROVE  /\ queue' \in Seq(Jobs) /\ waiting' \subseteq {m \in Messages : m.kind = "alert"}
           /\ ended' \subseteq Messages
           /\ raised' \in [alert : 0 .. MaxEvents, heartbeat : 0 .. MaxNotices]
<1> USE ConstantsAssumption
<1>1. raised' \in [alert : 0 .. MaxEvents, heartbeat : 0 .. MaxNotices]
  <2>1. CASE EnqueueAlert
    <3>1. raised' = [raised EXCEPT !.alert = @ + 1] /\ raised.alert + 1 \in 0 .. MaxEvents
      BY <2>1 DEF EnqueueAlert, TypeOK
    <3> QED
      BY <3>1 DEF TypeOK
  <2>2. CASE EnqueueHeartbeat
    <3>1. /\ raised' = [raised EXCEPT !.heartbeat = @ + 1]
          /\ raised.heartbeat + 1 \in 0 .. MaxNotices
      BY <2>2 DEF EnqueueHeartbeat, TypeOK
    <3> QED
      BY <3>1 DEF TypeOK
  <2>3. CASE raised' = raised
    BY <2>3 DEF TypeOK
  <2> QED
    BY <2>1, <2>2, <2>3
       DEF Next, Mute, MuteExpires, Switch, DeleteRows, Step, Take, Read, Consider,
           NotConfigured, Accepted, SendFails, Abort, RetryDue, vars
<1>2. CASE Keeps
  BY <1>1, <1>2 DEF Keeps, TypeOK
<1>3. CASE Raises
  BY <1>1, <1>3 DEF Raises, TypeOK
<1>4. ASSUME NEW m \in Messages, Requeues(m)
      PROVE  /\ queue' \in Seq(Jobs) /\ ended' \subseteq Messages
             /\ waiting' \subseteq {x \in Messages : x.kind = "alert"}
  BY <1>4 DEF Requeues, TypeOK
<1>5. ASSUME NEW w \in Workers, Takes(w) \/ EndsAt(w) \/ WaitsAt(w)
      PROVE  /\ queue' \in Seq(Jobs) /\ ended' \subseteq Messages
             /\ waiting' \subseteq {x \in Messages : x.kind = "alert"}
  <2>1. CASE Takes(w)
    BY <2>1 DEF Takes, TypeOK
  <2>2. CASE EndsAt(w)
    BY <2>2, BusyTyped DEF EndsAt, Ends, TypeOK
  <2>3. CASE WaitsAt(w)
    BY <2>3, BusyTyped DEF WaitsAt, TypeOK
  <2> QED
    BY <1>5, <2>1, <2>2, <2>3
<1> QED
  BY <1>1, <1>2, <1>3, <1>4, <1>5, EveryStepMoves

\* What a step leaves of the processes.
LEMMA ProcessesStep ==
    ASSUME TypeOK, [Next]_vars
    PROVE  /\ worker' \in [Workers -> Activities]
           /\ \A w \in Workers : Busy(w)' => worker'[w].job \in Messages
<1>1. ASSUME worker' \in [Workers -> Activities]
      PROVE  \A w \in Workers : Busy(w)' => worker'[w].job \in Messages
  <2>1. CASE Keeps \/ Raises \/ \E m \in Messages : Requeues(m)
    <3>1. \A w \in Workers : Busy(w)' => Busy(w) /\ worker'[w].job.n = worker[w].job.n
      BY <2>1 DEF Keeps, Raises, Requeues, Busy
    <3>2. \A w \in Workers : worker'[w].job \in Messages \cup {Heartbeat(0)}
      BY <1>1 DEF Activities
    <3> QED
      BY <3>1, <3>2, ConstantsAssumption DEF TypeOK, Messages, Heartbeat
  <2>2. ASSUME NEW v \in Workers, Takes(v)
        PROVE  \A w \in Workers : Busy(w)' => worker'[w].job \in Messages
    BY <2>2, JobsAreMessages DEF Takes, Only, TypeOK, Busy
  <2>3. ASSUME NEW v \in Workers, EndsAt(v) \/ WaitsAt(v)
        PROVE  \A w \in Workers : Busy(w)' => worker'[w].job \in Messages
    BY <2>3, IdleShape DEF EndsAt, Ends, WaitsAt, Only, TypeOK, Busy
  <2> QED
    BY <2>1, <2>2, <2>3, EveryStepMoves
<1>2. ASSUME NEW w \in Workers, Step(w) \/ Abort(w)
      PROVE  worker' \in [Workers -> Activities]
  <2>1. CASE Take(w)
    BY <2>1, WhatTakeDoes
  <2>2. CASE Read(w)
    BY <2>2, WhatReadDoes DEF Ends, Reaches
  <2>3. CASE Consider(w)
    BY <2>3, WhatConsiderDoes, WhatProceedDoes DEF Ends, Reaches, GoesOn
  <2>4. CASE NotConfigured(w) \/ Accepted(w)
    BY <2>4, WhatProceedDoes DEF NotConfigured, Accepted, Ends, GoesOn, Busy
  <2>5. CASE SendFails(w)
    <3>1. CASE Proceed(w)
      BY <2>5, <3>1, WhatProceedDoes DEF SendFails, Ends, GoesOn, Busy
    <3>2. CASE worker' = [worker EXCEPT ![w] = Idle]
      BY <3>2, IdleShape DEF TypeOK
    <3> QED
      BY <2>5, <3>1, <3>2 DEF SendFails
  <2>6. CASE Abort(w)
    BY <2>6, WhatLeaveDoes DEF Abort, Ends
  <2> QED
    BY <1>2, <2>1, <2>2, <2>3, <2>4, <2>5, <2>6 DEF Step
<1>3. ASSUME NEW ch \in Channels, Mute(ch) \/ MuteExpires(ch) \/ Switch(ch)
      PROVE  worker' \in [Workers -> Activities]
  BY <1>3, WhatMuteDoes DEF MuteExpires, Switch, TypeOK
<1>4. ASSUME NEW kinds, DeleteRows(kinds)
      PROVE  worker' \in [Workers -> Activities]
  BY <1>4 DEF DeleteRows, TypeOK
<1>5. ASSUME EnqueueAlert \/ EnqueueHeartbeat \/ UNCHANGED vars
             \/ \E m \in Messages : RetryDue(m)
      PROVE  worker' \in [Workers -> Activities]
  BY <1>5 DEF EnqueueAlert, EnqueueHeartbeat, vars, RetryDue, TypeOK
<1> QED
  BY <1>1, <1>2, <1>3, <1>4, <1>5 DEF Next

LEMMA InvStep ==
    ASSUME IInv, [Next]_vars
    PROVE  IInv'
<1> USE DEF IInv
<1>1. Numbered' /\ Apart'
  BY EveryStepMoves, NumberedByMove, ApartByMove
<1>2. Budget'
  BY EveryStepMoves, OnlyProcessesSend, BudgetByMove, BudgetBySend
<1>3. received' \in [Channels -> 0 .. MaxNotices]
  <2>1. ASSUME NEW w \in Workers, SendsAt(w), Arrive(worker[w].job)
        PROVE  received' \in [Channels -> 0 .. MaxNotices]
    <3>1. worker[w].job \in Messages
      BY <2>1, BusyTyped DEF SendsAt, Busy
    <3> QED
      BY <2>1, <3>1, MessageFields, ConstantsAssumption DEF Arrive, TypeOK
  <2> QED
    BY <2>1, OnlyProcessesSend DEF SendsAt, TypeOK
<1>4. TypeOK'
  BY <1>2, <1>3, SettingsStep, PlacesStep, ProcessesStep DEF TypeOK, Budget, Counted
<1> QED
  BY <1>1, <1>2, <1>4

LEMMA InvAlways == Spec => []IInv
BY InvInit, InvStep, PTL DEF Spec

\* Type correctness; with it, no message is sent more often than max_retries allows,
\* and no heartbeat notice is retried.
THEOREM TypeCorrect == Spec => []TypeOK
<1>1. IInv => TypeOK
  BY DEF IInv
<1> QED
  BY <1>1, InvAlways, PTL

----------------------------------------------------------------------------
(* Muting. *)

\* A process that is about to send knows of the mute or began before it.
Heard ==
    \A w \in Workers : worker[w].pc = "send" =>
        worker[w].job.ch \notin muted \/ worker[w].job.ch \in worker[w].late

LEMMA HeardStep ==
    ASSUME TypeOK, Heard, [Next]_vars
    PROVE  Heard'
<1>1. ASSUME NEW w \in Workers, Step(w) \/ Abort(w)
      PROVE  Heard'
  <2>1. muted' = muted
    BY <1>1 DEF Step, Take, Read, Consider, NotConfigured, Accepted, SendFails, Abort,
                settings
  <2>2. \/ Only(w) /\ worker'[w].pc # "send"
        \/ Only(w) /\ worker'[w].job.ch \notin muted
    <3>1. CASE Take(w)
      BY <3>1, WhatTakeDoes
    <3>2. CASE Read(w)
      BY <3>2, WhatReadDoes, IdleShape DEF Ends, Reaches
    <3>3. CASE Consider(w)
      BY <3>3, WhatConsiderDoes, WhatProceedDoes, IdleShape DEF Ends, Reaches, GoesOn
    <3>4. CASE NotConfigured(w) \/ Accepted(w)
      BY <3>4, WhatProceedDoes, IdleShape DEF NotConfigured, Accepted, Ends, GoesOn, Busy
    <3>5. CASE SendFails(w)
      <4>1. CASE Proceed(w)
        BY <3>5, <4>1, WhatProceedDoes, IdleShape DEF SendFails, Ends, GoesOn, Busy
      <4>2. CASE worker' = [worker EXCEPT ![w] = Idle]
        BY <4>2, IdleShape DEF Only, TypeOK
      <4> QED
        BY <3>5, <4>1, <4>2 DEF SendFails
    <3>6. CASE Abort(w)
      BY <3>6, WhatLeaveDoes, IdleShape DEF Abort, Ends
    <3> QED
      BY <1>1, <3>1, <3>2, <3>3, <3>4, <3>5, <3>6 DEF Step
  <2> QED
    BY <2>1, <2>2 DEF Heard, Only
<1>2. ASSUME NEW ch \in Channels, Mute(ch)
      PROVE  Heard'
  BY <1>2, WhatMuteDoes DEF Mute, Heard, Busy
<1>3. ASSUME NEW ch \in Channels, MuteExpires(ch)
      PROVE  Heard'
  BY <1>3 DEF MuteExpires, Heard
<1>4. ASSUME NEW ch, Switch(ch)
      PROVE  Heard'
  BY <1>4 DEF Switch, Heard
<1>5. ASSUME NEW kinds, DeleteRows(kinds)
      PROVE  Heard'
  BY <1>5 DEF DeleteRows, Heard
<1>6. ASSUME EnqueueAlert \/ EnqueueHeartbeat \/ UNCHANGED vars
             \/ \E m \in Messages : RetryDue(m)
      PROVE  Heard'
  BY <1>6 DEF EnqueueAlert, EnqueueHeartbeat, vars, RetryDue, settings, Heard
<1> QED
  BY <1>1, <1>2, <1>3, <1>4, <1>5, <1>6 DEF Next

\* A message arrives only as it is sent.
LEMMA CopiesOfSend ==
    ASSUME TypeOK, NEW w \in Workers, SendsAt(w), NEW m \in Messages,
           copies'[m] > copies[m]
    PROVE  m = worker[w].job /\ Busy(w) /\ worker[w].pc = "send"
BY DEF SendsAt, Arrive, TypeOK, Busy

\* While a channel is muted nothing arrives on it, on no attempt of no message, unless
\* the process that sends was already running when the mute was set.
THEOREM MutesAreHeard == Spec => MuteIsHeard
<1>1. Init => Heard
  BY IdleShape DEF Init, Heard
<1>2. ASSUME TypeOK, Heard, [Next]_vars
      PROVE  [\A m \in Messages : copies'[m] > copies[m] =>
                \/ m.ch \notin muted
                \/ \E w \in Workers : Busy(w) /\ worker[w].job = m
                                      /\ m.ch \in worker[w].late]_vars
  <2>1. ASSUME NEW m \in Messages, copies'[m] > copies[m]
        PROVE  \/ m.ch \notin muted
               \/ \E w \in Workers : Busy(w) /\ worker[w].job = m
                                     /\ m.ch \in worker[w].late
    <3>1. copies[m] \in Nat
      BY <1>2 DEF TypeOK
    <3>2. PICK w \in Workers : SendsAt(w)
      BY <1>2, <2>1, <3>1, OnlyProcessesSend
    <3> QED
      BY <1>2, <2>1, <3>2, CopiesOfSend DEF Heard
  <2> QED
    BY <2>1
<1> QED
  BY <1>1, <1>2, HeardStep, TypeCorrect, PTL DEF Spec, MuteIsHeard

----------------------------------------------------------------------------
(* Nothing is forgotten. *)

\* Messages of one job differ in the channel alone, and an alert job has one.
LEMMA OneJob ==
    ASSUME NEW x \in Messages, NEW y \in Messages, JobOf(x) = JobOf(y)
    PROVE  /\ x.kind = y.kind /\ x.n = y.n
           /\ x.kind = "alert" \/ x.ch = y.ch => x = y
<1>1. x.kind = y.kind /\ x.n = y.n
  BY CarriedBy
<1>2. x.kind = "alert" => x = y
  BY <1>1 DEF JobOf
<1>3. x.ch = y.ch => x = y
  BY <1>1, MessageFields
<1> QED
  BY <1>1, <1>2, <1>3

\* The code has done for x what it promises.
Done(x) == x.ch \notin configured \/ copies[x] > 0 \/ attempts[x] = LimitOf(x)
\* Every switch is on, as long as the owner has changed nothing.
AllOn ==
    /\ on = Channels /\ muted = {} /\ gone = {}
    /\ \A w \in Workers : worker[w].pc \in {"mute", "send"} => worker[w].on = Channels
EndedDone == \A x \in ended : Done(x)
\* The e-mail of a heartbeat is next only once its other message was served.
PassedDone ==
    \A w \in Workers, x \in Messages :
        /\ Busy(w) /\ JobOf(x) = Doing(w)
        /\ x # worker[w].job /\ worker[w].job.ch = "email"
        => Done(x)
Served == changes + crashes = 0 => AllOn /\ EndedDone /\ PassedDone

LEMMA DoneStays ==
    ASSUME TypeOK, Counted, [Next]_vars, Counted', NEW x \in Messages, Done(x),
           configured' = configured
    PROVE  Done(x)'
<1>1. CASE UNCHANGED <<attempts, copies>>
  BY <1>1 DEF Done, LimitOf
<1>2. ASSUME NEW w \in Workers, SendsAt(w)
      PROVE  Done(x)'
  <2>1. /\ copies[x] \in Nat /\ copies'[x] \in Nat /\ copies'[x] >= copies[x]
        /\ attempts[x] \in Nat /\ attempts'[x] \in Nat /\ attempts'[x] >= attempts[x]
    <3> PICK m \in Messages : m = worker[w].job
      BY <1>2, BusyTyped DEF SendsAt, Busy
    <3>1. attempts' = [attempts EXCEPT ![m] = @ + 1]
          /\ (copies' = [copies EXCEPT ![m] = @ + 1] \/ copies' = copies)
      BY <1>2 DEF SendsAt, Arrive
    <3> QED
      BY <3>1 DEF Counted
  <2>2. attempts'[x] <= LimitOf(x) /\ LimitOf(x) \in Nat
    BY LimitIsPositive DEF Counted, LimitOf
  <2> QED
    BY <2>1, <2>2 DEF Done, LimitOf
<1> QED
  BY <1>1, <1>2, OnlyProcessesSend

\* w leaves its message or its job behind, having done what it could.
LEMMA ServedByLeaving ==
    ASSUME TypeOK, AllOn, EndedDone, PassedDone, UNCHANGED settings,
           \A x \in Messages : Done(x) => Done(x)',
           NEW w \in Workers, worker[w].pc \in {"mute", "send"},
           NEW m \in Messages, m = worker[w].job, Done(m)',
           \/ GoesOn(w)
           \/ Ends(w) /\ (worker[w].job.kind = "alert" \/ worker[w].job.ch = "email")
    PROVE  AllOn' /\ EndedDone' /\ PassedDone'
<1>1. UNCHANGED <<on, muted, gone, configured>> /\ JobOf(m) = Doing(w) /\ Busy(w)
  BY DEF settings, Doing, Busy
<1>2. CASE GoesOn(w)
  <2>1. ended' = ended /\ Only(w) /\ Doing(w)' = Doing(w) /\ worker'[w].job.ch = "email"
        /\ worker'[w].on = worker[w].on /\ m.kind = "heartbeat" /\ m.ch = "telegram"
        /\ worker'[w].job = [kind |-> "heartbeat", n |-> m.n, ch |-> "email"]
    BY <1>2 DEF GoesOn, Doing, JobOf, Heartbeat
  <2>2. AllOn'
    <3>1. worker[w].on = Channels
      BY DEF AllOn
    <3> QED
      BY <1>1, <2>1, <3>1 DEF AllOn, Only
  <2>3. ASSUME NEW x \in Messages, JobOf(x) = Doing(w), x # worker'[w].job
        PROVE  x = m
    <3>1. x.ch \in Channels /\ x = [kind |-> x.kind, n |-> x.n, ch |-> x.ch]
      BY MessageFields
    <3>2. x.kind = "heartbeat" /\ x.n = m.n
      BY <1>1, <2>1, <2>3, OneJob
    <3>3. x.ch = "telegram"
      BY <2>1, <2>3, <3>1, <3>2 DEF Channels
    <3> QED
      BY <1>1, <2>1, <2>3, <3>3, OneJob
  <2>4. EndedDone'
    BY <2>1 DEF EndedDone, TypeOK
  <2>5. PassedDone'
    <3> SUFFICES ASSUME NEW v \in Workers, NEW x \in Messages,
                        Busy(v)', JobOf(x) = Doing(v)', x # worker'[v].job,
                        worker'[v].job.ch = "email"
                 PROVE  Done(x)'
      BY DEF PassedDone
    <3>1. CASE v = w
      BY <2>1, <2>3, <3>1
    <3>2. CASE v # w
      BY <2>1, <3>2 DEF Only, Busy, Doing, PassedDone
    <3> QED
      BY <3>1, <3>2
  <2> QED
    BY <2>2, <2>4, <2>5
<1>3. CASE Ends(w) /\ (m.kind = "alert" \/ m.ch = "email")
  <2>1. /\ \A v \in Workers : Busy(v)' => v # w /\ worker'[v] = worker[v]
        /\ worker'[w].pc = "idle" /\ Only(w)
        /\ ended' = ended \cup {x \in Messages : JobOf(x) = Doing(w)}
    BY <1>3, IdleShape, BusyTyped DEF Ends, Only, Busy
  <2>2. AllOn'
    BY <1>1, <2>1 DEF AllOn, Only
  <2>3. EndedDone'
    <3>1. ASSUME NEW x \in Messages, JobOf(x) = Doing(w)
          PROVE  Done(x)'
      <4>1. CASE x = m
        BY <4>1
      <4>2. CASE x # m
        <5>1. m.ch = "email"
          BY <1>1, <1>3, <3>1, <4>2, OneJob
        <5> QED
          BY <1>1, <3>1, <4>2, <5>1 DEF PassedDone
      <4> QED
        BY <4>1, <4>2
    <3>2. ASSUME NEW x \in ended
          PROVE  Done(x)'
      BY DEF EndedDone, TypeOK
    <3> QED
      BY <2>1, <3>1, <3>2 DEF EndedDone
  <2>4. PassedDone'
    BY <2>1 DEF PassedDone, Busy, Doing
  <2> QED
    BY <2>2, <2>3, <2>4
<1> QED
  BY <1>2, <1>3

\* A process begins, keeps or postpones its job.
LEMMA ServedByKeeping ==
    ASSUME TypeOK, AllOn, EndedDone, PassedDone, UNCHANGED <<settings, ended>>,
           \A x \in Messages : Done(x) => Done(x)',
           NEW w \in Workers, Only(w),
           \/ worker'[w].pc = "idle"
           \/ worker'[w].pc = "read" /\ worker'[w].job \in Jobs
           \/ /\ Busy(w) /\ worker'[w].job = worker[w].job
              /\ worker'[w].on = Channels
    PROVE  AllOn' /\ EndedDone' /\ PassedDone'
<1>1. UNCHANGED <<on, muted, gone, configured>>
  BY DEF settings
<1>2. AllOn'
  BY <1>1 DEF AllOn, Only
<1>3. EndedDone'
  BY DEF EndedDone, TypeOK
<1>4. PassedDone'
  <2> SUFFICES ASSUME NEW v \in Workers, NEW x \in Messages,
                      Busy(v)', JobOf(x) = Doing(v)', x # worker'[v].job,
                      worker'[v].job.ch = "email"
               PROVE  Done(x)'
    BY DEF PassedDone
  <2>1. CASE worker'[v] = worker[v]
    BY <2>1 DEF Busy, Doing, PassedDone
  <2>2. CASE v = w /\ worker'[w].job = worker[w].job /\ Busy(w)
    BY <2>2 DEF Doing, PassedDone
  <2>3. CASE v = w /\ worker'[w].job \in Jobs
    <3> PICK j \in Jobs : j = worker'[w].job
      BY <2>3
    <3>1. j \in Messages /\ JobOf(j) = j /\ JobOf(x) = j
      BY <2>3, JobsAreMessages DEF Doing
    <3>2. j.kind # "alert" /\ j.ch = "email"
      BY <2>3, <3>1, OneJob
    <3> QED
      BY <3>2 DEF Jobs, Heartbeat
  <2> QED
    BY <2>1, <2>2, <2>3 DEF Only, Busy
<1> QED
  BY <1>2, <1>3, <1>4

\* After its send a message was accepted, is to be retried or had its last attempt.
LEMMA ServedBySend ==
    ASSUME IInv, AllOn, EndedDone, PassedDone, IInv', NEW w \in Workers, SendsAt(w),
           \A x \in Messages : Done(x) => Done(x)'
    PROVE  AllOn' /\ EndedDone' /\ PassedDone'
<1> USE DEF IInv
<1> PICK m \in Messages : m = worker[w].job
  BY BusyTyped DEF SendsAt, Busy
<1>1. /\ attempts[m] \in Nat /\ attempts[m] < LimitOf(m) /\ LimitOf(m) \in Nat \ {0}
      /\ copies[m] \in Nat /\ attempts'[m] = attempts[m] + 1 /\ Busy(w)
  <2>1. ToSend(w, m)
    BY DEF SendsAt, ToSend, Busy, Doing
  <2> QED
    BY <2>1, LimitIsPositive DEF SendsAt, Budget, Counted, RunningLeft, Left, Busy
<1>2. CASE WaitsAt(w)
  BY <1>2, IdleShape, ServedByKeeping DEF WaitsAt, SendsAt
<1>3. CASE /\ GoesOn(w) \/ (EndsAt(w) /\ (m.kind = "alert" \/ m.ch = "email"))
           /\ Done(m)'
  BY <1>3, ServedByLeaving DEF SendsAt, EndsAt
<1>4. ASSUME m.kind # "alert" \/ ~Again(m)
      PROVE  Done(m)'
  <2>1. attempts'[m] = LimitOf(m)
    BY <1>1, <1>4, ConstantsAssumption DEF LimitOf, Again
  <2> QED
    BY <2>1 DEF Done, LimitOf
<1>5. ASSUME Arrive(m)
      PROVE  Done(m)'
  <2>1. copies'[m] = copies[m] + 1
    BY <1>5 DEF Arrive, TypeOK
  <2>2. copies'[m] > 0
    BY <1>1, <2>1
  <2> QED
    BY <2>2 DEF Done
<1>6. ASSUME GoesOn(w)
      PROVE  m.kind # "alert"
  BY <1>6 DEF GoesOn
<1> QED
  BY <1>2, <1>3, <1>4, <1>5, <1>6 DEF SendsAt

LEMMA ServedByStep ==
    ASSUME IInv, AllOn, EndedDone, PassedDone, IInv', NEW w \in Workers, Step(w),
           \A x \in Messages : Done(x) => Done(x)'
    PROVE  AllOn' /\ EndedDone' /\ PassedDone'
<1> USE DEF IInv
<1>1. CASE Take(w)
  BY <1>1, WhatTakeDoes, ServedByKeeping DEF history
<1>2. CASE Read(w)
  <2>1. worker[w].job.kind \notin gone
    BY DEF AllOn
  <2>2. /\ Reaches(w, "mute") /\ worker'[w].on = Channels /\ Busy(w)
        /\ UNCHANGED <<settings, ended>>
    BY <1>2, <2>1, WhatReadDoes DEF AllOn, Reaches
  <2> QED
    BY <2>2, ServedByKeeping DEF Reaches
<1>3. CASE Consider(w)
  <2>1. worker[w].job.ch \in worker[w].on \cap (Channels \ muted) /\ worker[w].on = Channels
    <3>1. worker[w].pc = "mute" /\ Busy(w)
      BY <1>3, WhatConsiderDoes
    <3>2. worker[w].job.ch \in Channels
      BY <3>1, BusyTyped, MessageFields
    <3> QED
      BY <3>1, <3>2 DEF AllOn
  <2>2. /\ Reaches(w, "send") /\ worker'[w].on = Channels /\ Busy(w)
        /\ UNCHANGED <<settings, ended>>
    BY <1>3, <2>1, WhatConsiderDoes DEF Reaches
  <2> QED
    BY <2>2, ServedByKeeping DEF Reaches
<1>4. CASE NotConfigured(w)
  <2> PICK m \in Messages : m = worker[w].job
    BY <1>4, BusyTyped DEF NotConfigured, Busy
  <2>1. Done(m)'
    BY <1>4 DEF NotConfigured, Done, settings
  <2>2. \/ GoesOn(w)
        \/ Ends(w) /\ (m.kind = "alert" \/ m.ch = "email")
    BY <1>4, WhatProceedDoes DEF NotConfigured, Busy
  <2> QED
    BY <1>4, <2>1, <2>2, ServedByLeaving DEF NotConfigured
<1>5. CASE Accepted(w) \/ SendFails(w)
  <2>1. PICK v \in Workers : SendsAt(v)
    <3>1. attempts' # attempts
      <4> PICK m \in Messages : m = worker[w].job
        BY <1>5, BusyTyped DEF Accepted, SendFails, Busy
      <4> QED
        BY <1>5 DEF Accepted, SendFails, TypeOK
    <3> QED
      BY <1>5, <3>1, OnlyProcessesSend DEF Next, Step
  <2> QED
    BY <2>1, ServedBySend
<1> QED
  BY <1>1, <1>2, <1>3, <1>4, <1>5 DEF Step

LEMMA ServedStep ==
    ASSUME IInv, Served, [Next]_vars, IInv'
    PROVE  Served'
<1> SUFFICES ASSUME changes' + crashes' = 0
             PROVE  AllOn' /\ EndedDone' /\ PassedDone'
  BY DEF Served
<1>1. changes' = 0 /\ crashes' = 0
  <2>1. changes' \in Nat /\ crashes' \in Nat
    BY DEF IInv, TypeOK
  <2>2. \A a, b \in Nat : a + b = 0 => a = 0 /\ b = 0
    OBVIOUS
  <2> QED
    BY <2>1, <2>2
<1> USE <1>1 DEF IInv
<1>2. ASSUME NEW w \in Workers, Step(w)
      PROVE  AllOn' /\ EndedDone' /\ PassedDone'
  <2>1. UNCHANGED <<changes, crashes, settings>>
    BY <1>2 DEF Step, Take, Read, Consider, NotConfigured, Accepted, SendFails
  <2>2. AllOn /\ EndedDone /\ PassedDone
    BY <2>1 DEF Served
  <2>3. \A x \in Messages : Done(x) => Done(x)'
    BY <2>1, DoneStays DEF Budget, settings
  <2> QED
    BY <1>2, <2>2, <2>3, ServedByStep
<1>3. ASSUME NEW w \in Workers, Abort(w)
      PROVE  FALSE
  BY <1>3 DEF Abort, TypeOK
<1>4. ASSUME NEW ch \in Channels, Mute(ch) \/ Switch(ch)
      PROVE  FALSE
  BY <1>4 DEF Mute, Switch, Change, TypeOK
<1>5. ASSUME NEW kinds, DeleteRows(kinds)
      PROVE  FALSE
  BY <1>5 DEF DeleteRows, Change, TypeOK
<1>6. ASSUME NEW ch \in Channels, MuteExpires(ch)
      PROVE  FALSE
  <2>1. changes + crashes = 0
    BY <1>6 DEF MuteExpires
  <2> QED
    BY <1>6, <2>1 DEF MuteExpires, Served, AllOn
<1>7. ASSUME EnqueueAlert \/ EnqueueHeartbeat \/ UNCHANGED vars
             \/ \E m \in Messages : RetryDue(m)
      PROVE  AllOn' /\ EndedDone' /\ PassedDone'
  <2>1. UNCHANGED <<settings, worker, attempts, history, changes, crashes>>
    BY <1>7 DEF EnqueueAlert, EnqueueHeartbeat, vars, RetryDue
  <2>2. AllOn /\ EndedDone /\ PassedDone
    BY <2>1 DEF Served
  <2>3. UNCHANGED <<configured, on, muted, gone, copies, ended>>
    BY <2>1 DEF settings, history
  <2>4. AllOn' /\ EndedDone'
    BY <2>1, <2>2, <2>3 DEF AllOn, EndedDone, Done, LimitOf
  <2>5. PassedDone'
    BY <2>1, <2>2, <2>3 DEF PassedDone, Done, LimitOf, Busy, Doing
  <2> QED
    BY <2>4, <2>5
<1> QED
  BY <1>2, <1>3, <1>4, <1>5, <1>6, <1>7 DEF Next

\* Whoever is owed a message gets it or every attempt the code promises, on each
\* channel, whatever becomes of the other, as long as nothing is changed or crashes.
THEOREM NobodyIsForgotten == Spec => []NobodyForgotten
<1>1. Init => Served
  BY IdleShape DEF Init, Served, AllOn, EndedDone, PassedDone, Busy
<1>2. Served => NobodyForgotten
  BY DEF Served, NobodyForgotten, EndedDone, Done, LimitOf
<1> QED
  BY <1>1, <1>2, ServedStep, InvAlways, PTL DEF Spec

----------------------------------------------------------------------------
(* Heartbeat notices in order. *)

IsNotice(m) == m.kind = "heartbeat"
RunsNotice(w) == Busy(w) /\ IsNotice(worker[w].job)

\* Two heartbeat jobs run at the same time once w has taken the head of the queue.
Meets == \E v \in Workers : Busy(v) /\ IsNotice(queue[1]) /\ IsNotice(worker[v].job)

\* Only the process that takes a job can find another one at a heartbeat.
LEMMA WhoOverlaps ==
    ASSUME TypeOK, [Next]_vars
    PROVE  \/ /\ overlapped' = overlapped
              /\ \/ Keeps \/ Raises
                 \/ \E m \in Messages : Requeues(m)
                 \/ \E w \in Workers : EndsAt(w) \/ WaitsAt(w)
           \/ \E w \in Workers : Takes(w) /\ overlapped' = (overlapped \/ Meets)
<1>1. ASSUME NEW w \in Workers, Step(w) \/ Abort(w), ~Take(w)
      PROVE  overlapped' = overlapped /\ (Keeps \/ EndsAt(w) \/ WaitsAt(w))
  <2>1. Busy(w) /\ overlapped' = overlapped
    BY <1>1 DEF Step, Read, Consider, NotConfigured, Accepted, SendFails, Abort, Busy
  <2>2. ~Takes(w)
    BY <2>1 DEF Takes
  <2> QED
    BY <1>1, <2>1, <2>2, MoveOfProcess
<1>2. ASSUME NEW w \in Workers, Take(w)
      PROVE  Takes(w) /\ overlapped' = (overlapped \/ Meets)
  <2>1. /\ ~Busy(w) /\ worker'[w].pc = "read"
        /\ overlapped' = (overlapped \/ Meets)
    BY <1>2, WhatTakeDoes DEF Meets, IsNotice
  <2>2. ~Keeps /\ ~EndsAt(w) /\ ~WaitsAt(w)
    BY <2>1 DEF Keeps, EndsAt, WaitsAt, Busy
  <2> QED
    BY <1>2, <2>1, <2>2, MoveOfProcess DEF Step
<1>3. ASSUME NEW ch \in Channels, Mute(ch) \/ MuteExpires(ch) \/ Switch(ch)
      PROVE  overlapped' = overlapped /\ Keeps
  BY <1>3, MoveOfOwner DEF Mute, MuteExpires, Switch
<1>4. ASSUME UNCHANGED vars
      PROVE  overlapped' = overlapped /\ Keeps
  BY <1>4 DEF vars, history, Keeps, Busy, Doing
<1>5. ASSUME NEW kinds, DeleteRows(kinds)
      PROVE  overlapped' = overlapped /\ Keeps
  BY <1>5 DEF DeleteRows, history, Keeps, Busy, Doing
<1>6. ASSUME NEW m \in Messages, RetryDue(m)
      PROVE  overlapped' = overlapped /\ Requeues(m)
  BY <1>6, MoveOfRetryDue DEF RetryDue
<1>7. ASSUME EnqueueAlert \/ EnqueueHeartbeat
      PROVE  overlapped' = overlapped /\ Raises
  BY <1>7, MoveOfEnqueueAlert, MoveOfEnqueueHeartbeat DEF EnqueueAlert, EnqueueHeartbeat
<1> QED
  BY <1>1, <1>2, <1>3, <1>4, <1>5, <1>6, <1>7 DEF Next

\* Queued notices are newer than those that run and those that arrived.
QueueInLine ==
    \A i, j \in Places : i < j /\ IsNotice(queue[i]) /\ IsNotice(queue[j])
                           => queue[i].n < queue[j].n
RunsFirst ==
    \A w \in Workers, i \in Places :
        RunsNotice(w) /\ IsNotice(queue[i]) => worker[w].job.n < queue[i].n
ArrivedFirst ==
    \A ch \in Channels :
        /\ received[ch] <= raised.heartbeat
        /\ \A i \in Places : IsNotice(queue[i]) => received[ch] < queue[i].n
\* As long as they do not overlap, the notice that runs is as new as any that arrived.
OneAtATime ==
    ~overlapped =>
        \A w \in Workers : RunsNotice(w) =>
            /\ \A ch \in Channels : received[ch] <= worker[w].job.n
            /\ \A v \in Workers : v # w => ~RunsNotice(v)
InLine == QueueInLine /\ RunsFirst /\ ArrivedFirst /\ OneAtATime

LEMMA NoticeTyped ==
    ASSUME TypeOK
    PROVE  /\ \A i \in Places : queue[i].n \in Nat
           /\ \A w \in Workers : Busy(w) => worker[w].job.n \in Nat
           /\ \A ch \in Channels : received[ch] \in Nat
           /\ raised.heartbeat \in Nat /\ Len(queue) \in Nat
<1>1. \A i \in Places : queue[i].n \in Nat
  BY QueueTyped, MessageFields
<1>2. \A w \in Workers : Busy(w) => worker[w].job.n \in Nat
  BY BusyTyped, MessageFields
<1> QED
  BY <1>1, <1>2, QueueTyped, ConstantsAssumption DEF TypeOK

\* No notice arrives.
LEMMA InLineByMove ==
    ASSUME TypeOK, Numbered, InLine, received' = received,
           \/ /\ overlapped' = overlapped
              /\ \/ Keeps \/ Raises
                 \/ \E m \in Messages : Requeues(m)
                 \/ \E w \in Workers : EndsAt(w) \/ WaitsAt(w)
           \/ \E w \in Workers : Takes(w) /\ overlapped' = (overlapped \/ Meets)
    PROVE  InLine'
<1>1. ASSUME overlapped' = overlapped, UNCHANGED <<raised, queue>>,
             \A w \in Workers : RunsNotice(w)' =>
                 RunsNotice(w) /\ worker'[w].job.n = worker[w].job.n
      PROVE  InLine'
  <2>1. Places' = Places
    BY <1>1 DEF Places
  <2>2. QueueInLine' /\ ArrivedFirst'
    BY <1>1, <2>1 DEF InLine, QueueInLine, ArrivedFirst
  <2>3. RunsFirst'
    BY <1>1, <2>1 DEF InLine, RunsFirst
  <2>4. OneAtATime'
    BY <1>1 DEF InLine, OneAtATime
  <2> QED
    BY <2>2, <2>3, <2>4 DEF InLine
<1>2. ASSUME Keeps, overlapped' = overlapped
      PROVE  InLine'
  BY <1>1, <1>2 DEF Keeps, RunsNotice, IsNotice
<1>3. ASSUME NEW w \in Workers, EndsAt(w) \/ WaitsAt(w), overlapped' = overlapped
      PROVE  InLine'
  BY <1>1, <1>3, IdleShape DEF EndsAt, Ends, WaitsAt, Only, RunsNotice, Busy
<1>4. ASSUME Raises, overlapped' = overlapped
      PROVE  InLine'
  <2>1. /\ worker' = worker /\ \A i \in Places : queue'[i] = queue[i]
        /\ raised'.heartbeat \in Nat /\ raised.heartbeat <= raised'.heartbeat
    BY <1>4 DEF Raises
  <2>2. ASSUME NEW i \in Places' \ Places, IsNotice(queue'[i])
        PROVE  /\ raised.heartbeat < queue'[i].n /\ queue'[i].n \in Nat
               /\ i = Len(queue) + 1 /\ Len(queue') = i
    <3>1. queue'[i] \in Jobs
      BY <1>4 DEF Raises, Places
    <3> QED
      BY <1>4, <2>2, <3>1, JobsAreMessages, MessageFields DEF Raises, IsNotice, LastOf
  <2>3. \A i \in Places : IsNotice(queue[i]) => queue[i].n <= raised.heartbeat
    BY DEF Numbered, LastOf, IsNotice
  <2>4. \A w \in Workers : RunsNotice(w) => worker[w].job.n <= raised.heartbeat
    BY DEF Numbered, LastOf, IsNotice, RunsNotice
  <2>5. QueueInLine'
    <3> SUFFICES ASSUME NEW i \in Places', NEW j \in Places', i < j,
                        IsNotice(queue'[i]), IsNotice(queue'[j])
                 PROVE  queue'[i].n < queue'[j].n
      BY DEF QueueInLine
    <3>1. CASE j \in Places
      <4>1. i \in Places
        BY <3>1, NoticeTyped DEF Places
      <4> QED
        BY <2>1, <3>1, <4>1 DEF InLine, QueueInLine
    <3>2. CASE j \notin Places
      <4>1. i \in Places
        BY <2>2, <3>2, NoticeTyped DEF Places
      <4>2. queue'[i].n \in Nat /\ queue'[i].n <= raised.heartbeat
        BY <2>1, <2>3, <4>1, NoticeTyped
      <4> QED
        BY <2>2, <3>2, <4>2, NoticeTyped
    <3> QED
      BY <3>1, <3>2
  <2>6. RunsFirst'
    <3> SUFFICES ASSUME NEW w \in Workers, NEW i \in Places', RunsNotice(w),
                        IsNotice(queue'[i])
                 PROVE  worker[w].job.n < queue'[i].n
      BY <2>1 DEF RunsFirst, RunsNotice, Busy
    <3>1. worker[w].job.n \in Nat
      BY NoticeTyped DEF RunsNotice
    <3>2. CASE i \in Places
      BY <2>1, <3>2 DEF InLine, RunsFirst
    <3>3. CASE i \notin Places
      BY <2>2, <2>4, <3>1, <3>3, NoticeTyped
    <3> QED
      BY <3>2, <3>3
  <2>7. ArrivedFirst'
    <3> SUFFICES ASSUME NEW ch \in Channels
                 PROVE  /\ received[ch] <= raised'.heartbeat
                        /\ \A i \in Places' :
                             IsNotice(queue'[i]) => received[ch] < queue'[i].n
      BY DEF ArrivedFirst
    <3>1. received[ch] \in Nat /\ received[ch] <= raised.heartbeat
      BY NoticeTyped DEF InLine, ArrivedFirst
    <3>2. \A i \in Places : IsNotice(queue'[i]) => received[ch] < queue'[i].n
      BY <2>1 DEF InLine, ArrivedFirst
    <3>3. \A i \in Places' \ Places : IsNotice(queue'[i]) => received[ch] < queue'[i].n
      BY <2>2, <3>1, NoticeTyped
    <3> QED
      BY <2>1, <3>1, <3>2, <3>3, NoticeTyped
  <2>8. OneAtATime'
    BY <1>4, <2>1 DEF InLine, OneAtATime, RunsNotice, Busy
  <2> QED
    BY <2>5, <2>6, <2>7, <2>8 DEF InLine
<1>5. ASSUME NEW m \in Messages, Requeues(m), overlapped' = overlapped
      PROVE  InLine'
  <2>1. UNCHANGED <<raised, worker>> /\ ~IsNotice(queue'[Len(queue) + 1])
    BY <1>5, QueueTyped DEF Requeues, IsNotice
  <2>2. \A i \in Places' : IsNotice(queue'[i]) => i \in Places /\ queue'[i] = queue[i]
    BY <1>5, <2>1, QueueTyped DEF Requeues, Places
  <2>3. QueueInLine' /\ ArrivedFirst'
    BY <2>1, <2>2 DEF InLine, QueueInLine, ArrivedFirst
  <2>4. RunsFirst' /\ OneAtATime'
    BY <1>5, <2>1, <2>2 DEF InLine, RunsFirst, OneAtATime, RunsNotice, Busy
  <2> QED
    BY <2>3, <2>4 DEF InLine
<1>6. ASSUME NEW w \in Workers, Takes(w), overlapped' = (overlapped \/ Meets)
      PROVE  InLine'
  <2>1. /\ 1 \in Places /\ raised' = raised /\ worker'[w].job = queue[1] /\ ~RunsNotice(w)
        /\ \A i \in Places' : i + 1 \in Places /\ 1 < i + 1 /\ queue'[i] = queue[i + 1]
        /\ RunsNotice(w)' => IsNotice(queue[1])
    BY <1>6, NoticeTyped DEF Takes, Places, RunsNotice
  <2>2. \A v \in Workers : v # w => /\ worker'[v] = worker[v]
                                    /\ RunsNotice(v)' <=> RunsNotice(v)
    BY <1>6 DEF Takes, Only, RunsNotice, Busy
  <2>3. QueueInLine'
    <3> SUFFICES ASSUME NEW i \in Places', NEW j \in Places', i < j,
                        IsNotice(queue'[i]), IsNotice(queue'[j])
                 PROVE  queue'[i].n < queue'[j].n
      BY DEF QueueInLine
    <3>1. i + 1 < j + 1
      BY DEF Places
    <3> QED
      BY <2>1, <3>1 DEF InLine, QueueInLine
  <2>4. RunsFirst'
    <3> SUFFICES ASSUME NEW v \in Workers, NEW i \in Places', RunsNotice(v)',
                        IsNotice(queue'[i])
                 PROVE  worker'[v].job.n < queue'[i].n
      BY DEF RunsFirst
    <3>1. CASE v = w
      BY <2>1, <3>1 DEF InLine, QueueInLine
    <3>2. CASE v # w
      BY <2>1, <2>2, <3>2 DEF InLine, RunsFirst
    <3> QED
      BY <3>1, <3>2
  <2>5. ArrivedFirst'
    BY <2>1 DEF InLine, ArrivedFirst
  <2>6. OneAtATime'
    <3> SUFFICES ASSUME ~overlapped', NEW v \in Workers, RunsNotice(v)'
                 PROVE  /\ \A ch \in Channels : received[ch] <= worker'[v].job.n
                        /\ \A u \in Workers : u # v => ~RunsNotice(u)'
      BY DEF OneAtATime
    <3>1. ~overlapped /\ ~Meets
      BY <1>6
    <3>2. CASE v = w
      <4>1. IsNotice(queue[1])
        BY <2>1, <3>2
      <4>2. \A ch \in Channels : received[ch] <= queue[1].n
        <5>1. \A ch \in Channels : received[ch] < queue[1].n
          BY <2>1, <4>1 DEF InLine, ArrivedFirst
        <5> QED
          BY <2>1, <5>1, NoticeTyped
      <4>3. \A u \in Workers : ~RunsNotice(u)
        BY <3>1, <4>1 DEF Meets, RunsNotice
      <4> QED
        BY <2>1, <2>2, <3>2, <4>2, <4>3
    <3>3. CASE v # w
      <4>1. RunsNotice(v) /\ worker'[v].job = worker[v].job
        BY <2>2, <3>3
      <4>2. ~RunsNotice(w)'
        BY <2>1, <3>1, <4>1 DEF Meets, RunsNotice
      <4> QED
        BY <2>2, <3>1, <4>1, <4>2 DEF InLine, OneAtATime
    <3> QED
      BY <3>2, <3>3
  <2> QED
    BY <2>3, <2>4, <2>5, <2>6 DEF InLine
<1> QED
  BY <1>2, <1>3, <1>4, <1>5, <1>6

\* What a send does to the last notices that arrived.
LEMMA ReceivedBySend ==
    ASSUME TypeOK, NEW w \in Workers, SendsAt(w), NEW ch \in Channels
    PROVE  \/ received'[ch] = received[ch]
           \/ RunsNotice(w) /\ received'[ch] = worker[w].job.n
<1>1. Busy(w)
  BY DEF SendsAt, Busy
<1>2. CASE UNCHANGED received
  BY <1>2
<1>3. CASE Arrive(worker[w].job)
  BY <1>1, <1>3 DEF Arrive, TypeOK, RunsNotice, IsNotice
<1> QED
  BY <1>2, <1>3 DEF SendsAt

LEMMA InLineBySend ==
    ASSUME TypeOK, Numbered, InLine, NEW w \in Workers, SendsAt(w)
    PROVE  InLine'
<1>1. overlapped' = overlapped /\ UNCHANGED <<raised, queue>> /\ Places' = Places
  BY DEF SendsAt, EndsAt, WaitsAt, Places
<1>2. \A v \in Workers : RunsNotice(v)' =>
          RunsNotice(v) /\ worker'[v].job.n = worker[v].job.n
  <2>1. CASE GoesOn(w)
    BY <2>1 DEF GoesOn, Only, RunsNotice, IsNotice, Busy, SendsAt
  <2>2. CASE EndsAt(w) \/ WaitsAt(w)
    BY <2>2, IdleShape DEF EndsAt, Ends, WaitsAt, Only, RunsNotice, Busy
  <2> QED
    BY <2>1, <2>2 DEF SendsAt
<1>3. QueueInLine'
  BY <1>1 DEF InLine, QueueInLine
<1>4. RunsFirst'
  BY <1>1, <1>2 DEF InLine, RunsFirst
<1>5. ArrivedFirst'
  <2> SUFFICES ASSUME NEW ch \in Channels
               PROVE  /\ received'[ch] <= raised.heartbeat
                      /\ \A i \in Places : IsNotice(queue[i]) => received'[ch] < queue[i].n
    BY <1>1 DEF ArrivedFirst
  <2>1. CASE received'[ch] = received[ch]
    BY <2>1 DEF InLine, ArrivedFirst
  <2>2. CASE RunsNotice(w) /\ received'[ch] = worker[w].job.n
    BY <2>2 DEF InLine, RunsFirst, Numbered, LastOf, RunsNotice, IsNotice
  <2> QED
    BY <2>1, <2>2, ReceivedBySend
<1>6. OneAtATime'
  <2> SUFFICES ASSUME ~overlapped, NEW v \in Workers, RunsNotice(v)'
               PROVE  /\ \A ch \in Channels : received'[ch] <= worker'[v].job.n
                      /\ \A u \in Workers : u # v => ~RunsNotice(u)'
    BY <1>1 DEF OneAtATime
  <2>1. /\ RunsNotice(v) /\ worker'[v].job.n = worker[v].job.n
        /\ \A u \in Workers : u # v => ~RunsNotice(u)
        /\ \A ch \in Channels : received[ch] <= worker[v].job.n
    BY <1>2 DEF InLine, OneAtATime
  <2>2. worker[v].job.n \in Nat
    BY <2>1, NoticeTyped DEF RunsNotice
  <2>3. ASSUME NEW ch \in Channels
        PROVE  received'[ch] <= worker'[v].job.n
    <3>1. CASE received'[ch] = received[ch]
      BY <2>1, <3>1
    <3>2. CASE RunsNotice(w) /\ received'[ch] = worker[w].job.n
      <4>1. v = w
        BY <2>1, <3>2
      <4> QED
        BY <2>1, <2>2, <3>2, <4>1
    <3> QED
      BY <3>1, <3>2, ReceivedBySend
  <2> QED
    BY <1>2, <2>1, <2>3
<1> QED
  BY <1>3, <1>4, <1>5, <1>6 DEF InLine

LEMMA InLineAlways == Spec => []InLine
<1>1. Init => InLine
  <2>1. ASSUME Init
        PROVE  InLine
    <3>1. Places = {} /\ overlapped = FALSE /\ \A w \in Workers : ~Busy(w)
      BY <2>1, IdleShape DEF Init, Places, Busy
    <3>2. \A ch \in Channels : received[ch] <= raised.heartbeat
      BY <2>1 DEF Init
    <3> QED
      BY <3>1, <3>2
         DEF InLine, QueueInLine, RunsFirst, ArrivedFirst, OneAtATime, RunsNotice
  <2> QED
    BY <2>1
<1>2. ASSUME IInv, InLine, [Next]_vars
      PROVE  InLine'
  BY <1>2, WhoOverlaps, OnlyProcessesSend, InLineByMove, InLineBySend DEF IInv
<1> QED
  BY <1>1, <1>2, InvAlways, PTL DEF Spec

\* The last notice that arrives on a channel tells the server's state, unless two
\* processes have run heartbeat jobs at the same time.
THEOREM NoticesStayInOrder == Spec => NoticesInOrder
<1>1. ASSUME IInv, InLine, [Next]_vars
      PROVE  [~overlapped' => \A ch \in Channels : received'[ch] >= received[ch]]_vars
  <2>1. ASSUME ~overlapped', NEW ch \in Channels
        PROVE  received'[ch] >= received[ch]
    <3>1. received[ch] \in Nat
      BY <1>1, NoticeTyped DEF IInv
    <3>2. ASSUME NEW w \in Workers, SendsAt(w)
          PROVE  received'[ch] >= received[ch]
      <4>1. CASE received'[ch] = received[ch]
        BY <3>1, <4>1
      <4>2. CASE RunsNotice(w) /\ received'[ch] = worker[w].job.n
        <5>1. ~overlapped
          BY <2>1, <3>2 DEF SendsAt
        <5>2. received[ch] <= worker[w].job.n
          BY <1>1, <4>2, <5>1 DEF InLine, OneAtATime
        <5>3. worker[w].job.n \in Nat
          BY <1>1, <4>2, NoticeTyped DEF IInv, RunsNotice
        <5> QED
          BY <3>1, <4>2, <5>2, <5>3
      <4> QED
        BY <1>1, <3>2, <4>1, <4>2, ReceivedBySend DEF IInv
    <3> QED
      BY <1>1, <3>1, <3>2, OnlyProcessesSend DEF IInv
  <2> QED
    BY <2>1
<1> QED
  BY <1>1, InvAlways, InLineAlways, PTL DEF Spec, NoticesInOrder

----------------------------------------------------------------------------
(* Delivery promised. *)

\* Job j is queued, waiting or running.
Present(j) == \/ \E i \in Places : queue[i] = j
              \/ j \in waiting
              \/ \E w \in Workers : Busy(w) /\ Doing(w) = j

OpenIsPresent == Open = {x \in Messages : Present(JobOf(x))}

LEMMA WhatIsOpen == TypeOK => OpenIsPresent
<1> SUFFICES ASSUME TypeOK
             PROVE  Open = {x \in Messages : Present(JobOf(x))}
  BY DEF OpenIsPresent
<1>1. ASSUME NEW i \in Places
      PROVE  MessagesOf(queue[i]) = {x \in Messages : JobOf(x) = queue[i]}
  BY QueueTyped, CarriedBy
<1>2. ASSUME NEW x
      PROVE  x \in waiting <=> x \in Messages /\ JobOf(x) \in waiting
  <2>1. ASSUME x \in Messages, JobOf(x) \in waiting
        PROVE  x \in waiting
    BY <2>1, QueueTyped, OneJob
  <2> QED
    BY <2>1, QueueTyped
<1>3. ASSUME NEW w \in Workers
      PROVE  JobsAt(w) = {x \in Messages : Busy(w) /\ JobOf(x) = Doing(w)}
  BY BusyTyped DEF JobsAt
<1>4. ASSUME NEW x
      PROVE  x \in Open <=> x \in Messages /\ Present(JobOf(x))
  <2>1. x \in Queued <=> x \in Messages /\ \E i \in Places : queue[i] = JobOf(x)
    BY <1>1 DEF Queued, Places
  <2>2. x \in UNION {JobsAt(w) : w \in Workers}
        <=> x \in Messages /\ \E w \in Workers : Busy(w) /\ Doing(w) = JobOf(x)
    BY <1>3
  <2> QED
    BY <1>2, <2>1, <2>2 DEF Open, Present
<1> QED
  BY <1>4

\* What is open has not ended.
LEMMA OpenIsNotOver ==
    ASSUME TypeOK, Apart
    PROVE  Open \subseteq Messages \ ended
BY WhatIsOpen DEF OpenIsPresent, Apart, EndsOnce, Present

\* What is raised was never heard of.
LEMMA OpenByRaises ==
    ASSUME TypeOK, Numbered, Apart, OpenIsPresent, OpenIsPresent', Raises
    PROVE  Open \subseteq Open' /\ Open' \subseteq Messages \ ended /\ ended' = ended
<1>1. /\ Open = {x \in Messages : Present(JobOf(x))}
      /\ Open' = {x \in Messages : Present(JobOf(x))'}
      /\ Open \subseteq Messages \ ended
  BY OpenIsNotOver DEF OpenIsPresent
<1>2. UNCHANGED <<worker, waiting, ended>> /\ \A i \in Places : queue'[i] = queue[i]
  BY DEF Raises
<1>3. Len(queue') \in Nat /\ Len(queue) <= Len(queue')
  BY DEF Raises
<1>4. Places \subseteq Places'
  BY <1>3, QueueTyped DEF Places
<1>5. \A x \in Messages : Present(JobOf(x)) => Present(JobOf(x))'
  BY <1>2, <1>4 DEF Present, Busy, Doing
<1>6. ASSUME NEW x \in Messages, Present(JobOf(x))'
      PROVE  x \notin ended
  <2>1. CASE Present(JobOf(x))
    BY <1>1, <2>1
  <2>2. CASE ~Present(JobOf(x))
    <3>1. PICK i \in Places' : queue'[i] = JobOf(x)
      BY <1>2, <1>6, <2>2 DEF Present, Busy, Doing
    <3>2. i \notin Places
      BY <1>2, <2>2, <3>1 DEF Present
    <3>3. JobOf(x) \in Jobs /\ LastOf(raised, JobOf(x)) < JobOf(x).n
      BY <3>1, <3>2, CarriedBy DEF Raises
    <3> QED
      BY <3>3, NewIsNowhere
  <2> QED
    BY <2>1, <2>2
<1> QED
  BY <1>1, <1>2, <1>5, <1>6

\* Any other move leaves open what it does not end.
LEMMA OpenByMove ==
    ASSUME TypeOK, Numbered, Apart, OpenIsPresent, OpenIsPresent',
           \/ Keeps
           \/ \E m \in Messages : Requeues(m)
           \/ \E w \in Workers : Takes(w) \/ EndsAt(w) \/ WaitsAt(w)
    PROVE  Promise!End
<1>1. /\ Open = {x \in Messages : Present(JobOf(x))}
      /\ Open' = {x \in Messages : Present(JobOf(x))'}
      /\ Open \subseteq Messages \ ended
  BY OpenIsNotOver DEF OpenIsPresent
<1>2. ASSUME \A x \in Messages : Present(JobOf(x))' <=> Present(JobOf(x)), ended' = ended
      PROVE  Promise!End
  BY <1>1, <1>2 DEF Promise!End
<1>3. CASE Keeps
  BY <1>2, <1>3 DEF Keeps, Present, Places
<1>4. ASSUME NEW m \in Messages, Requeues(m)
      PROVE  Promise!End
  <2>1. /\ UNCHANGED <<worker, ended>> /\ m \in waiting /\ waiting' = waiting \ {m}
        /\ \A i \in Places' : i \in Places \/ i = Len(queue) + 1
        /\ Places \subseteq Places' /\ Len(queue) + 1 \in Places'
        /\ queue'[Len(queue) + 1] = m
        /\ \A i \in Places : queue'[i] = queue[i]
    BY <1>4, QueueTyped DEF Requeues, Places
  <2>2. ASSUME NEW j
        PROVE  Present(j)' <=> Present(j)
    BY <2>1 DEF Present, Busy, Doing
  <2> QED
    BY <1>2, <2>1, <2>2
<1>5. ASSUME NEW w \in Workers, Takes(w)
      PROVE  Promise!End
  <2>1. /\ 1 \in Places /\ Doing(w)' = queue[1] /\ ~Busy(w) /\ Busy(w)'
        /\ \A v \in Workers : v # w => (Busy(v)' <=> Busy(v)) /\ Doing(v)' = Doing(v)
        /\ UNCHANGED <<waiting, ended>>
    BY <1>5, QueueTyped DEF Takes, Places, Doing, Busy, Only
  <2>2. /\ \A i \in Places' : i + 1 \in Places /\ queue'[i] = queue[i + 1]
        /\ \A i \in Places : i = 1 \/ (i - 1 \in Places' /\ queue'[i - 1] = queue[i])
    BY <1>5, QueueTyped DEF Takes, Places
  <2>3. ASSUME NEW j
        PROVE  Present(j)' <=> Present(j)
    <3>1. ASSUME Present(j)
          PROVE  Present(j)'
      <4>1. ASSUME NEW i \in Places, queue[i] = j
            PROVE  Present(j)'
        BY <2>1, <2>2, <4>1 DEF Present
      <4> QED
        BY <2>1, <3>1, <4>1 DEF Present
    <3>2. ASSUME Present(j)'
          PROVE  Present(j)
      <4>1. ASSUME NEW v \in Workers, Busy(v)', Doing(v)' = j
            PROVE  Present(j)
        BY <2>1, <4>1 DEF Present
      <4> QED
        BY <2>1, <2>2, <3>2, <4>1 DEF Present
    <3> QED
      BY <3>1, <3>2
  <2> QED
    BY <1>2, <2>1, <2>3
<1>6. ASSUME NEW w \in Workers, WaitsAt(w)
      PROVE  Promise!End
  <2>1. /\ \A v \in Workers : v # w => (Busy(v)' <=> Busy(v)) /\ Doing(v)' = Doing(v)
        /\ UNCHANGED <<queue, ended>> /\ Places' = Places /\ Busy(w) /\ ~Busy(w)'
        /\ waiting' = waiting \cup {Doing(w)}
    BY <1>6, IdleShape DEF WaitsAt, Only, Busy, Doing, JobOf, Places
  <2>2. ASSUME NEW j
        PROVE  Present(j)' <=> Present(j)
    BY <2>1 DEF Present
  <2> QED
    BY <1>2, <2>1, <2>2
<1>7. ASSUME NEW w \in Workers, EndsAt(w)
      PROVE  Promise!End
  <2>1. /\ \A v \in Workers : v # w => (Busy(v)' <=> Busy(v)) /\ Doing(v)' = Doing(v)
        /\ UNCHANGED <<queue, waiting>> /\ Places' = Places /\ Busy(w) /\ ~Busy(w)'
        /\ ended' = ended \cup {x \in Messages : JobOf(x) = Doing(w)}
    BY <1>7, IdleShape, BusyTyped DEF EndsAt, Ends, Only, Busy, Doing, Places
  <2>2. ASSUME NEW j
        PROVE  Present(j)' <=> Present(j) /\ j # Doing(w)
    BY <2>1 DEF Present, Apart, RunsOnce
  <2>3. Present(Doing(w))
    BY <2>1 DEF Present
  <2>4. \A x \in Messages : x \in Open \ Open' <=> JobOf(x) = Doing(w)
    BY <1>1, <2>2, <2>3
  <2>5. Open' \subseteq Open /\ Open \ Open' = {x \in Messages : JobOf(x) = Doing(w)}
    BY <1>1, <2>2, <2>4
  <2> QED
    BY <2>1, <2>5 DEF Promise!End
<1> QED
  BY <1>3, <1>4, <1>5, <1>6, <1>7

LEMMA StepKeepsPromise ==
    ASSUME IInv, OpenIsPresent, OpenIsPresent', [Next]_vars
    PROVE  [Promise!Next]_(Promise!vars)
<1> USE DEF IInv
<1>1. ASSUME UNCHANGED copies
      PROVE  Promise!Announce \/ Promise!GiveUp
  BY <1>1, EveryStepMoves, OpenByRaises, OpenByMove DEF Promise!Announce, Promise!GiveUp
<1>2. ASSUME NEW w \in Workers, SendsAt(w), Arrive(worker[w].job)
      PROVE  Promise!Give
  <2> PICK m \in Messages : m = worker[w].job
    BY <1>2, BusyTyped DEF SendsAt, Busy
  <2>1. Busy(w) /\ JobOf(m) = Doing(w)
    BY <1>2 DEF SendsAt, Busy, Doing
  <2>2. m \in Open
    BY <2>1 DEF OpenIsPresent, Present
  <2>3. copies[m] < LimitOf(m)
    <3>1. Left(m) /\ copies[m] <= attempts[m]
      BY <2>1 DEF Budget, Counted, RunningLeft, ToSend
    <3>2. copies[m] \in Nat /\ attempts[m] \in Nat /\ LimitOf(m) \in Nat
      BY LimitIsPositive DEF Budget, Counted
    <3> QED
      BY <3>1, <3>2 DEF Left
  <2>4. copies' = [copies EXCEPT ![m] = @ + 1]
    BY <1>2 DEF Arrive
  <2>5. Promise!End
    <3>1. Keeps \/ EndsAt(w) \/ WaitsAt(w)
      BY <1>2, <2>1, KeepsOfGoesOn DEF SendsAt
    <3> QED
      BY <3>1, OpenByMove
  <2> QED
    BY <2>2, <2>3, <2>4, <2>5 DEF Promise!Give
<1> QED
  BY <1>1, <1>2, OnlyProcessesSend DEF SendsAt, Promise!Next, Promise!vars

\* The tasks deliver as promised: a message is accepted only between its enqueueing
\* and its end, at most once per attempt, and what has ended is not sent again.
THEOREM NotifyKeepsThePromise == Spec => KeepsPromise
<1>1. ASSUME Init
      PROVE  Promise!Init
  <2>1. \A w \in Workers : JobsAt(w) = {}
    BY <1>1, IdleShape DEF Init, JobsAt, Busy
  <2>2. Queued = {}
    BY <1>1 DEF Init, Queued
  <2>3. Open = {}
    BY <1>1, <2>1, <2>2 DEF Init, Open
  <2> QED
    BY <1>1, <2>3 DEF Init, Promise!Init
<1>2. Spec => []OpenIsPresent
  BY WhatIsOpen, TypeCorrect, PTL
<1> QED
  BY <1>1, <1>2, StepKeepsPromise, InvAlways, PTL
     DEF Spec, KeepsPromise, Promise!Spec
=============================================================================
