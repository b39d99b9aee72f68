--------------------------- MODULE HeartbeatProofs --------------------------
(***************************************************************************)
(* Machine-checked proofs about Heartbeat, for every number of servers,    *)
(* requests and overlapping executions of the task, and every Timeout.     *)
(*                                                                         *)
(* The inductive invariant IInv is TypeOK, what PendingMarksHold says of   *)
(* the uncommitted executions, and two facts it needs: a threshold lies at *)
(* least Timeout in the past, and an execution has marked nothing before   *)
(* the UPDATE that marks it.  HInv adds what is true while executions do   *)
(* not overlap.                                                            *)
(***************************************************************************)
EXTENDS Heartbeat, TLAPS

\* The thresholds only get older as an execution proceeds.
ThresholdsInPast ==
    \A h \in Runs : run[h].pc # "idle" => run[h].thr <= now - Timeout

\* What an execution has marked by the statement it has reached.
MarkedSoFar ==
    \A h \in Runs :
        /\ run[h].pc = "started" => run[h].down = {}
        /\ run[h].pc \in {"started", "downed"} => run[h].up = {}

IInv == TypeOK /\ ThresholdsInPast /\ MarkedSoFar /\ PendingMarksHold

\* The type invariant holds in every initial state.
LEMMA InitTypeOK == Init => TypeOK
<1> SUFFICES ASSUME Init PROVE TypeOK
  OBVIOUS
<1>1. now \in Times /\ crashes \in 0 .. MaxCrashes
  BY ConstantsAssumption DEF Init, Times
<1>2. overlapped \in BOOLEAN
  BY DEF Init
<1>3. /\ phase \in [Servers -> {"new", "row", "gone"}]
      /\ active \in [Servers -> BOOLEAN] /\ paused \in [Servers -> BOOLEAN]
      /\ seen \in [Servers -> Times \cup {None}]
      /\ told \in [Servers -> {"nothing", "down", "up"}]
  BY DEF Init
<1>4. mark \in [Servers -> [thr : -Timeout .. MaxTime, seen : Times \cup {None}]]
  BY ConstantsAssumption DEF Init
<1>5. /\ req \in [Requests -> [pc : {"idle", "authed"}, server : Servers \cup {None},
                              at : Times]]
      /\ \A q \in Requests : req[q].pc # "authed"
  BY ConstantsAssumption DEF Init, IdleReq, Times
<1>6. run \in [Runs -> [pc : {"idle", "started", "downed", "upped", "notify"},
                       thr : -Timeout .. MaxTime,
                       down : SUBSET Servers, up : SUBSET Servers]]
  BY ConstantsAssumption DEF Init, IdleRun
<1> QED
  BY <1>1, <1>3, <1>4, <1>5, <1>6, <1>2 DEF TypeOK

\* Every step of the heartbeat task preserves the type invariant.
LEMMA RunTypeOK ==
    ASSUME TypeOK, NEW h \in Runs, RunStep(h) \/ CrashRun(h)
    PROVE  TypeOK'
<1> DEFINE RunRecord == [pc : {"idle", "started", "downed", "upped", "notify"},
                         thr : -Timeout .. MaxTime,
                         down : SUBSET Servers, up : SUBSET Servers]
<1>a. /\ run \in [Runs -> RunRecord] /\ now \in Times
      /\ Silent(h) \in SUBSET Servers /\ Returned(h) \in SUBSET Servers
  BY DEF TypeOK, Silent, Returned
<1>b. /\ run[h].down \in SUBSET Servers /\ run[h].up \in SUBSET Servers
      /\ run[h].thr \in -Timeout .. MaxTime
  BY <1>a
<1>1. CASE StartCheck(h)
  BY <1>1, ConstantsAssumption DEF StartCheck, TypeOK, Times
<1>2. CASE MarkInactive(h)
  <2>1. run' \in [Runs -> RunRecord]
    BY <1>2, <1>a, <1>b DEF MarkInactive
  <2> QED
    BY <2>1, <1>2 DEF MarkInactive, TypeOK
<1>3. CASE MarkActive(h)
  <2>1. run' \in [Runs -> RunRecord]
    BY <1>3, <1>a, <1>b DEF MarkActive
  <2> QED
    BY <2>1, <1>3 DEF MarkActive, TypeOK
<1>4. CASE CommitCheck(h)
  <2>1. run' \in [Runs -> RunRecord]
    BY <1>4, <1>a, <1>b DEF CommitCheck
  <2>2. active' \in [Servers -> BOOLEAN]
    BY <1>4 DEF CommitCheck, TypeOK
  <2>3. mark' \in [Servers -> [thr : -Timeout .. MaxTime, seen : Times \cup {None}]]
    BY <1>4, <1>b DEF CommitCheck, TypeOK
  <2> QED
    BY <2>1, <2>2, <2>3, <1>4 DEF CommitCheck, TypeOK
<1>5. CASE Enqueue(h)
  <2>1. run' \in [Runs -> RunRecord]
    BY <1>5, <1>a, <1>b, ConstantsAssumption DEF Enqueue, IdleRun, Times
  <2>2. told' \in [Servers -> {"nothing", "down", "up"}]
    BY <1>5, <1>b DEF Enqueue, TypeOK
  <2> QED
    BY <2>1, <2>2, <1>5 DEF Enqueue, TypeOK
<1>6. CASE CrashRun(h)
  BY <1>6, ConstantsAssumption DEF CrashRun, IdleRun, TypeOK, Times
<1> QED
  BY <1>1, <1>2, <1>3, <1>4, <1>5, <1>6 DEF RunStep

\* Every step of the system preserves the type invariant.
LEMMA NextTypeOK == TypeOK /\ [Next]_vars => TypeOK'
<1> SUFFICES ASSUME TypeOK, [Next]_vars PROVE TypeOK'
  OBVIOUS
<1> USE ConstantsAssumption DEF TypeOK, Times
<1>1. CASE Tick
  BY <1>1 DEF Tick
<1>2. ASSUME NEW s \in Servers, Register(s) \/ Delete(s) PROVE TypeOK'
  BY <1>2 DEF Register, Delete
<1>3. ASSUME NEW s \in Servers, NEW v \in BOOLEAN, SetPaused(s, v) PROVE TypeOK'
  BY <1>3 DEF SetPaused
<1>4. ASSUME NEW q \in Requests, NEW s \in Servers, Authenticate(q, s) PROVE TypeOK'
  BY <1>4 DEF Authenticate
<1>5. ASSUME NEW q \in Requests, CommitMetric(q) PROVE TypeOK'
  BY <1>5 DEF CommitMetric, IdleReq
<1>6. ASSUME NEW q \in Requests, CrashRequest(q) PROVE TypeOK'
  BY <1>6 DEF CrashRequest, IdleReq
<1>7. ASSUME NEW h \in Runs, RunStep(h) \/ CrashRun(h) PROVE TypeOK'
  BY <1>7, RunTypeOK
<1>8. CASE UNCHANGED vars
  BY <1>8 DEF vars
<1> QED
  BY <1>1, <1>2, <1>3, <1>4, <1>5, <1>6, <1>7, <1>8 DEF Next

\* Type correctness of the heartbeat model (heartbeat_tasks.py, metrics.py):
\* every reachable state has the declared shape.
THEOREM TypeCorrect == Spec => []TypeOK
  BY InitTypeOK, NextTypeOK, PTL DEF Spec

----------------------------------------------------------------------------
\* PendingMarksHold, one execution and one pair of executions at a time.
DownHolds(h) ==
    \A s \in run[h].down : /\ phase[s] = "row" /\ active[s] /\ ~paused[s]
                           /\ SeenBefore(s, run[h].thr)
UpHolds(h) ==
    \A s \in run[h].up : /\ phase[s] = "row" /\ ~active[s] /\ ~paused[s]
                         /\ SeenSince(s, run[h].thr)

\* The invariant is its parts.
LEMMA MarksByParts ==
    PendingMarksHold <=>
        /\ \A h \in Runs : run[h].pc \in Uncommitted => DownHolds(h) /\ UpHolds(h)
        /\ \A g, h \in Runs : g # h => Locks(g) \cap Locks(h) = {}
  BY SMTT(20) DEF PendingMarksHold, DownHolds, UpHolds, Locks

\* The same of the next state.
LEMMA MarksByPartsNext ==
    PendingMarksHold' <=>
        /\ \A h \in Runs : run'[h].pc \in Uncommitted => DownHolds(h)' /\ UpHolds(h)'
        /\ \A g, h \in Runs : g # h => Locks(g)' \cap Locks(h)' = {}
  BY SMTT(20) DEF PendingMarksHold, DownHolds, UpHolds, Locks

\* A step that leaves the executions alone and every locked row as it is
\* preserves the marks.
LEMMA LockedRowsKept ==
    ASSUME PendingMarksHold, UNCHANGED run,
           \A s \in Servers : Locked(s) =>
               /\ phase'[s] = phase[s] /\ active'[s] = active[s]
               /\ paused'[s] = paused[s] /\ seen'[s] = seen[s],
           TypeOK
    PROVE  PendingMarksHold'
<1>1. \A h \in Runs : Locks(h)' = Locks(h)
  BY DEF Locks
<1>2. ASSUME NEW h \in Runs, run'[h].pc \in Uncommitted
      PROVE  DownHolds(h)' /\ UpHolds(h)'
  <2>1. DownHolds(h) /\ UpHolds(h)
    BY <1>2, MarksByParts
  <2>2. \A s \in run[h].down \cup run[h].up : s \in Servers /\ Locked(s)
    BY <1>2 DEF Locked, Locks, TypeOK
  <2> QED
    BY <2>1, <2>2 DEF DownHolds, UpHolds, SeenBefore, SeenSince
<1> QED
  BY <1>1, <1>2, MarksByParts, MarksByPartsNext

\* A step of execution h that leaves the rows alone and only changes h keeps
\* the marks if h's own marks and locks are in order afterwards.
LEMMA OneRunChanges ==
    ASSUME PendingMarksHold, NEW h \in Runs,
           \A g \in Runs \ {h} : run'[g] = run[g],
           UNCHANGED <<phase, active, paused, seen>>,
           run'[h].pc \in Uncommitted => DownHolds(h)' /\ UpHolds(h)',
           \A g \in Runs \ {h} : Locks(g) \cap Locks(h)' = {}
    PROVE  PendingMarksHold'
<1>1. \A g \in Runs \ {h} : Locks(g)' = Locks(g)
  BY DEF Locks
<1>2. ASSUME NEW g \in Runs \ {h}, run'[g].pc \in Uncommitted
      PROVE  DownHolds(g)' /\ UpHolds(g)'
  BY <1>2, MarksByParts DEF DownHolds, UpHolds, SeenBefore, SeenSince
<1> QED
  BY <1>1, <1>2, MarksByParts, MarksByPartsNext

\* The task's own steps preserve the marks: each UPDATE waits for the rows the
\* other executions hold, and the commit writes only rows this one holds.
LEMMA RunMarksHold ==
    ASSUME IInv, NEW h \in Runs, RunStep(h) \/ CrashRun(h)
    PROVE  PendingMarksHold'
<1>a. run \in [Runs -> [pc : {"idle", "started", "downed", "upped", "notify"},
                        thr : -Timeout .. MaxTime,
                        down : SUBSET Servers, up : SUBSET Servers]]
  BY DEF IInv, TypeOK
<1>b. PendingMarksHold /\ MarkedSoFar
  BY DEF IInv
<1>1. CASE StartCheck(h)
  <2>1. run'[h].pc = "started" /\ \A g \in Runs \ {h} : run'[g] = run[g]
    BY <1>1, <1>a DEF StartCheck
  <2> QED
    BY <2>1, <1>1, <1>b, OneRunChanges DEF StartCheck, Locks, Uncommitted
<1>2. CASE MarkInactive(h)
  <2>1. /\ run'[h].pc = "downed" /\ run'[h].down = Silent(h) /\ run'[h].up = {}
        /\ run'[h].thr = run[h].thr
        /\ \A g \in Runs \ {h} : run'[g] = run[g]
    BY <1>2, <1>a, <1>b DEF MarkInactive, MarkedSoFar
  <2>2. DownHolds(h)' /\ UpHolds(h)'
    BY <2>1, <1>2 DEF MarkInactive, DownHolds, UpHolds, Silent, SeenBefore
  <2>3. Locks(h)' = Silent(h)
    BY <2>1 DEF Locks, Uncommitted
  <2>4. \A g \in Runs \ {h} : Locks(g) \cap Silent(h) = {}
    BY <1>2 DEF MarkInactive, RowFree, Locked
  <2> QED
    BY <2>1, <2>2, <2>3, <2>4, <1>2, <1>b, OneRunChanges DEF MarkInactive
<1>3. CASE MarkActive(h)
  <2>1. /\ run'[h].pc = "upped" /\ run'[h].up = Returned(h)
        /\ run'[h].down = run[h].down /\ run'[h].thr = run[h].thr
        /\ \A g \in Runs \ {h} : run'[g] = run[g]
    BY <1>3, <1>a DEF MarkActive
  <2>2. run[h].pc = "downed" /\ DownHolds(h)
    BY <1>3, <1>b, MarksByParts DEF MarkActive, Uncommitted
  <2>3. \A s \in Returned(h) : s \notin run[h].down
    BY <2>2, <1>a, ConstantsAssumption
       DEF Returned, DownHolds, SeenBefore, SeenSince, IInv, TypeOK, Times
  <2>4. DownHolds(h)' /\ UpHolds(h)'
    BY <2>1, <2>2, <2>3, <1>3
       DEF MarkActive, DownHolds, UpHolds, Returned, SeenBefore, SeenSince
  <2>5. Locks(h)' = run[h].down \cup Returned(h)
    BY <2>1 DEF Locks, Uncommitted
  <2>6. \A g \in Runs \ {h} : Locks(g) \cap run[h].down = {}
    BY <2>2, <1>b, MarksByParts DEF Locks, Uncommitted
  <2>7. \A g \in Runs \ {h} : Locks(g) \cap Returned(h) = {}
    BY <1>3 DEF MarkActive
  <2> QED
    BY <2>1, <2>4, <2>5, <2>6, <2>7, <1>3, <1>b, OneRunChanges DEF MarkActive
<1>4. CASE CommitCheck(h)
  <2>1. /\ run'[h].pc = "notify" /\ \A g \in Runs \ {h} : run'[g] = run[g]
        /\ Locks(h) = run[h].down \cup run[h].up
    BY <1>4, <1>a DEF CommitCheck, Locks, Uncommitted
  <2>2. \A g \in Runs \ {h} : Locks(g)' = Locks(g)
    BY <2>1 DEF Locks
  <2>3. Locks(h)' = {}
    BY <2>1 DEF Locks, Uncommitted
  <2>4. ASSUME NEW g \in Runs \ {h}, run'[g].pc \in Uncommitted
        PROVE  DownHolds(g)' /\ UpHolds(g)'
    <3>1. DownHolds(g) /\ UpHolds(g) /\ Locks(g) \cap Locks(h) = {}
      BY <2>1, <2>4, <1>b, MarksByParts
    <3>2. Locks(g) = run[g].down \cup run[g].up
      BY <2>1, <2>4 DEF Locks
    <3>3. \A s \in Locks(g) : s \in Servers /\ active'[s] = active[s]
      BY <3>1, <3>2, <2>1, <1>4, <1>a DEF CommitCheck
    <3> QED
      BY <3>1, <3>2, <3>3, <2>1, <1>4
         DEF CommitCheck, DownHolds, UpHolds, SeenBefore, SeenSince
  <2> QED
    BY <2>1, <2>2, <2>3, <2>4, <1>b, MarksByParts, MarksByPartsNext DEF Uncommitted
<1>5. CASE Enqueue(h)
  <2>1. run'[h].pc \notin Uncommitted /\ \A g \in Runs \ {h} : run'[g] = run[g]
    BY <1>5, <1>a DEF Enqueue, IdleRun, Uncommitted
  <2> QED
    BY <2>1, <1>5, <1>b, OneRunChanges DEF Enqueue, Locks
<1>6. CASE CrashRun(h)
  <2>1. run'[h].pc \notin Uncommitted /\ \A g \in Runs \ {h} : run'[g] = run[g]
    BY <1>6, <1>a DEF CrashRun, IdleRun, Uncommitted
  <2> QED
    BY <2>1, <1>6, <1>b, OneRunChanges DEF CrashRun, Locks
<1> QED
  BY <1>1, <1>2, <1>3, <1>4, <1>5, <1>6 DEF RunStep

\* So do the requests, the bot commands and the clock: whoever writes a row
\* waits until no execution holds it.
LEMMA NextMarksHold == IInv /\ [Next]_vars => PendingMarksHold'
<1> SUFFICES ASSUME IInv, [Next]_vars PROVE PendingMarksHold'
  OBVIOUS
<1> USE DEF IInv
<1>1. CASE Tick
  BY <1>1, LockedRowsKept DEF Tick
<1>2. ASSUME NEW s \in Servers, Register(s) PROVE PendingMarksHold'
  <2>1. ~Locked(s)
    BY <1>2, MarksByParts DEF Register, Locked, Locks, DownHolds, UpHolds
  <2> QED
    BY <2>1, <1>2, LockedRowsKept DEF Register, TypeOK
<1>3. ASSUME NEW s \in Servers, Delete(s) PROVE PendingMarksHold'
  BY <1>3, LockedRowsKept DEF Delete, RowFree, TypeOK
<1>4. ASSUME NEW s \in Servers, NEW v \in BOOLEAN, SetPaused(s, v)
      PROVE  PendingMarksHold'
  BY <1>4, LockedRowsKept DEF SetPaused, RowFree, TypeOK
<1>5. ASSUME NEW q \in Requests, NEW s \in Servers, Authenticate(q, s)
      PROVE  PendingMarksHold'
  BY <1>5, LockedRowsKept DEF Authenticate
<1>6. ASSUME NEW q \in Requests, CommitMetric(q) PROVE PendingMarksHold'
  BY <1>6, LockedRowsKept DEF CommitMetric, RowFree, TypeOK
<1>7. ASSUME NEW q \in Requests, CrashRequest(q) PROVE PendingMarksHold'
  BY <1>7, LockedRowsKept DEF CrashRequest
<1>8. ASSUME NEW h \in Runs, RunStep(h) \/ CrashRun(h) PROVE PendingMarksHold'
  BY <1>8, RunMarksHold
<1>9. CASE UNCHANGED vars
  BY <1>9, LockedRowsKept DEF vars
<1> QED
  BY <1>1, <1>2, <1>3, <1>4, <1>5, <1>6, <1>7, <1>8, <1>9 DEF Next

\* Thresholds age and statements come in order.
LEMMA NextRunOrder == IInv /\ [Next]_vars => (ThresholdsInPast /\ MarkedSoFar)'
<1> SUFFICES ASSUME IInv, [Next]_vars PROVE (ThresholdsInPast /\ MarkedSoFar)'
  OBVIOUS
<1>a. /\ run \in [Runs -> [pc : {"idle", "started", "downed", "upped", "notify"},
                           thr : -Timeout .. MaxTime,
                           down : SUBSET Servers, up : SUBSET Servers]]
      /\ now \in Nat /\ Timeout \in Nat /\ MaxTime \in Nat
      /\ ThresholdsInPast /\ MarkedSoFar
  BY ConstantsAssumption DEF IInv, TypeOK, Times
<1>1. CASE Tick
  BY <1>1, <1>a DEF Tick, ThresholdsInPast, MarkedSoFar
<1>2. CASE UNCHANGED <<now, run>>
  BY <1>2, <1>a DEF ThresholdsInPast, MarkedSoFar
<1>3. ASSUME NEW h \in Runs, RunStep(h) \/ CrashRun(h)
      PROVE  (ThresholdsInPast /\ MarkedSoFar)'
  <2>1. now' = now /\ \A g \in Runs \ {h} : run'[g] = run[g]
    BY <1>3, <1>a DEF RunStep, StartCheck, MarkInactive, MarkActive, CommitCheck,
                      Enqueue, CrashRun
  <2>2. /\ run'[h].pc # "idle" => run'[h].thr <= now - Timeout
        /\ run'[h].pc = "started" => run'[h].down = {}
        /\ run'[h].pc \in {"started", "downed"} => run'[h].up = {}
    <3>1. CASE StartCheck(h)
      BY <3>1, <1>a DEF StartCheck
    <3>2. CASE MarkInactive(h)
      BY <3>2, <1>a DEF MarkInactive, ThresholdsInPast, MarkedSoFar
    <3>3. CASE MarkActive(h)
      BY <3>3, <1>a DEF MarkActive, ThresholdsInPast
    <3>4. CASE CommitCheck(h)
      BY <3>4, <1>a DEF CommitCheck, ThresholdsInPast
    <3>5. CASE Enqueue(h)
      BY <3>5, <1>a DEF Enqueue, IdleRun, ThresholdsInPast
    <3>6. CASE CrashRun(h)
      BY <3>6, <1>a DEF CrashRun, IdleRun
    <3> QED
      BY <1>3, <3>1, <3>2, <3>3, <3>4, <3>5, <3>6 DEF RunStep
  <2> QED
    BY <2>1, <2>2, <1>a DEF ThresholdsInPast, MarkedSoFar
<1> QED
  BY <1>1, <1>2, <1>3 DEF Next, vars, Register, Delete, SetPaused, Authenticate,
                          CommitMetric, CrashRequest

\* The inductive invariant holds in every reachable state.
LEMMA Invariant == Spec => []IInv
<1>1. Init => IInv
  <2> SUFFICES ASSUME Init PROVE IInv
    OBVIOUS
  <2>1. \A h \in Runs : run[h].pc = "idle"
    BY DEF Init, IdleRun
  <2>2. ThresholdsInPast /\ MarkedSoFar
    BY <2>1 DEF ThresholdsInPast, MarkedSoFar
  <2>3. PendingMarksHold
    BY <2>1 DEF PendingMarksHold, Uncommitted
  <2> QED
    BY <2>2, <2>3, InitTypeOK DEF IInv
<1>2. IInv /\ [Next]_vars => IInv'
  BY NextTypeOK, NextRunOrder, NextMarksHold DEF IInv
<1> QED
  BY <1>1, <1>2, PTL DEF Spec

\* servers.is_active is written by the commit of a heartbeat check alone.
LEMMA OnlyCommitsFlip ==
    ASSUME [Next]_vars, active' # active
    PROVE  \E h \in Runs : CommitCheck(h)
<1>1. \A h \in Runs : RunStep(h) \/ CrashRun(h) => UNCHANGED active \/ CommitCheck(h)
  BY DEF RunStep, StartCheck, MarkInactive, MarkActive, Enqueue, CrashRun
<1> QED
  BY <1>1 DEF Next, vars, Tick, Register, Delete, SetPaused, Authenticate,
              CommitMetric, CrashRequest

\* heartbeat_tasks.py:32-58: what the two UPDATEs decided is still true of the
\* rows at the commit, however many executions, requests and commands overlap.
THEOREM MarksHold == Spec => []PendingMarksHold
  BY Invariant, PTL DEF IInv

\* heartbeat_tasks.py:33-43: no server is taken down that is paused, never
\* reported, or reported within the timeout.
THEOREM OnlySilentServersGoDown == Spec => NoFalseDown
<1>1. ASSUME IInv, [Next]_vars, NEW s \in Servers, active[s], ~active'[s]
      PROVE  phase[s] = "row" /\ ~paused[s] /\ SeenBefore(s, now - Timeout)
  <2>1. PICK h \in Runs : CommitCheck(h)
    BY <1>1, OnlyCommitsFlip
  <2>a. s \in run[h].down
    BY <1>1, <2>1 DEF CommitCheck
  <2>2. DownHolds(h) /\ run[h].thr <= now - Timeout
    BY <1>1, <2>1, MarksByParts
       DEF IInv, CommitCheck, Uncommitted, ThresholdsInPast
  <2>3. phase[s] = "row" /\ ~paused[s] /\ seen[s] # None /\ seen[s] < run[h].thr
    BY <2>a, <2>2 DEF DownHolds, SeenBefore
  <2>4. seen[s] \in Int /\ run[h].thr \in Int /\ now \in Int /\ Timeout \in Int
    BY <1>1, <2>3, ConstantsAssumption DEF IInv, TypeOK, Times
  <2> QED
    BY <2>2, <2>3, <2>4 DEF SeenBefore
<1>2. IInv /\ [Next]_vars =>
        [\A s \in Servers : active[s] /\ ~active'[s] =>
            phase[s] = "row" /\ ~paused[s] /\ SeenBefore(s, now - Timeout)]_vars
  BY <1>1
<1> QED
  BY <1>2, Invariant, PTL DEF Spec, NoFalseDown

----------------------------------------------------------------------------
\* A locked-out server stays as it is when neither its row nor a request of it
\* nor an execution's marks change.
LEMMA LockedOutKept ==
    ASSUME IInv, NEW s \in Servers, LockedOut(s), now' >= now, now' \in Int,
           phase'[s] = phase[s], active'[s] = active[s], seen'[s] = seen[s],
           \A q \in Requests : req'[q].server # s,
           \A h \in Runs :
               /\ run'[h].pc \in Uncommitted => s \notin run'[h].up
               /\ run'[h].pc \in {"started", "downed"} => SeenBefore(s, run'[h].thr)
    PROVE  LockedOut(s)'
<1>1. seen[s] \in Int /\ now \in Int /\ Timeout \in Int
  BY ConstantsAssumption DEF IInv, TypeOK, Times, LockedOut, SeenBefore
<1> QED
  BY <1>1 DEF LockedOut, SeenBefore

\* No step of the task frees a locked-out server.
LEMMA RunKeepsLockedOut ==
    ASSUME IInv, NEW s \in Servers, LockedOut(s),
           NEW h \in Runs, RunStep(h) \/ CrashRun(h)
    PROVE  LockedOut(s)'
<1>a. run \in [Runs -> [pc : {"idle", "started", "downed", "upped", "notify"},
                        thr : -Timeout .. MaxTime,
                        down : SUBSET Servers, up : SUBSET Servers]]
  BY DEF IInv, TypeOK
<1>b. /\ now' = now /\ UNCHANGED <<phase, seen, req>>
      /\ \A g \in Runs \ {h} : run'[g] = run[g]
  BY <1>a DEF RunStep, StartCheck, MarkInactive, MarkActive, CommitCheck,
              Enqueue, CrashRun
<1>d. now \in Int
  BY DEF IInv, TypeOK, Times
<1>c. /\ run[h].pc \in Uncommitted => s \notin run[h].up
      /\ run[h].pc \in {"started", "downed"} => SeenBefore(s, run[h].thr)
      /\ ~active[s] /\ SeenBefore(s, now - Timeout)
  BY DEF LockedOut
<1>1. /\ active'[s] = active[s]
      /\ run'[h].pc \in Uncommitted => s \notin run'[h].up
      /\ run'[h].pc \in {"started", "downed"} => SeenBefore(s, run'[h].thr)
  <2>1. CASE StartCheck(h)
    BY <2>1, <1>a, <1>c DEF StartCheck, Uncommitted
  <2>2. CASE MarkInactive(h)
    <3>1. /\ run'[h].pc = "downed" /\ run'[h].up = run[h].up
          /\ run'[h].thr = run[h].thr
      BY <2>2, <1>a DEF MarkInactive
    <3>2. run[h].up = {} /\ SeenBefore(s, run[h].thr)
      BY <2>2, <1>c DEF MarkInactive, IInv, MarkedSoFar
    <3> QED
      BY <3>1, <3>2, <2>2 DEF MarkInactive
  <2>3. CASE MarkActive(h)
    <3>1. run'[h].pc = "upped" /\ run'[h].up = Returned(h)
      BY <2>3, <1>a DEF MarkActive
    <3>2. s \notin Returned(h)
      <4>1. seen[s] \in Int /\ run[h].thr \in Int
        BY <1>a, <1>c, ConstantsAssumption DEF IInv, TypeOK, Times, SeenBefore
      <4> QED
        BY <4>1, <2>3, <1>c DEF MarkActive, Returned, SeenBefore, SeenSince
    <3> QED
      BY <3>1, <3>2, <2>3 DEF MarkActive
  <2>4. CASE CommitCheck(h)
    <3>1. run'[h].pc = "notify"
      BY <2>4, <1>a DEF CommitCheck
    <3>2. s \notin run[h].up
      BY <2>4, <1>c DEF CommitCheck, Uncommitted
    <3>3. active'[s] = active[s]
      BY <2>4, <3>2, <1>c DEF CommitCheck, IInv, TypeOK
    <3> QED
      BY <3>1, <3>3 DEF Uncommitted
  <2>5. CASE Enqueue(h)
    BY <2>5, <1>a DEF Enqueue, IdleRun, Uncommitted
  <2>6. CASE CrashRun(h)
    BY <2>6, <1>a DEF CrashRun, IdleRun, Uncommitted
  <2> QED
    BY <2>1, <2>2, <2>3, <2>4, <2>5, <2>6 DEF RunStep
<1> QED
  BY <1>b, <1>d, <1>1, LockedOutKept DEF LockedOut

\* deps.py:74: once a server is down and no request of it is past
\* verify_api_key, it stays down for good (README.md:256 promises its return).
THEOREM LockedOutStays == Spec => LockedOutForGood
<1>1. ASSUME IInv, [Next]_vars, NEW s \in Servers, LockedOut(s)
      PROVE  LockedOut(s)' \/ phase'[s] = "gone"
  <2>a. /\ now \in Int /\ req \in [Requests -> [pc : {"idle", "authed"},
                                    server : Servers \cup {None}, at : Times]]
        /\ phase \in [Servers -> {"new", "row", "gone"}]
        /\ seen \in [Servers -> Times \cup {None}]
    BY <1>1 DEF IInv, TypeOK, Times
  <2>b. /\ phase[s] = "row" /\ ~active[s] /\ None # s
        /\ \A q \in Requests : req[q].server # s
    BY <1>1, ConstantsAssumption DEF LockedOut
  <2>1. CASE Tick
    BY <2>1, <2>a, <1>1, LockedOutKept DEF Tick, LockedOut
  <2>2. ASSUME NEW r \in Servers, Register(r) \/ Delete(r)
        PROVE  LockedOut(s)' \/ phase'[s] = "gone"
    <3>1. phase'[s] = phase[s] \/ phase'[s] = "gone"
      BY <2>2, <2>a, <2>b DEF Register, Delete
    <3>2. UNCHANGED <<now, active, seen, req, run>>
      BY <2>2 DEF Register, Delete
    <3> QED
      BY <3>1, <3>2, <2>a, <1>1, LockedOutKept DEF LockedOut
  <2>3. ASSUME NEW r \in Servers, NEW v \in BOOLEAN, SetPaused(r, v)
        PROVE  LockedOut(s)'
    BY <2>3, <2>a, <1>1, LockedOutKept DEF SetPaused, LockedOut
  <2>4. ASSUME NEW q \in Requests, NEW r \in Servers, Authenticate(q, r)
        PROVE  LockedOut(s)'
    <3>1. r # s
      BY <2>4, <2>b DEF Authenticate
    <3>2. \A p \in Requests : req'[p].server # s
      BY <3>1, <2>4, <2>a, <2>b DEF Authenticate
    <3>3. UNCHANGED <<now, phase, active, seen, run>>
      BY <2>4 DEF Authenticate
    <3> QED
      BY <3>2, <3>3, <2>a, <1>1, LockedOutKept DEF LockedOut
  <2>5. ASSUME NEW q \in Requests, CommitMetric(q) \/ CrashRequest(q)
        PROVE  LockedOut(s)'
    <3>1. \A p \in Requests : req'[p].server # s
      BY <2>5, <2>a, <2>b DEF CommitMetric, CrashRequest, IdleReq
    <3>2. seen'[s] = seen[s]
      BY <2>5, <2>a, <2>b DEF CommitMetric, CrashRequest
    <3>3. UNCHANGED <<now, phase, active, run>>
      BY <2>5 DEF CommitMetric, CrashRequest
    <3> QED
      BY <3>1, <3>2, <3>3, <2>a, <1>1, LockedOutKept DEF LockedOut
  <2>6. ASSUME NEW h \in Runs, RunStep(h) \/ CrashRun(h) PROVE LockedOut(s)'
    BY <2>6, <1>1, RunKeepsLockedOut
  <2>7. CASE UNCHANGED vars
    BY <2>7, <2>a, <1>1, LockedOutKept DEF vars, LockedOut
  <2> QED
    BY <1>1, <2>1, <2>2, <2>3, <2>4, <2>5, <2>6, <2>7 DEF Next
<1>2. IInv /\ [Next]_vars =>
        [\A s \in Servers : LockedOut(s) => LockedOut(s)' \/ phase'[s] = "gone"]_vars
  BY <1>1
<1> QED
  BY <1>2, Invariant, PTL DEF Spec, LockedOutForGood
----------------------------------------------------------------------------
(* Executions that do not overlap: what the recovery and the notices need   *)
(* beyond IInv, each a named part of HInv.                                  *)

\* The history variable is right: without an overlap one execution is under way.
Alone ==
    ~overlapped => \A g, h \in Runs : run[g].pc # "idle" /\ run[h].pc # "idle" => g = h

\* Every threshold at which a server was taken down lies Timeout in the past.
MarksInPast == \A s \in Servers : mark[s].thr <= now - Timeout

\* A server that is down was silent when it was taken down.
DownWasSilent ==
    \A s \in Servers : ~active[s] => mark[s].seen # None /\ mark[s].seen < mark[s].thr

\* No server was taken down at a later threshold than the one now in use.
NewestThreshold ==
    ~overlapped => \A h \in Runs, s \in Servers :
                       run[h].pc # "idle" => mark[s].thr <= run[h].thr

\* A notice about s is still to be enqueued.
ToTell(s) == \E h \in Runs : run[h].pc = "notify" /\ s \in run[h].down \cup run[h].up

\* The last notice about a server agrees with is_active, unless one is to come.
NobodyMisled == \A s \in Servers : ~ToTell(s) => (active[s] <=> told[s] # "down")

\* The notices to come agree with is_active.
NoticesToComeAgree ==
    \A h \in Runs : run[h].pc = "notify" =>
        /\ \A s \in run[h].down : ~active[s]
        /\ \A s \in run[h].up : active[s]

Announced == crashes = 0 /\ ~overlapped => NobodyMisled /\ NoticesToComeAgree

HInv == Alone /\ MarksInPast /\ DownWasSilent /\ NewestThreshold /\ Announced

\* The part of the type invariant these proofs use.
LEMMA HeartbeatTypes ==
    ASSUME TypeOK
    PROVE  /\ now \in Int /\ Timeout \in Nat /\ crashes \in Nat
           /\ active \in [Servers -> BOOLEAN]
           /\ \A s \in Servers : seen[s] \in Int \cup {None}
           /\ \A s \in Servers : mark[s].thr \in Int /\ mark[s].seen \in Int \cup {None}
           /\ \A h \in Runs : /\ run[h].thr \in Int
                              /\ run[h].down \subseteq Servers
                              /\ run[h].up \subseteq Servers
           /\ run \in [Runs -> [pc : {"idle", "started", "downed", "upped", "notify"},
                                thr : -Timeout .. MaxTime,
                                down : SUBSET Servers, up : SUBSET Servers]]
           /\ told \in [Servers -> {"nothing", "down", "up"}]
<1>1. now \in Int /\ Timeout \in Nat /\ crashes \in Nat
  BY ConstantsAssumption DEF TypeOK, Times
<1>2. active \in [Servers -> BOOLEAN] /\ told \in [Servers -> {"nothing", "down", "up"}]
  BY ConstantsAssumption DEF TypeOK, Times
<1>3. \A s \in Servers : seen[s] \in Int \cup {None}
  BY ConstantsAssumption DEF TypeOK, Times
<1>4. \A s \in Servers : mark[s].thr \in Int /\ mark[s].seen \in Int \cup {None}
  BY ConstantsAssumption DEF TypeOK, Times
<1>5. run \in [Runs -> [pc : {"idle", "started", "downed", "upped", "notify"},
                        thr : -Timeout .. MaxTime,
                        down : SUBSET Servers, up : SUBSET Servers]]
  BY ConstantsAssumption DEF TypeOK, Times
<1>6. \A h \in Runs : /\ run[h].thr \in Int /\ run[h].down \subseteq Servers
                      /\ run[h].up \subseteq Servers
  BY <1>5
<1> QED
  BY <1>1, <1>2, <1>3, <1>4, <1>5, <1>6

\* The clock and the number of crashes never go back.
LEMMA ClockAndCrashes == TypeOK /\ [Next]_vars => now' >= now /\ crashes' >= crashes
<1> SUFFICES ASSUME TypeOK, [Next]_vars PROVE now' >= now /\ crashes' >= crashes
  OBVIOUS
<1>a. now \in Int /\ crashes \in Int
  BY HeartbeatTypes
<1>1. \A h \in Runs : RunStep(h) => UNCHANGED <<now, crashes>>
  BY DEF RunStep, StartCheck, MarkInactive, MarkActive, CommitCheck, Enqueue
<1>2. \A h \in Runs : CrashRun(h) => now' = now /\ crashes' = crashes + 1
  BY DEF CrashRun
<1> QED
  BY <1>1, <1>2, <1>a DEF Next, vars, Tick, Register, Delete, SetPaused, Authenticate,
                    CommitMetric, CrashRequest

\* Only StartCheck begins an execution, sets its threshold or detects an overlap.
LEMMA OnlyStartsBegin ==
    ASSUME TypeOK, [Next]_vars, \A h \in Runs : ~StartCheck(h)
    PROVE  /\ overlapped' = overlapped
           /\ \A g \in Runs : run'[g].pc # "idle" =>
                  run[g].pc # "idle" /\ run'[g].thr = run[g].thr
<1>a. run \in [Runs -> [pc : {"idle", "started", "downed", "upped", "notify"},
                        thr : -Timeout .. MaxTime,
                        down : SUBSET Servers, up : SUBSET Servers]]
  BY HeartbeatTypes
<1>1. ASSUME NEW h \in Runs, RunStep(h) \/ CrashRun(h)
      PROVE  /\ overlapped' = overlapped
             /\ \A g \in Runs : run'[g].pc # "idle" =>
                    run[g].pc # "idle" /\ run'[g].thr = run[g].thr
  <2>1. CASE MarkInactive(h)
    BY <2>1, <1>a DEF MarkInactive
  <2>2. CASE MarkActive(h)
    BY <2>2, <1>a DEF MarkActive
  <2>3. CASE CommitCheck(h)
    BY <2>3, <1>a DEF CommitCheck
  <2>4. CASE Enqueue(h)
    BY <2>4, <1>a DEF Enqueue, IdleRun
  <2>5. CASE CrashRun(h)
    BY <2>5, <1>a DEF CrashRun, IdleRun
  <2> QED
    BY <1>1, <2>1, <2>2, <2>3, <2>4, <2>5 DEF RunStep
<1>2. CASE UNCHANGED <<run, overlapped>>
  BY <1>2
<1> QED
  BY <1>1, <1>2 DEF Next, vars, Tick, Register, Delete, SetPaused, Authenticate,
                    CommitMetric, CrashRequest

\* Only CommitCheck takes a server down or brings one back.
LEMMA OnlyCommitsMark ==
    ASSUME [Next]_vars, \A h \in Runs : ~CommitCheck(h)
    PROVE  mark' = mark /\ active' = active
<1>1. \A h \in Runs : RunStep(h) \/ CrashRun(h) => mark' = mark /\ active' = active
  BY DEF RunStep, StartCheck, MarkInactive, MarkActive, Enqueue, CrashRun
<1> QED
  BY <1>1 DEF Next, vars, Tick, Register, Delete, SetPaused, Authenticate,
              CommitMetric, CrashRequest

\* Only the commit, the enqueueing and a crash of an execution touch notices.
LEMMA OnlyTheseTell ==
    ASSUME TypeOK, [Next]_vars,
           \A h \in Runs : ~CommitCheck(h) /\ ~Enqueue(h) /\ ~CrashRun(h)
    PROVE  /\ active' = active /\ told' = told /\ (overlapped => overlapped')
           /\ \A g \in Runs : /\ run'[g].pc = "notify" <=> run[g].pc = "notify"
                              /\ run[g].pc = "notify" => run'[g] = run[g]
<1>a. run \in [Runs -> [pc : {"idle", "started", "downed", "upped", "notify"},
                        thr : -Timeout .. MaxTime,
                        down : SUBSET Servers, up : SUBSET Servers]]
  BY HeartbeatTypes
<1>1. ASSUME NEW h \in Runs, RunStep(h) \/ CrashRun(h)
      PROVE  /\ active' = active /\ told' = told /\ (overlapped => overlapped')
             /\ \A g \in Runs : /\ run'[g].pc = "notify" <=> run[g].pc = "notify"
                                /\ run[g].pc = "notify" => run'[g] = run[g]
  <2>1. CASE StartCheck(h)
    BY <2>1, <1>a DEF StartCheck
  <2>2. CASE MarkInactive(h)
    BY <2>2, <1>a DEF MarkInactive
  <2>3. CASE MarkActive(h)
    BY <2>3, <1>a DEF MarkActive
  <2> QED
    BY <1>1, <2>1, <2>2, <2>3 DEF RunStep
<1>2. CASE UNCHANGED <<active, told, run, overlapped>>
  BY <1>2
<1> QED
  BY <1>1, <1>2 DEF Next, vars, Tick, Register, Delete, SetPaused, Authenticate,
                    CommitMetric, CrashRequest

\* At its commit an execution's two sets are disjoint and say what is_active is.
LEMMA CommitSplits ==
    ASSUME IInv, NEW h \in Runs, CommitCheck(h)
    PROVE  /\ DownHolds(h) /\ UpHolds(h)
           /\ run[h].pc = "upped" /\ run[h].down \cap run[h].up = {}
           /\ run'[h].pc = "notify" /\ run'[h].down = run[h].down
           /\ run'[h].up = run[h].up /\ run'[h].thr = run[h].thr
           /\ \A g \in Runs \ {h} : run'[g] = run[g]
           /\ \A s \in run[h].up : active'[s]
           /\ \A s \in run[h].down : ~active'[s]
           /\ \A s \in Servers \ (run[h].down \cup run[h].up) : active'[s] = active[s]
<1>a. /\ run \in [Runs -> [pc : {"idle", "started", "downed", "upped", "notify"},
                           thr : -Timeout .. MaxTime,
                           down : SUBSET Servers, up : SUBSET Servers]]
      /\ run[h].down \subseteq Servers /\ run[h].up \subseteq Servers
  BY HeartbeatTypes DEF IInv
<1>1. run[h].pc = "upped" /\ DownHolds(h) /\ UpHolds(h)
  BY MarksByParts DEF CommitCheck, IInv, Uncommitted
<1>2. run[h].down \cap run[h].up = {}
  BY <1>1 DEF DownHolds, UpHolds
<1>3. /\ run'[h].pc = "notify" /\ run'[h].down = run[h].down
      /\ run'[h].up = run[h].up /\ run'[h].thr = run[h].thr
      /\ \A g \in Runs \ {h} : run'[g] = run[g]
  BY <1>a DEF CommitCheck
<1>4. /\ \A s \in run[h].up : active'[s]
      /\ \A s \in run[h].down : ~active'[s]
      /\ \A s \in Servers \ (run[h].down \cup run[h].up) : active'[s] = active[s]
  BY <1>a, <1>2 DEF CommitCheck
<1> QED
  BY <1>1, <1>2, <1>3, <1>4

\* The parts of HInv about one execution at a time and the marks it leaves.
LEMMA NextMarks ==
    ASSUME IInv, HInv, [Next]_vars
    PROVE  (Alone /\ MarksInPast /\ DownWasSilent /\ NewestThreshold)'
<1>a. /\ TypeOK /\ Alone /\ MarksInPast /\ DownWasSilent /\ NewestThreshold
      /\ ThresholdsInPast
  BY DEF IInv, HInv
<1>b. /\ now \in Int /\ now' \in Int /\ now' >= now /\ Timeout \in Int
      /\ \A s \in Servers : mark[s].thr \in Int /\ mark'[s].thr \in Int
      /\ \A s \in Servers : mark[s].seen \in Int \cup {None}
      /\ \A h \in Runs : run[h].thr \in Int
  <2>1. TypeOK'
    BY <1>a, NextTypeOK
  <2>2. now' \in Int /\ \A s \in Servers : mark'[s].thr \in Int
    BY <2>1, ConstantsAssumption DEF TypeOK, Times
  <2> QED
    BY <2>2, <1>a, ClockAndCrashes, HeartbeatTypes
<1>1. CASE \E h \in Runs : StartCheck(h)
  <2>1. PICK h \in Runs : StartCheck(h)
    BY <1>1
  <2>2. /\ now' = now /\ mark' = mark /\ active' = active
        /\ run'[h].thr = now - Timeout
        /\ \A g \in Runs \ {h} : run'[g] = run[g]
        /\ overlapped' = (overlapped \/ \E g \in Runs : run[g].pc # "idle")
    <3>1. run \in [Runs -> [pc : {"idle", "started", "downed", "upped", "notify"},
                            thr : -Timeout .. MaxTime,
                            down : SUBSET Servers, up : SUBSET Servers]]
      BY <1>a, HeartbeatTypes
    <3> QED
      BY <2>1, <3>1 DEF StartCheck
  <2>3. ~overlapped' => \A g \in Runs : run'[g].pc # "idle" => g = h
    BY <2>2
  <2>4. Alone'
    BY <2>3 DEF Alone
  <2>5. MarksInPast' /\ DownWasSilent'
    BY <1>a, <2>2 DEF MarksInPast, DownWasSilent
  <2>6. NewestThreshold'
    BY <1>a, <2>2, <2>3 DEF NewestThreshold, MarksInPast
  <2> QED
    BY <2>4, <2>5, <2>6
<1>2. CASE \E h \in Runs : CommitCheck(h)
  <2>1. PICK h \in Runs : CommitCheck(h)
    BY <1>2
  <2>2. /\ DownHolds(h) /\ UpHolds(h) /\ run[h].pc = "upped"
        /\ run'[h].pc = "notify" /\ run'[h].thr = run[h].thr
        /\ \A g \in Runs \ {h} : run'[g] = run[g]
        /\ \A s \in run[h].up : active'[s]
        /\ \A s \in Servers \ (run[h].down \cup run[h].up) : active'[s] = active[s]
    BY <2>1, CommitSplits
  <2>3. /\ now' = now /\ overlapped' = overlapped
        /\ \A s \in run[h].down \cap Servers :
             mark'[s].thr = run[h].thr /\ mark'[s].seen = seen[s]
        /\ \A s \in Servers \ run[h].down : mark'[s] = mark[s]
    BY <2>1 DEF CommitCheck
  <2>4. Alone'
    BY <2>2, <2>3, <1>a DEF Alone
  <2>5. MarksInPast'
    <3>1. run[h].thr <= now - Timeout
      BY <2>2, <1>a DEF ThresholdsInPast
    <3> QED
      BY <3>1, <2>3, <1>a DEF MarksInPast
  <2>6. DownWasSilent'
    BY <2>2, <2>3, <1>a DEF DownWasSilent, DownHolds, SeenBefore
  <2>7. NewestThreshold'
    <3>1. ~overlapped => \A g \in Runs : run'[g].pc # "idle" => g = h
      BY <2>2, <1>a DEF Alone
    <3> QED
      BY <3>1, <2>2, <2>3, <1>a, <1>b DEF NewestThreshold
  <2> QED
    BY <2>4, <2>5, <2>6, <2>7
<1>3. CASE \A h \in Runs : ~StartCheck(h) /\ ~CommitCheck(h)
  <2>1. /\ overlapped' = overlapped /\ mark' = mark /\ active' = active
        /\ \A g \in Runs : run'[g].pc # "idle" =>
               run[g].pc # "idle" /\ run'[g].thr = run[g].thr
    BY <1>3, <1>a, OnlyStartsBegin, OnlyCommitsMark
  <2>2. Alone'
    BY <2>1, <1>a DEF Alone
  <2>3. MarksInPast'
    BY <2>1, <1>a, <1>b DEF MarksInPast
  <2>4. DownWasSilent'
    BY <2>1, <1>a DEF DownWasSilent
  <2>5. NewestThreshold'
    BY <2>1, <1>a DEF NewestThreshold
  <2> QED
    BY <2>2, <2>3, <2>4, <2>5
<1> QED
  BY <1>1, <1>2, <1>3

\* What the owner was told keeps up with is_active, or a notice is to come.
LEMMA NextAnnounced ==
    ASSUME IInv, HInv, [Next]_vars
    PROVE  Announced'
<1> SUFFICES ASSUME crashes' = 0, ~overlapped'
             PROVE  NobodyMisled' /\ NoticesToComeAgree'
  BY DEF Announced
<1>a. /\ TypeOK /\ Alone /\ Announced
      /\ run \in [Runs -> [pc : {"idle", "started", "downed", "upped", "notify"},
                           thr : -Timeout .. MaxTime,
                           down : SUBSET Servers, up : SUBSET Servers]]
      /\ told \in [Servers -> {"nothing", "down", "up"}]
      /\ crashes \in Nat /\ crashes' >= crashes
  BY HeartbeatTypes, ClockAndCrashes DEF IInv, HInv
<1>b. crashes = 0
  BY <1>a
<1>1. ASSUME NEW h \in Runs, CommitCheck(h)
      PROVE  NobodyMisled' /\ NoticesToComeAgree'
  <2>1. /\ run[h].pc = "upped" /\ run'[h].pc = "notify"
        /\ run'[h].down = run[h].down /\ run'[h].up = run[h].up
        /\ \A g \in Runs \ {h} : run'[g] = run[g]
        /\ \A s \in run[h].up : active'[s]
        /\ \A s \in run[h].down : ~active'[s]
        /\ \A s \in Servers \ (run[h].down \cup run[h].up) : active'[s] = active[s]
    BY <1>1, CommitSplits
  <2>2. told' = told /\ overlapped' = overlapped
    BY <1>1 DEF CommitCheck
  <2>3. \A g \in Runs : run[g].pc # "notify"
    BY <2>1, <2>2, <1>a DEF Alone
  <2>4. \A s \in Servers : ~ToTell(s)
    BY <2>3 DEF ToTell
  <2>5. NobodyMisled
    BY <2>2, <1>a, <1>b DEF Announced
  <2>6. \A s \in Servers : ~ToTell(s)' => s \notin run[h].down \cup run[h].up
    BY <2>1 DEF ToTell
  <2>7. NobodyMisled'
    BY <2>1, <2>2, <2>4, <2>5, <2>6 DEF NobodyMisled
  <2>8. NoticesToComeAgree'
    BY <2>1, <2>3 DEF NoticesToComeAgree
  <2> QED
    BY <2>7, <2>8
<1>2. ASSUME NEW h \in Runs, Enqueue(h)
      PROVE  NobodyMisled' /\ NoticesToComeAgree'
  <2>1. /\ run[h].pc = "notify" /\ active' = active /\ overlapped' = overlapped
        /\ run[h].down \subseteq Servers /\ run[h].up \subseteq Servers
    BY <1>2, <1>a DEF Enqueue
  <2>2. NobodyMisled /\ NoticesToComeAgree
    BY <2>1, <1>a, <1>b DEF Announced
  <2>3. \A g \in Runs \ {h} : run'[g] = run[g] /\ run[g].pc = "idle"
    <3>1. \A g \in Runs \ {h} : run[g].pc = "idle"
      BY <2>1, <1>a DEF Alone
    <3> QED
      BY <3>1, <1>2, <1>a DEF Enqueue
  <2>4. CASE /\ run[h].down = {} /\ run[h].up = {}
             /\ run' = [run EXCEPT ![h] = IdleRun] /\ told' = told
    <3>1. run'[h].pc = "idle"
      BY <2>4, <1>a DEF IdleRun
    <3>2. \A s \in Servers : ~ToTell(s)
      BY <2>3, <2>4 DEF ToTell
    <3>3. NobodyMisled'
      BY <2>1, <2>2, <2>4, <3>2 DEF NobodyMisled
    <3>4. NoticesToComeAgree'
      BY <2>3, <3>1 DEF NoticesToComeAgree
    <3> QED
      BY <3>3, <3>4
  <2>5. ASSUME NEW s \in run[h].down, told' = [told EXCEPT ![s] = "down"],
               run' = [run EXCEPT ![h].down = @ \ {s}]
        PROVE  NobodyMisled' /\ NoticesToComeAgree'
    <3>1. /\ run'[h].pc = "notify" /\ run'[h].down = run[h].down \ {s}
          /\ run'[h].up = run[h].up
      BY <2>1, <2>5, <1>a
    <3>2. ~active[s] /\ told'[s] = "down" /\ s \in Servers
      BY <2>1, <2>2, <2>5, <1>a DEF NoticesToComeAgree
    <3>3. \A r \in Servers \ {s} : told'[r] = told[r]
      BY <2>5, <1>a
    <3>4. \A r \in Servers \ {s} : ToTell(r) => ToTell(r)'
      BY <2>1, <2>3, <3>1 DEF ToTell
    <3>5. NobodyMisled'
      BY <2>1, <2>2, <3>2, <3>3, <3>4 DEF NobodyMisled
    <3>6. NoticesToComeAgree'
      BY <2>1, <2>2, <2>3, <3>1 DEF NoticesToComeAgree
    <3> QED
      BY <3>5, <3>6
  <2>6. ASSUME NEW s \in run[h].up, told' = [told EXCEPT ![s] = "up"],
               run' = [run EXCEPT ![h].up = @ \ {s}]
        PROVE  NobodyMisled' /\ NoticesToComeAgree'
    <3>1. /\ run'[h].pc = "notify" /\ run'[h].down = run[h].down
          /\ run'[h].up = run[h].up \ {s}
      BY <2>1, <2>6, <1>a
    <3>2. active[s] /\ told'[s] = "up" /\ s \in Servers
      BY <2>1, <2>2, <2>6, <1>a DEF NoticesToComeAgree
    <3>3. \A r \in Servers \ {s} : told'[r] = told[r]
      BY <2>6, <1>a
    <3>4. \A r \in Servers \ {s} : ToTell(r) => ToTell(r)'
      BY <2>1, <2>3, <3>1 DEF ToTell
    <3>5. NobodyMisled'
      BY <2>1, <2>2, <3>2, <3>3, <3>4 DEF NobodyMisled
    <3>6. NoticesToComeAgree'
      BY <2>1, <2>2, <2>3, <3>1 DEF NoticesToComeAgree
    <3> QED
      BY <3>5, <3>6
  <2> QED
    BY <1>2, <2>4, <2>5, <2>6 DEF Enqueue
<1>3. ASSUME NEW h \in Runs, CrashRun(h) PROVE FALSE
  BY <1>3, <1>b DEF CrashRun
<1>4. CASE \A h \in Runs : ~CommitCheck(h) /\ ~Enqueue(h) /\ ~CrashRun(h)
  <2>1. /\ active' = active /\ told' = told /\ (overlapped => overlapped')
        /\ \A g \in Runs : /\ run'[g].pc = "notify" <=> run[g].pc = "notify"
                           /\ run[g].pc = "notify" => run'[g] = run[g]
    BY <1>4, <1>a, OnlyTheseTell
  <2>2. NobodyMisled /\ NoticesToComeAgree
    BY <2>1, <1>a, <1>b DEF Announced
  <2>3. \A s \in Servers : ToTell(s) => ToTell(s)'
    BY <2>1 DEF ToTell
  <2> QED
    BY <2>1, <2>2, <2>3 DEF NobodyMisled, NoticesToComeAgree
<1> QED
  BY <1>1, <1>2, <1>3, <1>4

\* HInv holds in every reachable state.
LEMMA HInvariant == Spec => []HInv
<1>1. Init => HInv
  <2> SUFFICES ASSUME Init PROVE HInv
    OBVIOUS
  <2>1. /\ \A h \in Runs : run[h].pc = "idle"
        /\ \A s \in Servers : active[s] /\ told[s] = "nothing" /\ mark[s].thr = -Timeout
        /\ now = 0
    BY DEF Init, IdleRun
  <2>2. Alone /\ NewestThreshold /\ DownWasSilent
    BY <2>1 DEF Alone, NewestThreshold, DownWasSilent
  <2>3. MarksInPast
    BY <2>1, ConstantsAssumption DEF MarksInPast
  <2>4. Announced
    BY <2>1 DEF Announced, NobodyMisled, NoticesToComeAgree
  <2> QED
    BY <2>2, <2>3, <2>4 DEF HInv
<1>2. IInv /\ HInv /\ [Next]_vars => HInv'
  BY NextMarks, NextAnnounced DEF HInv
<1> QED
  BY <1>1, <1>2, Invariant, PTL DEF Spec

\* heartbeat_tasks.py:45: without overlapping executions, a server is declared
\* back only after a metric newer than the one it was taken down for.
THEOREM RecoveryFollowsMetric == Spec => RecoveryNeedsMetric
<1>1. ASSUME IInv, HInv, [Next]_vars, NEW s \in Servers,
             ~overlapped, ~active[s], active'[s]
      PROVE  ~paused[s] /\ SeenSince(s, mark[s].seen + 1)
  <2>1. PICK h \in Runs : CommitCheck(h)
    BY <1>1, OnlyCommitsFlip
  <2>2. run[h].pc = "upped" /\ UpHolds(h) /\ s \in run[h].up
    BY <1>1, <2>1, CommitSplits
  <2>3. ~paused[s] /\ seen[s] # None /\ seen[s] >= run[h].thr
    BY <2>2 DEF UpHolds, SeenSince
  <2>4. mark[s].thr <= run[h].thr /\ mark[s].seen # None /\ mark[s].seen < mark[s].thr
    BY <2>2, <1>1 DEF HInv, NewestThreshold, DownWasSilent
  <2>5. /\ seen[s] \in Int /\ run[h].thr \in Int
        /\ mark[s].thr \in Int /\ mark[s].seen \in Int
    BY <2>3, <2>4, <1>1, HeartbeatTypes DEF IInv
  <2> QED
    BY <2>3, <2>4, <2>5 DEF SeenSince
<1>2. IInv /\ HInv /\ [Next]_vars =>
        [\A s \in Servers : ~overlapped /\ ~active[s] /\ active'[s] =>
            ~paused[s] /\ SeenSince(s, mark[s].seen + 1)]_vars
  BY <1>1
<1> QED
  BY <1>2, Invariant, HInvariant, PTL DEF Spec, RecoveryNeedsMetric

\* README.md:256: without a crash and without overlapping executions, whenever
\* no check is under way the last notification agrees with servers.is_active.
THEOREM NoticesAgree == Spec => []NoticesMatchStatus
<1>1. HInv => NoticesMatchStatus
  BY DEF HInv, Announced, NobodyMisled, ToTell, NoticesMatchStatus
<1> QED
  BY <1>1, HInvariant, PTL
=============================================================================
