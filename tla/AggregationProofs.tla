-------------------------- MODULE AggregationProofs --------------------------
(***************************************************************************)
(* Machine-checked proofs about Windows and Aggregation.                   *)
(*                                                                         *)
(* The inductive invariant IInv has one part for the requests and the rows *)
(* (World, Rows) and one for each execution (PassInv): what it carries at  *)
(* its statement, that this is stored and has all that its row had, and    *)
(* that nothing due is left behind.  Whoever is not an execution changes   *)
(* the stored samples only (WorldMoves), and an execution nothing else     *)
(* (StepMoves); each action is shown to be one or the other.               *)
(***************************************************************************)
EXTENDS Aggregation, FiniteSetTheorems, TLAPS
\* task_aggregate_fivemin aggregates the last complete window of five minutes.
THEOREM FiveminIsLastComplete ==
    ASSUME NEW t \in Int
    PROVE  FiveminStart(t) = LastComplete(t, 5 * Minute)
<1>1. \A i \in Int : i = 3600 * (i \div 3600) + (i % 3600) /\ i % 3600 \in 0 .. 3599
  OBVIOUS
<1>2. \A q \in Int, r \in 0 .. 3599 :
        (3600 * q + r) \div 300 = 12 * q + (r \div 60) \div 5
  OBVIOUS
<1>3. t \div 300 = 12 * (t \div 3600) + ((t % 3600) \div 60) \div 5
  BY <1>1, <1>2
<1> QED
  BY <1>1, <1>3 DEF FiveminStart, LastComplete, Hour, Minute

\* task_aggregate_hourly aggregates the last complete hour.
THEOREM HourlyIsLastComplete ==
    ASSUME NEW t \in Int
    PROVE  HourlyStart(t) = LastComplete(t, Hour)
BY DEF HourlyStart, LastComplete, Hour, Minute

\* task_aggregate_daily aggregates yesterday, the last complete day.
THEOREM DailyIsLastComplete ==
    ASSUME NEW t \in Int
    PROVE  DailyStart(t) = LastComplete(t, Day)
BY DEF DailyStart, LastComplete, Day, Hour, Minute

\* A window is over when it is aggregated, and only its successor has begun: no
\* instant passes between two windows, and none is in both.
THEOREM WindowIsOver ==
    ASSUME NEW t \in Int, NEW width \in Nat \ {0}
    PROVE  /\ LastComplete(t, width) + width <= t
           /\ t < LastComplete(t, width) + 2 * width
<1> DEFINE q == t \div width
<1>1. q \in Int /\ width * q <= t /\ t < width * q + width
  OBVIOUS
<1>2. LastComplete(t, width) = width * q - width
  BY <1>1 DEF LastComplete
<1> QED
  BY <1>1, <1>2

----------------------------------------------------------------------------
(* The samples of a window. *)

\* A window starts at a multiple of its width, and what is inside it has the same
\* quotient as its start.
LEMMA QuotientOfWindow ==
    ASSUME NEW width \in Nat \ {0}, NEW start \in Int, NEW k \in Int, start = k * width,
           NEW at \in Int, Inside(at, start, width)
    PROVE  at \div width = start \div width
<1> DEFINE q == at \div width
<1>1. q \in Int /\ width * q <= at /\ at < width * q + width
  OBVIOUS
<1>2. start \div width = k
  <2>1. \A m \in Nat \ {0}, j \in Int : (j * m) \div m = j
    OBVIOUS
  <2> QED
    BY <2>1
<1>3. k * width <= at /\ at < k * width + width
  BY DEF Inside
<1>4. \A i, j \in Int : i < j => i * width + width <= j * width
  <2> SUFFICES ASSUME NEW i \in Int, NEW j \in Int, i < j
               PROVE  i * width + width <= j * width
    OBVIOUS
  <2>1. \A d \in Nat \ {0}, m \in Nat : d * m >= m
    OBVIOUS
  <2>2. (j - i) * width >= width
    BY <2>1
  <2>3. (j - i) * width = j * width - i * width
    OBVIOUS
  <2> QED
    BY <2>2, <2>3
<1>5. width * q = q * width
  BY <1>1
<1>6. ~(q < k) /\ ~(k < q)
  BY <1>1, <1>3, <1>4, <1>5
<1> QED
  BY <1>1, <1>2, <1>6

\* The window an execution computes is one of those there are rows for, and is over.
LEMMA WindowHasRows ==
    ASSUME NEW t \in 0 .. MaxTime, t >= Width
    PROVE  /\ Window(t) \in Starts
           /\ Window(t) + Width <= t
<1> USE ConstantsAssumption
<1>a. Width \in Nat \ {0} /\ MaxTime \in Nat /\ t \in Int /\ t <= MaxTime
  OBVIOUS
<1> DEFINE q == t \div Width
           m == MaxTime \div Width
<1>1. q \in Int /\ Width * q <= t /\ t < Width * q + Width
  BY <1>a
<1>2. m \in Int /\ Width * m <= MaxTime /\ MaxTime < Width * m + Width
  BY <1>a
<1>3. \A w \in Nat \ {0}, i, j \in Int : i < j => w * i + w <= w * j
  <2> SUFFICES ASSUME NEW w \in Nat \ {0}, NEW i \in Int, NEW j \in Int, i < j
               PROVE  w * i + w <= w * j
    OBVIOUS
  <2>1. \A d \in Nat \ {0}, k \in Nat : k * d >= k
    OBVIOUS
  <2>2. w * (j - i) >= w
    BY <2>1
  <2>3. w * (j - i) = w * j - w * i
    OBVIOUS
  <2> QED
    BY <2>2, <2>3
<1>4. q <= m
  BY <1>1, <1>2, <1>3, <1>a
<1>5. q >= 1
  <2>1. q < 1 => Width * q + Width <= Width * 1
    BY <1>1, <1>3, <1>a
  <2> QED
    BY <2>1, <1>1, <1>a
<1>6. Window(t) = (q - 1) * Width
  BY DEF Window, LastComplete
<1>7. q - 1 \in 0 .. m - 1
  BY <1>1, <1>2, <1>4, <1>5
<1>8. Window(t) \in Starts
  BY <1>6, <1>7 DEF Starts
<1>9. Window(t) + Width <= t
  <2>1. (q - 1) * Width = Width * q - Width
    BY <1>1, <1>a
  <2> QED
    BY <2>1, <1>1, <1>6, <1>a
<1> QED
  BY <1>8, <1>9

\* The starts of windows are instants.
LEMMA StartsAreInstants == Starts \subseteq Nat
<1>1. \A k \in Nat, w \in Nat : k * w \in Nat
  OBVIOUS
<1>2. MaxTime \div Width - 1 \in Int
  BY ConstantsAssumption
<1> QED
  BY <1>1, <1>2, ConstantsAssumption DEF Starts

----------------------------------------------------------------------------
(* The shape of the state, and what every action does to it. *)

Statements == {"next", "write system", "containers", "docker", "write docker"}

PassRecord ==
    [pc : {"idle"} \cup Statements,
     start : Nat, todo : SUBSET Servers, server : SUBSET Servers,
     names : SUBSET Containers, series : SUBSET Containers, read : SUBSET Nat,
     dirty : SUBSET [series : Containers, read : SUBSET Nat], aborted : BOOLEAN,
     due : SUBSET Nat, served : SUBSET Servers]

PostRecord ==
    [n : Nat, server : Servers, series : {{"host"}} \cup SUBSET Containers,
     at : Nat, stored : BOOLEAN]

\* The type invariant.
TypeOK ==
    /\ now \in 0 .. MaxTime
    /\ servers \subseteq Servers
    /\ posts \subseteq PostRecord /\ IsFiniteSet(posts)
    /\ agg \in [Keys -> SUBSET Nat]
    /\ pass \in [Passes -> PassRecord]
    /\ starts \in 0 .. MaxStarts
    /\ overlapped \in BOOLEAN

\* The other executions stay as they are.
OthersRest(p) == \A q \in Passes \ {p} : pass'[q] = pass[q]

\* What an execution has to do, and has done, does not change.
SameTask(p) ==
    /\ pass'[p].start = pass[p].start /\ pass'[p].due = pass[p].due
    /\ pass'[p].aborted = pass[p].aborted
SameWork(p) ==
    SameTask(p) /\ pass'[p].todo = pass[p].todo /\ pass'[p].served = pass[p].served

\* The execution has left its server.
LeavesServer(p) ==
    /\ pass'[p].pc = "next" /\ pass'[p].server = {} /\ pass'[p].names = {}
    /\ pass'[p].series = {} /\ pass'[p].dirty = {}
    /\ pass'[p].start = pass[p].start /\ pass'[p].due = pass[p].due
    /\ pass'[p].todo = pass[p].todo

\* InWindow holds numbers of requests.
LEMMA InWindowNumbers ==
    ASSUME TypeOK, NEW s, NEW x, NEW t
    PROVE  InWindow(s, x, t) \in SUBSET Nat
  BY DEF InWindow, TypeOK, PostRecord

\* An execution is a record with these fields.
LEMMA PassFields ==
    ASSUME TypeOK, NEW p \in Passes
    PROVE  /\ pass[p] \in PassRecord
           /\ pass[p].pc \in {"idle"} \cup Statements
           /\ pass[p].start \in Nat /\ pass[p].todo \subseteq Servers
           /\ pass[p].server \subseteq Servers /\ pass[p].names \subseteq Containers
           /\ pass[p].series \subseteq Containers /\ pass[p].read \subseteq Nat
           /\ pass[p].dirty \subseteq [series : Containers, read : SUBSET Nat]
           /\ pass[p].due \subseteq Nat /\ pass[p].served \subseteq Servers
  BY DEF TypeOK, PassRecord

\* This(p) is the server of the loop.
LEMMA ThisServer ==
    ASSUME NEW p \in Passes, NEW s \in Servers, pass[p].server = {s}
    PROVE  This(p) = s
<1>1. This(p) \in Servers /\ pass[p].server = {This(p)}
  BY DEF This
<1> QED
  BY <1>1

LEMMA IdleIsRecord ==
    /\ Idle \in PassRecord /\ Idle.pc = "idle" /\ Idle.server = {}
    /\ Idle.series = {} /\ Idle.dirty = {} /\ Idle.served = {} /\ Idle.due = {}
  BY DEF Idle, PassRecord, Statements

LEMMA LeftIsRecord ==
    ASSUME TypeOK, NEW p \in Passes
    PROVE  /\ Left(p) \in PassRecord
           /\ [Left(p) EXCEPT !.aborted = TRUE] \in PassRecord
           /\ [Left(p) EXCEPT !.served = @ \cup pass[p].server] \in PassRecord
<1>1. pass[p] \in PassRecord
  BY DEF TypeOK
<1>2. Left(p) \in PassRecord /\ Left(p).served \subseteq Servers
  BY <1>1 DEF Left, PassRecord, Statements
<1>3. pass[p].server \subseteq Servers
  BY PassFields
<1> QED
  BY <1>2, <1>3 DEF PassRecord

\* A statement that fails ends the work on the server.
LEMMA FailEffect ==
    ASSUME TypeOK, NEW p \in Passes, Fail(p)
    PROVE  /\ pass' \in [Passes -> PassRecord] /\ OthersRest(p) /\ LeavesServer(p)
           /\ pass'[p].served = pass[p].served
<1>1. pass[p] \in PassRecord /\ pass \in [Passes -> PassRecord]
  BY DEF TypeOK
<1>2. pass' = [pass EXCEPT ![p] = [Left(p) EXCEPT !.aborted = TRUE]]
  BY DEF Fail
<1>3. pass' \in [Passes -> PassRecord] /\ OthersRest(p)
  BY <1>1, <1>2, LeftIsRecord DEF OthersRest
<1>4. LeavesServer(p) /\ pass'[p].served = pass[p].served
  BY <1>1, <1>2 DEF LeavesServer, Left, PassRecord
<1> QED
  BY <1>3, <1>4

\* A server that has been gone through is recorded as served.
LEMMA ServedEffect ==
    ASSUME TypeOK, NEW p \in Passes, pass' = Served(p)
    PROVE  /\ pass' \in [Passes -> PassRecord] /\ OthersRest(p) /\ LeavesServer(p)
           /\ pass'[p].served = pass[p].served \cup pass[p].server
<1>1. pass[p] \in PassRecord /\ pass \in [Passes -> PassRecord]
  BY DEF TypeOK
<1>2. pass' = [pass EXCEPT ![p] = [Left(p) EXCEPT !.served = @ \cup pass[p].server]]
  BY DEF Served
<1>3. pass' \in [Passes -> PassRecord] /\ OthersRest(p)
  BY <1>1, <1>2, LeftIsRecord DEF OthersRest
<1>4. LeavesServer(p) /\ pass'[p].served = pass[p].served \cup pass[p].server
  BY <1>1, <1>2 DEF LeavesServer, Left, PassRecord
<1> QED
  BY <1>3, <1>4

\* SELECT servers.id, and the samples stored then are what is due.
LEMMA StartEffect ==
    ASSUME TypeOK, NEW p \in Passes, Start(p)
    PROVE  /\ pass' \in [Passes -> PassRecord] /\ OthersRest(p)
           /\ ~Busy(p) /\ now >= Width /\ starts' \in 0 .. MaxStarts
           /\ UNCHANGED <<now, servers, posts, agg>>
           /\ pass'[p].pc = "next" /\ pass'[p].start = Window(now)
           /\ pass'[p].todo = servers
           /\ pass'[p].due = UNION {InWindow(s, x, Window(now)) : s \in servers, x \in Series}
           /\ pass'[p].server = {} /\ pass'[p].series = {} /\ pass'[p].dirty = {}
           /\ pass'[p].served = {} /\ pass'[p].names = {}
           /\ overlapped' = (overlapped \/ \E q \in Passes :
                                Busy(q) /\ pass[q].start = Window(now))
<1> DEFINE due == UNION {InWindow(s, x, Window(now)) : s \in servers, x \in Series}
           new == [Idle EXCEPT !.pc = "next", !.start = Window(now), !.todo = servers,
                               !.due = due]
<1>1. /\ pass \in [Passes -> PassRecord] /\ servers \subseteq Servers
      /\ starts \in 0 .. MaxStarts /\ now \in 0 .. MaxTime
  BY DEF TypeOK
<1>2. /\ pass' = [pass EXCEPT ![p] = new] /\ ~Busy(p) /\ now >= Width
      /\ UNCHANGED <<now, servers, posts, agg>>
      /\ starts < MaxStarts /\ starts' = starts + 1
      /\ overlapped' = (overlapped \/ \E q \in Passes :
                                Busy(q) /\ pass[q].start = Window(now))
  BY DEF Start
<1>3. due \in SUBSET Nat
  BY InWindowNumbers
<1>4. Window(now) \in Nat
  BY <1>1, <1>2, WindowHasRows, StartsAreInstants
<1>5. /\ new \in PassRecord
      /\ new.pc = "next" /\ new.start = Window(now) /\ new.todo = servers
      /\ new.due = due /\ new.server = {} /\ new.series = {} /\ new.dirty = {}
      /\ new.served = {} /\ new.names = {}
  <2> HIDE DEF due
  <2> QED
    BY <1>1, <1>3, <1>4, IdleIsRecord DEF Idle, PassRecord, Statements
<1>6. /\ pass' \in [Passes -> PassRecord] /\ OthersRest(p) /\ pass'[p] = new
  <2> HIDE DEF new
  <2> QED
    BY <1>1, <1>2, <1>5 DEF OthersRest
<1>7. starts' \in 0 .. MaxStarts
  BY <1>1, <1>2, ConstantsAssumption
<1> QED
  <2> HIDE DEF new
  <2> QED
    BY <1>2, <1>5, <1>6, <1>7

\* An execution takes the next server and reads the samples of its host.
LEMMA NextServerEffect ==
    ASSUME TypeOK, NEW p \in Passes, NextServer(p)
    PROVE  /\ pass' \in [Passes -> PassRecord] /\ OthersRest(p)
           /\ UNCHANGED agg /\ Unchanged /\ pass[p].pc = "next"
           /\ SameTask(p) /\ pass'[p].served = pass[p].served
           /\ pass'[p].names = pass[p].names /\ pass'[p].series = pass[p].series
           /\ pass'[p].dirty = pass[p].dirty
           /\ \E s \in pass[p].todo :
                /\ s \in Servers /\ pass'[p].todo = pass[p].todo \ {s}
                /\ \/ pass'[p].server = pass[p].server /\ pass'[p].pc = "next"
                   \/ /\ pass'[p].server = {s} /\ pass'[p].pc = "containers"
                      /\ InWindow(s, "host", pass[p].start) = {}
                   \/ /\ pass'[p].server = {s} /\ pass'[p].pc = "write system"
                      /\ pass'[p].read = InWindow(s, "host", pass[p].start)
<1>1. pass \in [Passes -> PassRecord] /\ pass[p] \in PassRecord /\ pass[p].pc = "next"
  BY DEF TypeOK, NextServer, At
<1>2. UNCHANGED agg /\ Unchanged
  BY DEF NextServer
<1>3. PICK s \in pass[p].todo :
         pass' = IF pass[p].aborted THEN [pass EXCEPT ![p].todo = @ \ {s}]
                 ELSE [pass EXCEPT
                    ![p].todo = @ \ {s}, ![p].server = {s},
                    ![p].read = InWindow(s, "host", pass[p].start),
                    ![p].pc = IF InWindow(s, "host", pass[p].start) = {}
                              THEN "containers" ELSE "write system"]
  BY DEF NextServer
<1>4. s \in Servers /\ InWindow(s, "host", pass[p].start) \in SUBSET Nat
  BY <1>1, InWindowNumbers DEF PassRecord
<1>5. CASE pass[p].aborted
  BY <1>1, <1>2, <1>3, <1>4, <1>5 DEF PassRecord, OthersRest, SameTask
<1>6. CASE ~pass[p].aborted
  <2> DEFINE found == InWindow(s, "host", pass[p].start)
             next == IF found = {} THEN "containers" ELSE "write system"
             new == [pass[p] EXCEPT !.todo = @ \ {s}, !.server = {s}, !.read = found,
                                    !.pc = next]
  <2>1. pass' = [pass EXCEPT ![p] = new]
    BY <1>1, <1>3, <1>6
  <2>2. next \in Statements /\ (found = {} => next = "containers")
                            /\ (found # {} => next = "write system")
    BY DEF Statements
  <2>3. found \in SUBSET Nat
    BY <1>4
  <2>4. /\ new \in PassRecord /\ new.todo = pass[p].todo \ {s} /\ new.server = {s}
        /\ new.read = found /\ new.pc = next /\ new.served = pass[p].served
        /\ new.names = pass[p].names /\ new.series = pass[p].series
        /\ new.dirty = pass[p].dirty /\ new.start = pass[p].start
        /\ new.due = pass[p].due /\ new.aborted = pass[p].aborted
    <3> HIDE DEF found, next
    <3> QED
      BY <1>1, <1>4, <2>2, <2>3 DEF PassRecord
  <2>5. pass' \in [Passes -> PassRecord] /\ OthersRest(p) /\ pass'[p] = new
    <3> HIDE DEF new
    <3> QED
      BY <1>1, <2>1, <2>4 DEF OthersRest
  <2> QED
    <3> HIDE DEF new, next
    <3> QED
      BY <1>1, <1>2, <1>4, <2>2, <2>4, <2>5 DEF SameTask
<1> QED
  BY <1>5, <1>6

\* The list is empty.
LEMMA EndEffect ==
    ASSUME TypeOK, NEW p \in Passes, End(p)
    PROVE  /\ pass' \in [Passes -> PassRecord] /\ OthersRest(p) /\ pass'[p] = Idle
           /\ UNCHANGED agg /\ Unchanged /\ Busy(p)
  BY IdleIsRecord DEF TypeOK, End, OthersRest, At, Busy

\* The worker dies.
LEMMA CrashEffect ==
    ASSUME TypeOK, NEW p \in Passes, Crash(p)
    PROVE  /\ pass' \in [Passes -> PassRecord] /\ OthersRest(p) /\ pass'[p] = Idle
           /\ UNCHANGED agg /\ Unchanged /\ Busy(p)
  BY IdleIsRecord DEF TypeOK, Crash, OthersRest, Unchanged

\* The host's row is replaced and committed at once.
LEMMA WriteSystemEffect ==
    ASSUME TypeOK, NEW p \in Passes, WriteSystem(p), This(p) \in servers
    PROVE  /\ pass' \in [Passes -> PassRecord] /\ OthersRest(p) /\ Unchanged
           /\ pass[p].pc = "write system" /\ pass'[p].pc = "containers"
           /\ SameWork(p) /\ pass'[p].server = pass[p].server
           /\ pass'[p].series = pass[p].series /\ pass'[p].dirty = pass[p].dirty
           /\ pass'[p].names = pass[p].names
           /\ agg' = [agg EXCEPT ![<<This(p), "host", pass[p].start>>] = pass[p].read]
<1>1. /\ pass \in [Passes -> PassRecord] /\ pass[p] \in PassRecord /\ Unchanged
      /\ pass[p].pc = "write system"
  BY DEF TypeOK, WriteSystem, At
<1>2. /\ agg' = [agg EXCEPT ![<<This(p), "host", pass[p].start>>] = pass[p].read]
      /\ pass' = [pass EXCEPT ![p].pc = "containers", ![p].read = {}]
  BY DEF WriteSystem, Upsert
<1> QED
  BY <1>1, <1>2 DEF PassRecord, Statements, OthersRest, SameWork, SameTask

\* Without the server the statement fails.
LEMMA WriteSystemFails ==
    ASSUME NEW p \in Passes, WriteSystem(p), This(p) \notin servers
    PROVE  Fail(p) /\ UNCHANGED agg /\ Unchanged /\ pass[p].pc = "write system"
  BY DEF WriteSystem, At

\* The containers with samples, if there are any.
LEMMA ListContainersEffect ==
    ASSUME TypeOK, NEW p \in Passes, ListContainers(p)
    PROVE  /\ pass[p].pc = "containers" /\ UNCHANGED agg /\ Unchanged
           /\ \/ /\ pass' = Served(p)
                 /\ \A x \in Containers : InWindow(This(p), x, pass[p].start) = {}
              \/ /\ pass' \in [Passes -> PassRecord] /\ OthersRest(p)
                 /\ pass'[p].pc = "docker" /\ SameWork(p)
                 /\ pass'[p].server = pass[p].server
                 /\ pass'[p].series = pass[p].series /\ pass'[p].dirty = pass[p].dirty
                 /\ pass'[p].names =
                      {x \in Containers : InWindow(This(p), x, pass[p].start) # {}}
<1> DEFINE found == {x \in Containers : InWindow(This(p), x, pass[p].start) # {}}
<1>1. /\ pass[p].pc = "containers" /\ UNCHANGED agg /\ Unchanged
      /\ pass' = IF found = {} THEN Served(p)
                 ELSE [pass EXCEPT ![p].pc = "docker", ![p].names = found]
  BY DEF ListContainers, At
<1>2. found \subseteq Containers
  OBVIOUS
<1>3. CASE found = {}
  BY <1>1, <1>3
<1>4. CASE found # {}
  <2>1. pass' = [pass EXCEPT ![p].pc = "docker", ![p].names = found]
    BY <1>1, <1>4
  <2>2. /\ pass' \in [Passes -> PassRecord] /\ OthersRest(p)
        /\ pass'[p].pc = "docker" /\ SameWork(p)
        /\ pass'[p].server = pass[p].server
        /\ pass'[p].series = pass[p].series /\ pass'[p].dirty = pass[p].dirty
        /\ pass'[p].names = found
    <3> HIDE DEF found
    <3> QED
      BY <2>1, <1>2 DEF TypeOK, PassRecord, Statements, OthersRest, SameWork, SameTask
  <2> QED
    BY <1>1, <2>2
<1> QED
  BY <1>3, <1>4

\* The samples of one more container.
LEMMA ReadDockerEffect ==
    ASSUME TypeOK, NEW p \in Passes, ReadDocker(p)
    PROVE  /\ pass' \in [Passes -> PassRecord] /\ OthersRest(p)
           /\ UNCHANGED agg /\ Unchanged
           /\ pass[p].pc = "docker" /\ SameWork(p)
           /\ pass'[p].server = pass[p].server /\ pass'[p].dirty = pass[p].dirty
           /\ \E x \in pass[p].names :
                /\ x \in Containers /\ pass'[p].names = pass[p].names \ {x}
                /\ pass'[p].read = InWindow(This(p), x, pass[p].start)
                /\ \/ /\ pass'[p].pc = "docker" /\ pass'[p].series = {}
                      /\ InWindow(This(p), x, pass[p].start) = {}
                   \/ pass'[p].pc = "write docker" /\ pass'[p].series = {x}
<1>1. /\ pass \in [Passes -> PassRecord] /\ pass[p] \in PassRecord
      /\ pass[p].pc = "docker" /\ UNCHANGED agg /\ Unchanged
  BY DEF TypeOK, ReadDocker, At
<1>2. PICK x \in pass[p].names :
         pass' = [pass EXCEPT
            ![p].names = @ \ {x}, ![p].read = InWindow(This(p), x, pass[p].start),
            ![p].series = IF InWindow(This(p), x, pass[p].start) = {} THEN {} ELSE {x},
            ![p].pc = IF InWindow(This(p), x, pass[p].start) = {}
                      THEN "docker" ELSE "write docker"]
  BY DEF ReadDocker
<1> DEFINE found == InWindow(This(p), x, pass[p].start)
           series == IF found = {} THEN {} ELSE {x}
           pc == IF found = {} THEN "docker" ELSE "write docker"
           new == [pass[p] EXCEPT !.names = @ \ {x}, !.read = found, !.series = series,
                                  !.pc = pc]
<1>3. x \in Containers /\ found \in SUBSET Nat
  BY <1>1, InWindowNumbers DEF PassRecord
<1>4. pc \in Statements /\ series \subseteq Containers
  BY <1>3 DEF Statements
<1>5. pass' = [pass EXCEPT ![p] = new]
  BY <1>1, <1>2
<1>6. /\ new \in PassRecord /\ new.names = pass[p].names \ {x} /\ new.read = found
      /\ new.series = series /\ new.pc = pc /\ new.start = pass[p].start
      /\ new.due = pass[p].due /\ new.aborted = pass[p].aborted
      /\ new.todo = pass[p].todo /\ new.served = pass[p].served
      /\ new.server = pass[p].server /\ new.dirty = pass[p].dirty
  <2> HIDE DEF found, series, pc
  <2> QED
    BY <1>1, <1>3, <1>4 DEF PassRecord
<1>7. pass' \in [Passes -> PassRecord] /\ OthersRest(p) /\ pass'[p] = new
  <2> HIDE DEF new
  <2> QED
    BY <1>1, <1>5, <1>6 DEF OthersRest
<1>8. (found = {} /\ pc = "docker" /\ series = {}) \/ (pc = "write docker" /\ series = {x})
  OBVIOUS
<1> QED
  <2> HIDE DEF new, pc, series
  <2> QED
    BY <1>1, <1>3, <1>6, <1>7, <1>8 DEF SameWork, SameTask

\* A container's row is written; it is not committed yet.
LEMMA WriteDockerEffect ==
    ASSUME TypeOK, NEW p \in Passes, WriteDocker(p), This(p) \in servers
    PROVE  /\ pass' \in [Passes -> PassRecord] /\ OthersRest(p)
           /\ UNCHANGED agg /\ Unchanged
           /\ pass[p].pc = "write docker" /\ pass'[p].pc = "docker" /\ SameWork(p)
           /\ pass'[p].server = pass[p].server /\ pass'[p].names = pass[p].names
           /\ pass'[p].series = {}
           /\ pass'[p].dirty = pass[p].dirty \cup
                {[series |-> x, read |-> pass[p].read] : x \in pass[p].series}
<1> DEFINE rows == {[series |-> x, read |-> pass[p].read] : x \in pass[p].series}
<1>1. /\ pass \in [Passes -> PassRecord] /\ pass[p] \in PassRecord
      /\ pass[p].pc = "write docker" /\ UNCHANGED agg /\ Unchanged
  BY DEF TypeOK, WriteDocker, At
<1>2. pass' = [pass EXCEPT ![p].dirty = @ \cup rows, ![p].pc = "docker",
                          ![p].series = {}, ![p].read = {}]
  BY DEF WriteDocker
<1>3. rows \subseteq [series : Containers, read : SUBSET Nat]
  <2>1. pass[p].series \subseteq Containers /\ pass[p].read \in SUBSET Nat
    BY PassFields
  <2>2. \A x \in pass[p].series :
          [series |-> x, read |-> pass[p].read] \in [series : Containers, read : SUBSET Nat]
    BY <2>1
  <2> QED
    BY <2>2
<1>4. /\ pass' \in [Passes -> PassRecord] /\ OthersRest(p) /\ pass'[p].pc = "docker"
      /\ SameWork(p) /\ pass'[p].server = pass[p].server
      /\ pass'[p].names = pass[p].names /\ pass'[p].series = {}
      /\ pass'[p].dirty = pass[p].dirty \cup rows
  <2> HIDE DEF rows
  <2> QED
    BY <1>1, <1>2, <1>3 DEF PassRecord, Statements, OthersRest, SameWork, SameTask
<1> QED
  BY <1>1, <1>4

\* Without the server it fails, and so does one of two that wait for each other.
LEMMA DockerFails ==
    ASSUME NEW p \in Passes,
           BreakDeadlock(p) \/ (WriteDocker(p) /\ This(p) \notin servers)
    PROVE  Fail(p) /\ UNCHANGED agg /\ Unchanged /\ pass[p].pc = "write docker"
  BY DEF BreakDeadlock, WriteDocker, WaitsFor, At

\* The commit publishes the rows of all containers.
LEMMA CommitDockerEffect ==
    ASSUME TypeOK, NEW p \in Passes, CommitDocker(p)
    PROVE  /\ Unchanged /\ pass[p].pc = "docker" /\ pass[p].names = {}
           /\ pass' = Served(p)
           /\ agg' \in [Keys -> SUBSET Nat]
           /\ \A k \in Keys :
                \/ /\ pass[p].server = {k[1]} /\ k[3] = pass[p].start
                   /\ \E row \in pass[p].dirty : row.series = k[2] /\ agg'[k] = row.read
                \/ /\ agg'[k] = agg[k]
                   /\ ~ (/\ pass[p].server = {k[1]} /\ k[3] = pass[p].start
                         /\ \E row \in pass[p].dirty : row.series = k[2])
<1>1. /\ Unchanged /\ pass[p].pc = "docker" /\ pass[p].names = {} /\ pass' = Served(p)
      /\ agg' = [k \in Keys |->
                 IF {k[1]} = pass[p].server /\ k[3] = pass[p].start
                    /\ \E row \in pass[p].dirty : row.series = k[2]
                 THEN (CHOOSE row \in pass[p].dirty : row.series = k[2]).read
                 ELSE agg[k]]
  BY DEF CommitDocker, At, Upsert
<1>2. ASSUME NEW k \in Keys
      PROVE  \/ /\ pass[p].server = {k[1]} /\ k[3] = pass[p].start
                /\ \E row \in pass[p].dirty : row.series = k[2] /\ agg'[k] = row.read
             \/ /\ agg'[k] = agg[k]
                /\ ~ (/\ pass[p].server = {k[1]} /\ k[3] = pass[p].start
                      /\ \E row \in pass[p].dirty : row.series = k[2])
  <2>1. CASE /\ {k[1]} = pass[p].server /\ k[3] = pass[p].start
             /\ \E row \in pass[p].dirty : row.series = k[2]
    <3>1. PICK row \in pass[p].dirty : row.series = k[2]
      BY <2>1
    <3>2. /\ (CHOOSE r \in pass[p].dirty : r.series = k[2]) \in pass[p].dirty
          /\ (CHOOSE r \in pass[p].dirty : r.series = k[2]).series = k[2]
      BY <3>1
    <3>3. agg'[k] = (CHOOSE r \in pass[p].dirty : r.series = k[2]).read
      BY <1>1, <2>1
    <3> QED
      BY <2>1, <3>2, <3>3
  <2>2. CASE ~ (/\ {k[1]} = pass[p].server /\ k[3] = pass[p].start
                /\ \E row \in pass[p].dirty : row.series = k[2])
    BY <1>1, <2>2
  <2> QED
    BY <2>1, <2>2
<1>3. agg' \in [Keys -> SUBSET Nat]
  <2>1. \A k \in Keys : agg'[k] \in SUBSET Nat
    BY <1>2, PassFields DEF TypeOK
  <2> QED
    BY <1>1, <2>1
<1> QED
  BY <1>1, <1>2, <1>3

----------------------------------------------------------------------------
(* The inductive invariant. *)

\* Requests are numbered in turn.
Numbered ==
    /\ \A r \in posts : r.n <= Cardinality(posts)
    /\ \A q, r \in posts : q.n = r.n => q = r

\* Samples go with their server.
StoredHasServer == \A r \in posts : r.stored => r.server \in servers

\* The rows count stored samples of their server, series and window, which is over.
RowsStored == \A k \in Keys : agg[k] \subseteq InWindow(k[1], k[2], k[3])
RowsOver == \A k \in Keys : agg[k] # {} => k[3] + Width <= now

\* Without an overlap a window belongs to one execution.
Alone ==
    ~overlapped => \A p, q \in Passes :
        Busy(p) /\ Busy(q) /\ pass[p].start = pass[q].start => p = q

\* What an execution carries at each of its steps.
Shape(p) ==
    /\ ~Busy(p) => pass[p] = Idle
    /\ Busy(p) => pass[p].start \in Starts /\ pass[p].start + Width <= now
    /\ pass[p].pc \notin {"idle", "next"} => \E s \in Servers : pass[p].server = {s}
    /\ pass[p].pc = "next" => pass[p].server = {}
    /\ pass[p].pc # "write docker" => pass[p].series = {}
    /\ pass[p].dirty # {} => /\ pass[p].pc \in {"docker", "write docker"}
                             /\ pass[p].server \subseteq servers

\* The set of samples that the execution will write, or has written and not
\* committed, as the row of a series of its present server.
InHand(p, x, set) ==
    \/ At(p, "write system") /\ x = "host" /\ set = pass[p].read
    \/ x \in pass[p].series /\ set = pass[p].read
    \/ \E row \in pass[p].dirty : x = row.series /\ set = row.read

\* It consists of stored samples, unless the server has been deleted.
ReadsStored(p) ==
    \A s \in servers, x \in Series, set \in SUBSET Nat :
        pass[p].server = {s} /\ InHand(p, x, set) =>
            set \subseteq InWindow(s, x, pass[p].start)

\* Without an overlap it has every sample of the row it will replace.
NothingForgotten(p) ==
    ~overlapped => \A s \in servers, x \in Series, set \in SUBSET Nat :
        pass[p].server = {s} /\ InHand(p, x, set) =>
            agg[<<s, x, pass[p].start>>] \subseteq set

\* What is due lies in the window and stays stored unless its server goes.
DueStays(p) ==
    /\ \A n \in pass[p].due : n <= Cardinality(posts)
    /\ \A r \in posts : r.n \in pass[p].due =>
           Inside(r.at, pass[p].start, Width) /\ (r.stored \/ r.server \notin servers)

\* The samples due that are still stored.
Owed(p, s, x) ==
    {r.n : r \in {q \in posts : /\ q.stored /\ q.server = s /\ x \in q.series
                                /\ q.n \in pass[p].due}}

\* What is due of the present server is in hand or in its row.
Gathered(p) ==
    \A s \in Servers : pass[p].server = {s} =>
        /\ \A x \in Series, set \in SUBSET Nat :
               InHand(p, x, set) => Owed(p, s, x) \subseteq set
        /\ ~overlapped /\ ~At(p, "write system") =>
               Owed(p, s, "host") \subseteq agg[<<s, "host", pass[p].start>>]
        /\ pass[p].pc \in {"docker", "write docker"} =>
               \A x \in Containers \ pass[p].names :
                   Owed(p, s, x) # {} => \E set \in SUBSET Nat : InHand(p, x, set)

\* What is due of the servers gone through is in their rows.
ServedCounted(p) ==
    ~overlapped => \A s \in pass[p].served, x \in Series :
        Owed(p, s, x) \subseteq agg[<<s, x, pass[p].start>>]

World == TypeOK /\ Numbered /\ StoredHasServer
Rows == RowsStored /\ RowsOver
PassInv(p) ==
    /\ Shape(p) /\ DueStays(p) /\ ReadsStored(p) /\ NothingForgotten(p)
    /\ Gathered(p) /\ ServedCounted(p)

IInv == World /\ Rows /\ Alone /\ \A p \in Passes : PassInv(p)

----------------------------------------------------------------------------
(* Requests and the owner. *)

\* A number is in a window if a stored request of that number is.
LEMMA InWindowMember ==
    ASSUME NEW s, NEW x, NEW t, NEW n
    PROVE  n \in InWindow(s, x, t) <=>
              \E r \in posts : /\ r.n = n /\ r.stored /\ r.server = s /\ x \in r.series
                               /\ Inside(r.at, t, Width)
  BY DEF InWindow

LEMMA OwedMember ==
    ASSUME NEW p, NEW s, NEW x, NEW n
    PROVE  n \in Owed(p, s, x) <=>
              \E r \in posts : /\ r.n = n /\ r.stored /\ r.server = s /\ x \in r.series
                               /\ n \in pass[p].due
  BY DEF Owed

\* The same of the next state.
LEMMA InWindowMemberNext ==
    ASSUME NEW s, NEW x, NEW t, NEW n
    PROVE  n \in InWindow(s, x, t)' <=>
              \E r \in posts' : /\ r.n = n /\ r.stored /\ r.server = s /\ x \in r.series
                                /\ Inside(r.at, t, Width)
  BY DEF InWindow

LEMMA OwedMemberNext ==
    ASSUME NEW p, NEW s, NEW x, NEW n
    PROVE  n \in Owed(p, s, x)' <=>
              \E r \in posts' : /\ r.n = n /\ r.stored /\ r.server = s /\ x \in r.series
                                /\ n \in pass'[p].due
  BY DEF Owed

\* A new request has a number of its own and is not stored yet.
LEMMA PostEffect ==
    ASSUME World, NEW s \in Servers, Post(s)
    PROVE  /\ UNCHANGED <<now, servers, agg, pass, starts, overlapped>>
           /\ World' /\ Cardinality(posts') = Cardinality(posts) + 1
           /\ \E r \in posts' : /\ posts' = posts \cup {r} /\ ~r.stored
                                /\ r.n = Cardinality(posts) + 1
<1>1. /\ IsFiniteSet(posts) /\ posts \subseteq PostRecord /\ now \in Nat
      /\ UNCHANGED <<now, servers, agg, pass, starts, overlapped>>
  BY ConstantsAssumption DEF World, TypeOK, Post
<1>2. Cardinality(posts) \in Nat
  BY <1>1, FS_CardinalityType
<1>3. PICK what \in {{"host"}} \cup (SUBSET Containers \ {{}}) :
        posts' = posts \cup {[n |-> Cardinality(posts) + 1, server |-> s,
                              series |-> what, at |-> now, stored |-> FALSE]}
  BY DEF Post
<1> DEFINE r == [n |-> Cardinality(posts) + 1, server |-> s, series |-> what,
                 at |-> now, stored |-> FALSE]
<1>4. r \in PostRecord /\ ~r.stored /\ r.n = Cardinality(posts) + 1
  BY <1>1, <1>2 DEF PostRecord
<1>5. posts' = posts \cup {r}
  BY <1>3
<1> HIDE DEF r
<1>6. \A q \in posts : q.n <= Cardinality(posts) /\ q.n \in Nat
  BY <1>1 DEF World, Numbered, PostRecord
<1>7. r \notin posts
  BY <1>2, <1>4, <1>6
<1>8. IsFiniteSet(posts') /\ Cardinality(posts') = Cardinality(posts) + 1
  BY <1>1, <1>5, <1>7, FS_AddElement
<1>9. TypeOK'
  BY <1>1, <1>4, <1>5, <1>8 DEF World, TypeOK
<1>10. Numbered'
  <2>1. \A q \in posts' : q.n <= Cardinality(posts')
    BY <1>2, <1>4, <1>5, <1>6, <1>8
  <2>2. \A q, w \in posts' : q.n = w.n => q = w
    <3>1. \A q \in posts : q.n # r.n
      BY <1>2, <1>4, <1>6
    <3> QED
      BY <3>1, <1>5 DEF World, Numbered
  <2> QED
    BY <2>1, <2>2 DEF Numbered
<1>11. StoredHasServer'
  BY <1>1, <1>4, <1>5 DEF World, StoredHasServer
<1> QED
  BY <1>1, <1>4, <1>5, <1>8, <1>9, <1>10, <1>11 DEF World

\* A commit makes the samples of a request of an existing server visible.
LEMMA CommitPostEffect ==
    ASSUME World, NEW r \in posts, CommitPost(r)
    PROVE  /\ UNCHANGED <<now, servers, agg, pass, starts, overlapped>>
           /\ World' /\ Cardinality(posts') = Cardinality(posts)
           /\ ~r.stored /\ r.server \in servers
           /\ \E w \in posts' : /\ posts' = (posts \ {r}) \cup {w}
                                /\ w.n = r.n /\ w.server = r.server /\ w.at = r.at
                                /\ w.series = r.series /\ w.stored
<1> DEFINE w == [r EXCEPT !.stored = TRUE]
<1>1. /\ IsFiniteSet(posts) /\ posts \subseteq PostRecord
      /\ UNCHANGED <<now, servers, agg, pass, starts, overlapped>>
      /\ posts' = (posts \ {r}) \cup {w} /\ ~r.stored /\ r.server \in servers
  BY DEF World, TypeOK, CommitPost
<1>2. /\ w \in PostRecord /\ w.n = r.n /\ w.server = r.server /\ w.at = r.at
      /\ w.series = r.series /\ w.stored
  BY <1>1 DEF PostRecord
<1> HIDE DEF w
<1>3. w \notin posts \ {r}
  BY <1>1, <1>2 DEF World, Numbered
<1>4. Cardinality(posts) \in Nat
  BY <1>1, FS_CardinalityType
<1>5. IsFiniteSet(posts \ {r}) /\ Cardinality(posts \ {r}) = Cardinality(posts) - 1
  BY <1>1, FS_RemoveElement
<1>6. IsFiniteSet(posts') /\ Cardinality(posts') = Cardinality(posts)
  <2>1. /\ IsFiniteSet((posts \ {r}) \cup {w})
        /\ Cardinality((posts \ {r}) \cup {w}) = Cardinality(posts \ {r}) + 1
    BY <1>3, <1>5, FS_AddElement
  <2> QED
    BY <2>1, <1>1, <1>4, <1>5
<1>7. TypeOK'
  BY <1>1, <1>2, <1>6 DEF World, TypeOK
<1>8. Numbered'
  BY <1>1, <1>2, <1>6 DEF World, Numbered
<1>9. StoredHasServer'
  BY <1>1, <1>2 DEF World, StoredHasServer
<1> QED
  BY <1>1, <1>2, <1>6, <1>7, <1>8, <1>9 DEF World

\* A request of a deleted server has no samples any more.
Cut(r, s) == [r EXCEPT !.stored = @ /\ r.server # s]

LEMMA DeleteServerEffect ==
    ASSUME World, NEW s \in Servers, DeleteServer(s)
    PROVE  /\ UNCHANGED <<now, pass, starts, overlapped>>
           /\ World' /\ Cardinality(posts') = Cardinality(posts)
           /\ servers' = servers \ {s}
           /\ \A p \in Passes : pass[p].dirty # {} => pass[p].server # {s}
           /\ agg' = [k \in Keys |-> IF k[1] = s THEN {} ELSE agg[k]]
           /\ \A w \in posts' : \E r \in posts :
                /\ w.n = r.n /\ w.server = r.server /\ w.at = r.at /\ w.series = r.series
                /\ w.stored <=> r.stored /\ r.server # s
           /\ \A r \in posts : \E w \in posts' :
                /\ w.n = r.n /\ w.server = r.server /\ w.at = r.at /\ w.series = r.series
                /\ w.stored <=> r.stored /\ r.server # s
<1>1. /\ IsFiniteSet(posts) /\ posts \subseteq PostRecord
      /\ servers \subseteq Servers /\ agg \in [Keys -> SUBSET Nat]
      /\ UNCHANGED <<now, pass, starts, overlapped>> /\ servers' = servers \ {s}
      /\ \A p \in Passes : pass[p].dirty # {} => pass[p].server # {s}
      /\ agg' = [k \in Keys |-> IF k[1] = s THEN {} ELSE agg[k]]
  BY DEF World, TypeOK, DeleteServer
<1>2. posts' = {Cut(r, s) : r \in posts}
  BY DEF DeleteServer, Cut
<1>3. ASSUME NEW r \in posts
      PROVE  /\ Cut(r, s) \in PostRecord
             /\ Cut(r, s).n = r.n /\ Cut(r, s).server = r.server
             /\ Cut(r, s).at = r.at /\ Cut(r, s).series = r.series
             /\ Cut(r, s).stored <=> r.stored /\ r.server # s
  BY <1>1 DEF Cut, PostRecord
<1>4. \A w \in posts' : \E r \in posts :
         /\ w.n = r.n /\ w.server = r.server /\ w.at = r.at /\ w.series = r.series
         /\ w.stored <=> r.stored /\ r.server # s
  BY <1>2, <1>3
<1>5. \A r \in posts : \E w \in posts' :
         /\ w.n = r.n /\ w.server = r.server /\ w.at = r.at /\ w.series = r.series
         /\ w.stored <=> r.stored /\ r.server # s
  BY <1>2, <1>3
<1>6. IsFiniteSet(posts') /\ Cardinality(posts') = Cardinality(posts)
  <2> DEFINE f == [r \in posts |-> Cut(r, s)]
  <2>1. f \in [posts -> posts']
    BY <1>2
  <2>2. \A q, r \in posts : f[q] = f[r] => q = r
    BY <1>3 DEF World, Numbered
  <2>3. \A w \in posts' : \E r \in posts : f[r] = w
    BY <1>2
  <2> HIDE DEF f
  <2>4. f \in Bijection(posts, posts')
    BY <2>1, <2>2, <2>3 DEF Bijection, Injection, IsInjective, Surjection
  <2>5. ExistsBijection(posts, posts')
    BY <2>4 DEF ExistsBijection
  <2> QED
    BY <2>5, <1>1, FS_Bijection
<1>7. posts' \subseteq PostRecord
  BY <1>2, <1>3
<1>8. agg' \in [Keys -> SUBSET Nat]
  BY <1>1
<1>9. TypeOK'
  BY <1>1, <1>6, <1>7, <1>8 DEF World, TypeOK
<1>10. Numbered'
  <2>1. \A w \in posts' : w.n <= Cardinality(posts')
    BY <1>4, <1>6 DEF World, Numbered
  <2>2. \A q, w \in posts' : q.n = w.n => q = w
    <3>1. ASSUME NEW q \in posts, NEW w \in posts, Cut(q, s).n = Cut(w, s).n
          PROVE  Cut(q, s) = Cut(w, s)
      <4>1. q = w
        BY <3>1, <1>3 DEF World, Numbered
      <4> QED
        BY <4>1
    <3> QED
      BY <3>1, <1>2
  <2> QED
    BY <2>1, <2>2 DEF Numbered
<1>11. StoredHasServer'
  BY <1>1, <1>4 DEF World, StoredHasServer
<1> QED
  BY <1>1, <1>4, <1>5, <1>6, <1>9, <1>10, <1>11 DEF World

\* What requests and the owner may do to an execution: samples are added to windows
\* and never owed anew, and a deleted server takes its rows with it.
WorldMoves ==
    /\ pass' = pass /\ overlapped' = overlapped /\ servers' \subseteq servers
    /\ now' \in Nat /\ now' >= now /\ World'
    /\ \A s \in servers' : \A x, t : InWindow(s, x, t) \subseteq InWindow(s, x, t)'
    /\ \A p \in Passes : \A s, x : Owed(p, s, x)' \subseteq Owed(p, s, x)
    /\ \A p \in Passes : DueStays(p) => DueStays(p)'
    /\ \A k \in Keys : agg'[k] = (IF k[1] \in servers \ servers' THEN {} ELSE agg[k])
    /\ \A p \in Passes : pass[p].dirty # {} =>
           \A s \in servers \ servers' : pass[p].server # {s}

LEMMA TickMoves ==
    ASSUME World, \A p \in Passes : DueStays(p),
           Tick \/ UNCHANGED vars
    PROVE  WorldMoves
<1>1. /\ UNCHANGED <<servers, posts, agg, pass, starts, overlapped>>
      /\ now \in Nat /\ now' \in 0 .. MaxTime /\ now' >= now
  BY ConstantsAssumption DEF Tick, vars, World, TypeOK
<1>2. World'
  BY <1>1 DEF World, TypeOK, Numbered, StoredHasServer
<1>3. /\ \A s, x, t : InWindow(s, x, t)' = InWindow(s, x, t)
      /\ \A p \in Passes : \A s, x : Owed(p, s, x)' = Owed(p, s, x)
      /\ \A p \in Passes : DueStays(p) => DueStays(p)'
  BY <1>1 DEF InWindow, Owed, DueStays
<1> QED
  BY <1>1, <1>2, <1>3 DEF WorldMoves

LEMMA PostMoves ==
    ASSUME World, \A p \in Passes : DueStays(p), NEW o \in Servers, Post(o)
    PROVE  WorldMoves
<1>1. /\ UNCHANGED <<now, servers, agg, pass, starts, overlapped>>
      /\ World' /\ Cardinality(posts') = Cardinality(posts) + 1
      /\ IsFiniteSet(posts) /\ now \in Nat
  BY PostEffect, ConstantsAssumption DEF World, TypeOK
<1>2. PICK r \in posts' : /\ posts' = posts \cup {r} /\ ~r.stored
                          /\ r.n = Cardinality(posts) + 1
  BY PostEffect
<1>3. Cardinality(posts) \in Nat
  BY <1>1, FS_CardinalityType
<1>4. \A s \in servers' : \A x, t : InWindow(s, x, t) \subseteq InWindow(s, x, t)'
  BY <1>2, InWindowMember, InWindowMemberNext
<1>5. ASSUME NEW p \in Passes, NEW s, NEW x PROVE Owed(p, s, x)' \subseteq Owed(p, s, x)
  BY <1>1, <1>2, OwedMember, OwedMemberNext
<1>6. ASSUME NEW p \in Passes, DueStays(p) PROVE DueStays(p)'
  <2>1. \A n \in pass[p].due : n <= Cardinality(posts) /\ n \in Nat
    BY <1>6, PassFields DEF DueStays, World
  <2>2. r.n \notin pass[p].due
    BY <2>1, <1>2, <1>3
  <2>3. \A n \in pass'[p].due : n <= Cardinality(posts')
    BY <2>1, <1>1, <1>3
  <2> QED
    BY <2>2, <2>3, <1>1, <1>2, <1>6 DEF DueStays
<1> QED
  BY <1>1, <1>4, <1>5, <1>6 DEF WorldMoves

LEMMA CommitPostMoves ==
    ASSUME World, \A p \in Passes : DueStays(p), NEW r \in posts, CommitPost(r)
    PROVE  WorldMoves
<1>1. /\ UNCHANGED <<now, servers, agg, pass, starts, overlapped>>
      /\ World' /\ Cardinality(posts') = Cardinality(posts)
      /\ ~r.stored /\ r.server \in servers /\ now \in Nat
  BY CommitPostEffect, ConstantsAssumption DEF World, TypeOK
<1>2. PICK w \in posts' : /\ posts' = (posts \ {r}) \cup {w}
                          /\ w.n = r.n /\ w.server = r.server /\ w.at = r.at
                          /\ w.series = r.series /\ w.stored
  BY CommitPostEffect
<1>3. \A s \in servers' : \A x, t : InWindow(s, x, t) \subseteq InWindow(s, x, t)'
  BY <1>1, <1>2, InWindowMember, InWindowMemberNext
<1>4. \A p \in Passes : r.n \notin pass[p].due
  BY <1>1 DEF DueStays
<1>5. ASSUME NEW p \in Passes, NEW s, NEW x PROVE Owed(p, s, x)' \subseteq Owed(p, s, x)
  BY <1>1, <1>2, <1>4, OwedMember, OwedMemberNext
<1>6. ASSUME NEW p \in Passes, DueStays(p) PROVE DueStays(p)'
  BY <1>1, <1>2, <1>4, <1>6 DEF DueStays
<1> QED
  BY <1>1, <1>3, <1>5, <1>6 DEF WorldMoves

LEMMA DeleteServerMoves ==
    ASSUME World, \A p \in Passes : DueStays(p), NEW o \in Servers, DeleteServer(o)
    PROVE  WorldMoves
<1>1. /\ UNCHANGED <<now, pass, starts, overlapped>> /\ now \in Nat
      /\ World' /\ Cardinality(posts') = Cardinality(posts)
      /\ servers' = servers \ {o} /\ o \in servers
      /\ \A p \in Passes : pass[p].dirty # {} => pass[p].server # {o}
      /\ agg' = [k \in Keys |-> IF k[1] = o THEN {} ELSE agg[k]]
  <2>1. now \in Nat /\ o \in servers
    BY ConstantsAssumption DEF World, TypeOK, DeleteServer
  <2> QED
    BY <2>1, DeleteServerEffect
<1>2. /\ \A w \in posts' : \E r \in posts :
           /\ w.n = r.n /\ w.server = r.server /\ w.at = r.at /\ w.series = r.series
           /\ w.stored <=> r.stored /\ r.server # o
      /\ \A r \in posts : \E w \in posts' :
           /\ w.n = r.n /\ w.server = r.server /\ w.at = r.at /\ w.series = r.series
           /\ w.stored <=> r.stored /\ r.server # o
  BY DeleteServerEffect
<1>3. ASSUME NEW s \in servers', NEW x, NEW t
      PROVE  InWindow(s, x, t) \subseteq InWindow(s, x, t)'
  BY <1>1, <1>2, InWindowMember, InWindowMemberNext
<1>4. ASSUME NEW p \in Passes, NEW s, NEW x PROVE Owed(p, s, x)' \subseteq Owed(p, s, x)
  BY <1>1, <1>2, OwedMember, OwedMemberNext
<1>5. ASSUME NEW p \in Passes, DueStays(p) PROVE DueStays(p)'
  BY <1>1, <1>2, <1>5 DEF DueStays
<1> QED
  BY <1>1, <1>3, <1>4, <1>5 DEF WorldMoves

\* An empty set of samples of a server that is gone.
LEMMA GoneHasNone ==
    ASSUME StoredHasServer, NEW s, s \notin servers, NEW x
    PROVE  /\ \A t : InWindow(s, x, t) = {}
           /\ \A p : Owed(p, s, x) = {}
  BY DEF StoredHasServer, InWindow, Owed

LEMMA GoneHasNoneNext ==
    ASSUME StoredHasServer', NEW s, s \notin servers', NEW x
    PROVE  \A p : Owed(p, s, x)' = {}
  BY DEF StoredHasServer, Owed

\* A row is found under its server, series and start.
LEMMA KeyParts ==
    ASSUME NEW s \in Servers, NEW x \in Series, NEW t \in Starts
    PROVE  /\ <<s, x, t>> \in Keys
           /\ <<s, x, t>>[1] = s /\ <<s, x, t>>[2] = x /\ <<s, x, t>>[3] = t
  BY DEF Keys

LEMMA KeyIsTriple ==
    ASSUME NEW k \in Keys
    PROVE  k[1] \in Servers /\ k[2] \in Series /\ k[3] \in Starts /\ k = <<k[1], k[2], k[3]>>
  BY DEF Keys

\* Requests and the owner preserve the rows.
LEMMA WorldKeepsRows ==
    ASSUME World, Rows, WorldMoves
    PROVE  Rows'
<1>a. /\ StoredHasServer /\ servers' \subseteq servers /\ now \in Int /\ now' \in Int
      /\ now' >= now /\ Width \in Int /\ \A k \in Keys : k[3] \in Int
  <2>1. \A k \in Keys : k[3] \in Int
    BY KeyIsTriple, StartsAreInstants
  <2> QED
    BY <2>1, ConstantsAssumption DEF World, WorldMoves, TypeOK
<1>1. ASSUME NEW k \in Keys PROVE agg'[k] \subseteq InWindow(k[1], k[2], k[3])'
  <2>1. agg[k] \subseteq InWindow(k[1], k[2], k[3])
    BY DEF Rows, RowsStored
  <2>2. CASE k[1] \in servers'
    <3>1. InWindow(k[1], k[2], k[3]) \subseteq InWindow(k[1], k[2], k[3])'
      BY <2>2 DEF WorldMoves
    <3>2. agg'[k] = agg[k]
      BY <2>2, <1>a DEF WorldMoves
    <3> QED
      BY <2>1, <3>1, <3>2
  <2>3. CASE k[1] \notin servers'
    <3>1. k[1] \notin servers => agg[k] = {}
      BY <2>1, <1>a, GoneHasNone
    <3> QED
      BY <2>3, <3>1 DEF WorldMoves
  <2> QED
    BY <2>2, <2>3
<1>2. \A k \in Keys : agg'[k] # {} => k[3] + Width <= now'
  BY <1>a DEF Rows, RowsOver, WorldMoves
<1> QED
  BY <1>1, <1>2 DEF Rows, RowsStored, RowsOver

\* They preserve what an execution carries.
LEMMA WorldKeepsPasses ==
    ASSUME IInv, WorldMoves, NEW p \in Passes
    PROVE  PassInv(p)'
<1>a. /\ pass' = pass /\ overlapped' = overlapped /\ servers' \subseteq servers
      /\ now' \in Int /\ now' >= now /\ now \in Int /\ Width \in Int
      /\ servers \subseteq Servers /\ PassInv(p)
  BY ConstantsAssumption DEF IInv, World, TypeOK, WorldMoves
<1>b. \A s \in servers' : \A x, t :
        agg'[<<s, x, t>>] = agg[<<s, x, t>>] \/ <<s, x, t>> \notin Keys
  <2>1. \A s, x, t : <<s, x, t>>[1] = s
    OBVIOUS
  <2> QED
    BY <2>1, <1>a DEF WorldMoves
<1>c. Busy(p) => pass[p].start \in Starts
  BY <1>a DEF PassInv, Shape
<1>d. \A s \in servers, x \in Series : pass[p].server = {s} => <<s, x, pass[p].start>> \in Keys
  <2>1. pass[p].server # {} => Busy(p)
    BY <1>a, IdleIsRecord DEF PassInv, Shape
  <2> QED
    BY <2>1, <1>a, <1>c, KeyParts
<1>1. Shape(p)'
  <2>1. Busy(p)' <=> Busy(p)
    BY <1>a DEF Busy
  <2>2. Busy(p) => pass[p].start \in Nat
    BY <1>c, StartsAreInstants
  <2>3. pass[p].dirty # {} => pass[p].server \subseteq servers'
    <3>1. pass[p].dirty # {} =>
             pass[p].server \subseteq servers /\ \E s \in Servers : pass[p].server = {s}
      BY <1>a DEF PassInv, Shape
    <3> QED
      BY <3>1 DEF WorldMoves
  <2>4. Busy(p) => pass[p].start \in Starts /\ pass[p].start + Width <= now'
    <3>1. Busy(p) => pass[p].start \in Starts /\ pass[p].start + Width <= now
      BY <1>a DEF PassInv, Shape
    <3>2. \A i \in Nat : i + Width <= now => i + Width <= now'
      BY <1>a
    <3> QED
      BY <2>2, <3>1, <3>2
  <2>5. /\ ~Busy(p) => pass[p] = Idle
        /\ pass[p].pc \notin {"idle", "next"} => \E s \in Servers : pass[p].server = {s}
        /\ pass[p].pc = "next" => pass[p].server = {}
        /\ pass[p].pc # "write docker" => pass[p].series = {}
        /\ pass[p].dirty # {} => pass[p].pc \in {"docker", "write docker"}
    BY <1>a DEF PassInv, Shape
  <2> QED
    <3>1. pass'[p] = pass[p] /\ pass[p].start = pass'[p].start
      BY <1>a
    <3> QED
      BY <2>1, <2>3, <2>4, <2>5, <3>1, <1>a DEF Shape, Busy
<1>2. DueStays(p)'
  BY <1>a DEF PassInv, WorldMoves
<1>e. \A x, set : InHand(p, x, set)' <=> InHand(p, x, set)
  BY <1>a DEF InHand, At
<1>3. ReadsStored(p)'
  <2> SUFFICES ASSUME NEW s \in servers', NEW x \in Series, NEW set \in SUBSET Nat,
                      pass'[p].server = {s}, InHand(p, x, set)'
               PROVE  set \subseteq InWindow(s, x, pass[p].start)'
    BY DEF ReadsStored
  <2>1. set \subseteq InWindow(s, x, pass[p].start)
    BY <1>a, <1>e DEF PassInv, ReadsStored
  <2>2. PICK t : t = pass[p].start
    OBVIOUS
  <2>3. InWindow(s, x, t) \subseteq InWindow(s, x, t)'
    BY DEF WorldMoves
  <2>4. InWindow(s, x, pass[p].start)' = InWindow(s, x, t)'
    BY <2>2, <1>a DEF InWindow
  <2> QED
    BY <2>1, <2>2, <2>3, <2>4
<1>4. NothingForgotten(p)'
  <2> SUFFICES ASSUME ~overlapped', NEW s \in servers', NEW x \in Series,
                      NEW set \in SUBSET Nat, pass'[p].server = {s}, InHand(p, x, set)'
               PROVE  agg'[<<s, x, pass'[p].start>>] \subseteq set
    BY DEF NothingForgotten
  <2>1. agg[<<s, x, pass[p].start>>] \subseteq set
    BY <1>a, <1>e DEF PassInv, NothingForgotten
  <2>2. agg'[<<s, x, pass[p].start>>] = agg[<<s, x, pass[p].start>>]
    BY <1>a, <1>b, <1>d
  <2> QED
    BY <2>1, <2>2, <1>a
<1>f. \A s, x : Owed(p, s, x)' \subseteq Owed(p, s, x)
  BY DEF WorldMoves
<1>g. \A s, x : s \notin servers' => Owed(p, s, x)' = {}
  BY GoneHasNoneNext DEF WorldMoves, World
<1>5. Gathered(p)'
  <2> SUFFICES ASSUME NEW s \in Servers, pass'[p].server = {s}
               PROVE  /\ \A x \in Series, set \in SUBSET Nat :
                            InHand(p, x, set)' => Owed(p, s, x)' \subseteq set
                      /\ ~overlapped' /\ ~At(p, "write system")' =>
                            Owed(p, s, "host")' \subseteq agg'[<<s, "host", pass'[p].start>>]
                      /\ pass'[p].pc \in {"docker", "write docker"} =>
                            \A x \in Containers \ pass'[p].names :
                                Owed(p, s, x)' # {} =>
                                    \E set \in SUBSET Nat : InHand(p, x, set)'
    BY DEF Gathered
  <2>1. pass[p].server = {s} /\ Gathered(p)
    BY <1>a DEF PassInv
  <2>2. \A x \in Series, set \in SUBSET Nat :
           InHand(p, x, set)' => Owed(p, s, x)' \subseteq set
    BY <2>1, <1>e, <1>f DEF Gathered
  <2>3. ASSUME ~overlapped', ~At(p, "write system")'
        PROVE  Owed(p, s, "host")' \subseteq agg'[<<s, "host", pass'[p].start>>]
    <3>1. CASE s \in servers'
      <4>1. Owed(p, s, "host") \subseteq agg[<<s, "host", pass[p].start>>]
        BY <2>1, <2>3, <1>a DEF Gathered, At
      <4>2. agg'[<<s, "host", pass[p].start>>] = agg[<<s, "host", pass[p].start>>]
        BY <3>1, <2>1, <1>a, <1>b, <1>d DEF Series
      <4> QED
        BY <4>1, <4>2, <1>a, <1>f
    <3>2. CASE s \notin servers'
      BY <3>2, <1>g
    <3> QED
      BY <3>1, <3>2
  <2>4. ASSUME pass'[p].pc \in {"docker", "write docker"},
               NEW x \in Containers \ pass'[p].names, Owed(p, s, x)' # {}
        PROVE  \E set \in SUBSET Nat : InHand(p, x, set)'
    <3>1. Owed(p, s, x) # {}
      BY <2>4, <1>f
    <3>2. PICK set \in SUBSET Nat : InHand(p, x, set)
      BY <2>1, <2>4, <3>1, <1>a DEF Gathered
    <3> QED
      BY <3>2, <1>e
  <2> QED
    BY <2>2, <2>3, <2>4
<1>6. ServedCounted(p)'
  <2> SUFFICES ASSUME ~overlapped', NEW s \in pass'[p].served, NEW x \in Series
               PROVE  Owed(p, s, x)' \subseteq agg'[<<s, x, pass'[p].start>>]
    BY DEF ServedCounted
  <2>1. CASE s \in servers'
    <3>1. Owed(p, s, x) \subseteq agg[<<s, x, pass[p].start>>]
      BY <1>a DEF PassInv, ServedCounted
    <3>2. Busy(p)
      BY <1>a, IdleIsRecord DEF PassInv, Shape
    <3>3. agg'[<<s, x, pass[p].start>>] = agg[<<s, x, pass[p].start>>]
      BY <2>1, <3>2, <1>a, <1>b, <1>c, KeyParts
    <3> QED
      BY <3>1, <3>3, <1>a, <1>f
  <2>2. CASE s \notin servers'
    BY <2>2, <1>g
  <2> QED
    BY <2>1, <2>2
<1> QED
  BY <1>1, <1>2, <1>3, <1>4, <1>5, <1>6 DEF PassInv

LEMMA WorldKeeps ==
    ASSUME IInv, WorldMoves
    PROVE  IInv'
<1>1. Alone'
  BY DEF IInv, Alone, WorldMoves, Busy
<1> QED
  BY <1>1, WorldKeepsRows, WorldKeepsPasses DEF IInv, WorldMoves

----------------------------------------------------------------------------
(* The steps of an execution. *)

\* What a step of p may do to the rest: nothing to requests and servers, and to the
\* rows only in its own window.
StepMoves(p) ==
    /\ pass' \in [Passes -> PassRecord] /\ OthersRest(p)
    /\ UNCHANGED <<now, servers, posts>>
    /\ starts' \in 0 .. MaxStarts /\ overlapped' \in BOOLEAN
    /\ overlapped => overlapped'
    /\ agg' \in [Keys -> SUBSET Nat]
    /\ \A k \in Keys : agg'[k] = agg[k] \/ (Busy(p) /\ k[3] = pass[p].start)

LEMMA SameSamples ==
    ASSUME UNCHANGED <<posts, servers>>, NEW p
    PROVE  /\ \A s, x, t : InWindow(s, x, t)' = InWindow(s, x, t)
           /\ pass'[p].due = pass[p].due => \A s, x : Owed(p, s, x)' = Owed(p, s, x)
  BY DEF InWindow, Owed

\* A due sample is in the window of its row.
LEMMA OwedInWindow ==
    ASSUME NEW p, DueStays(p), NEW s, NEW x
    PROVE  Owed(p, s, x) \subseteq InWindow(s, x, pass[p].start)
  BY OwedMember, InWindowMember DEF DueStays

\* The step of p leaves the other executions as they were.
LEMMA OthersKept ==
    ASSUME IInv, NEW p \in Passes, StepMoves(p), NEW q \in Passes \ {p}
    PROVE  PassInv(q)'
<1>a. /\ pass'[q] = pass[q] /\ UNCHANGED <<now, servers, posts>> /\ PassInv(q)
      /\ servers \subseteq Servers
  BY DEF StepMoves, OthersRest, IInv, World, TypeOK
<1>f. ~overlapped' => ~overlapped
  BY DEF StepMoves
<1>b. \A x, set : InHand(q, x, set)' <=> InHand(q, x, set)
  BY <1>a DEF InHand, At
<1>c. \A s, x : Owed(q, s, x)' = Owed(q, s, x)
  BY <1>a, SameSamples
<1>d. ~Busy(q) => pass[q].server = {} /\ pass[q].served = {}
  BY <1>a, IdleIsRecord DEF PassInv, Shape
<1>e. ASSUME ~overlapped', Busy(q), NEW s \in Servers, NEW x \in Series
      PROVE  agg'[<<s, x, pass[q].start>>] = agg[<<s, x, pass[q].start>>]
  <2>0. ~overlapped
    BY <1>e, <1>f
  <2>1. pass[q].start \in Starts
    BY <1>a, <1>e DEF PassInv, Shape
  <2>2. Busy(p) => pass[q].start # pass[p].start
    BY <2>0, <1>e DEF IInv, Alone
  <2>3. <<s, x, pass[q].start>> \in Keys /\ <<s, x, pass[q].start>>[3] = pass[q].start
    BY <2>1, KeyParts
  <2> QED
    BY <2>2, <2>3 DEF StepMoves
<1>1. Shape(q)'
  <2>1. Shape(q)
    BY <1>a DEF PassInv
  <2> QED
    BY <2>1, <1>a DEF Shape, Busy
<1>2. DueStays(q)'
  BY <1>a DEF PassInv, DueStays
<1>3. ReadsStored(q)'
  <2>1. \A s, x : InWindow(s, x, pass[q].start)' = InWindow(s, x, pass[q].start)
    BY <1>a DEF InWindow
  <2>2. ReadsStored(q)
    BY <1>a DEF PassInv
  <2> QED
    BY <2>1, <2>2, <1>a, <1>b DEF ReadsStored
<1>4. NothingForgotten(q)'
  <2> SUFFICES ASSUME ~overlapped', NEW s \in servers, NEW x \in Series,
                      NEW set \in SUBSET Nat, pass[q].server = {s}, InHand(q, x, set)
               PROVE  agg'[<<s, x, pass[q].start>>] \subseteq set
    BY <1>a, <1>b DEF NothingForgotten
  <2>1. NothingForgotten(q) /\ ~overlapped
    BY <1>a, <1>f DEF PassInv
  <2>2. agg[<<s, x, pass[q].start>>] \subseteq set
    BY <2>1 DEF NothingForgotten
  <2>3. Busy(q) /\ s \in Servers
    <3>1. pass[q].server # {}
      OBVIOUS
    <3> QED
      BY <3>1, <1>a, <1>d DEF Busy
  <2>4. agg'[<<s, x, pass[q].start>>] = agg[<<s, x, pass[q].start>>]
    BY <2>3, <1>e
  <2> QED
    BY <2>2, <2>4
<1>5. Gathered(q)'
  <2> SUFFICES ASSUME NEW s \in Servers, pass'[q].server = {s}
               PROVE  /\ \A x \in Series, set \in SUBSET Nat :
                            InHand(q, x, set)' => Owed(q, s, x)' \subseteq set
                      /\ ~overlapped' /\ ~At(q, "write system")' =>
                            Owed(q, s, "host")' \subseteq agg'[<<s, "host", pass'[q].start>>]
                      /\ pass'[q].pc \in {"docker", "write docker"} =>
                            \A x \in Containers \ pass'[q].names :
                                Owed(q, s, x)' # {} =>
                                    \E set \in SUBSET Nat : InHand(q, x, set)'
    BY DEF Gathered
  <2>1. Gathered(q) /\ pass[q].server = {s} /\ Busy(q)
    BY <1>a, <1>d DEF PassInv
  <2>2. \A x \in Series, set \in SUBSET Nat :
           InHand(q, x, set)' => Owed(q, s, x)' \subseteq set
    <3>1. \A x \in Series, set \in SUBSET Nat :
             InHand(q, x, set) => Owed(q, s, x) \subseteq set
      BY <2>1 DEF Gathered
    <3> QED
      BY <3>1, <1>b, <1>c
  <2>3. ASSUME ~overlapped', ~At(q, "write system")'
        PROVE  Owed(q, s, "host")' \subseteq agg'[<<s, "host", pass'[q].start>>]
    <3>0. ~overlapped /\ ~At(q, "write system") /\ "host" \in Series
      BY <2>3, <1>a, <1>f DEF At, Series
    <3>1. Owed(q, s, "host") \subseteq agg[<<s, "host", pass[q].start>>]
      BY <2>1, <3>0 DEF Gathered
    <3>2. agg'[<<s, "host", pass[q].start>>] = agg[<<s, "host", pass[q].start>>]
      BY <2>1, <2>3, <3>0, <1>e
    <3> QED
      BY <3>1, <3>2, <1>a, <1>c
  <2>4. ASSUME pass'[q].pc \in {"docker", "write docker"},
               NEW x \in Containers \ pass'[q].names, Owed(q, s, x)' # {}
        PROVE  \E set \in SUBSET Nat : InHand(q, x, set)'
    <3>1. /\ pass[q].pc \in {"docker", "write docker"}
          /\ x \in Containers \ pass[q].names /\ Owed(q, s, x) # {}
      BY <2>4, <1>a, <1>c
    <3>2. PICK set \in SUBSET Nat : InHand(q, x, set)
      BY <2>1, <3>1 DEF Gathered
    <3> QED
      BY <3>2, <1>b
  <2> QED
    BY <2>2, <2>3, <2>4
<1>6. ServedCounted(q)'
  <2> SUFFICES ASSUME ~overlapped', NEW s \in pass[q].served, NEW x \in Series
               PROVE  Owed(q, s, x)' \subseteq agg'[<<s, x, pass[q].start>>]
    BY <1>a DEF ServedCounted
  <2>0. ServedCounted(q) /\ ~overlapped
    BY <1>a, <1>f DEF PassInv
  <2>1. Owed(q, s, x) \subseteq agg[<<s, x, pass[q].start>>]
    BY <2>0 DEF ServedCounted
  <2>2. s \in Servers /\ Busy(q)
    BY <1>d, PassFields DEF IInv, World
  <2>3. agg'[<<s, x, pass[q].start>>] = agg[<<s, x, pass[q].start>>]
    BY <2>2, <1>e
  <2> QED
    BY <2>1, <2>3, <1>c
<1> QED
  BY <1>1, <1>2, <1>3, <1>4, <1>5, <1>6 DEF PassInv

\* Without an overlap p keeps its window for itself.
LEMMA AloneKept ==
    ASSUME IInv, NEW p \in Passes, StepMoves(p),
           Busy(p)' => Busy(p) /\ pass'[p].start = pass[p].start
    PROVE  Alone'
<1>1. \A q \in Passes : Busy(q)' => Busy(q) /\ pass'[q].start = pass[q].start
  BY DEF StepMoves, OthersRest, Busy
<1>2. ~overlapped' => ~overlapped
  BY DEF StepMoves
<1> QED
  BY <1>1, <1>2 DEF Alone, IInv

\* The whole invariant, from what a step does to p itself and to the rows.
LEMMA StepKeeps ==
    ASSUME IInv, NEW p \in Passes, StepMoves(p), Alone', Rows', PassInv(p)'
    PROVE  IInv'
<1>1. World'
  BY DEF IInv, World, StepMoves, TypeOK, Numbered, StoredHasServer
<1> QED
  BY <1>1, OthersKept DEF IInv

\* Rows that nobody writes.
LEMMA SameRows ==
    ASSUME Rows, UNCHANGED <<now, posts, servers, agg>>
    PROVE  Rows'
<1>1. \A k \in Keys : InWindow(k[1], k[2], k[3])' = InWindow(k[1], k[2], k[3])
  BY DEF InWindow
<1> QED
  BY <1>1 DEF Rows, RowsStored, RowsOver

\* An execution between two servers has nothing in hand.
LEMMA BetweenServers ==
    ASSUME NEW p \in Passes, pass'[p].pc = "next", pass'[p].server = {},
           pass'[p].series = {}, pass'[p].dirty = {},
           pass'[p].start \in Starts, pass'[p].start + Width <= now',
           DueStays(p)', ServedCounted(p)'
    PROVE  PassInv(p)'
<1>1. Shape(p)'
  BY DEF Shape, Busy
<1>2. \A s : pass'[p].server # {s}
  OBVIOUS
<1>3. ReadsStored(p)' /\ NothingForgotten(p)' /\ Gathered(p)'
  BY <1>2 DEF ReadsStored, NothingForgotten, Gathered
<1> QED
  BY <1>1, <1>3 DEF PassInv

LEMMA IdleKeeps ==
    ASSUME NEW p \in Passes, pass'[p] = Idle
    PROVE  PassInv(p)'
<1>1. /\ pass'[p].pc = "idle" /\ pass'[p].server = {} /\ pass'[p].series = {}
      /\ pass'[p].dirty = {} /\ pass'[p].served = {} /\ pass'[p].due = {}
  BY IdleIsRecord
<1>2. Shape(p)'
  BY <1>1 DEF Shape, Busy
<1>3. \A s : pass'[p].server # {s}
  BY <1>1
<1>4. ReadsStored(p)' /\ NothingForgotten(p)' /\ Gathered(p)'
  BY <1>3 DEF ReadsStored, NothingForgotten, Gathered
<1>5. DueStays(p)' /\ ServedCounted(p)'
  BY <1>1 DEF DueStays, ServedCounted
<1> QED
  BY <1>2, <1>4, <1>5 DEF PassInv

\* A window that an execution begins with, and what is due in it.
LEMMA StartKeeps ==
    ASSUME IInv, NEW p \in Passes, Start(p)
    PROVE  IInv'
<1>a. /\ TypeOK /\ Numbered /\ Rows /\ Alone /\ now \in 0 .. MaxTime
      /\ agg \in [Keys -> SUBSET Nat]
  BY DEF IInv, World, TypeOK
<1>b. /\ pass' \in [Passes -> PassRecord] /\ OthersRest(p)
      /\ ~Busy(p) /\ now >= Width /\ starts' \in 0 .. MaxStarts
      /\ UNCHANGED <<now, servers, posts, agg>>
      /\ pass'[p].pc = "next" /\ pass'[p].start = Window(now)
      /\ pass'[p].due = UNION {InWindow(s, x, Window(now)) : s \in servers, x \in Series}
      /\ pass'[p].server = {} /\ pass'[p].series = {} /\ pass'[p].dirty = {}
      /\ pass'[p].served = {}
  BY <1>a, StartEffect
<1>c. overlapped' = (overlapped \/ \E q \in Passes : Busy(q) /\ pass[q].start = Window(now))
  BY <1>a, StartEffect
<1>d. Window(now) \in Starts /\ Window(now) + Width <= now
  BY <1>a, <1>b, WindowHasRows
<1>1. StepMoves(p)
  <2>1. overlapped' \in BOOLEAN /\ (overlapped => overlapped')
    BY <1>c DEF IInv, World, TypeOK
  <2> QED
    BY <2>1, <1>a, <1>b DEF StepMoves
<1>2. Alone'
  <2> SUFFICES ASSUME ~overlapped', NEW q \in Passes, NEW r \in Passes,
                      Busy(q)', Busy(r)', pass'[q].start = pass'[r].start
               PROVE  q = r
    BY DEF Alone
  <2>1. ~overlapped /\ \A o \in Passes : Busy(o) => pass[o].start # Window(now)
    BY <1>c
  <2>2. \A o \in Passes \ {p} : Busy(o)' => Busy(o) /\ pass'[o].start = pass[o].start
    BY <1>b DEF OthersRest, Busy
  <2> QED
    BY <2>1, <2>2, <1>a, <1>b DEF Alone
<1>3. DueStays(p)'
  <2>1. ASSUME NEW n \in pass'[p].due
        PROVE  \E r \in posts : r.n = n /\ r.stored /\ Inside(r.at, Window(now), Width)
    <3>1. PICK s \in servers, x \in Series : n \in InWindow(s, x, Window(now))
      BY <2>1, <1>b
    <3> QED
      BY <3>1, InWindowMember
  <2>2. \A n \in pass'[p].due : n <= Cardinality(posts)
    BY <2>1, <1>a DEF Numbered
  <2>3. \A r \in posts : r.n \in pass'[p].due =>
           Inside(r.at, Window(now), Width) /\ r.stored
    BY <2>1, <1>a DEF Numbered
  <2> QED
    BY <2>2, <2>3, <1>b DEF DueStays
<1>4. ServedCounted(p)'
  BY <1>b DEF ServedCounted
<1>5. PassInv(p)'
  BY <1>b, <1>d, <1>3, <1>4, BetweenServers
<1>6. Rows'
  BY <1>a, <1>b, SameRows
<1> QED
  BY <1>1, <1>2, <1>5, <1>6, StepKeeps

\* What every later step has in common.
LEMMA StepIsMove ==
    ASSUME IInv, NEW p \in Passes, Busy(p), Unchanged, OthersRest(p),
           pass' \in [Passes -> PassRecord], agg' \in [Keys -> SUBSET Nat],
           \A k \in Keys : agg'[k] = agg[k] \/ k[3] = pass[p].start
    PROVE  StepMoves(p)
  BY DEF StepMoves, Unchanged, IInv, World, TypeOK

\* The same for one that writes no row.
LEMMA StepIsQuiet ==
    ASSUME IInv, NEW p \in Passes, Busy(p), Unchanged, OthersRest(p),
           pass' \in [Passes -> PassRecord], UNCHANGED agg
    PROVE  StepMoves(p) /\ Rows'
<1>1. agg' \in [Keys -> SUBSET Nat] /\ Rows /\ UNCHANGED <<now, posts, servers, agg>>
  BY DEF IInv, World, TypeOK, Unchanged
<1> QED
  BY <1>1, StepIsMove, SameRows

\* The server of the loop, when there is one.
LEMMA LoopServer ==
    ASSUME IInv, NEW p \in Passes, pass[p].pc \notin {"idle", "next"}
    PROVE  /\ This(p) \in Servers /\ pass[p].server = {This(p)} /\ Busy(p)
           /\ \A s \in Servers : pass[p].server = {s} => s = This(p)
           /\ pass[p].start \in Starts /\ pass[p].start + Width <= now
           /\ \A x \in Series : <<This(p), x, pass[p].start>> \in Keys
<1>1. Shape(p)
  BY DEF IInv, PassInv
<1>2. PICK s \in Servers : pass[p].server = {s}
  BY <1>1 DEF Shape
<1>3. This(p) = s
  BY <1>2, ThisServer
<1>4. Busy(p) /\ pass[p].start \in Starts /\ pass[p].start + Width <= now
  BY <1>1 DEF Shape, Busy
<1> QED
  BY <1>2, <1>3, <1>4, KeyParts

\* What was due stays so as nothing changes that it depends on.
LEMMA DueKept ==
    ASSUME NEW p, DueStays(p), UNCHANGED <<posts, servers>>,
           pass'[p].due = pass[p].due, pass'[p].start = pass[p].start
    PROVE  DueStays(p)'
  BY DEF DueStays

\* So does what was counted, while the rows stay or are rewritten in full.
LEMMA ServedKept ==
    ASSUME IInv, NEW p \in Passes, ~overlapped' => ~overlapped,
           UNCHANGED <<posts, servers>>,
           pass'[p].due = pass[p].due, pass'[p].start = pass[p].start,
           pass'[p].served = pass[p].served, Busy(p),
           \A s \in Servers, x \in Series :
               \/ agg'[<<s, x, pass[p].start>>] = agg[<<s, x, pass[p].start>>]
               \/ Owed(p, s, x) \subseteq agg'[<<s, x, pass[p].start>>]
    PROVE  ServedCounted(p)'
<1> SUFFICES ASSUME ~overlapped', NEW s \in pass'[p].served, NEW x \in Series
             PROVE  Owed(p, s, x)' \subseteq agg'[<<s, x, pass'[p].start>>]
  BY DEF ServedCounted
<1>1. ServedCounted(p) /\ ~overlapped /\ s \in Servers
  BY PassFields DEF IInv, World, PassInv
<1>2. Owed(p, s, x) \subseteq agg[<<s, x, pass[p].start>>]
  BY <1>1 DEF ServedCounted
<1>3. Owed(p, s, x)' = Owed(p, s, x)
  BY SameSamples
<1> QED
  BY <1>1, <1>2, <1>3

\* A failure leaves the server and writes nothing.
LEMMA FailKeeps ==
    ASSUME IInv, NEW p \in Passes, Busy(p), Fail(p), UNCHANGED agg, Unchanged
    PROVE  IInv'
<1>a. /\ pass' \in [Passes -> PassRecord] /\ OthersRest(p) /\ LeavesServer(p)
      /\ pass'[p].served = pass[p].served
  BY FailEffect DEF IInv, World
<1>b. UNCHANGED <<now, posts, servers, overlapped>>
  BY DEF Unchanged
<1>1. StepMoves(p) /\ Rows'
  BY <1>a, StepIsQuiet
<1>2. Alone'
  BY <1>a, <1>1, AloneKept DEF LeavesServer
<1>3. ServedCounted(p)'
  BY <1>a, <1>b, ServedKept DEF LeavesServer
<1>4. DueStays(p)'
  BY <1>a, <1>b, DueKept DEF LeavesServer, IInv, PassInv
<1>5. pass[p].start \in Starts /\ pass[p].start + Width <= now
  BY DEF IInv, PassInv, Shape
<1>6. PassInv(p)'
  BY <1>a, <1>b, <1>3, <1>4, <1>5, BetweenServers DEF LeavesServer
<1> QED
  BY <1>1, <1>2, <1>6, StepKeeps

\* So do the end of an execution and its death.
LEMMA IdleStepKeeps ==
    ASSUME IInv, NEW p \in Passes, Busy(p), pass'[p] = Idle, OthersRest(p),
           pass' \in [Passes -> PassRecord], UNCHANGED agg, Unchanged
    PROVE  IInv'
<1>1. StepMoves(p) /\ Rows'
  BY StepIsQuiet
<1>2. Alone'
  <2>1. ~Busy(p)'
    BY IdleIsRecord DEF Busy
  <2> QED
    BY <2>1, <1>1, AloneKept
<1> QED
  BY <1>1, <1>2, IdleKeeps, StepKeeps

\* What an execution has to carry after a step to go on with server s.
LEMMA AtServer ==
    ASSUME IInv, NEW p \in Passes, Busy(p), Unchanged, SameTask(p), ServedCounted(p)',
           NEW s \in Servers, pass'[p].server = {s},
           pass'[p].pc \in Statements \ {"next"},
           pass'[p].pc # "write docker" => pass'[p].series = {},
           pass'[p].dirty # {} => pass'[p].pc \in {"docker", "write docker"} /\ s \in servers,
           \A x \in Series, set \in SUBSET Nat : InHand(p, x, set)' =>
               /\ s \in servers => set \subseteq InWindow(s, x, pass[p].start)
               /\ ~overlapped /\ s \in servers => agg'[<<s, x, pass[p].start>>] \subseteq set
               /\ Owed(p, s, x) \subseteq set,
           ~overlapped /\ pass'[p].pc # "write system" =>
               Owed(p, s, "host") \subseteq agg'[<<s, "host", pass[p].start>>],
           pass'[p].pc \in {"docker", "write docker"} =>
               \A x \in Containers \ pass'[p].names :
                   Owed(p, s, x) # {} => \E set \in SUBSET Nat : InHand(p, x, set)'
    PROVE  PassInv(p)'
<1>a. /\ UNCHANGED <<now, posts, servers, overlapped>>
      /\ pass'[p].start = pass[p].start /\ pass'[p].due = pass[p].due
  BY DEF Unchanged, SameTask
<1>b. pass[p].start \in Starts /\ pass[p].start + Width <= now
  BY DEF IInv, PassInv, Shape
<1>1. Shape(p)'
  <2>1. Busy(p)' /\ pass'[p].pc \notin {"idle", "next"}
    BY DEF Busy, Statements
  <2>2. pass'[p].start \in Starts /\ pass'[p].start + Width <= now'
    BY <1>a, <1>b
  <2>3. pass'[p].dirty # {} => /\ pass'[p].pc \in {"docker", "write docker"}
                               /\ pass'[p].server \subseteq servers'
    BY <1>a
  <2> QED
    BY <2>1, <2>2, <2>3 DEF Shape
<1>2. DueStays(p)'
  BY <1>a, DueKept DEF IInv, PassInv
<1>c. \A r : pass'[p].server = {r} => r = s
  OBVIOUS
<1>3. ReadsStored(p)'
  <2> SUFFICES ASSUME s \in servers, NEW x \in Series, NEW set \in SUBSET Nat,
                      InHand(p, x, set)'
               PROVE  set \subseteq InWindow(s, x, pass[p].start)'
    BY <1>a, <1>c DEF ReadsStored
  <2>1. set \subseteq InWindow(s, x, pass[p].start)
    OBVIOUS
  <2>2. InWindow(s, x, pass[p].start)' = InWindow(s, x, pass[p].start)
    BY <1>a DEF InWindow
  <2> QED
    BY <2>2, <2>1
<1>4. NothingForgotten(p)'
  <2> SUFFICES ASSUME ~overlapped', NEW r \in servers', NEW x \in Series,
                      NEW set \in SUBSET Nat, pass'[p].server = {r}, InHand(p, x, set)'
               PROVE  agg'[<<r, x, pass'[p].start>>] \subseteq set
    BY DEF NothingForgotten
  <2>1. r = s /\ s \in servers /\ ~overlapped
    BY <1>a, <1>c
  <2> QED
    BY <2>1, <1>a
<1>d. \A x : Owed(p, s, x)' = Owed(p, s, x)
  BY <1>a, SameSamples
<1>5. Gathered(p)'
  <2> SUFFICES ASSUME NEW r \in Servers, pass'[p].server = {r}
               PROVE  /\ \A x \in Series, set \in SUBSET Nat :
                            InHand(p, x, set)' => Owed(p, r, x)' \subseteq set
                      /\ ~overlapped' /\ ~At(p, "write system")' =>
                            Owed(p, r, "host")' \subseteq agg'[<<r, "host", pass'[p].start>>]
                      /\ pass'[p].pc \in {"docker", "write docker"} =>
                            \A x \in Containers \ pass'[p].names :
                                Owed(p, r, x)' # {} =>
                                    \E set \in SUBSET Nat : InHand(p, x, set)'
    BY DEF Gathered
  <2>1. r = s
    BY <1>c
  <2>2. \A x \in Series, set \in SUBSET Nat :
           InHand(p, x, set)' => Owed(p, s, x)' \subseteq set
    BY <1>d
  <2>3. ~overlapped' /\ ~At(p, "write system")' =>
           Owed(p, s, "host")' \subseteq agg'[<<s, "host", pass'[p].start>>]
    BY <1>a, <1>d DEF At
  <2>4. pass'[p].pc \in {"docker", "write docker"} =>
           \A x \in Containers \ pass'[p].names :
               Owed(p, s, x)' # {} => \E set \in SUBSET Nat : InHand(p, x, set)'
    BY <1>d
  <2> QED
    BY <2>1, <2>2, <2>3, <2>4
<1> QED
  BY <1>1, <1>2, <1>3, <1>4, <1>5 DEF PassInv

\* The host's samples are read.
LEMMA NextServerKeeps ==
    ASSUME IInv, NEW p \in Passes, NextServer(p)
    PROVE  IInv'
<1>a. /\ pass' \in [Passes -> PassRecord] /\ OthersRest(p)
      /\ UNCHANGED agg /\ Unchanged /\ pass[p].pc = "next"
      /\ SameTask(p) /\ pass'[p].served = pass[p].served
      /\ pass'[p].series = pass[p].series /\ pass'[p].dirty = pass[p].dirty
  BY NextServerEffect DEF IInv, World
<1>b. /\ Busy(p) /\ pass[p].server = {} /\ pass[p].series = {} /\ pass[p].dirty = {}
      /\ pass[p].start \in Starts /\ pass[p].start + Width <= now
      /\ DueStays(p) /\ Rows /\ TypeOK
  BY <1>a DEF IInv, World, PassInv, Shape, Busy
<1>c. /\ UNCHANGED <<now, posts, servers, overlapped>>
      /\ pass'[p].start = pass[p].start /\ pass'[p].due = pass[p].due
  BY <1>a DEF Unchanged, SameTask
<1>1. StepMoves(p) /\ Rows'
  BY <1>a, <1>b, StepIsQuiet
<1>2. Alone'
  BY <1>a, <1>b, <1>1, <1>c, AloneKept
<1>3. ServedCounted(p)'
  BY <1>a, <1>b, <1>c, ServedKept
<1>4. DueStays(p)'
  BY <1>b, <1>c, DueKept
<1>d. PICK s \in Servers :
         \/ pass'[p].server = pass[p].server /\ pass'[p].pc = "next"
         \/ /\ pass'[p].server = {s} /\ pass'[p].pc = "containers"
            /\ InWindow(s, "host", pass[p].start) = {}
         \/ /\ pass'[p].server = {s} /\ pass'[p].pc = "write system"
            /\ pass'[p].read = InWindow(s, "host", pass[p].start)
  BY NextServerEffect DEF IInv, World
<1>e. Owed(p, s, "host") \subseteq InWindow(s, "host", pass[p].start)
  BY <1>b, OwedInWindow
<1>f. <<s, "host", pass[p].start>> \in Keys /\ "host" \in Series
  BY <1>b, KeyParts DEF Series
<1>g. agg[<<s, "host", pass[p].start>>] \subseteq InWindow(s, "host", pass[p].start)
  BY <1>b, <1>f, KeyParts DEF Rows, RowsStored
<1>5. PassInv(p)'
  <2>1. CASE pass'[p].server = pass[p].server /\ pass'[p].pc = "next"
    BY <2>1, <1>a, <1>b, <1>c, <1>3, <1>4, BetweenServers
  <2>2. CASE /\ pass'[p].server = {s} /\ pass'[p].pc = "containers"
             /\ InWindow(s, "host", pass[p].start) = {}
    <3>1. \A x, set : ~InHand(p, x, set)'
      BY <2>2, <1>a, <1>b DEF InHand, At
    <3>2. Owed(p, s, "host") = {}
      BY <2>2, <1>e
    <3>3. pass'[p].pc \in Statements \ {"next"}
      BY <2>2 DEF Statements
    <3> QED
      BY <3>1, <3>2, <3>3, <2>2, <1>a, <1>b, <1>3, AtServer
  <2>3. CASE /\ pass'[p].server = {s} /\ pass'[p].pc = "write system"
             /\ pass'[p].read = InWindow(s, "host", pass[p].start)
    <3>1. \A x, set : InHand(p, x, set)' =>
             x = "host" /\ set = InWindow(s, "host", pass[p].start)
      BY <2>3, <1>a, <1>b DEF InHand, At
    <3>2. pass'[p].pc \in Statements \ {"next"}
      BY <2>3 DEF Statements
    <3>3. agg' = agg
      BY <1>a
    <3>4. \A x \in Series, set \in SUBSET Nat : InHand(p, x, set)' =>
             /\ s \in servers => set \subseteq InWindow(s, x, pass[p].start)
             /\ ~overlapped /\ s \in servers => agg'[<<s, x, pass[p].start>>] \subseteq set
             /\ Owed(p, s, x) \subseteq set
      BY <3>1, <3>3, <1>e, <1>g
    <3> QED
      BY <3>4, <3>2, <2>3, <1>a, <1>b, <1>3, AtServer
  <2> QED
    BY <1>d, <2>1, <2>2, <2>3
<1> QED
  BY <1>1, <1>2, <1>5, StepKeeps

\* The host's row is replaced by all that is stored.
LEMMA WriteSystemKeeps ==
    ASSUME IInv, NEW p \in Passes, WriteSystem(p)
    PROVE  IInv'
<1>1. CASE This(p) \notin servers
  <2>1. Fail(p) /\ UNCHANGED agg /\ Unchanged /\ pass[p].pc = "write system"
    BY <1>1, WriteSystemFails
  <2> QED
    BY <2>1, FailKeeps DEF Busy
<1>2. CASE This(p) \in servers
  <2>a. /\ pass' \in [Passes -> PassRecord] /\ OthersRest(p) /\ Unchanged
        /\ pass[p].pc = "write system" /\ pass'[p].pc = "containers"
        /\ SameWork(p) /\ pass'[p].server = pass[p].server
        /\ pass'[p].series = pass[p].series /\ pass'[p].dirty = pass[p].dirty
        /\ agg' = [agg EXCEPT ![<<This(p), "host", pass[p].start>>] = pass[p].read]
    BY <1>2, WriteSystemEffect DEF IInv, World
  <2>b. /\ This(p) \in Servers /\ pass[p].server = {This(p)} /\ Busy(p)
        /\ pass[p].start \in Starts /\ pass[p].start + Width <= now
        /\ <<This(p), "host", pass[p].start>> \in Keys /\ "host" \in Series
    BY <2>a, LoopServer DEF Series
  <2> DEFINE key == <<This(p), "host", pass[p].start>>
  <2>c. /\ PassInv(p) /\ pass[p].series = {} /\ pass[p].dirty = {}
        /\ pass[p].read \in SUBSET Nat /\ agg \in [Keys -> SUBSET Nat] /\ Rows
    BY <2>a, PassFields DEF IInv, World, TypeOK, PassInv, Shape
  <2>d. InHand(p, "host", pass[p].read)
    BY <2>a DEF InHand, At
  <2>e. /\ pass[p].read \subseteq InWindow(This(p), "host", pass[p].start)
        /\ Owed(p, This(p), "host") \subseteq pass[p].read
    BY <1>2, <2>b, <2>c, <2>d DEF PassInv, ReadsStored, Gathered
  <2>f. /\ agg' \in [Keys -> SUBSET Nat] /\ agg'[key] = pass[p].read
        /\ \A k \in Keys : k # key => agg'[k] = agg[k]
    BY <2>a, <2>b, <2>c
  <2>g. /\ UNCHANGED <<now, posts, servers, overlapped>> /\ SameTask(p)
        /\ pass'[p].served = pass[p].served
        /\ pass'[p].due = pass[p].due /\ pass'[p].start = pass[p].start
    BY <2>a DEF Unchanged, SameWork, SameTask
  <2>1. StepMoves(p)
    <3>1. key[3] = pass[p].start
      OBVIOUS
    <3>2. \A k \in Keys : agg'[k] = agg[k] \/ k[3] = pass[p].start
      BY <3>1, <2>f
    <3> QED
      BY <3>2, <2>a, <2>b, <2>f, StepIsMove
  <2>2. Alone'
    BY <2>b, <2>g, <2>1, AloneKept
  <2>3. Rows'
    <3>1. ASSUME NEW k \in Keys
          PROVE  agg'[k] \subseteq InWindow(k[1], k[2], k[3])
      BY <2>c, <2>e, <2>f DEF Rows, RowsStored
    <3>2. ASSUME NEW k \in Keys
          PROVE  InWindow(k[1], k[2], k[3])' = InWindow(k[1], k[2], k[3])
      BY <2>g DEF InWindow
    <3>3. \A k \in Keys : agg'[k] # {} => k[3] + Width <= now'
      BY <2>b, <2>c, <2>f, <2>g DEF Rows, RowsOver
    <3> QED
      BY <3>1, <3>2, <3>3 DEF Rows, RowsStored, RowsOver
  <2>4. ServedCounted(p)'
    <3>1. ASSUME NEW s \in Servers, NEW x \in Series
          PROVE  \/ agg'[<<s, x, pass[p].start>>] = agg[<<s, x, pass[p].start>>]
                 \/ Owed(p, s, x) \subseteq agg'[<<s, x, pass[p].start>>]
      <4>1. <<s, x, pass[p].start>> \in Keys
        BY <2>b, KeyParts
      <4> QED
        BY <4>1, <2>e, <2>f
    <3> QED
      BY <3>1, <2>b, <2>g, ServedKept
  <2>5. PassInv(p)'
    <3>1. \A x, set : ~InHand(p, x, set)'
      BY <2>a, <2>c DEF InHand, At
    <3>2. pass'[p].pc \in Statements \ {"next"}
      BY <2>a DEF Statements
    <3>3. Owed(p, This(p), "host") \subseteq agg'[<<This(p), "host", pass[p].start>>]
      BY <2>e, <2>f
    <3> QED
      BY <3>1, <3>2, <3>3, <2>a, <2>b, <2>c, <2>g, <2>4, AtServer
  <2> QED
    BY <2>1, <2>2, <2>3, <2>5, StepKeeps
<1> QED
  BY <1>1, <1>2

\* A server whose rows are all in place is served.
LEMMA ServedKeeps ==
    ASSUME IInv, NEW p \in Passes, pass[p].pc \in {"containers", "docker"},
           pass' = Served(p), Unchanged, StepMoves(p), Rows',
           \A s \in Servers, x \in Series :
               \/ agg'[<<s, x, pass[p].start>>] = agg[<<s, x, pass[p].start>>]
               \/ Owed(p, s, x) \subseteq agg'[<<s, x, pass[p].start>>],
           ~overlapped => \A x \in Series :
               Owed(p, This(p), x) \subseteq agg'[<<This(p), x, pass[p].start>>]
    PROVE  IInv'
<1>a. /\ OthersRest(p) /\ LeavesServer(p)
      /\ pass'[p].served = pass[p].served \cup pass[p].server
  BY ServedEffect DEF IInv, World
<1>b. /\ UNCHANGED <<now, posts, servers, overlapped>>
      /\ pass'[p].start = pass[p].start /\ pass'[p].due = pass[p].due
  BY <1>a DEF Unchanged, LeavesServer
<1>c. /\ pass[p].server = {This(p)} /\ Busy(p)
      /\ pass[p].start \in Starts /\ pass[p].start + Width <= now
  BY LoopServer
<1>1. Alone'
  BY <1>b, <1>c, AloneKept
<1>2. DueStays(p)'
  BY <1>b, DueKept DEF IInv, PassInv
<1>3. ServedCounted(p)'
  <2> SUFFICES ASSUME ~overlapped', NEW s \in pass'[p].served, NEW x \in Series
               PROVE  Owed(p, s, x)' \subseteq agg'[<<s, x, pass'[p].start>>]
    BY DEF ServedCounted
  <2>1. ServedCounted(p) /\ ~overlapped /\ pass[p].served \subseteq Servers
    BY <1>b, PassFields DEF IInv, World, PassInv
  <2>2. Owed(p, s, x) \subseteq agg'[<<s, x, pass[p].start>>]
    <3>1. CASE s = This(p)
      BY <3>1, <2>1
    <3>2. CASE s \in pass[p].served
      <4>1. Owed(p, s, x) \subseteq agg[<<s, x, pass[p].start>>]
        BY <2>1, <3>2 DEF ServedCounted
      <4>2. \/ agg'[<<s, x, pass[p].start>>] = agg[<<s, x, pass[p].start>>]
            \/ Owed(p, s, x) \subseteq agg'[<<s, x, pass[p].start>>]
        BY <2>1, <3>2
      <4> QED
        BY <4>1, <4>2
    <3> QED
      BY <3>1, <3>2, <1>a, <1>c
  <2>3. Owed(p, s, x)' = Owed(p, s, x)
    BY <1>b, SameSamples
  <2> QED
    BY <2>2, <2>3, <1>b
<1>4. PassInv(p)'
  BY <1>a, <1>b, <1>c, <1>2, <1>3, BetweenServers DEF LeavesServer
<1> QED
  BY <1>1, <1>4, StepKeeps

\* The containers are listed; those that are not have nothing due.
LEMMA ListContainersKeeps ==
    ASSUME IInv, NEW p \in Passes, ListContainers(p)
    PROVE  IInv'
<1>a. /\ pass[p].pc = "containers" /\ UNCHANGED agg /\ Unchanged /\ TypeOK
  BY ListContainersEffect DEF IInv, World
<1>b. /\ This(p) \in Servers /\ pass[p].server = {This(p)} /\ Busy(p)
      /\ PassInv(p) /\ pass[p].series = {} /\ pass[p].dirty = {}
  BY <1>a, LoopServer DEF IInv, PassInv, Shape
<1>c. ~overlapped => Owed(p, This(p), "host") \subseteq agg[<<This(p), "host", pass[p].start>>]
  BY <1>a, <1>b DEF PassInv, Gathered, At
<1>d. \A x : Owed(p, This(p), x) \subseteq InWindow(This(p), x, pass[p].start)
  BY <1>b, OwedInWindow DEF PassInv
<1>1. CASE /\ pass' = Served(p)
           /\ \A x \in Containers : InWindow(This(p), x, pass[p].start) = {}
  <2>1. pass' \in [Passes -> PassRecord] /\ OthersRest(p)
    BY <1>1, <1>a, ServedEffect
  <2>2. StepMoves(p) /\ Rows'
    BY <2>1, <1>a, <1>b, StepIsQuiet
  <2>3. ~overlapped => \A x \in Series :
           Owed(p, This(p), x) \subseteq agg'[<<This(p), x, pass[p].start>>]
    <3>1. \A x \in Containers : Owed(p, This(p), x) = {}
      BY <1>1, <1>d
    <3> QED
      BY <3>1, <1>a, <1>c DEF Series
  <2> QED
    BY <1>1, <2>2, <2>3, <1>a, ServedKeeps
<1>2. CASE /\ pass' \in [Passes -> PassRecord] /\ OthersRest(p)
           /\ pass'[p].pc = "docker" /\ SameWork(p)
           /\ pass'[p].server = pass[p].server
           /\ pass'[p].series = pass[p].series /\ pass'[p].dirty = pass[p].dirty
           /\ pass'[p].names =
                {x \in Containers : InWindow(This(p), x, pass[p].start) # {}}
  <2>a. /\ UNCHANGED <<now, posts, servers, overlapped>> /\ SameTask(p)
        /\ pass'[p].served = pass[p].served
        /\ pass'[p].due = pass[p].due /\ pass'[p].start = pass[p].start
    BY <1>a, <1>2 DEF Unchanged, SameWork, SameTask
  <2>1. StepMoves(p) /\ Rows'
    BY <1>2, <1>a, <1>b, StepIsQuiet
  <2>2. Alone'
    BY <1>b, <2>a, <2>1, AloneKept
  <2>3. ServedCounted(p)'
    BY <1>a, <1>b, <2>a, ServedKept
  <2>4. PassInv(p)'
    <3>1. \A x, set : ~InHand(p, x, set)'
      BY <1>2, <1>b DEF InHand, At
    <3>2. pass'[p].pc \in Statements \ {"next"}
      BY <1>2 DEF Statements
    <3>3. \A x \in Containers \ pass'[p].names : Owed(p, This(p), x) = {}
      BY <1>2, <1>d
    <3> QED
      BY <3>1, <3>2, <3>3, <1>2, <1>a, <1>b, <1>c, <2>a, <2>3, AtServer
  <2> QED
    BY <2>1, <2>2, <2>4, StepKeeps
<1> QED
  BY <1>1, <1>2, <1>a, ListContainersEffect

\* The samples of one more container are in hand.
LEMMA ReadDockerKeeps ==
    ASSUME IInv, NEW p \in Passes, ReadDocker(p)
    PROVE  IInv'
<1>a. /\ pass' \in [Passes -> PassRecord] /\ OthersRest(p)
      /\ UNCHANGED agg /\ Unchanged /\ pass[p].pc = "docker" /\ SameWork(p)
      /\ pass'[p].server = pass[p].server /\ pass'[p].dirty = pass[p].dirty
  BY ReadDockerEffect DEF IInv, World
<1>b. /\ This(p) \in Servers /\ pass[p].server = {This(p)} /\ Busy(p)
      /\ \A x \in Series : <<This(p), x, pass[p].start>> \in Keys
      /\ PassInv(p) /\ Rows /\ pass[p].series = {}
      /\ pass[p].dirty # {} => This(p) \in servers
  BY <1>a, LoopServer DEF IInv, PassInv, Shape
<1>c. /\ UNCHANGED <<now, posts, servers, overlapped>> /\ SameTask(p)
      /\ pass'[p].served = pass[p].served
      /\ pass'[p].due = pass[p].due /\ pass'[p].start = pass[p].start
  BY <1>a DEF Unchanged, SameWork, SameTask
<1>d. PICK y \in pass[p].names :
         /\ y \in Containers /\ pass'[p].names = pass[p].names \ {y}
         /\ pass'[p].read = InWindow(This(p), y, pass[p].start)
         /\ \/ /\ pass'[p].pc = "docker" /\ pass'[p].series = {}
               /\ InWindow(This(p), y, pass[p].start) = {}
            \/ pass'[p].pc = "write docker" /\ pass'[p].series = {y}
  BY ReadDockerEffect DEF IInv, World
<1> DEFINE found == InWindow(This(p), y, pass[p].start)
<1>1. StepMoves(p) /\ Rows'
  BY <1>a, <1>b, StepIsQuiet
<1>2. Alone'
  BY <1>b, <1>c, <1>1, AloneKept
<1>3. ServedCounted(p)'
  BY <1>a, <1>b, <1>c, ServedKept
<1>4. /\ \A x, set : InHand(p, x, set) <=>
             \E row \in pass[p].dirty : x = row.series /\ set = row.read
      /\ \A x, set : InHand(p, x, set)' <=>
             \/ x = y /\ set = found /\ pass'[p].series = {y}
             \/ \E row \in pass[p].dirty : x = row.series /\ set = row.read
  BY <1>a, <1>b, <1>d DEF InHand, At
<1> HIDE DEF found
<1>f. \A x, set : InHand(p, x, set) => InHand(p, x, set)'
  BY <1>4
<1>e. /\ found = InWindow(This(p), y, pass[p].start) /\ found \in SUBSET Nat
      /\ Owed(p, This(p), y) \subseteq found
      /\ y \in Series /\ agg[<<This(p), y, pass[p].start>>] \subseteq found
  <2>1. found = InWindow(This(p), y, pass[p].start)
    BY DEF found
  <2>2. Owed(p, This(p), y) \subseteq found
    BY <1>b, <2>1, OwedInWindow DEF PassInv
  <2>3. y \in Series
    BY <1>d DEF Series
  <2>4. /\ <<This(p), y, pass[p].start>> \in Keys
        /\ <<This(p), y, pass[p].start>>[1] = This(p)
        /\ <<This(p), y, pass[p].start>>[2] = y
        /\ <<This(p), y, pass[p].start>>[3] = pass[p].start
    BY <1>b, <2>3
  <2>5. agg[<<This(p), y, pass[p].start>>] \subseteq found
    BY <1>b, <2>1, <2>4 DEF Rows, RowsStored
  <2>6. found \in SUBSET Nat
    BY <2>1, InWindowNumbers DEF IInv, World
  <2> QED
    BY <2>1, <2>2, <2>3, <2>5, <2>6
<1>5. PassInv(p)'
  <2>1. \A x \in Series, set \in SUBSET Nat : InHand(p, x, set)' =>
           /\ This(p) \in servers => set \subseteq InWindow(This(p), x, pass[p].start)
           /\ ~overlapped /\ This(p) \in servers =>
                  agg'[<<This(p), x, pass[p].start>>] \subseteq set
           /\ Owed(p, This(p), x) \subseteq set
    <3> SUFFICES ASSUME NEW x \in Series, NEW set \in SUBSET Nat, InHand(p, x, set)'
                 PROVE  /\ This(p) \in servers =>
                              set \subseteq InWindow(This(p), x, pass[p].start)
                        /\ ~overlapped /\ This(p) \in servers =>
                              agg[<<This(p), x, pass[p].start>>] \subseteq set
                        /\ Owed(p, This(p), x) \subseteq set
      BY <1>a
    <3>1. CASE x = y /\ set = found
      BY <3>1, <1>e
    <3>2. CASE InHand(p, x, set)
      BY <3>2, <1>b DEF PassInv, ReadsStored, NothingForgotten, Gathered
    <3> QED
      BY <3>1, <3>2, <1>4
  <2>2. ~overlapped =>
           Owed(p, This(p), "host") \subseteq agg'[<<This(p), "host", pass[p].start>>]
    BY <1>a, <1>b DEF PassInv, Gathered, At
  <2>3. ASSUME NEW x \in Containers \ pass'[p].names, Owed(p, This(p), x) # {}
        PROVE  \E set \in SUBSET Nat : InHand(p, x, set)'
    <3>1. CASE x = y
      <4>1. found # {}
        BY <3>1, <2>3, <1>e
      <4>2. pass'[p].series = {y}
        BY <4>1, <1>d, <1>e
      <4> QED
        BY <3>1, <4>2, <1>4, <1>e
    <3>2. CASE x # y
      <4>1. x \in Containers \ pass[p].names
        BY <3>2, <2>3, <1>d
      <4>2. PICK set \in SUBSET Nat : InHand(p, x, set)
        BY <4>1, <2>3, <1>a, <1>b DEF PassInv, Gathered
      <4>3. InHand(p, x, set)'
        BY <4>2, <1>f
      <4> QED
        BY <4>3
    <3> QED
      BY <3>1, <3>2
  <2>4. /\ pass'[p].pc \in Statements \ {"next"}
        /\ pass'[p].pc \in {"docker", "write docker"}
        /\ pass'[p].pc # "write docker" => pass'[p].series = {}
        /\ pass'[p].dirty # {} => This(p) \in servers
    BY <1>a, <1>b, <1>d DEF Statements
  <2> QED
    BY <2>1, <2>2, <2>3, <2>4, <1>a, <1>b, <1>c, <1>3, AtServer
<1> QED
  BY <1>1, <1>2, <1>5, StepKeeps

\* A row that is written and not committed stays in hand.
LEMMA WriteDockerKeeps ==
    ASSUME IInv, NEW p \in Passes, WriteDocker(p), This(p) \in servers
    PROVE  IInv'
<1>a. /\ pass' \in [Passes -> PassRecord] /\ OthersRest(p)
      /\ UNCHANGED agg /\ Unchanged
      /\ pass[p].pc = "write docker" /\ pass'[p].pc = "docker" /\ SameWork(p)
      /\ pass'[p].server = pass[p].server /\ pass'[p].names = pass[p].names
      /\ pass'[p].series = {}
      /\ pass'[p].dirty = pass[p].dirty \cup
           {[series |-> x, read |-> pass[p].read] : x \in pass[p].series}
  BY WriteDockerEffect DEF IInv, World
<1>b. /\ This(p) \in Servers /\ pass[p].server = {This(p)} /\ Busy(p) /\ PassInv(p)
  BY <1>a, LoopServer DEF IInv
<1>c. /\ UNCHANGED <<now, posts, servers, overlapped>> /\ SameTask(p)
      /\ pass'[p].served = pass[p].served
      /\ pass'[p].due = pass[p].due /\ pass'[p].start = pass[p].start
  BY <1>a DEF Unchanged, SameWork, SameTask
<1>1. StepMoves(p) /\ Rows'
  BY <1>a, <1>b, StepIsQuiet
<1>2. Alone'
  BY <1>b, <1>c, <1>1, AloneKept
<1>3. ServedCounted(p)'
  BY <1>a, <1>b, <1>c, ServedKept
<1>4. ASSUME NEW x, NEW set PROVE InHand(p, x, set)' <=> InHand(p, x, set)
  <2>1. InHand(p, x, set)' <=> \E row \in pass'[p].dirty : x = row.series /\ set = row.read
    BY <1>a DEF InHand, At
  <2>2. InHand(p, x, set) <=>
          \/ x \in pass[p].series /\ set = pass[p].read
          \/ \E row \in pass[p].dirty : x = row.series /\ set = row.read
    BY <1>a DEF InHand, At
  <2>3. (\E row \in {[series |-> y, read |-> pass[p].read] : y \in pass[p].series} :
            x = row.series /\ set = row.read)
          <=> x \in pass[p].series /\ set = pass[p].read
    <3>1. \A y : /\ [series |-> y, read |-> pass[p].read].series = y
                 /\ [series |-> y, read |-> pass[p].read].read = pass[p].read
      OBVIOUS
    <3>2. ASSUME NEW row \in {[series |-> y, read |-> pass[p].read] : y \in pass[p].series},
                 x = row.series, set = row.read
          PROVE  x \in pass[p].series /\ set = pass[p].read
      <4>1. PICK y \in pass[p].series : row = [series |-> y, read |-> pass[p].read]
        BY <3>2
      <4> QED
        BY <3>1, <3>2, <4>1
    <3>3. ASSUME x \in pass[p].series, set = pass[p].read
          PROVE  \E row \in {[series |-> y, read |-> pass[p].read] : y \in pass[p].series} :
                    x = row.series /\ set = row.read
      <4>1. [series |-> x, read |-> pass[p].read]
               \in {[series |-> y, read |-> pass[p].read] : y \in pass[p].series}
        BY <3>3
      <4> QED
        BY <3>1, <3>3, <4>1
    <3> QED
      BY <3>2, <3>3
  <2> QED
    BY <2>1, <2>2, <2>3, <1>a
<1>5. PassInv(p)'
  <2>1. \A x \in Series, set \in SUBSET Nat : InHand(p, x, set)' =>
           /\ This(p) \in servers => set \subseteq InWindow(This(p), x, pass[p].start)
           /\ ~overlapped /\ This(p) \in servers =>
                  agg'[<<This(p), x, pass[p].start>>] \subseteq set
           /\ Owed(p, This(p), x) \subseteq set
    <3> SUFFICES ASSUME NEW x \in Series, NEW set \in SUBSET Nat, InHand(p, x, set)
                 PROVE  /\ This(p) \in servers =>
                              set \subseteq InWindow(This(p), x, pass[p].start)
                        /\ ~overlapped /\ This(p) \in servers =>
                              agg[<<This(p), x, pass[p].start>>] \subseteq set
                        /\ Owed(p, This(p), x) \subseteq set
      BY <1>a, <1>4
    <3> QED
      BY <1>b DEF PassInv, ReadsStored, NothingForgotten, Gathered
  <2>2. ~overlapped =>
           Owed(p, This(p), "host") \subseteq agg'[<<This(p), "host", pass[p].start>>]
    BY <1>a, <1>b DEF PassInv, Gathered, At
  <2>3. ASSUME NEW x \in Containers \ pass'[p].names, Owed(p, This(p), x) # {}
        PROVE  \E set \in SUBSET Nat : InHand(p, x, set)'
    <3>1. PICK set \in SUBSET Nat : InHand(p, x, set)
      BY <2>3, <1>a, <1>b DEF PassInv, Gathered
    <3> QED
      BY <3>1, <1>4
  <2>4. pass'[p].pc \in Statements \ {"next"}
    BY <1>a DEF Statements
  <2> QED
    BY <2>1, <2>2, <2>3, <2>4, <1>a, <1>b, <1>c, <1>3, AtServer
<1> QED
  BY <1>1, <1>2, <1>5, StepKeeps

\* The commit replaces the rows of the containers by what is in hand for them.
LEMMA CommitDockerKeeps ==
    ASSUME IInv, NEW p \in Passes, CommitDocker(p)
    PROVE  IInv'
<1>a. /\ Unchanged /\ pass[p].pc = "docker" /\ pass[p].names = {}
      /\ pass' = Served(p) /\ agg' \in [Keys -> SUBSET Nat] /\ TypeOK
  BY CommitDockerEffect DEF IInv, World
<1>b. /\ This(p) \in Servers /\ pass[p].server = {This(p)} /\ Busy(p)
      /\ pass[p].start \in Starts /\ pass[p].start + Width <= now
      /\ \A x \in Series : <<This(p), x, pass[p].start>> \in Keys
      /\ PassInv(p) /\ pass[p].series = {} /\ Rows
      /\ pass[p].dirty # {} => This(p) \in servers
  BY <1>a, LoopServer DEF IInv, PassInv, Shape
<1>c. pass' \in [Passes -> PassRecord] /\ OthersRest(p)
  BY <1>a, ServedEffect
<1>d. \A k \in Keys :
         \/ /\ pass[p].server = {k[1]} /\ k[3] = pass[p].start
            /\ \E row \in pass[p].dirty : row.series = k[2] /\ agg'[k] = row.read
         \/ /\ agg'[k] = agg[k]
            /\ ~ (/\ pass[p].server = {k[1]} /\ k[3] = pass[p].start
                  /\ \E row \in pass[p].dirty : row.series = k[2])
  BY <1>a, CommitDockerEffect
<1>e. \A x, set : InHand(p, x, set) <=>
         \E row \in pass[p].dirty : x = row.series /\ set = row.read
  BY <1>a, <1>b DEF InHand, At
<1>f. /\ pass[p].dirty \subseteq [series : Containers, read : SUBSET Nat]
      /\ \A row \in pass[p].dirty :
            row.series \in Series /\ row.series # "host" /\ row.read \in SUBSET Nat
  <2>1. pass[p].dirty \subseteq [series : Containers, read : SUBSET Nat]
    BY <1>a, PassFields
  <2> QED
    BY <2>1, ConstantsAssumption DEF Series
<1>g. ASSUME NEW row \in pass[p].dirty
      PROVE  /\ row.read \subseteq InWindow(This(p), row.series, pass[p].start)
             /\ Owed(p, This(p), row.series) \subseteq row.read
  <2>1. InHand(p, row.series, row.read) /\ This(p) \in servers
    BY <1>b, <1>e
  <2> QED
    BY <2>1, <1>b, <1>f DEF PassInv, ReadsStored, Gathered
<1>1. StepMoves(p)
  BY <1>a, <1>b, <1>c, <1>d, StepIsMove
<1>2. Rows'
  <2>a. UNCHANGED <<now, posts, servers>>
    BY <1>a DEF Unchanged
  <2>1. ASSUME NEW k \in Keys
        PROVE  /\ agg'[k] \subseteq InWindow(k[1], k[2], k[3])
               /\ agg'[k] # {} => k[3] + Width <= now
    <3>1. CASE agg'[k] = agg[k]
      BY <3>1, <1>b DEF Rows, RowsStored, RowsOver
    <3>2. CASE agg'[k] # agg[k]
      <4>1. PICK row \in pass[p].dirty : row.series = k[2] /\ agg'[k] = row.read
        BY <1>d, <3>2
      <4>2. k[1] = This(p) /\ k[3] = pass[p].start
        BY <1>b, <1>d, <3>2
      <4> QED
        BY <4>1, <4>2, <1>b, <1>g
    <3> QED
      BY <3>1, <3>2
  <2>2. ASSUME NEW k \in Keys
        PROVE  InWindow(k[1], k[2], k[3])' = InWindow(k[1], k[2], k[3])
    BY <2>a DEF InWindow
  <2> QED
    BY <2>a, <2>1, <2>2 DEF Rows, RowsStored, RowsOver
<1>3. ASSUME NEW s \in Servers, NEW x \in Series
      PROVE  \/ agg'[<<s, x, pass[p].start>>] = agg[<<s, x, pass[p].start>>]
             \/ Owed(p, s, x) \subseteq agg'[<<s, x, pass[p].start>>]
  <2> DEFINE k == <<s, x, pass[p].start>>
  <2>1. k \in Keys /\ k[1] = s /\ k[2] = x
    BY <1>b, KeyParts
  <2> HIDE DEF k
  <2>2. CASE agg'[k] # agg[k]
    <3>1. PICK row \in pass[p].dirty : row.series = x /\ agg'[k] = row.read
      BY <1>d, <2>1, <2>2
    <3>2. s = This(p)
      BY <1>b, <1>d, <2>1, <2>2
    <3>3. Owed(p, s, x) \subseteq agg'[k]
      BY <3>1, <3>2, <1>g
    <3> QED
      BY <3>3 DEF k
  <2> QED
    BY <2>2 DEF k
<1>4. ASSUME ~overlapped, NEW x \in Series
      PROVE  Owed(p, This(p), x) \subseteq agg'[<<This(p), x, pass[p].start>>]
  <2> DEFINE k == <<This(p), x, pass[p].start>>
  <2>1. k \in Keys /\ k[1] = This(p) /\ k[2] = x /\ k[3] = pass[p].start
    BY <1>b, KeyParts
  <2> HIDE DEF k
  <2>2. CASE x = "host"
    <3>1. agg'[k] = agg[k]
      BY <2>1, <2>2, <1>d, <1>f
    <3>2. Owed(p, This(p), "host") \subseteq agg[<<This(p), "host", pass[p].start>>]
      BY <1>a, <1>b, <1>4 DEF PassInv, Gathered, At
    <3> QED
      BY <3>1, <3>2, <2>2 DEF k
  <2>3. CASE x # "host"
    <3>1. x \in Containers \ pass[p].names
      BY <2>3, <1>a DEF Series
    <3>2. CASE Owed(p, This(p), x) # {}
      <4>1. PICK set \in SUBSET Nat : InHand(p, x, set)
        BY <3>1, <3>2, <1>a, <1>b DEF PassInv, Gathered
      <4>2. \E row \in pass[p].dirty : row.series = x
        BY <4>1, <1>e
      <4>3. PICK row \in pass[p].dirty : row.series = x /\ agg'[k] = row.read
        BY <4>2, <2>1, <1>b, <1>d
      <4>4. Owed(p, This(p), x) \subseteq agg'[k]
        BY <4>3, <1>g
      <4> QED
        BY <4>4 DEF k
    <3> QED
      BY <3>2
  <2> QED
    BY <2>2, <2>3
<1> QED
  BY <1>1, <1>2, <1>3, <1>4, <1>a, ServedKeeps

\* Every step of an execution.
LEMMA ExecutionKeeps ==
    ASSUME IInv, NEW p \in Passes, Start(p) \/ Step(p) \/ Crash(p)
    PROVE  IInv'
<1>1. CASE Start(p)
  BY <1>1, StartKeeps
<1>2. CASE NextServer(p)
  BY <1>2, NextServerKeeps
<1>3. CASE End(p) \/ Crash(p)
  BY <1>3, EndEffect, CrashEffect, IdleStepKeeps DEF IInv, World
<1>4. CASE WriteSystem(p)
  BY <1>4, WriteSystemKeeps
<1>5. CASE ListContainers(p)
  BY <1>5, ListContainersKeeps
<1>6. CASE ReadDocker(p)
  BY <1>6, ReadDockerKeeps
<1>7. CASE WriteDocker(p) /\ This(p) \in servers
  BY <1>7, WriteDockerKeeps
<1>8. CASE BreakDeadlock(p) \/ (WriteDocker(p) /\ This(p) \notin servers)
  <2>1. Fail(p) /\ UNCHANGED agg /\ Unchanged /\ Busy(p)
    BY <1>8, DockerFails DEF Busy
  <2> QED
    BY <2>1, FailKeeps
<1>9. CASE CommitDocker(p)
  BY <1>9, CommitDockerKeeps
<1> QED
  BY <1>1, <1>2, <1>3, <1>4, <1>5, <1>6, <1>7, <1>8, <1>9 DEF Step

LEMMA NextKeeps == IInv /\ [Next]_vars => IInv'
<1> SUFFICES ASSUME IInv, [Next]_vars PROVE IInv'
  OBVIOUS
<1>1. World /\ \A p \in Passes : DueStays(p)
  BY DEF IInv, PassInv
<1>2. CASE Tick \/ UNCHANGED vars
  BY <1>1, <1>2, TickMoves, WorldKeeps
<1>3. CASE \E s \in Servers : Post(s) \/ DeleteServer(s)
  BY <1>1, <1>3, PostMoves, DeleteServerMoves, WorldKeeps
<1>4. CASE \E r \in posts : CommitPost(r)
  BY <1>1, <1>4, CommitPostMoves, WorldKeeps
<1>5. CASE \E p \in Passes : Start(p) \/ Step(p) \/ Crash(p)
  BY <1>5, ExecutionKeeps
<1> QED
  BY <1>2, <1>3, <1>4, <1>5 DEF Next

LEMMA InitHolds == Init => IInv
<1> SUFFICES ASSUME Init PROVE IInv
  OBVIOUS
<1>1. /\ now = 0 /\ servers = Servers /\ posts = {} /\ starts = 0 /\ overlapped = FALSE
      /\ agg = [k \in Keys |-> {}] /\ pass = [p \in Passes |-> Idle]
      /\ \A p \in Passes : pass[p] = Idle
  BY DEF Init
<1>2. World
  <2>1. now \in 0 .. MaxTime /\ starts \in 0 .. MaxStarts
    BY <1>1, ConstantsAssumption
  <2>2. IsFiniteSet(posts)
    BY <1>1, FS_EmptySet
  <2>3. agg \in [Keys -> SUBSET Nat] /\ pass \in [Passes -> PassRecord]
    BY <1>1, IdleIsRecord
  <2> QED
    BY <1>1, <2>1, <2>2, <2>3 DEF World, TypeOK, Numbered, StoredHasServer
<1>3. Rows
  BY <1>1 DEF Rows, RowsStored, RowsOver
<1>4. \A p \in Passes : ~Busy(p)
  BY <1>1, IdleIsRecord DEF Busy
<1>5. Alone
  BY <1>4 DEF Alone
<1>6. ASSUME NEW p \in Passes PROVE PassInv(p)
  <2>1. /\ pass[p] = Idle /\ pass[p].pc = "idle" /\ pass[p].server = {}
        /\ pass[p].series = {} /\ pass[p].dirty = {} /\ pass[p].served = {}
        /\ pass[p].due = {}
    BY <1>1, IdleIsRecord
  <2>2. Shape(p)
    BY <2>1 DEF Shape, Busy
  <2>3. DueStays(p) /\ ServedCounted(p)
    BY <2>1 DEF DueStays, ServedCounted
  <2>4. \A s : pass[p].server # {s}
    BY <2>1
  <2>5. ReadsStored(p) /\ NothingForgotten(p) /\ Gathered(p)
    BY <2>4 DEF ReadsStored, NothingForgotten, Gathered
  <2> QED
    BY <2>2, <2>3, <2>5 DEF PassInv
<1> QED
  BY <1>2, <1>3, <1>5, <1>6 DEF IInv

LEMMA Invariant == Spec => []IInv
  BY InitHolds, NextKeeps, PTL DEF Spec

----------------------------------------------------------------------------
(* The theorems. *)

\* The state keeps its shape: the rows of the tables and what every execution
\* carries, whatever the statements return.
THEOREM TypeCorrect == Spec => []TypeOK
<1>1. IInv => TypeOK
  BY DEF IInv, World
<1> QED
  BY <1>1, Invariant, PTL

\* A row counts samples of its own server, series and window only, and none before
\* the window is over, however the executions overlap, die and fail.
THEOREM RowsRight == Spec => []RowsCountTheirWindow
<1>1. IInv => RowsCountTheirWindow
  <2> SUFFICES ASSUME IInv, NEW k \in Keys, NEW r \in posts, r.n \in agg[k]
               PROVE  /\ r.server = k[1] /\ k[2] \in r.series
                      /\ r.at \div Width = k[3] \div Width
                      /\ now >= k[3] + Width
    BY DEF RowsCountTheirWindow
  <2>1. TypeOK /\ Numbered /\ Rows
    BY DEF IInv, World
  <2>2. r.n \in InWindow(k[1], k[2], k[3])
    BY <2>1 DEF Rows, RowsStored
  <2>3. /\ r.server = k[1] /\ k[2] \in r.series /\ Inside(r.at, k[3], Width)
    <3>1. PICK q \in posts : /\ q.n = r.n /\ q.stored /\ q.server = k[1]
                             /\ k[2] \in q.series /\ Inside(q.at, k[3], Width)
      BY <2>2, InWindowMember
    <3>2. q = r
      BY <3>1, <2>1 DEF Numbered
    <3> QED
      BY <3>1, <3>2
  <2>4. k[3] \in Starts
    BY KeyIsTriple
  <2>5. PICK j \in 0 .. MaxTime \div Width - 1 : k[3] = j * Width
    BY <2>4 DEF Starts
  <2>6. k[3] \in Int /\ j \in Int /\ r.at \in Int /\ Width \in Nat \ {0} /\ now \in Int
    BY <2>1, <2>4, StartsAreInstants, ConstantsAssumption DEF TypeOK, PostRecord
  <2>7. r.at \div Width = k[3] \div Width
    BY <2>3, <2>5, <2>6, QuotientOfWindow
  <2>8. k[3] + Width <= now
    BY <2>1 DEF Rows, RowsOver
  <2> QED
    BY <2>3, <2>6, <2>7, <2>8
<1> QED
  BY <1>1, Invariant, PTL

\* What was stored when an execution began is in the rows of every server it has
\* gone through.
THEOREM ServedRight == Spec => []ServedIsCounted
<1>1. IInv => ServedIsCounted
  <2> SUFFICES ASSUME IInv, ~overlapped, NEW p \in Passes, At(p, "next"),
                      NEW r \in posts, r.stored, r.n \in pass[p].due,
                      r.server \in pass[p].served, NEW x \in r.series
               PROVE  r.n \in agg[<<r.server, x, pass[p].start>>]
    BY DEF ServedIsCounted
  <2>1. ServedCounted(p)
    BY DEF IInv, PassInv
  <2>2. x \in Series
    BY DEF IInv, World, TypeOK, PostRecord, Series
  <2>3. r.n \in Owed(p, r.server, x)
    BY OwedMember
  <2> QED
    BY <2>1, <2>2, <2>3 DEF ServedCounted
<1> QED
  BY <1>1, Invariant, PTL

\* A row that is replaced has every sample it had: only an overlap of two executions
\* for one window, or the deletion of the server, takes one away.
LEMMA RowsGrow ==
    ASSUME IInv, [Next]_vars, ~overlapped', NEW k \in Keys
    PROVE  agg[k] \subseteq agg'[k] \/ k[1] \notin servers'
<1>a. TypeOK /\ agg \in [Keys -> SUBSET Nat]
  BY DEF IInv, World, TypeOK
<1>b. k[1] \in Servers /\ k[2] \in Series /\ k = <<k[1], k[2], k[3]>>
  BY KeyIsTriple
<1>1. CASE UNCHANGED agg
  BY <1>1
<1>2. CASE \E s \in Servers : DeleteServer(s)
  <2>1. PICK s \in Servers : DeleteServer(s)
    BY <1>2
  <2>2. /\ servers' = servers \ {s}
        /\ agg' = [i \in Keys |-> IF i[1] = s THEN {} ELSE agg[i]]
    BY <2>1 DEF DeleteServer
  <2> QED
    BY <2>2
<1>3. ASSUME NEW p \in Passes, WriteSystem(p), This(p) \in servers
      PROVE  agg[k] \subseteq agg'[k]
  <2>1. /\ pass[p].pc = "write system" /\ Unchanged
        /\ agg' = [agg EXCEPT ![<<This(p), "host", pass[p].start>>] = pass[p].read]
    BY <1>a, <1>3, WriteSystemEffect
  <2>2. pass[p].server = {This(p)} /\ NothingForgotten(p) /\ pass[p].read \in SUBSET Nat
    BY <2>1, <1>a, LoopServer, PassFields DEF IInv, PassInv
  <2>3. InHand(p, "host", pass[p].read) /\ "host" \in Series /\ ~overlapped
    BY <2>1 DEF InHand, At, Series, Unchanged
  <2>4. agg[<<This(p), "host", pass[p].start>>] \subseteq pass[p].read
    BY <2>2, <2>3, <1>3 DEF NothingForgotten
  <2> QED
    BY <2>1, <2>4, <1>a
<1>4. ASSUME NEW p \in Passes, CommitDocker(p)
      PROVE  agg[k] \subseteq agg'[k]
  <2>1. Unchanged /\ pass[p].pc = "docker"
    BY <1>a, <1>4, CommitDockerEffect
  <2>2. CASE agg'[k] # agg[k]
    <3>1. /\ pass[p].server = {k[1]} /\ k[3] = pass[p].start
          /\ \E row \in pass[p].dirty : row.series = k[2] /\ agg'[k] = row.read
      BY <1>a, <1>4, <2>2, CommitDockerEffect
    <3>2. PICK row \in pass[p].dirty : row.series = k[2] /\ agg'[k] = row.read
      BY <3>1
    <3>3. InHand(p, k[2], row.read) /\ row.read \in SUBSET Nat
      BY <3>2, <1>a, PassFields DEF InHand
    <3>4. Shape(p) /\ NothingForgotten(p)
      BY DEF IInv, PassInv
    <3>5. k[1] \in servers /\ ~overlapped
      BY <3>1, <3>2, <3>4, <2>1 DEF Shape, Unchanged
    <3>6. agg[<<k[1], k[2], pass[p].start>>] \subseteq row.read
      BY <3>1, <3>3, <3>4, <3>5, <1>b DEF NothingForgotten
    <3> QED
      BY <3>1, <3>2, <3>6, <1>b
  <2> QED
    BY <2>2
<1>5. \/ UNCHANGED agg
      \/ \E s \in Servers : DeleteServer(s)
      \/ \E p \in Passes : WriteSystem(p) /\ This(p) \in servers
      \/ \E p \in Passes : CommitDocker(p)
  <2>1. \A p \in Passes : Step(p) =>
           UNCHANGED agg \/ (WriteSystem(p) /\ This(p) \in servers) \/ CommitDocker(p)
    BY DEF Step, NextServer, End, WriteSystem, ListContainers, ReadDocker, WriteDocker,
           BreakDeadlock
  <2>2. CASE Tick \/ UNCHANGED vars
    BY <2>2 DEF Tick, vars
  <2>3. ASSUME NEW s \in Servers, Post(s) \/ DeleteServer(s)
        PROVE  UNCHANGED agg \/ DeleteServer(s)
    BY <2>3 DEF Post
  <2>4. ASSUME NEW r \in posts, CommitPost(r) PROVE UNCHANGED agg
    BY <2>4 DEF CommitPost
  <2>5. ASSUME NEW p \in Passes, Start(p) \/ Crash(p) PROVE UNCHANGED agg
    BY <2>5 DEF Start, Crash
  <2> QED
    BY <2>1, <2>2, <2>3, <2>4, <2>5 DEF Next
<1> QED
  BY <1>1, <1>2, <1>3, <1>4, <1>5

THEOREM RowsOnlyGrowing == Spec => RowsOnlyGrow
<1>1. IInv /\ [Next]_vars =>
        (~overlapped' => \A k \in Keys : agg[k] \subseteq agg'[k] \/ k[1] \notin servers')
  BY RowsGrow
<1>2. IInv /\ [Next]_vars =>
        [~overlapped' => \A k \in Keys : agg[k] \subseteq agg'[k] \/ k[1] \notin servers']_vars
  BY <1>1
<1> QED
  BY <1>2, Invariant, PTL DEF Spec, RowsOnlyGrow

----------------------------------------------------------------------------
(* Every execution comes nearer to its end. *)

\* Work, of the record of an execution.
PerServer == 4 + 2 * Cardinality(Containers)
Rest(r) ==
    CASE r.pc = "next" -> 1
      [] r.pc = "write system" -> 4 + 2 * Cardinality(Containers)
      [] r.pc = "containers" -> 3 + 2 * Cardinality(Containers)
      [] r.pc = "write docker" -> 3 + 2 * Cardinality(r.names)
      [] r.pc = "docker" -> 2 + 2 * Cardinality(r.names)
WorkOf(r) == IF r.pc = "idle" THEN 0 ELSE Cardinality(r.todo) * PerServer + Rest(r)

\* What it is made of.
LEMMA RestOf ==
    ASSUME NEW r
    PROVE  /\ r.pc = "next" => Rest(r) = 1
           /\ r.pc = "write system" => Rest(r) = 4 + 2 * Cardinality(Containers)
           /\ r.pc = "containers" => Rest(r) = 3 + 2 * Cardinality(Containers)
           /\ r.pc = "write docker" => Rest(r) = 3 + 2 * Cardinality(r.names)
           /\ r.pc = "docker" => Rest(r) = 2 + 2 * Cardinality(r.names)
  BY DEF Rest

LEMMA Counts ==
    ASSUME NEW r \in PassRecord
    PROVE  /\ IsFiniteSet(r.todo) /\ Cardinality(r.todo) \in Nat
           /\ IsFiniteSet(r.names) /\ Cardinality(r.names) \in Nat
           /\ Cardinality(Containers) \in Nat
           /\ Cardinality(r.names) <= Cardinality(Containers)
<1>1. r.todo \subseteq Servers /\ r.names \subseteq Containers
  BY DEF PassRecord
<1>2. IsFiniteSet(Servers) /\ IsFiniteSet(Containers)
  BY ConstantsAssumption
<1>3. /\ IsFiniteSet(r.todo) /\ IsFiniteSet(r.names)
      /\ Cardinality(r.names) <= Cardinality(Containers)
  BY <1>1, <1>2, FS_Subset
<1> QED
  BY <1>2, <1>3, FS_CardinalityType

\* Whatever the statement, there is something left of it.
LEMMA RestIsLeft ==
    ASSUME NEW r \in PassRecord, r.pc # "idle"
    PROVE  Rest(r) \in Nat /\ Rest(r) >= 1 /\ (r.pc # "next" => Rest(r) > 1)
<1>1. Cardinality(r.names) \in Nat /\ Cardinality(Containers) \in Nat
  BY Counts
<1>2. r.pc \in Statements
  BY DEF PassRecord
<1>3. CASE r.pc = "next"
  <2>1. Rest(r) = 1
    BY <1>3, RestOf
  <2> QED
    BY <1>3, <2>1
<1>4. CASE r.pc = "write system"
  <2>1. Rest(r) = 4 + 2 * Cardinality(Containers)
    BY <1>4, RestOf
  <2> QED
    BY <1>1, <2>1
<1>5. CASE r.pc = "containers"
  <2>1. Rest(r) = 3 + 2 * Cardinality(Containers)
    BY <1>5, RestOf
  <2> QED
    BY <1>1, <2>1
<1>6. CASE r.pc = "write docker"
  <2>1. Rest(r) = 3 + 2 * Cardinality(r.names)
    BY <1>6, RestOf
  <2> QED
    BY <1>1, <2>1
<1>7. CASE r.pc = "docker"
  <2>1. Rest(r) = 2 + 2 * Cardinality(r.names)
    BY <1>7, RestOf
  <2> QED
    BY <1>1, <2>1
<1> QED
  BY <1>2, <1>3, <1>4, <1>5, <1>6, <1>7 DEF Statements

\* Work is that of the execution's record.
LEMMA WorkIsOfRecord ==
    ASSUME NEW p, pass[p] \in PassRecord, pass'[p] \in PassRecord
    PROVE  Work(p) = WorkOf(pass[p]) /\ Work(p)' = WorkOf(pass'[p])
<1>1. pass[p].pc \in {"idle"} \cup Statements /\ pass'[p].pc \in {"idle"} \cup Statements
  BY DEF PassRecord
<1>2. Work(p) = WorkOf(pass[p])
  <2>1. CASE pass[p].pc = "idle"
    BY <2>1 DEF Work, WorkOf, Busy
  <2>2. CASE pass[p].pc = "next"
    BY <2>2 DEF Work, WorkOf, Rest, PerServer, At, Busy
  <2>3. CASE pass[p].pc = "write system"
    BY <2>3 DEF Work, WorkOf, Rest, PerServer, At, Busy
  <2>4. CASE pass[p].pc = "containers"
    BY <2>4 DEF Work, WorkOf, Rest, PerServer, At, Busy
  <2>5. CASE pass[p].pc = "write docker"
    BY <2>5 DEF Work, WorkOf, Rest, PerServer, At, Busy
  <2>6. CASE pass[p].pc = "docker"
    BY <2>6 DEF Work, WorkOf, Rest, PerServer, At, Busy
  <2> QED
    BY <1>1, <2>1, <2>2, <2>3, <2>4, <2>5, <2>6 DEF Statements
<1>3. Work(p)' = WorkOf(pass'[p])
  <2>1. CASE pass'[p].pc = "idle"
    BY <2>1 DEF Work, WorkOf, Busy
  <2>2. CASE pass'[p].pc = "next"
    BY <2>2 DEF Work, WorkOf, Rest, PerServer, At, Busy
  <2>3. CASE pass'[p].pc = "write system"
    BY <2>3 DEF Work, WorkOf, Rest, PerServer, At, Busy
  <2>4. CASE pass'[p].pc = "containers"
    BY <2>4 DEF Work, WorkOf, Rest, PerServer, At, Busy
  <2>5. CASE pass'[p].pc = "write docker"
    BY <2>5 DEF Work, WorkOf, Rest, PerServer, At, Busy
  <2>6. CASE pass'[p].pc = "docker"
    BY <2>6 DEF Work, WorkOf, Rest, PerServer, At, Busy
  <2> QED
    BY <1>1, <2>1, <2>2, <2>3, <2>4, <2>5, <2>6 DEF Statements
<1> QED
  BY <1>2, <1>3

\* With the same list, less of the rest is less work.
LEMMA LessRest ==
    ASSUME NEW r \in PassRecord, NEW w \in PassRecord, w.todo = r.todo,
           r.pc # "idle", w.pc # "idle", Rest(w) < Rest(r)
    PROVE  WorkOf(w) < WorkOf(r)
<1> DEFINE done == Cardinality(r.todo) * PerServer
<1>1. done \in Nat
  <2>1. Cardinality(r.todo) \in Nat /\ PerServer \in Nat
    BY Counts DEF PerServer
  <2>2. \A i, j \in Nat : i * j \in Nat
    OBVIOUS
  <2> QED
    BY <2>1, <2>2
<1>2. WorkOf(r) = done + Rest(r)
  BY DEF WorkOf
<1>3. WorkOf(w) = done + Rest(w)
  BY DEF WorkOf
<1>4. Rest(r) \in Nat /\ Rest(w) \in Nat
  BY RestIsLeft
<1> HIDE DEF done
<1> QED
  BY <1>1, <1>2, <1>3, <1>4

\* An end and a death leave nothing to do.
LEMMA IdleIsLess ==
    ASSUME NEW r \in PassRecord, r.pc # "idle"
    PROVE  WorkOf(Idle) < WorkOf(r)
<1>1. Rest(r) \in Nat /\ Rest(r) >= 1
  BY RestIsLeft
<1>2. Cardinality(r.todo) * PerServer \in Nat
  <2>1. Cardinality(r.todo) \in Nat /\ PerServer \in Nat
    BY Counts DEF PerServer
  <2>2. \A i, j \in Nat : i * j \in Nat
    OBVIOUS
  <2> QED
    BY <2>1, <2>2
<1>3. WorkOf(r) = Cardinality(r.todo) * PerServer + Rest(r) /\ WorkOf(Idle) = 0
  BY IdleIsRecord DEF WorkOf
<1> QED
  BY <1>1, <1>2, <1>3

\* A server taken from the list brings less than what the list loses.
LEMMA OneServerLess ==
    ASSUME NEW r \in PassRecord, NEW w \in PassRecord, w.pc # "idle", r.pc # "idle",
           Cardinality(w.todo) = Cardinality(r.todo) - 1,
           Rest(r) = 1, Rest(w) <= PerServer
    PROVE  WorkOf(w) < WorkOf(r)
<1> DEFINE n == Cardinality(r.todo)
           all == n * PerServer
           others == (n - 1) * PerServer
<1>1. n \in Nat /\ Cardinality(Containers) \in Nat
  BY Counts
<1>2. PerServer \in Nat
  BY <1>1 DEF PerServer
<1>3. Rest(w) \in Nat
  BY RestIsLeft
<1>4. others = all - PerServer /\ all \in Int
  <2>1. \A i, j \in Int : (i - 1) * j = i * j - j /\ i * j \in Int
    OBVIOUS
  <2> HIDE DEF n
  <2> QED
    BY <2>1, <1>1, <1>2
<1>5. WorkOf(r) = all + 1
  BY DEF WorkOf
<1>6. WorkOf(w) = others + Rest(w)
  BY DEF WorkOf
<1> HIDE DEF all, others
<1> QED
  BY <1>2, <1>3, <1>4, <1>5, <1>6

\* A failed statement, a server done, and a commit.
LEMMA LeavingIsLess ==
    ASSUME TypeOK, NEW p \in Passes, pass' \in [Passes -> PassRecord],
           LeavesServer(p), pass[p].pc \notin {"idle", "next"}
    PROVE  WorkOf(pass'[p]) < WorkOf(pass[p])
<1>1. pass[p] \in PassRecord /\ pass'[p] \in PassRecord
  BY PassFields
<1>2. /\ pass'[p].pc = "next" /\ pass'[p].todo = pass[p].todo
      /\ pass[p].pc \in Statements \ {"next"}
  BY PassFields DEF LeavesServer
<1>3. Rest(pass'[p]) = 1
  BY <1>2, RestOf
<1>4. Rest(pass[p]) > 1
  BY <1>1, RestIsLeft
<1> QED
  BY <1>1, <1>2, <1>3, <1>4, LessRest

\* Each statement of an execution, also one that is refused.
LEMMA StepIsLess ==
    ASSUME IInv, NEW p \in Passes, Step(p) \/ Crash(p)
    PROVE  /\ pass' \in [Passes -> PassRecord] /\ OthersRest(p)
           /\ WorkOf(pass'[p]) < WorkOf(pass[p])
<1>a. TypeOK /\ pass[p] \in PassRecord
  BY PassFields DEF IInv, World
<1>b. pass[p].pc # "idle" => Shape(p)
  BY DEF IInv, PassInv
<1>c. ASSUME pass' \in [Passes -> PassRecord] PROVE pass'[p] \in PassRecord
  BY <1>c
<1>1. CASE NextServer(p)
  <2>1. /\ pass' \in [Passes -> PassRecord] /\ OthersRest(p) /\ pass[p].pc = "next"
        /\ pass'[p].pc \in {"next", "containers", "write system"}
        /\ \E s \in pass[p].todo : pass'[p].todo = pass[p].todo \ {s}
    BY <1>1, <1>a, NextServerEffect
  <2>2. Cardinality(pass'[p].todo) = Cardinality(pass[p].todo) - 1
    <3>1. PICK s \in pass[p].todo : pass'[p].todo = pass[p].todo \ {s}
      BY <2>1
    <3>2. Cardinality(pass[p].todo \ {s}) = Cardinality(pass[p].todo) - 1
      BY <1>a, Counts, FS_RemoveElement
    <3> QED
      BY <3>1, <3>2
  <2>3. Cardinality(Containers) \in Nat
    BY <1>a, Counts
  <2>4. Rest(pass[p]) = 1 /\ Rest(pass'[p]) \in {1, 3 + 2 * Cardinality(Containers),
                                                 4 + 2 * Cardinality(Containers)}
    BY <2>1, RestOf
  <2>5. Rest(pass'[p]) <= PerServer
    BY <2>3, <2>4 DEF PerServer
  <2> QED
    BY <2>1, <2>2, <2>4, <2>5, <1>a, <1>c, OneServerLess
<1>2. CASE End(p) \/ Crash(p)
  <2>1. /\ pass' \in [Passes -> PassRecord] /\ OthersRest(p) /\ pass'[p] = Idle /\ Busy(p)
    BY <1>2, <1>a, EndEffect, CrashEffect
  <2> QED
    BY <2>1, <1>a, IdleIsLess DEF Busy
<1>3. CASE WriteSystem(p) /\ This(p) \in servers
  <2>1. /\ pass' \in [Passes -> PassRecord] /\ OthersRest(p)
        /\ pass[p].pc = "write system" /\ pass'[p].pc = "containers"
        /\ pass'[p].todo = pass[p].todo
    BY <1>3, <1>a, WriteSystemEffect DEF SameWork
  <2>2. Cardinality(Containers) \in Nat
    BY <1>a, Counts
  <2>3. /\ Rest(pass[p]) = 4 + 2 * Cardinality(Containers)
        /\ Rest(pass'[p]) = 3 + 2 * Cardinality(Containers)
    BY <2>1, RestOf
  <2>4. Rest(pass'[p]) < Rest(pass[p])
    BY <2>2, <2>3
  <2> QED
    BY <2>1, <2>4, <1>a, <1>c, LessRest
<1>4. CASE \/ WriteSystem(p) /\ This(p) \notin servers
           \/ BreakDeadlock(p) \/ (WriteDocker(p) /\ This(p) \notin servers)
  <2>1. Fail(p) /\ pass[p].pc \in {"write system", "write docker"}
    BY <1>4, WriteSystemFails, DockerFails
  <2>2. pass' \in [Passes -> PassRecord] /\ OthersRest(p) /\ LeavesServer(p)
    BY <2>1, <1>a, FailEffect
  <2> QED
    BY <2>1, <2>2, <1>a, LeavingIsLess
<1>5. CASE ListContainers(p)
  <2>1. CASE pass' = Served(p)
    <3>1. pass' \in [Passes -> PassRecord] /\ OthersRest(p) /\ LeavesServer(p)
      BY <2>1, <1>a, ServedEffect
    <3>2. pass[p].pc = "containers"
      BY <1>5, <1>a, ListContainersEffect
    <3> QED
      BY <3>1, <3>2, <1>a, LeavingIsLess
  <2>2. CASE pass' # Served(p)
    <3>1. /\ pass' \in [Passes -> PassRecord] /\ OthersRest(p)
          /\ pass[p].pc = "containers" /\ pass'[p].pc = "docker"
          /\ pass'[p].todo = pass[p].todo
      BY <1>5, <2>2, <1>a, ListContainersEffect DEF SameWork
    <3>2. /\ Cardinality(Containers) \in Nat /\ Cardinality(pass'[p].names) \in Nat
          /\ Cardinality(pass'[p].names) <= Cardinality(Containers)
      BY <3>1, <1>c, Counts
    <3>3. /\ Rest(pass[p]) = 3 + 2 * Cardinality(Containers)
          /\ Rest(pass'[p]) = 2 + 2 * Cardinality(pass'[p].names)
      BY <3>1, RestOf
    <3>4. Rest(pass'[p]) < Rest(pass[p])
      BY <3>2, <3>3
    <3> QED
      BY <3>1, <3>4, <1>a, <1>c, LessRest
  <2> QED
    BY <2>1, <2>2
<1>6. CASE ReadDocker(p)
  <2>1. /\ pass' \in [Passes -> PassRecord] /\ OthersRest(p)
        /\ pass[p].pc = "docker" /\ pass'[p].pc \in {"docker", "write docker"}
        /\ pass'[p].todo = pass[p].todo
        /\ \E x \in pass[p].names : pass'[p].names = pass[p].names \ {x}
    BY <1>6, <1>a, ReadDockerEffect DEF SameWork
  <2>2. /\ IsFiniteSet(pass[p].names) /\ Cardinality(pass[p].names) \in Nat
        /\ Cardinality(pass'[p].names) \in Nat
    BY <2>1, <1>a, <1>c, Counts
  <2>3. Cardinality(pass'[p].names) = Cardinality(pass[p].names) - 1
    <3>1. PICK x \in pass[p].names : pass'[p].names = pass[p].names \ {x}
      BY <2>1
    <3>2. Cardinality(pass[p].names \ {x}) = Cardinality(pass[p].names) - 1
      BY <2>2, FS_RemoveElement
    <3> QED
      BY <3>1, <3>2
  <2>4. /\ Rest(pass[p]) = 2 + 2 * Cardinality(pass[p].names)
        /\ Rest(pass'[p]) \in {2 + 2 * Cardinality(pass'[p].names),
                               3 + 2 * Cardinality(pass'[p].names)}
    BY <2>1, RestOf
  <2>5. Rest(pass'[p]) < Rest(pass[p])
    BY <2>2, <2>3, <2>4
  <2> QED
    BY <2>1, <2>5, <1>a, <1>c, LessRest
<1>7. CASE WriteDocker(p) /\ This(p) \in servers
  <2>1. /\ pass' \in [Passes -> PassRecord] /\ OthersRest(p)
        /\ pass[p].pc = "write docker" /\ pass'[p].pc = "docker"
        /\ pass'[p].todo = pass[p].todo /\ pass'[p].names = pass[p].names
    BY <1>7, <1>a, WriteDockerEffect DEF SameWork
  <2>2. Cardinality(pass[p].names) \in Nat
    BY <1>a, Counts
  <2>3. /\ Rest(pass[p]) = 3 + 2 * Cardinality(pass[p].names)
        /\ Rest(pass'[p]) = 2 + 2 * Cardinality(pass[p].names)
    BY <2>1, RestOf
  <2>4. Rest(pass'[p]) < Rest(pass[p])
    BY <2>2, <2>3
  <2> QED
    BY <2>1, <2>4, <1>a, <1>c, LessRest
<1>8. CASE CommitDocker(p)
  <2>1. pass' = Served(p) /\ pass[p].pc = "docker"
    BY <1>8, <1>a, CommitDockerEffect
  <2>2. pass' \in [Passes -> PassRecord] /\ OthersRest(p) /\ LeavesServer(p)
    BY <2>1, <1>a, ServedEffect
  <2> QED
    BY <2>1, <2>2, <1>a, LeavingIsLess
<1> QED
  BY <1>1, <1>2, <1>3, <1>4, <1>5, <1>6, <1>7, <1>8 DEF Step

\* Every statement brings an execution nearer to its end, also one that fails and
\* one of two that wait for each other: none can go round for ever.
THEOREM ExecutionsNearTheEnd == Spec => EveryStepNearsTheEnd
<1>1. ASSUME IInv, [Next]_vars, NEW p \in Passes, Busy(p), pass'[p] # pass[p]
      PROVE  Work(p)' < Work(p)
  <2>1. CASE UNCHANGED pass
    BY <1>1, <2>1
  <2>2. ASSUME NEW q \in Passes, Start(q) PROVE FALSE
    <3>1. pass'[p] = pass[p] \/ p = q
      BY <2>2, <1>1, StartEffect DEF IInv, World, OthersRest
    <3>2. ~Busy(q)
      BY <2>2 DEF Start
    <3> QED
      BY <3>1, <3>2, <1>1
  <2>3. ASSUME NEW q \in Passes, Step(q) \/ Crash(q) PROVE Work(p)' < Work(p)
    <3>1. q = p
      BY <2>3, <1>1, StepIsLess DEF OthersRest
    <3>2. /\ pass' \in [Passes -> PassRecord] /\ pass \in [Passes -> PassRecord]
          /\ WorkOf(pass'[p]) < WorkOf(pass[p])
      BY <3>1, <2>3, <1>1, StepIsLess DEF IInv, World, TypeOK
    <3>3. Work(p) = WorkOf(pass[p]) /\ Work(p)' = WorkOf(pass'[p])
      BY <3>2, WorkIsOfRecord
    <3> QED
      BY <3>2, <3>3
  <2>4. Tick \/ (\E s \in Servers : Post(s) \/ DeleteServer(s)) \/ UNCHANGED vars
           \/ (\E r \in posts : CommitPost(r)) => UNCHANGED pass
    BY DEF Tick, Post, DeleteServer, CommitPost, vars
  <2> QED
    BY <2>1, <2>2, <2>3, <2>4, <1>1 DEF Next
<1>2. IInv /\ [Next]_vars =>
        [\A p \in Passes : Busy(p) /\ pass'[p] # pass[p] => Work(p)' < Work(p)]_vars
  BY <1>1
<1> QED
  BY <1>2, Invariant, PTL DEF Spec, EveryStepNearsTheEnd
===============
