-------------------------- MODULE LogIngestProofs ---------------------------
(***************************************************************************)
(* Machine-checked proofs about LogIngest, for every batch size, every set *)
(* of dashboards and every number of lines and failures.                   *)
(*                                                                         *)
(* The inductive invariant lines the table, the commit under way and the   *)
(* buffer up in the order of the line numbers, says at which stage of the  *)
(* loop each may hold something, and where each dashboard has got to.      *)
(***************************************************************************)
EXTENDS LogIngest, SequenceTheorems, TLAPS

----------------------------------------------------------------------------
(* Sequences of lines. *)

Increasing(s) == \A i, j \in DOMAIN s : i < j => s[i] < s[j]
Before(S, T) == \A x \in S, y \in T : x < y

LEMMA LinesAreInts == Lines \subseteq Int /\ Range(<<>>) = {} /\ Increasing(<<>>)
  BY ConstantsAssumption DEF Lines, Range, Increasing

LEMMA SeqFacts ==
    ASSUME NEW S, NEW s \in Seq(S)
    PROVE  /\ Len(s) \in Nat /\ DOMAIN s = 1 .. Len(s)
           /\ Range(s) \subseteq S /\ \A i \in DOMAIN s : s[i] \in Range(s)
           /\ s # <<>> => Len(s) \in DOMAIN s /\ Range(s) # {}
           /\ s = <<>> => Len(s) = 0 /\ Range(s) = {}
<1>1. Len(s) \in Nat /\ DOMAIN s = 1 .. Len(s) /\ \A i \in DOMAIN s : s[i] \in S
  BY LenProperties
<1>2. s # <<>> => Len(s) \in Nat \ {0}
  BY EmptySeq
<1>3. s = <<>> => Len(s) = 0
  BY EmptySeq
<1> QED
  BY <1>1, <1>2, <1>3, LinesAreInts DEF Range

LEMMA SizedSeqs ==
    ASSUME NEW n \in Nat, NEW s
    PROVE  s \in SeqUpTo(n) <=> s \in Seq(Lines) /\ Len(s) <= n
<1>1. ASSUME s \in SeqUpTo(n) PROVE s \in Seq(Lines) /\ Len(s) <= n
  <2>1. PICK m \in 0 .. n : s \in [1 .. m -> Lines]
    BY <1>1 DEF SeqUpTo
  <2>2. m \in Nat /\ s \in Seq(Lines)
    BY <2>1, SeqDef
  <2>3. 1 .. Len(s) = 1 .. m /\ Len(s) \in Nat
    BY <2>1, <2>2, LenProperties
  <2>4. Len(s) = m
    BY <2>2, <2>3
  <2> QED
    BY <2>1, <2>2, <2>4
<1>2. ASSUME s \in Seq(Lines), Len(s) <= n PROVE s \in SeqUpTo(n)
  BY <1>2, LenProperties DEF SeqUpTo
<1> QED
  BY <1>1, <1>2

\* A line that comes after all the others.
LEMMA AppendLine ==
    ASSUME NEW s \in Seq(Lines), NEW x \in Lines
    PROVE  /\ Append(s, x) \in Seq(Lines) /\ Len(Append(s, x)) = Len(s) + 1
           /\ Append(s, x) # <<>> /\ Append(s, x)[Len(s) + 1] = x
           /\ \A i \in DOMAIN s : Append(s, x)[i] = s[i]
           /\ Range(Append(s, x)) = Range(s) \cup {x}
           /\ Increasing(s) /\ Before(Range(s), {x}) => Increasing(Append(s, x))
<1> DEFINE t == Append(s, x)
<1>1. /\ t \in Seq(Lines) /\ t # <<>> /\ Len(t) = Len(s) + 1 /\ t[Len(s) + 1] = x
      /\ \A i \in 1 .. Len(s) : t[i] = s[i]
  BY AppendProperties
<1>2. DOMAIN s = 1 .. Len(s) /\ DOMAIN t = 1 .. Len(s) + 1 /\ Len(s) \in Nat
  BY <1>1, LenProperties
<1> HIDE DEF t
<1>3. Range(t) = Range(s) \cup {x}
  BY <1>1, <1>2 DEF Range
<1>4. ASSUME Increasing(s), Before(Range(s), {x}), NEW i \in DOMAIN t, NEW j \in DOMAIN t,
             i < j
      PROVE  t[i] < t[j]
  <2>1. i \in DOMAIN s /\ t[i] = s[i] /\ s[i] \in Range(s)
    BY <1>1, <1>2, <1>4 DEF Range
  <2>2. CASE j = Len(s) + 1
    BY <1>1, <1>4, <2>1, <2>2 DEF Before
  <2>3. CASE j # Len(s) + 1
    <3>1. j \in DOMAIN s /\ t[j] = s[j]
      BY <1>1, <1>2, <2>3
    <3> QED
      BY <1>4, <2>1, <3>1 DEF Increasing
  <2> QED
    BY <2>2, <2>3
<1>5. Increasing(s) /\ Before(Range(s), {x}) => Increasing(t)
  BY <1>4 DEF Increasing
<1> QED
  BY <1>1, <1>2, <1>3, <1>5 DEF t

\* A batch goes to the end of the table.
LEMMA ConcatLines ==
    ASSUME NEW s \in Seq(Lines), NEW t \in Seq(Lines)
    PROVE  /\ s \o t \in Seq(Lines) /\ Range(s \o t) = Range(s) \cup Range(t)
           /\ Increasing(s) /\ Increasing(t) /\ Before(Range(s), Range(t))
                => Increasing(s \o t)
<1> DEFINE u == s \o t
<1>1. /\ u \in Seq(Lines) /\ Len(u) = Len(s) + Len(t)
      /\ \A i \in 1 .. Len(s) + Len(t) :
            u[i] = IF i <= Len(s) THEN s[i] ELSE t[i - Len(s)]
  BY ConcatProperties
<1>2. /\ DOMAIN s = 1 .. Len(s) /\ DOMAIN t = 1 .. Len(t) /\ DOMAIN u = 1 .. Len(u)
      /\ Len(s) \in Nat /\ Len(t) \in Nat
  BY <1>1, LenProperties
<1> HIDE DEF u
<1>3. \A i \in DOMAIN u :
         IF i <= Len(s) THEN i \in DOMAIN s /\ u[i] = s[i]
         ELSE i - Len(s) \in DOMAIN t /\ u[i] = t[i - Len(s)]
  BY <1>1, <1>2
<1>4. Range(u) = Range(s) \cup Range(t)
  <2>1. Range(u) \subseteq Range(s) \cup Range(t)
    BY <1>3 DEF Range
  <2>2. ASSUME NEW i \in DOMAIN s PROVE s[i] \in Range(u)
    BY <1>1, <1>2 DEF Range
  <2>3. ASSUME NEW j \in DOMAIN t PROVE t[j] \in Range(u)
    <3>1. Len(s) + j \in DOMAIN u /\ u[Len(s) + j] = t[j]
      BY <1>1, <1>2
    <3> QED
      BY <3>1 DEF Range
  <2> QED
    BY <2>1, <2>2, <2>3 DEF Range
<1>5. ASSUME Increasing(s), Increasing(t), Before(Range(s), Range(t)),
             NEW i \in DOMAIN u, NEW j \in DOMAIN u, i < j
      PROVE  u[i] < u[j]
  <2>1. i \in Nat /\ j \in Nat
    BY <1>1, <1>2
  <2>2. CASE j <= Len(s)
    BY <1>2, <1>3, <1>5, <2>1, <2>2 DEF Increasing
  <2>3. CASE i <= Len(s) /\ ~(j <= Len(s))
    BY <1>3, <1>5, <2>3 DEF Before, Range
  <2>4. CASE ~(i <= Len(s))
    <3>1. /\ i - Len(s) \in DOMAIN t /\ u[i] = t[i - Len(s)]
          /\ j - Len(s) \in DOMAIN t /\ u[j] = t[j - Len(s)]
          /\ i - Len(s) < j - Len(s)
      BY <1>2, <1>3, <1>5, <2>1, <2>4
    <3> QED
      BY <1>5, <3>1 DEF Increasing
  <2> QED
    BY <2>2, <2>3, <2>4
<1>6. Increasing(s) /\ Increasing(t) /\ Before(Range(s), Range(t)) => Increasing(u)
  BY <1>5 DEF Increasing
<1> QED
  BY <1>1, <1>4, <1>6 DEF u

\* The oldest n lines go.
LEMMA DropLines ==
    ASSUME NEW s \in Seq(Lines), NEW n \in 1 .. Len(s)
    PROVE  LET rest == SubSeq(s, n + 1, Len(s))
               old == {s[i] : i \in 1 .. n}
           IN  /\ rest \in Seq(Lines) /\ Range(s) = old \cup Range(rest)
               /\ Increasing(s) => Increasing(rest) /\ Before(old, Range(rest))
<1> DEFINE rest == SubSeq(s, n + 1, Len(s))
           old == {s[i] : i \in 1 .. n}
<1>1. Len(s) \in Nat /\ DOMAIN s = 1 .. Len(s) /\ \A i \in DOMAIN s : s[i] \in Lines
  BY LenProperties
<1>2. /\ rest \in Seq(Lines) /\ Len(rest) = Len(s) - n
      /\ \A i \in 1 .. Len(s) - n : rest[i] = s[n + i]
  <2>1. n + 1 \in Int /\ Len(s) \in Int /\ \A i \in n + 1 .. Len(s) : s[i] \in Lines
    BY <1>1
  <2>2. /\ rest \in Seq(Lines)
        /\ Len(rest) = IF n + 1 <= Len(s) THEN Len(s) - (n + 1) + 1 ELSE 0
        /\ \A i \in 1 .. Len(s) - (n + 1) + 1 : rest[i] = s[n + 1 + i - 1]
    BY <2>1, SubSeqProperties
  <2> HIDE DEF rest
  <2>3. Len(rest) = Len(s) - n
    <3>1. Len(rest) = IF n + 1 <= Len(s) THEN Len(s) - (n + 1) + 1 ELSE 0
      BY <2>2
    <3>2. n \in Nat /\ Len(s) \in Nat /\ n <= Len(s)
      BY <1>1
    <3>3. CASE n + 1 <= Len(s)
      BY <3>1, <3>2, <3>3
    <3>4. CASE ~(n + 1 <= Len(s))
      BY <3>1, <3>2, <3>4
    <3> QED
      BY <3>3, <3>4
  <2>4. ASSUME NEW i \in 1 .. Len(s) - n PROVE rest[i] = s[n + i]
    <3>1. i \in 1 .. Len(s) - (n + 1) + 1 /\ n + 1 + i - 1 = n + i
      BY <1>1
    <3> QED
      BY <2>2, <3>1
  <2> QED
    BY <2>2, <2>3, <2>4
<1>3. DOMAIN rest = 1 .. Len(s) - n
  BY <1>2, LenProperties
<1> HIDE DEF rest
<1>4. \A i \in DOMAIN rest : n + i \in DOMAIN s /\ rest[i] = s[n + i] /\ i \in Nat
  BY <1>1, <1>2, <1>3
<1>5. Range(s) = old \cup Range(rest)
  <2>1. old \cup Range(rest) \subseteq Range(s)
    BY <1>1, <1>4 DEF Range
  <2>2. ASSUME NEW i \in DOMAIN s PROVE s[i] \in old \cup Range(rest)
    <3>1. CASE i <= n
      BY <1>1, <3>1
    <3>2. CASE ~(i <= n)
      <4>1. i - n \in DOMAIN rest /\ rest[i - n] = s[i]
        BY <1>1, <1>2, <1>3, <3>2
      <4> QED
        BY <4>1 DEF Range
    <3> QED
      BY <3>1, <3>2
  <2> QED
    BY <2>1, <2>2 DEF Range
<1>6. ASSUME Increasing(s) PROVE Increasing(rest) /\ Before(old, Range(rest))
  <2>1. Increasing(rest)
    BY <1>4, <1>6 DEF Increasing
  <2>2. ASSUME NEW i \in 1 .. n, NEW j \in DOMAIN rest PROVE s[i] < rest[j]
    BY <1>1, <1>3, <1>4, <1>6 DEF Increasing
  <2> QED
    BY <2>1, <2>2 DEF Before, Range
<1> QED
  BY <1>2, <1>5, <1>6 DEF rest

----------------------------------------------------------------------------
(* Type correctness. *)

\* Where the loop stands and what may be under way there.
Stages ==
    /\ receiver = "waiting" => Len(buffer) < BatchSize
    /\ receiver = "sending" => received \in Lines
    /\ receiver # "sending" => targets = {}
    /\ batch["receiver"] # <<>> => buffer = <<>> /\ receiver \in {"flush", "final"}
    /\ batch["flusher"] # <<>> => flusher = "flush"
    /\ batch["receiver"] = <<>> \/ batch["flusher"] = <<>>

Shaped == TypeOK /\ Stages

\* What the proofs use of the type invariant.
LEMMA Typed ==
    ASSUME TypeOK
    PROVE  /\ received \in Nat /\ received <= MaxLines
           /\ buffer \in Seq(Lines) /\ Len(buffer) \in Nat /\ Len(buffer) <= BatchSize
           /\ batch \in [Coroutines -> SeqUpTo(BatchSize)]
           /\ \A who \in Coroutines : batch[who] \in Seq(Lines)
           /\ rows \in Seq(Lines)
  BY SizedSeqs, SeqFacts, ConstantsAssumption DEF TypeOK

LEMMA EmptySized == <<>> \in SeqUpTo(BatchSize) /\ <<>> \in Seq(Lines) /\ Len(<<>>) = 0
<1>1. <<>> \in Seq(Lines) /\ Len(<<>>) = 0
  BY EmptySeq
<1>2. BatchSize \in Nat /\ 0 <= BatchSize
  BY ConstantsAssumption
<1> QED
  BY <1>1, <1>2, SizedSeqs

\* One lemma per action; the type invariant needs the stages, and the stages it.
LEMMA ReceiveShaped == Shaped /\ Receive => Shaped'
<1> SUFFICES ASSUME Shaped, Receive PROVE Shaped'
  OBVIOUS
<1>1. received' = received + 1 /\ received' \in 0 .. MaxLines /\ received' \in Lines
  BY Typed, ConstantsAssumption DEF Shaped, Receive, Lines
<1>2. /\ buffer' = Append(buffer, received') /\ Len(buffer) < BatchSize
      /\ receiver = "waiting" /\ receiver' = "sending"
      /\ targets' = subs /\ failed' = {}
      /\ UNCHANGED <<flusher, batch, rows, lost, pruned, stale, cut, server, failures,
                     subs, dash, shown>>
  BY DEF Receive, Shaped, Stages, store, sockets
<1>3. buffer' \in Seq(Lines) /\ Len(buffer') <= BatchSize
  BY <1>1, <1>2, Typed, AppendLine, ConstantsAssumption DEF Shaped
<1>4. buffer' \in SeqUpTo(BatchSize)
  BY <1>3, SizedSeqs, ConstantsAssumption
<1>5. TypeOK'
  BY <1>1, <1>2, <1>4 DEF Shaped, TypeOK
<1>6. Stages'
  BY <1>1, <1>2 DEF Shaped, Stages
<1> QED
  BY <1>5, <1>6 DEF Shaped

LEMMA SendShaped == ASSUME Shaped, NEW d \in Dashboards, Send(d) PROVE Shaped'
<1>1. /\ receiver = "sending" /\ targets' = targets \ {d}
      /\ UNCHANGED <<received, receiver, flusher, buffer, batch, rows, lost, pruned, stale,
                     cut, server, failures, subs, dash>>
  BY DEF Send, session, store
<1>2. received \in Lines
  BY <1>1 DEF Shaped, Stages
<1>3. failed' \subseteq Dashboards
  BY DEF Send, Shaped, TypeOK
<1>4. shown' \in [Dashboards -> Seq(Lines)]
  <2>1. shown \in [Dashboards -> Seq(Lines)]
    BY DEF Shaped, TypeOK
  <2>2. Append(shown[d], received) \in Seq(Lines)
    BY <1>2, <2>1, AppendLine
  <2> QED
    BY <2>1, <2>2 DEF Send
<1>5. TypeOK'
  BY <1>1, <1>3, <1>4 DEF Shaped, TypeOK
<1>6. Stages'
  BY <1>1 DEF Shaped, Stages
<1> QED
  BY <1>5, <1>6 DEF Shaped

LEMMA EndBroadcastShaped == Shaped /\ EndBroadcast => Shaped'
<1> SUFFICES ASSUME Shaped, EndBroadcast PROVE Shaped'
  OBVIOUS
<1>1. /\ receiver = "sending" /\ targets = {} /\ subs' = subs \ failed
      /\ receiver' = IF Len(buffer) >= BatchSize THEN "flush" ELSE "waiting"
      /\ UNCHANGED <<received, flusher, buffer, batch, rows, lost, pruned, stale, cut,
                     server, failures, dash, shown, targets, failed>>
  BY DEF EndBroadcast, session, store, broadcast
<1>2. TypeOK'
  BY <1>1 DEF Shaped, TypeOK
<1>3. Stages'
  BY <1>1, Typed, ConstantsAssumption DEF Shaped, Stages
<1> QED
  BY <1>2, <1>3 DEF Shaped

\* What a flush does.
LEMMA BeginFlushEffect ==
    ASSUME Shaped, NEW who \in Coroutines, BeginFlush(who)
    PROVE  /\ UNCHANGED <<received, rows, lost, pruned, stale, cut, server, failures, subs,
                          dash, shown, targets, failed>>
           /\ Flushing(who) /\ \A w \in Coroutines : batch[w] = <<>>
           /\ \/ /\ buffer = <<>> /\ Return(who) /\ UNCHANGED <<buffer, batch>>
              \/ /\ batch' = [batch EXCEPT ![who] = buffer] /\ buffer' = <<>>
                 /\ UNCHANGED <<receiver, flusher>>
  BY DEF BeginFlush, LockFree, Cleared, store, sockets, broadcast

LEMMA FinishFlushEffect ==
    ASSUME Shaped, NEW who \in Coroutines, FinishFlush(who)
    PROVE  /\ UNCHANGED <<received, buffer, pruned, cut, server, subs, dash, shown, targets,
                          failed>>
           /\ batch[who] # <<>> /\ batch' = [batch EXCEPT ![who] = <<>>] /\ Return(who)
           /\ \/ /\ server /\ rows' = rows \o batch[who]
                 /\ UNCHANGED <<lost, stale, failures>>
              \/ /\ lost' = lost \cup Range(batch[who]) /\ stale' = TRUE /\ rows' = rows
                 /\ \/ (~server \/ cut) /\ UNCHANGED failures
                    \/ failures < MaxFailures /\ failures' = failures + 1
  BY DEF FinishFlush, Commit, Fail, sockets, broadcast

LEMMA BeginFlushShaped ==
    ASSUME Shaped, NEW who \in Coroutines, BeginFlush(who) PROVE Shaped'
<1>1. /\ UNCHANGED <<received, rows, lost, pruned, stale, cut, server, failures, subs, dash,
                     shown, targets, failed>>
      /\ Flushing(who) /\ \A w \in Coroutines : batch[w] = <<>>
  BY BeginFlushEffect
<1>2. CASE buffer = <<>> /\ Return(who) /\ UNCHANGED <<buffer, batch>>
  <2>1. TypeOK'
    BY <1>1, <1>2 DEF Shaped, TypeOK, Return, FlusherAfter
  <2>2. Len(buffer) < BatchSize
    BY <1>2, EmptySized, ConstantsAssumption
  <2>3. Stages'
    BY <1>1, <1>2, <2>2
       DEF Shaped, Stages, Return, FlusherAfter, Flushing, Coroutines
  <2> QED
    BY <2>1, <2>3 DEF Shaped
<1>3. CASE /\ batch' = [batch EXCEPT ![who] = buffer] /\ buffer' = <<>>
           /\ UNCHANGED <<receiver, flusher>>
  <2>1. /\ batch' \in [Coroutines -> SeqUpTo(BatchSize)] /\ batch'[who] = buffer
        /\ \A w \in Coroutines : w # who => batch'[w] = <<>>
    BY <1>1, <1>3 DEF Shaped, TypeOK
  <2>2. TypeOK'
    BY <1>1, <1>3, <2>1, EmptySized DEF Shaped, TypeOK
  <2>3. Len(buffer') < BatchSize
    BY <1>3, EmptySized, ConstantsAssumption
  <2>4. Stages'
    BY <1>1, <1>3, <2>1, <2>3 DEF Shaped, Stages, Flushing, Coroutines
  <2> QED
    BY <2>2, <2>4 DEF Shaped
<1> QED
  BY <1>2, <1>3, BeginFlushEffect

LEMMA FinishFlushShaped ==
    ASSUME Shaped, NEW who \in Coroutines, FinishFlush(who) PROVE Shaped'
<1>1. /\ UNCHANGED <<received, buffer, pruned, cut, server, subs, dash, shown, targets,
                     failed>>
      /\ batch[who] # <<>> /\ batch' = [batch EXCEPT ![who] = <<>>] /\ Return(who)
  BY FinishFlushEffect
<1>2. /\ batch' \in [Coroutines -> SeqUpTo(BatchSize)]
      /\ \A w \in Coroutines : batch'[w] = <<>>
  BY <1>1, EmptySized DEF Shaped, TypeOK, Stages, Coroutines
<1>3. /\ rows' \in Seq(Lines) /\ lost' \subseteq Lines
      /\ stale' \in BOOLEAN /\ failures' \in 0 .. MaxFailures
  <2>1. batch[who] \in Seq(Lines) /\ rows \in Seq(Lines)
    BY Typed DEF Shaped
  <2>2. rows \o batch[who] \in Seq(Lines) /\ Range(batch[who]) \subseteq Lines
    BY <2>1, ConcatLines, SeqFacts
  <2>3. /\ lost \subseteq Lines /\ stale \in BOOLEAN
        /\ failures \in 0 .. MaxFailures /\ MaxFailures \in Nat
    BY ConstantsAssumption DEF Shaped, TypeOK
  <2>4. CASE rows' = rows \o batch[who] /\ UNCHANGED <<lost, stale, failures>>
    BY <2>2, <2>3, <2>4
  <2>5. CASE lost' = lost \cup Range(batch[who]) /\ stale' = TRUE /\ rows' = rows
    <3>1. failures' = failures \/ (failures < MaxFailures /\ failures' = failures + 1)
      BY FinishFlushEffect
    <3>2. failures' \in 0 .. MaxFailures
      BY <2>3, <3>1
    <3> QED
      BY <2>1, <2>2, <2>3, <2>5, <3>2
  <2> QED
    BY <2>4, <2>5, FinishFlushEffect
<1>4. /\ receiver' \in {"waiting", "sending", "flush", "final", "done"}
      /\ flusher' \in {"asleep", "flush", "ended"}
  BY <1>1 DEF Return, FlusherAfter, Shaped, TypeOK
<1>5. TypeOK'
  BY <1>1, <1>2, <1>3, <1>4 DEF Shaped, TypeOK
<1>6. CASE who = "receiver"
  <2>1. buffer' = <<>> /\ Len(buffer') < BatchSize /\ receiver \in {"flush", "final"}
    BY <1>1, <1>6, EmptySized, ConstantsAssumption DEF Shaped, Stages
  <2> QED
    BY <1>1, <1>2, <1>5, <1>6, <2>1 DEF Shaped, Stages, Return, Coroutines
<1>7. CASE who # "receiver"
  BY <1>1, <1>2, <1>5, <1>7 DEF Shaped, Stages, Return, Coroutines
<1> QED
  BY <1>6, <1>7

\* What the end of the connection does with the lines under way.
LEMMA CloseEffect ==
    ASSUME Shaped, NEW lines, CloseDropping(lines)
    PROVE  /\ receiver = "waiting" /\ receiver' = "final" /\ flusher' = "ended"
           /\ batch' \in [Coroutines -> SeqUpTo(BatchSize)]
           /\ \A w \in Coroutines : batch'[w] = <<>>
           /\ batch["receiver"] = <<>>
           /\ UNCHANGED <<buffer, pruned, stale, server, failures, subs, dash, shown,
                          targets, failed>>
           /\ \/ batch["flusher"] = <<>> /\ lost' = lost \cup lines /\ UNCHANGED <<rows, cut>>
              \/ /\ batch["flusher"] # <<>> /\ cut' = TRUE
                 /\ \/ rows' = rows \o batch["flusher"] /\ lost' = lost \cup lines
                    \/ /\ lost' = lost \cup lines \cup Range(batch["flusher"])
                       /\ rows' = rows
<1>1. batch' = [batch EXCEPT !["flusher"] = <<>>] /\ receiver = "waiting"
  BY DEF CloseDropping
<1>2. batch["receiver"] = <<>>
  BY <1>1 DEF Shaped, Stages
<1>3. /\ batch' \in [Coroutines -> SeqUpTo(BatchSize)]
      /\ \A w \in Coroutines : batch'[w] = <<>>
  BY <1>1, <1>2, EmptySized DEF Shaped, TypeOK, Coroutines
<1> QED
  BY <1>1, <1>2, <1>3 DEF CloseDropping, sockets, broadcast

LEMMA CloseShaped ==
    ASSUME Shaped, NEW lines \in SUBSET Lines, CloseDropping(lines),
           received' \in 0 .. MaxLines
    PROVE  Shaped'
<1>1. batch["flusher"] \in Seq(Lines) /\ rows \in Seq(Lines)
  BY Typed DEF Shaped, Coroutines
<1>2. rows' \in Seq(Lines) /\ lost' \subseteq Lines /\ cut' \in BOOLEAN
  <2>1. rows \o batch["flusher"] \in Seq(Lines) /\ Range(batch["flusher"]) \subseteq Lines
    BY <1>1, ConcatLines, SeqFacts
  <2>2. lost \subseteq Lines /\ cut \in BOOLEAN
    BY DEF Shaped, TypeOK
  <2>3. /\ rows' = rows \/ rows' = rows \o batch["flusher"]
        /\ lost' \subseteq lost \cup lines \cup Range(batch["flusher"])
        /\ cut' = cut \/ cut' = TRUE
    BY CloseEffect
  <2> QED
    BY <1>1, <2>1, <2>2, <2>3
<1>3. TypeOK'
  BY <1>2, CloseEffect DEF Shaped, TypeOK
<1>4. Stages'
  BY CloseEffect DEF Shaped, Stages, Coroutines
<1> QED
  BY <1>3, <1>4 DEF Shaped

\* The steps around the handler touch neither the loop nor the buffer.
LEMMA AroundShaped ==
    ASSUME Shaped,
           DeleteServer \/ Prune \/ WakeFlusher
              \/ \E d \in Dashboards : Subscribe(d) \/ Leave(d) \/ Unsubscribe(d)
    PROVE  Shaped'
<1>1. rows \in Seq(Lines)
  BY Typed DEF Shaped
<1>2. CASE DeleteServer
  <2>1. Range(rows) \subseteq Lines
    BY <1>1, SeqFacts
  <2>2. TypeOK'
    BY <1>2, <2>1, EmptySized DEF DeleteServer, Shaped, TypeOK, sockets, broadcast
  <2> QED
    BY <1>2, <2>2 DEF DeleteServer, Shaped, Stages, broadcast
<1>3. CASE Prune
  <2>1. PICK n \in 1 .. Len(rows) :
          /\ rows' = SubSeq(rows, n + 1, Len(rows))
          /\ pruned' = pruned \cup {rows[i] : i \in 1 .. n}
          /\ UNCHANGED <<received, receiver, flusher, buffer, batch, lost, stale, cut,
                         server, failures, sockets, broadcast>>
    BY <1>3 DEF Prune
  <2>2. rows' \in Seq(Lines) /\ {rows[i] : i \in 1 .. n} \subseteq Lines
    BY <1>1, <2>1, DropLines, SeqFacts
  <2>3. TypeOK'
    BY <2>1, <2>2 DEF Shaped, TypeOK, sockets, broadcast
  <2> QED
    BY <2>1, <2>3 DEF Shaped, Stages, broadcast
<1>4. CASE WakeFlusher
  <2>1. TypeOK'
    BY <1>4 DEF WakeFlusher, Shaped, TypeOK, session, store, sockets, broadcast
  <2> QED
    BY <1>4, <2>1 DEF WakeFlusher, Shaped, Stages, session, broadcast
<1>5. ASSUME NEW d \in Dashboards, Subscribe(d) \/ Leave(d) \/ Unsubscribe(d)
      PROVE  Shaped'
  <2>1. /\ subs' \subseteq Dashboards
        /\ dash' \in [Dashboards -> {"new", "open", "gone", "left"}]
    BY <1>5 DEF Subscribe, Leave, Unsubscribe, Shaped, TypeOK
  <2>2. UNCHANGED <<received, receiver, flusher, buffer, batch, rows, lost, pruned, stale,
                    cut, server, failures, shown, targets, failed>>
    BY <1>5 DEF Subscribe, Leave, Unsubscribe, session, store, broadcast
  <2>3. TypeOK'
    BY <2>1, <2>2 DEF Shaped, TypeOK
  <2> QED
    BY <2>2, <2>3 DEF Shaped, Stages
<1> QED
  BY <1>2, <1>3, <1>4, <1>5

LEMMA ReceiveExpiredEffect ==
    ASSUME Shaped, ReceiveExpired
    PROVE  /\ stale /\ CloseDropping({received'})
           /\ received' = received + 1 /\ received' \in 0 .. MaxLines /\ received' \in Lines
  BY Typed, ConstantsAssumption DEF ReceiveExpired, Shaped, Lines

LEMMA NextShaped == Shaped /\ [Next]_vars => Shaped'
<1> SUFFICES ASSUME Shaped, [Next]_vars PROVE Shaped'
  OBVIOUS
<1>1. Receive \/ EndBroadcast => Shaped'
  BY ReceiveShaped, EndBroadcastShaped
<1>2. \A d \in Dashboards : Send(d) => Shaped'
  BY SendShaped
<1>3. ASSUME Disconnect PROVE Shaped'
  <2>1. CloseDropping({}) /\ received' \in 0 .. MaxLines
    BY <1>3 DEF Disconnect, Shaped, TypeOK
  <2> QED
    BY <2>1, CloseShaped
<1>4. ASSUME ReceiveExpired PROVE Shaped'
  BY <1>4, ReceiveExpiredEffect, CloseShaped
<1>5. \A who \in Coroutines : FlushStep(who) => Shaped'
  BY BeginFlushShaped, FinishFlushShaped DEF FlushStep
<1>6. UNCHANGED vars => Shaped'
  <2> SUFFICES ASSUME UNCHANGED vars PROVE Shaped'
    OBVIOUS
  <2>1. TypeOK'
    BY DEF vars, session, store, sockets, broadcast, Shaped, TypeOK
  <2> QED
    BY <2>1 DEF vars, session, store, sockets, broadcast, Shaped, Stages
<1> QED
  BY <1>1, <1>2, <1>3, <1>4, <1>5, <1>6, AroundShaped DEF Next

LEMMA InitShaped == Init => Shaped
<1> SUFFICES ASSUME Init PROVE Shaped
  OBVIOUS
<1>1. TypeOK
  <2>1. received \in 0 .. MaxLines /\ failures \in 0 .. MaxFailures
    BY ConstantsAssumption DEF Init
  <2>2. /\ batch \in [Coroutines -> SeqUpTo(BatchSize)]
        /\ shown \in [Dashboards -> Seq(Lines)]
    BY EmptySized DEF Init
  <2> QED
    BY <2>1, <2>2, EmptySized DEF Init, TypeOK
<1>2. Stages
  BY EmptySized, ConstantsAssumption DEF Init, Stages, Coroutines
<1> QED
  BY <1>1, <1>2 DEF Shaped

LEMMA AlwaysShaped == Spec => []Shaped
  BY InitShaped, NextShaped, PTL DEF Spec

\* Type correctness, and with it the bound on the batches: neither the buffer nor a
\* commit ever holds more than LOG_BATCH_MAX_SIZE lines (websocket.py:95-96).
THEOREM TypeCorrect == Spec => []TypeOK
<1>1. Shaped => TypeOK
  BY DEF Shaped
<1> QED
  BY <1>1, AlwaysShaped, PTL

----------------------------------------------------------------------------
(* The order of the lines. *)

\* The table, the commit under way and the buffer follow each other.
LineOrder ==
    /\ Increasing(rows) /\ Increasing(buffer)
    /\ \A who \in Coroutines : Increasing(batch[who])
    /\ Before(Range(rows), Range(buffer))
    /\ \A who \in Coroutines : /\ Before(Range(rows), Range(batch[who]))
                               /\ Before(Range(batch[who]), Range(buffer))

\* Where the lines received are.
Held == Range(buffer) \cup Range(batch["receiver"]) \cup Range(batch["flusher"])
            \cup Range(rows)
Accounted ==
    /\ Held \cup lost \cup pruned = 1 .. received
    /\ Held \cap lost = {} /\ Held \cap pruned = {} /\ lost \cap pruned = {}

\* A line is lost, and the session expired, only by a failure, a cancellation or a deletion.
Blame == stale \/ lost # {} => failures > 0 \/ cut \/ ~server

\* A line grows too old only after every older one has gone.
OldestFirst == \A p \in pruned : 1 .. p \subseteq pruned \cup lost

OInv == LineOrder /\ Accounted /\ Blame /\ OldestFirst

LEMMA LineTypes ==
    ASSUME Shaped
    PROVE  /\ rows \in Seq(Lines) /\ buffer \in Seq(Lines)
           /\ \A who \in Coroutines : batch[who] \in Seq(Lines)
           /\ Held \subseteq Lines /\ Lines \subseteq Int
           /\ Coroutines = {"receiver", "flusher"}
<1>1. /\ rows \in Seq(Lines) /\ buffer \in Seq(Lines)
      /\ \A who \in Coroutines : batch[who] \in Seq(Lines)
  BY Typed DEF Shaped
<1>2. /\ Range(rows) \subseteq Lines /\ Range(buffer) \subseteq Lines
      /\ \A who \in Coroutines : Range(batch[who]) \subseteq Lines
  BY <1>1, SeqFacts
<1> QED
  BY <1>1, <1>2, LinesAreInts DEF Held, Coroutines

\* A step that moves no line and loses none.
LEMMA OrderKept ==
    ASSUME OInv, UNCHANGED <<received, buffer, batch, rows, lost, pruned>>,
           stale' = stale, failures' = failures, cut' = cut \/ cut' = TRUE,
           server' = server \/ server' = FALSE
    PROVE  OInv'
<1>1. LineOrder' /\ Accounted' /\ OldestFirst'
  BY DEF OInv, LineOrder, Accounted, Held, OldestFirst
<1>2. Blame'
  BY DEF OInv, Blame
<1> QED
  BY <1>1, <1>2 DEF OInv

LEMMA ReceiveOrder == ASSUME Shaped, OInv, Receive PROVE OInv'
<1>1. /\ received' = received + 1 /\ buffer' = Append(buffer, received + 1)
      /\ UNCHANGED <<batch, rows, lost, pruned, stale, failures, cut, server>>
  BY DEF Receive, store
<1>2. received \in Nat /\ received + 1 \in Lines
  BY Typed, ConstantsAssumption DEF Receive, Shaped, Lines
<1>3. \A x \in Held \cup lost \cup pruned : x \in Int /\ x < received + 1
  BY <1>2 DEF OInv, Accounted
<1>4. /\ Range(buffer') = Range(buffer) \cup {received + 1}
      /\ Increasing(buffer) /\ Before(Range(buffer), {received + 1}) => Increasing(buffer')
  BY <1>1, <1>2, LineTypes, AppendLine
<1>5. LineOrder'
  <2>1. Increasing(buffer')
    BY <1>3, <1>4 DEF OInv, LineOrder, Before, Held
  <2>2. /\ Before(Range(rows), Range(buffer'))
        /\ \A who \in Coroutines : Before(Range(batch[who]), Range(buffer'))
    BY <1>3, <1>4, LineTypes DEF OInv, LineOrder, Before, Held
  <2> QED
    BY <1>1, <2>1, <2>2 DEF OInv, LineOrder
<1>6. Accounted'
  <2>1. Held' = Held \cup {received + 1}
    BY <1>1, <1>4 DEF Held
  <2>2. 1 .. received + 1 = (1 .. received) \cup {received + 1}
    BY <1>2
  <2> QED
    BY <1>1, <1>3, <2>1, <2>2 DEF OInv, Accounted
<1>7. Blame' /\ OldestFirst'
  BY <1>1 DEF OInv, Blame, OldestFirst
<1> QED
  BY <1>5, <1>6, <1>7 DEF OInv

LEMMA BeginFlushOrder ==
    ASSUME Shaped, OInv, NEW who \in Coroutines, BeginFlush(who) PROVE OInv'
<1>1. /\ UNCHANGED <<received, rows, lost, pruned, stale, cut, server, failures>>
      /\ \A w \in Coroutines : batch[w] = <<>>
      /\ \/ UNCHANGED <<buffer, batch>>
         \/ batch' = [batch EXCEPT ![who] = buffer] /\ buffer' = <<>>
  BY BeginFlushEffect
<1>2. CASE UNCHANGED <<buffer, batch>>
  BY <1>1, <1>2, OrderKept
<1>3. CASE batch' = [batch EXCEPT ![who] = buffer] /\ buffer' = <<>>
  <2>1. /\ batch'[who] = buffer /\ \A w \in Coroutines : w # who => batch'[w] = <<>>
        /\ Range(buffer') = {} /\ Increasing(<<>>) /\ Range(<<>>) = {}
    BY <1>1, <1>3, LinesAreInts DEF Shaped, TypeOK
  <2>2. LineOrder'
    BY <1>1, <1>3, <2>1 DEF OInv, LineOrder, Before
  <2>3. Held' = Held
    BY <1>1, <2>1, LineTypes DEF Held
  <2>4. Accounted' /\ Blame' /\ OldestFirst'
    BY <1>1, <2>3 DEF OInv, Accounted, Blame, OldestFirst
  <2> QED
    BY <2>2, <2>4 DEF OInv
<1> QED
  BY <1>1, <1>2, <1>3

\* The batch of a coroutine goes to the table or is lost; no other is under way.
LEMMA BatchLeaves ==
    ASSUME Shaped, OInv, NEW who \in Coroutines, NEW more, batch[who] # <<>>,
           UNCHANGED <<buffer, pruned>>, \A w \in Coroutines : batch'[w] = <<>>,
           received' \in Nat, 1 .. received' = (1 .. received) \cup more,
           more \cap (1 .. received) = {},
           \/ rows' = rows \o batch[who] /\ lost' = lost \cup more
           \/ rows' = rows /\ lost' = lost \cup more \cup Range(batch[who])
    PROVE  LineOrder' /\ Accounted' /\ OldestFirst'
<1>1. \A w \in Coroutines : w # who => batch[w] = <<>>
  BY DEF Shaped, Stages, Coroutines
<1>2. /\ Range(rows \o batch[who]) = Range(rows) \cup Range(batch[who])
      /\ Increasing(rows \o batch[who]) /\ Range(<<>>) = {} /\ Increasing(<<>>)
  BY LineTypes, ConcatLines, LinesAreInts DEF OInv, LineOrder
<1>3. Held = Range(buffer) \cup Range(batch[who]) \cup Range(rows)
  BY <1>1, <1>2, LineTypes DEF Held
<1>4. Held' = Range(buffer) \cup Range(rows')
  BY <1>2, LineTypes DEF Held
<1>5. Range(batch[who]) \cap (Range(buffer) \cup Range(rows)) = {}
  <2>1. Before(Range(rows), Range(batch[who])) /\ Before(Range(batch[who]), Range(buffer))
    BY DEF OInv, LineOrder
  <2>2. Held \subseteq Int
    BY LineTypes
  <2> QED
    BY <1>3, <2>1, <2>2 DEF Before
<1>6. LineOrder'
  <2>1. Range(rows') \subseteq Range(rows) \cup Range(batch[who]) /\ Increasing(rows')
    BY <1>2 DEF OInv, LineOrder
  <2>2. Before(Range(rows'), Range(buffer))
    BY <2>1 DEF OInv, LineOrder, Before
  <2> QED
    BY <1>2, <2>1, <2>2 DEF OInv, LineOrder, Before
<1>7. Accounted'
  <2>1. /\ Held \cup lost \cup pruned = 1 .. received
        /\ Held \cap lost = {} /\ Held \cap pruned = {} /\ lost \cap pruned = {}
    BY DEF OInv, Accounted
  <2>2. CASE rows' = rows \o batch[who] /\ lost' = lost \cup more
    <3>1. Held' = Held
      BY <1>2, <1>3, <1>4, <2>2
    <3> QED
      BY <2>1, <2>2, <3>1 DEF Accounted
  <2>3. CASE rows' = rows /\ lost' = lost \cup more \cup Range(batch[who])
    <3>1. Held = Held' \cup Range(batch[who]) /\ Held' \cap Range(batch[who]) = {}
      BY <1>3, <1>4, <1>5, <2>3
    <3> QED
      BY <2>1, <2>3, <3>1 DEF Accounted
  <2> QED
    BY <2>2, <2>3
<1>8. OldestFirst'
  BY DEF OInv, OldestFirst
<1> QED
  BY <1>6, <1>7, <1>8

LEMMA FinishFlushOrder ==
    ASSUME Shaped, OInv, NEW who \in Coroutines, FinishFlush(who) PROVE OInv'
<1>1. /\ UNCHANGED <<received, buffer, pruned, cut, server>>
      /\ batch[who] # <<>> /\ batch' = [batch EXCEPT ![who] = <<>>]
      /\ \/ server /\ rows' = rows \o batch[who] /\ UNCHANGED <<lost, stale, failures>>
         \/ /\ lost' = lost \cup Range(batch[who]) /\ rows' = rows
            /\ \/ (~server \/ cut) /\ UNCHANGED failures
               \/ failures < MaxFailures /\ failures' = failures + 1
  BY FinishFlushEffect
<1>2. \A w \in Coroutines : batch'[w] = <<>>
  BY <1>1 DEF Shaped, TypeOK, Stages, Coroutines
<1>3. received' \in Nat /\ received' = received
  BY <1>1, Typed DEF Shaped
<1>4. LineOrder' /\ Accounted' /\ OldestFirst'
  <2>1. \/ rows' = rows \o batch[who] /\ lost' = lost \cup {}
        \/ rows' = rows /\ lost' = lost \cup {} \cup Range(batch[who])
    BY <1>1
  <2>2. 1 .. received' = (1 .. received) \cup {} /\ {} \cap (1 .. received) = {}
    BY <1>3
  <2> QED
    BY <1>1, <1>2, <1>3, <2>1, <2>2, BatchLeaves
<1>5. Blame'
  <2>1. failures \in Nat
    BY DEF Shaped, TypeOK
  <2> QED
    BY <1>1, <2>1 DEF OInv, Blame
<1> QED
  BY <1>4, <1>5 DEF OInv

\* The connection ends, with at most the line that ended it dropped.
LEMMA CloseOrder ==
    ASSUME Shaped, OInv, NEW lines, CloseDropping(lines), lines # {} => stale,
           received' \in Nat, 1 .. received' = (1 .. received) \cup lines,
           lines \cap (1 .. received) = {}
    PROVE  OInv'
<1>1. Blame'
  BY CloseEffect DEF OInv, Blame
<1>2. CASE batch["flusher"] # <<>>
  BY <1>1, <1>2, CloseEffect, BatchLeaves, LineTypes DEF OInv
<1>3. CASE batch["flusher"] = <<>>
  <2>1. /\ UNCHANGED <<buffer, rows, pruned>> /\ lost' = lost \cup lines
        /\ \A w \in Coroutines : batch'[w] = batch[w]
    BY <1>3, CloseEffect, LineTypes
  <2>2. LineOrder' /\ OldestFirst'
    BY <2>1 DEF OInv, LineOrder, OldestFirst
  <2>3. Held' = Held
    BY <2>1, LineTypes DEF Held
  <2>4. /\ Held \cup lost \cup pruned = 1 .. received
        /\ Held \cap lost = {} /\ Held \cap pruned = {} /\ lost \cap pruned = {}
    BY DEF OInv, Accounted
  <2>5. Accounted'
    BY <2>1, <2>3, <2>4 DEF Accounted
  <2> QED
    BY <1>1, <2>2, <2>5 DEF OInv
<1> QED
  BY <1>2, <1>3

LEMMA DeleteServerOrder == ASSUME Shaped, OInv, DeleteServer PROVE OInv'
<1>1. /\ UNCHANGED <<received, buffer, batch, pruned, failures, cut, stale>>
      /\ server' = FALSE /\ rows' = <<>> /\ lost' = lost \cup Range(rows)
  BY DEF DeleteServer
<1>2. Range(rows') = {} /\ Increasing(rows')
  BY <1>1, LinesAreInts
<1>3. LineOrder'
  BY <1>1, <1>2 DEF OInv, LineOrder, Before
<1>4. Accounted'
  <2> DEFINE others == Range(buffer) \cup Range(batch["receiver"])
                           \cup Range(batch["flusher"])
  <2>1. Held = others \cup Range(rows) /\ Held' = others
    BY <1>1, <1>2 DEF Held
  <2>2. others \cap Range(rows) = {}
    <3>1. /\ Before(Range(rows), Range(buffer))
          /\ Before(Range(rows), Range(batch["receiver"]))
          /\ Before(Range(rows), Range(batch["flusher"]))
      BY LineTypes DEF OInv, LineOrder
    <3>2. Held \subseteq Int
      BY LineTypes
    <3> QED
      BY <2>1, <3>1, <3>2 DEF Before
  <2> HIDE DEF others
  <2> QED
    BY <1>1, <2>1, <2>2 DEF OInv, Accounted
<1>5. Blame' /\ OldestFirst'
  BY <1>1 DEF OInv, Blame, OldestFirst
<1> QED
  BY <1>3, <1>4, <1>5 DEF OInv

LEMMA PruneOrder == ASSUME Shaped, OInv, Prune PROVE OInv'
<1>1. PICK n \in 1 .. Len(rows) :
        /\ rows' = SubSeq(rows, n + 1, Len(rows))
        /\ pruned' = pruned \cup {rows[i] : i \in 1 .. n}
        /\ UNCHANGED <<received, buffer, batch, lost, stale, cut, server, failures>>
  BY DEF Prune
<1> DEFINE old == {rows[i] : i \in 1 .. n}
<1>2. /\ Range(rows) = old \cup Range(rows') /\ Increasing(rows')
      /\ Before(old, Range(rows'))
  BY <1>1, LineTypes, DropLines DEF OInv, LineOrder
<1> HIDE DEF old
<1>3. pruned' = pruned \cup old
  BY <1>1 DEF old
<1>4. LineOrder'
  BY <1>1, <1>2 DEF OInv, LineOrder, Before
<1> DEFINE others == Range(buffer) \cup Range(batch["receiver"]) \cup Range(batch["flusher"])
<1>5. /\ Held = others \cup old \cup Range(rows') /\ Held' = others \cup Range(rows')
      /\ Held \subseteq Int
  BY <1>1, <1>2, LineTypes DEF Held
<1>6. Before(old, others \cup Range(rows'))
  BY <1>2, LineTypes DEF OInv, LineOrder, Before
<1> HIDE DEF others
<1>7. Held' \cap old = {}
  BY <1>5, <1>6 DEF Before
<1>8. Accounted'
  BY <1>1, <1>3, <1>5, <1>7 DEF OInv, Accounted
<1>9. OldestFirst'
  <2> SUFFICES ASSUME NEW p \in old PROVE 1 .. p \subseteq pruned' \cup lost'
    BY <1>1, <1>3 DEF OInv, OldestFirst
  <2>1. p \in 1 .. received /\ received \in Nat
    BY <1>5, Typed DEF OInv, Accounted, Shaped
  <2>2. ASSUME NEW x \in 1 .. p PROVE x \in pruned' \cup lost'
    <3>1. x \in Held \cup lost \cup pruned
      BY <2>1 DEF OInv, Accounted
    <3>2. x \notin others \cup Range(rows')
      BY <1>6, <2>1 DEF Before
    <3> QED
      BY <1>1, <1>3, <1>5, <3>1, <3>2
  <2> QED
    BY <2>2
<1>10. Blame'
  BY <1>1 DEF OInv, Blame
<1> QED
  BY <1>4, <1>8, <1>9, <1>10 DEF OInv

LEMMA NextOrder == Shaped /\ OInv /\ [Next]_vars => OInv'
<1> SUFFICES ASSUME Shaped, OInv, [Next]_vars PROVE OInv'
  OBVIOUS
<1>1. ASSUME UNCHANGED <<received, session>> PROVE OInv'
  BY <1>1, OrderKept DEF session, store
<1>2. Receive => OInv'
  BY ReceiveOrder
<1>3. ASSUME NEW d \in Dashboards, Send(d) \/ Subscribe(d) \/ Leave(d) \/ Unsubscribe(d)
      PROVE  UNCHANGED <<received, session>>
  BY <1>3 DEF Send, Subscribe, Leave, Unsubscribe
<1>4. EndBroadcast \/ WakeFlusher \/ UNCHANGED vars => UNCHANGED <<received, session>>
  BY DEF EndBroadcast, WakeFlusher, vars
<1>5. ASSUME Disconnect PROVE OInv'
  <2>1. CloseDropping({}) /\ received' = received /\ received' \in Nat
    BY <1>5, Typed DEF Disconnect, Shaped
  <2>2. 1 .. received' = (1 .. received) \cup {} /\ {} \cap (1 .. received) = {}
    BY <2>1
  <2> QED
    BY <2>1, <2>2, CloseOrder
<1>6. ASSUME ReceiveExpired PROVE OInv'
  <2>1. /\ stale /\ CloseDropping({received'})
        /\ received' = received + 1 /\ received \in Nat
    BY <1>6, ReceiveExpiredEffect, Typed DEF Shaped
  <2>2. /\ received' \in Nat /\ 1 .. received' = (1 .. received) \cup {received'}
        /\ {received'} \cap (1 .. received) = {}
    BY <2>1
  <2> QED
    BY <2>1, <2>2, CloseOrder
<1>7. \A who \in Coroutines : FlushStep(who) => OInv'
  BY BeginFlushOrder, FinishFlushOrder DEF FlushStep
<1>8. DeleteServer \/ Prune => OInv'
  BY DeleteServerOrder, PruneOrder
<1> QED
  BY <1>1, <1>2, <1>3, <1>4, <1>5, <1>6, <1>7, <1>8 DEF Next

LEMMA InitOrder == Init => OInv
<1> SUFFICES ASSUME Init PROVE OInv
  OBVIOUS
<1>1. LineOrder
  BY LinesAreInts DEF Init, LineOrder, Before
<1>2. Held = {} /\ 1 .. received = {}
  BY LinesAreInts DEF Init, Held, Coroutines
<1>3. Accounted /\ Blame /\ OldestFirst
  BY <1>2 DEF Init, Accounted, Blame, OldestFirst
<1> QED
  BY <1>1, <1>3 DEF OInv

LEMMA AlwaysOrder == Spec => [](Shaped /\ OInv)
<1>1. Shaped /\ OInv /\ [Next]_vars => Shaped' /\ OInv'
  BY NextShaped, NextOrder
<1> QED
  BY <1>1, InitShaped, InitOrder, PTL DEF Spec

\* flush_lock and the single buffer keep the lines of the two coroutines in the order in
\* which the agent sent them (websocket.py:73), through failed and cancelled commits.
THEOREM TableKeepsTheOrder == Spec => []RowsInOrder
<1>1. OInv => RowsInOrder
  BY DEF OInv, LineOrder, Increasing, RowsInOrder
<1> QED
  BY <1>1, AlwaysOrder, PTL

LEMMA SixPlaces ==
    ASSUME NEW a, NEW b, NEW c, NEW d, NEW e, NEW f,
           a \cap b = {}, a \cap c = {}, a \cap d = {}, a \cap e = {}, a \cap f = {},
           b \cap c = {}, b \cap d = {}, b \cap e = {}, b \cap f = {}, c \cap d = {},
           c \cap e = {}, c \cap f = {}, d \cap e = {}, d \cap f = {}, e \cap f = {}
    PROVE  /\ UNION Range(<<a, b, c, d, e, f>>) = a \cup b \cup c \cup d \cup e \cup f
           /\ \A i, j \in 1 .. 6 : i # j =>
                 <<a, b, c, d, e, f>>[i] \cap <<a, b, c, d, e, f>>[j] = {}
<1> DEFINE p == <<a, b, c, d, e, f>>
<1>1. /\ p[1] = a /\ p[2] = b /\ p[3] = c /\ p[4] = d /\ p[5] = e /\ p[6] = f
      /\ DOMAIN p = 1 .. 6
  OBVIOUS
<1>2. \A i : i \in 1 .. 6 <=> i \in {1, 2, 3, 4, 5, 6}
  OBVIOUS
<1> HIDE DEF p
<1>3. UNION Range(p) = a \cup b \cup c \cup d \cup e \cup f
  <2>1. Range(p) = {a, b, c, d, e, f}
    BY <1>1, <1>2 DEF Range
  <2> QED
    BY <2>1
<1>4. ASSUME NEW i \in {1, 2, 3, 4, 5, 6}, NEW j \in {1, 2, 3, 4, 5, 6}, i # j
      PROVE  p[i] \cap p[j] = {}
  <2>1. CASE i = 1
    BY <1>1, <1>4, <2>1
  <2>2. CASE i = 2
    BY <1>1, <1>4, <2>2
  <2>3. CASE i = 3
    BY <1>1, <1>4, <2>3
  <2>4. CASE i = 4
    BY <1>1, <1>4, <2>4
  <2>5. CASE i = 5
    BY <1>1, <1>4, <2>5
  <2>6. CASE i = 6
    BY <1>1, <1>4, <2>6
  <2> QED
    BY <1>4, <2>1, <2>2, <2>3, <2>4, <2>5, <2>6
<1> QED
  BY <1>2, <1>3, <1>4 DEF p

\* No line is stored twice, and none disappears but by a failed or cancelled commit, with
\* its server or by its age (websocket.py:75-85).
THEOREM EveryLineIsSomewhere == Spec => []EveryLineAccounted
<1>1. ASSUME Shaped, OInv PROVE EveryLineAccounted
  <2>1. /\ Range(rows) \cap Range(buffer) = {}
        /\ \A who \in Coroutines : /\ Range(rows) \cap Range(batch[who]) = {}
                                   /\ Range(batch[who]) \cap Range(buffer) = {}
    <3>1. Range(rows) \cup Range(buffer) \subseteq Int
      BY <1>1, LineTypes DEF Held
    <3> QED
      BY <1>1, <3>1 DEF OInv, LineOrder, Before
  <2>2. Range(batch["receiver"]) = {} \/ Range(batch["flusher"]) = {}
    BY <1>1, LinesAreInts DEF Shaped, Stages
  <2>3. /\ Held \cup lost \cup pruned = 1 .. received
        /\ Held \cap lost = {} /\ Held \cap pruned = {} /\ lost \cap pruned = {}
    BY <1>1 DEF OInv, Accounted
  <2> DEFINE places == <<Range(buffer), Range(batch["receiver"]), Range(batch["flusher"]),
                         Range(rows), lost, pruned>>
  <2>4. /\ UNION Range(places) = Held \cup lost \cup pruned
        /\ \A i, j \in 1 .. 6 : i # j => places[i] \cap places[j] = {}
    <3>1. /\ Range(batch["receiver"]) \cap Range(rows) = {}
          /\ Range(batch["flusher"]) \cap Range(rows) = {}
          /\ Range(buffer) \cap Range(batch["receiver"]) = {}
          /\ Range(buffer) \cap Range(batch["flusher"]) = {}
          /\ Range(batch["receiver"]) \cap Range(batch["flusher"]) = {}
      BY <1>1, <2>1, <2>2, LineTypes
    <3> QED
      BY <2>1, <2>3, <3>1, SixPlaces DEF Held
  <2> QED
    BY <1>1, <2>3, <2>4 DEF EveryLineAccounted, OInv, Blame, OldestFirst
<1> QED
  BY <1>1, AlwaysOrder, PTL

----------------------------------------------------------------------------
(* What the dashboards see. *)

\* An open dashboard is subscribed, and one that was sent a line has got every line since:
\* all of them, or all but the one being sent.
Listening ==
    /\ \A d \in Dashboards : dash[d] = "open" => d \in subs
    /\ \A d \in subs \cup targets : dash[d] # "new"
    /\ \A d \in failed : dash[d] \in {"gone", "left"}
    /\ \A d \in Dashboards : dash[d] = "new" => shown[d] = <<>>
    /\ receiver \notin {"final", "done"} =>
         \A d \in Dashboards : dash[d] = "open" /\ shown[d] # <<>> =>
             shown[d][Len(shown[d])] = IF d \in targets THEN received - 1 ELSE received

DInv == Listening /\ ShownWithoutGaps

\* A step that neither receives, sends, nor changes who listens.
LEMMA ListeningKept ==
    ASSUME DInv, UNCHANGED <<received, sockets, broadcast>>,
           receiver' \in {"final", "done"} \/ receiver \notin {"final", "done"}
    PROVE  DInv'
<1>1. UNCHANGED <<received, subs, dash, shown, targets, failed>>
  BY DEF sockets, broadcast
<1>2. Listening'
  BY <1>1 DEF DInv, Listening
<1>3. ShownWithoutGaps'
  BY <1>1 DEF DInv, ShownWithoutGaps
<1> QED
  BY <1>2, <1>3 DEF DInv

LEMMA ReceiveListening == ASSUME Shaped, DInv, Receive PROVE DInv'
<1>1. /\ receiver = "waiting" /\ targets = {} /\ received \in Nat
      /\ received' = received + 1 /\ targets' = subs /\ failed' = {}
      /\ UNCHANGED <<subs, dash, shown>>
  BY Typed DEF Receive, sockets, Shaped, Stages
<1>2. Listening'
  <2>1. \A d \in Dashboards : dash[d] = "open" /\ shown[d] # <<>> =>
           d \in targets' /\ shown[d][Len(shown[d])] = received' - 1
    BY <1>1 DEF DInv, Listening
  <2> QED
    BY <1>1, <2>1 DEF DInv, Listening
<1>3. ShownWithoutGaps'
  BY <1>1 DEF DInv, ShownWithoutGaps
<1> QED
  BY <1>2, <1>3 DEF DInv

LEMMA SendListening == ASSUME Shaped, DInv, NEW d \in Dashboards, Send(d) PROVE DInv'
<1>1. /\ receiver = "sending" /\ d \in targets /\ targets' = targets \ {d}
      /\ UNCHANGED <<received, receiver, subs, dash>>
      /\ received \in Lines /\ received \in Int
  BY LinesAreInts DEF Send, Shaped, Stages
<1>2. shown \in [Dashboards -> Seq(Lines)]
  BY DEF Shaped, TypeOK
<1>3. CASE dash[d] = "open" /\ failed' = failed
           /\ shown' = [shown EXCEPT ![d] = Append(@, received)]
  <2> DEFINE old == shown[d]
             new == Append(old, received)
  <2>1. /\ old \in Seq(Lines) /\ shown'[d] = new
        /\ \A e \in Dashboards : e # d => shown'[e] = shown[e]
    BY <1>2, <1>3
  <2>2. /\ Len(new) = Len(old) + 1 /\ new # <<>> /\ new[Len(old) + 1] = received
        /\ Len(old) \in Nat /\ DOMAIN old = 1 .. Len(old)
        /\ \A i \in 1 .. Len(old) : new[i] = old[i]
        /\ old # <<>> => Len(old) # 0
    BY <1>1, <2>1, AppendLine, SeqFacts, EmptySeq
  <2>3. old # <<>> => old[Len(old)] = received - 1
    BY <1>1, <1>3 DEF DInv, Listening
  <2>4. \A i \in 2 .. Len(old) : old[i] = old[i - 1] + 1
    BY DEF DInv, ShownWithoutGaps
  <2> HIDE DEF old, new
  <2>5. ASSUME NEW i \in 2 .. Len(new) PROVE new[i] = new[i - 1] + 1
    <3>1. CASE i = Len(old) + 1
      <4>1. old # <<>> /\ i - 1 = Len(old) /\ i - 1 \in 1 .. Len(old)
        BY <2>1, <2>2, <2>5, <3>1, EmptySeq
      <4> QED
        BY <1>1, <2>2, <2>3, <3>1, <4>1
    <3>2. CASE i # Len(old) + 1
      <4>1. i \in 2 .. Len(old) /\ i - 1 \in 1 .. Len(old) /\ i \in 1 .. Len(old)
        BY <2>2, <2>5, <3>2
      <4> QED
        BY <2>2, <2>4, <4>1
    <3> QED
      BY <3>1, <3>2
  <2>6. ShownWithoutGaps'
    BY <2>1, <2>5 DEF DInv, ShownWithoutGaps
  <2>7. shown'[d][Len(shown'[d])] = received /\ d \notin targets'
    BY <1>1, <2>1, <2>2
  <2>8. Listening'
    <3>1. \A e \in Dashboards : dash[e] = "open" /\ shown'[e] # <<>> =>
             shown'[e][Len(shown'[e])] = IF e \in targets' THEN received - 1 ELSE received
      <4> TAKE e \in Dashboards
      <4>1. CASE e = d
        BY <2>7, <4>1
      <4>2. CASE e # d
        BY <1>1, <2>1, <4>2 DEF DInv, Listening
      <4> QED
        BY <4>1, <4>2
    <3>2. \A e \in Dashboards : dash[e] = "new" => shown'[e] = <<>>
      BY <1>3, <2>1 DEF DInv, Listening
    <3> QED
      BY <1>1, <1>3, <3>1, <3>2 DEF DInv, Listening
  <2> QED
    BY <2>6, <2>8 DEF DInv
<1>4. CASE dash[d] # "open" /\ failed' \in {failed, failed \cup {d}} /\ shown' = shown
  <2>1. dash[d] \in {"gone", "left"}
    BY <1>1, <1>4 DEF DInv, Listening, Shaped, TypeOK
  <2>2. Listening'
    BY <1>1, <1>4, <2>1 DEF DInv, Listening
  <2> QED
    BY <1>4, <2>2 DEF DInv, ShownWithoutGaps
<1> QED
  BY <1>3, <1>4 DEF Send

LEMMA EndBroadcastListening == ASSUME Shaped, DInv, EndBroadcast PROVE DInv'
<1>1. /\ receiver = "sending" /\ receiver' \in {"flush", "waiting"} /\ subs' = subs \ failed
      /\ UNCHANGED <<received, dash, shown, targets, failed>>
  BY DEF EndBroadcast, broadcast
<1>2. Listening'
  BY <1>1 DEF DInv, Listening
<1> QED
  BY <1>1, <1>2 DEF DInv, ShownWithoutGaps

LEMMA DashboardListening ==
    ASSUME Shaped, DInv, NEW d \in Dashboards, Subscribe(d) \/ Leave(d) \/ Unsubscribe(d)
    PROVE  DInv'
<1>1. /\ UNCHANGED <<received, receiver, shown, targets, failed>>
      /\ dash \in [Dashboards -> {"new", "open", "gone", "left"}]
  BY DEF Subscribe, Leave, Unsubscribe, broadcast, Shaped, TypeOK
<1>2. ShownWithoutGaps'
  BY <1>1 DEF DInv, ShownWithoutGaps
<1>3. CASE Subscribe(d)
  <2>1. /\ dash[d] = "new" /\ subs' = subs \cup {d} /\ dash'[d] = "open"
        /\ \A e \in Dashboards : e # d => dash'[e] = dash[e]
        /\ shown[d] = <<>> /\ d \notin failed
    BY <1>1, <1>3 DEF Subscribe, DInv, Listening
  <2>2. subs \cup targets \cup failed \subseteq Dashboards
    BY DEF Shaped, TypeOK
  <2>3. Listening'
    BY <1>1, <2>1, <2>2 DEF DInv, Listening
  <2> QED
    BY <1>2, <2>3 DEF DInv
<1>4. CASE Leave(d) \/ Unsubscribe(d)
  <2>1. /\ dash[d] # "new" /\ dash'[d] \in {"gone", "left"} /\ subs' \in {subs, subs \ {d}}
        /\ \A e \in Dashboards : e # d => dash'[e] = dash[e]
    BY <1>1, <1>4 DEF Leave, Unsubscribe
  <2>2. subs \cup targets \cup failed \subseteq Dashboards
    BY DEF Shaped, TypeOK
  <2>3. Listening'
    BY <1>1, <2>1, <2>2 DEF DInv, Listening
  <2> QED
    BY <1>2, <2>3 DEF DInv
<1> QED
  BY <1>3, <1>4

LEMMA NextListening == Shaped /\ DInv /\ [Next]_vars => DInv'
<1> SUFFICES ASSUME Shaped, DInv, [Next]_vars PROVE DInv'
  OBVIOUS
<1> DEFINE Ends == receiver' \in {"final", "done"} \/ receiver \notin {"final", "done"}
<1>1. UNCHANGED <<received, sockets, broadcast>> /\ Ends => DInv'
  BY ListeningKept
<1>2. ASSUME NEW who \in Coroutines, FlushStep(who) PROVE DInv'
  <2>1. UNCHANGED <<received, sockets, broadcast>>
    BY <1>2 DEF FlushStep, BeginFlush, FinishFlush
  <2>2. receiver' = receiver \/ Return(who)
    BY <1>2 DEF FlushStep, BeginFlush, FinishFlush
  <2>3. who = "receiver" => receiver \in {"flush", "final"}
    BY <1>2 DEF FlushStep, BeginFlush, FinishFlush, Flushing, Shaped, Stages
  <2>4. Ends
    BY <2>2, <2>3 DEF Return
  <2> QED
    BY <1>1, <2>1, <2>4
<1>3. ASSUME NEW lines, CloseDropping(lines) PROVE DInv'
  <2>1. receiver' = "final" /\ UNCHANGED <<subs, dash, shown, targets, failed>>
    BY <1>3 DEF CloseDropping, sockets, broadcast
  <2> QED
    BY <2>1 DEF DInv, Listening, ShownWithoutGaps
<1>4. DeleteServer \/ Prune \/ WakeFlusher \/ UNCHANGED vars
         => UNCHANGED <<received, sockets, broadcast>> /\ Ends
  BY DEF DeleteServer, Prune, WakeFlusher, vars
<1> QED
  BY <1>1, <1>2, <1>3, <1>4, ReceiveListening, SendListening, EndBroadcastListening,
     DashboardListening DEF Next, Disconnect, ReceiveExpired

LEMMA InitListening == Init => DInv
<1> SUFFICES ASSUME Init PROVE DInv
  OBVIOUS
<1>1. Listening
  BY DEF Init, Listening
<1>2. \A d \in Dashboards : shown[d] = <<>> /\ 2 .. Len(shown[d]) = {}
  BY EmptySized DEF Init
<1> QED
  BY <1>1, <1>2 DEF DInv, ShownWithoutGaps

\* While it is connected, a dashboard sees the lines in order and without a gap, whichever
\* sends to the others fail or hang (connection_manager.py:36-46).
THEOREM NoGapsForADashboard == Spec => []ShownWithoutGaps
<1>1. Shaped /\ DInv /\ [Next]_vars => DInv'
  BY NextListening
<1>2. DInv => ShownWithoutGaps
  BY DEF DInv
<1> QED
  BY <1>1, <1>2, InitListening, AlwaysShaped, PTL DEF Spec
=============================================================================
