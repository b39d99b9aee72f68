------------------------------- MODULE BotProofs -------------------------------
(***************************************************************************)
(* What holds of the bot for every number of users, servers, unconfirmed   *)
(* updates, faults and changes of the link, and whatever is sent.          *)
(*                                                                         *)
(* A message is handled by one of a dozen handlers, or a part of one.  The *)
(* first lemmas say what may become of each variable then; the invariants  *)
(* are proved from these and never open a handler again.                   *)
(***************************************************************************)
EXTENDS Bot, FiniteSetTheorems, SequenceTheorems, TLAPS

\* What _handle_message does with m, to its end or not.
Outcome(m) == Full(m, User) \/ Partial(m, User)

\* A known chat has one user.
LEMMA TheUser ==
    ASSUME IsFiniteSet(linked), Known
    PROVE  linked = {User}
<1>1. linked # {}
  BY FS_EmptySet DEF Known
<1>2. User \in linked
  BY <1>1 DEF User
<1>3. SUFFICES ASSUME NEW v \in linked, v # User
               PROVE  FALSE
  BY <1>2
<1>4. IsFiniteSet({v, User}) /\ Cardinality({v, User}) = 2
  <2>1. IsFiniteSet({User}) /\ Cardinality({User}) = 1
    BY FS_Singleton
  <2>2. v \notin {User}
    BY <1>3
  <2>3. IsFiniteSet({User} \cup {v}) /\ Cardinality({User} \cup {v}) = 1 + 1
    BY <2>1, <2>2, FS_AddElement
  <2>4. {User} \cup {v} = {v, User}
    OBVIOUS
  <2> QED
    BY <2>3, <2>4
<1>5. Cardinality({v, User}) <= Cardinality(linked)
  BY <1>2, <1>4, FS_Subset
<1> QED
  BY <1>4, <1>5 DEF Known

\* The handlers, without the order in which they are looked for.
LEMMA WhichHandler ==
    ASSUME NEW m, NEW u, Full(m, u)
    PROVE  \/ m.cmd = "start" /\ HandleStart(m.text)
           \/ Nothing /\ (Known => m.cmd = "text")
           \/ /\ Known
              /\ \/ OnlyDraft(NoDraft) /\ m.cmd \in {"cancel", "query"}
                 \/ m.cmd = "text" /\ draft.step = "confirm" /\ Confirm(m.text, u)
                 \/ m.cmd = "text" /\ draft # NoDraft /\ Answer(m.text, u)
                 \/ m.cmd = "createrule" /\ HandleCreateRule(u)
                 \/ m.cmd = "toggle" /\ HandleToggle(u)
                 \/ m.cmd = "delete" /\ HandleDelete(m.text, u)
                 \/ m.cmd = "confirm" /\ HandleConfirm(m.text, u)
<1>1. CASE m.cmd = "start"
  BY <1>1 DEF Full
<1>2. CASE m.cmd # "start" /\ ~Known
  BY <1>2 DEF Full
<1>3. CASE m.cmd # "start" /\ Known
  BY <1>3 DEF Full, HandleQuery
<1> QED
  BY <1>1, <1>2, <1>3

----------------------------------------------------------------------------
(* What becomes of each variable. *)

\* Only /start links a user, one whose code was issued, and it does nothing else.
LEMMA LinkAfter ==
    ASSUME NEW m, Outcome(m)
    PROVE  /\ codes' \subseteq codes
           /\ \/ linked' = linked
              \/ /\ \E v \in codes : linked' = linked \cup {v}
                 /\ UNCHANGED <<servers, rules, on, pending, draft>>
<1>1. CASE Full(m, User)
  BY <1>1, WhichHandler
     DEF Nothing, effects, OnlyDraft, Confirm, Create, Answer, HandleCreateRule,
         HandleToggle, HandleDelete, HandleConfirm, HandleStart
<1>2. CASE Partial(m, User)
  BY <1>2 DEF Partial, Nothing, effects, OnlyDraft, Create
<1> QED
  BY <1>1, <1>2 DEF Outcome

\* A handler that fails links nobody.
LEMMA LinkAfterFailure ==
    ASSUME NEW m, Partial(m, User)
    PROVE  linked' = linked
BY DEF Partial, Nothing, effects, OnlyDraft, Create

\* Only a confirmation deletes a server: the pending one, which is also named.
LEMMA ServersAfter ==
    ASSUME NEW m, Outcome(m)
    PROVE  \/ servers' = servers
           \/ /\ m.cmd = "confirm" /\ m.text \in servers /\ pending = m.text
              /\ servers' = servers \ {m.text}
<1>1. CASE Full(m, User)
  BY <1>1, WhichHandler
     DEF Nothing, effects, OnlyDraft, Confirm, Create, Answer, HandleCreateRule,
         HandleToggle, HandleDelete, HandleConfirm, HandleStart, Matches, Mine
<1>2. CASE Partial(m, User)
  BY <1>2 DEF Partial, Nothing, effects, OnlyDraft, Create
<1> QED
  BY <1>1, <1>2 DEF Outcome

\* Only /delete makes a deletion pending.
LEMMA PendingAfter ==
    ASSUME NEW m, Outcome(m)
    PROVE  \/ pending' \in {pending, NoServer}
           \/ m.cmd = "delete" /\ m.text \in servers /\ pending' = m.text
<1>1. CASE Full(m, User)
  BY <1>1, WhichHandler
     DEF Nothing, effects, OnlyDraft, Confirm, Create, Answer, HandleCreateRule,
         HandleToggle, HandleDelete, HandleConfirm, HandleStart, Mine
<1>2. CASE Partial(m, User)
  BY <1>2 DEF Partial, Nothing, effects, OnlyDraft, Create
<1> QED
  BY <1>1, <1>2 DEF Outcome

\* A rule is made at the last step of a dialogue, on a server that is still there, for
\* the user of that moment.
LEMMA RulesAfter ==
    ASSUME NEW m, Outcome(m)
    PROVE  \/ rules' \subseteq rules
           \/ /\ Known
              /\ draft.step = "confirm" /\ draft.server \in servers
              /\ rules' = rules \cup {NewRule(User)}
              /\ draft' \in {draft, NoDraft}
<1>1. CASE Full(m, User)
  BY <1>1, WhichHandler
     DEF Nothing, effects, OnlyDraft, Confirm, Create, Answer, HandleCreateRule,
         HandleToggle, HandleDelete, HandleConfirm, HandleStart
<1>2. CASE Partial(m, User)
  BY <1>2 DEF Partial, Nothing, effects, OnlyDraft, Create
<1> QED
  BY <1>1, <1>2 DEF Outcome

\* The draft with one more answer.
Answered(m) ==
    [draft EXCEPT
       !.step = After(draft.step, draft.type),
       !.server = IF draft.step = "server" THEN m.text ELSE @,
       !.type = IF draft.step = "metric_type" THEN m.text ELSE @,
       !.filled = @ \cup {draft.step}]

\* A draft is kept, dropped, begun, or has one more answer.
LEMMA DraftAfter ==
    ASSUME NEW m, Outcome(m)
    PROVE  \/ draft' \in {draft, NoDraft, [NoDraft EXCEPT !.step = "server"]}
           \/ /\ Known /\ draft.step # "confirm"
              /\ Accepts(draft.step, m.text, User)
              /\ draft' = Answered(m)
<1>1. CASE Full(m, User)
  BY <1>1, WhichHandler
     DEF Nothing, effects, OnlyDraft, Confirm, Create, Answer, HandleCreateRule,
         HandleToggle, HandleDelete, HandleConfirm, HandleStart, Answered
<1>2. CASE Partial(m, User)
  BY <1>2 DEF Partial, Nothing, effects, OnlyDraft, Create
<1> QED
  BY <1>1, <1>2 DEF Outcome

\* Only /toggle switches the rule, for its owner.
LEMMA OnAfter ==
    ASSUME NEW m, Outcome(m)
    PROVE  /\ on' = on \/ (Known /\ m.cmd = "toggle" /\ Mine(RuleServer, User) /\ on' = ~on)
           /\ Full(m, User) /\ Known /\ m.cmd = "toggle" /\ Mine(RuleServer, User)
              => on' = ~on
<1>1. CASE Full(m, User)
  BY <1>1, WhichHandler
     DEF Nothing, effects, OnlyDraft, Confirm, Create, Answer, HandleCreateRule,
         HandleToggle, HandleDelete, HandleConfirm, HandleStart
<1>2. CASE Partial(m, User) /\ ~Full(m, User)
  BY <1>2 DEF Partial, Nothing, effects, OnlyDraft, Create
<1> QED
  BY <1>1, <1>2 DEF Outcome

----------------------------------------------------------------------------
(* Type correctness. *)

\* After the answer to a step the draft holds what the next step expects.
LEMMA OneMoreField ==
    ASSUME NEW step \in Steps \ {"confirm"}, NEW type \in Types \cup {"none"},
           NEW text, NEW newType \in Types \cup {"none"},
           step # "metric_type" => newType = type,
           step \notin {"server", "metric_type"} => type \in Types,
           step = "container" => type = "docker"
    PROVE  /\ After(step, type) \in Steps \ {"server"}
           /\ Before(After(step, type), newType) = Before(step, type) \cup {step}
           /\ Before(step, type) \cup {step} \subseteq Steps
           /\ After(step, type) = "container" => newType = "docker"
<1>1. CASE step = "server"
  BY <1>1 DEF After, Before, Steps
<1>2. CASE step = "metric_type"
  BY <1>2 DEF After, Before, Steps
<1>3. CASE step = "name"
  BY <1>3 DEF After, Before, Steps
<1>4. CASE step = "metric" /\ type = "docker"
  BY <1>4 DEF After, Before, Steps
<1>5. CASE step = "metric" /\ type = "system"
  BY <1>5 DEF After, Before, Steps
<1>6. CASE step = "container"
  BY <1>6 DEF After, Before, Steps, Types
<1>7. CASE step = "operator"
  BY <1>7 DEF After, Before, Steps, Types
<1>8. CASE step = "threshold"
  BY <1>8 DEF After, Before, Steps, Types
<1>9. CASE step = "channels"
  BY <1>9 DEF After, Before, Steps, Types
<1> QED
  BY <1>1, <1>2, <1>3, <1>4, <1>5, <1>6, <1>7, <1>8, <1>9 DEF Steps, Types

\* Type correctness, and that only finitely many users are linked, so that Known means
\* what it says.
Shaped == TypeOK /\ IsFiniteSet(linked)

\* A draft that is empty or at its first question.
LEMMA NewDraft ==
    ASSUME draft' \in {NoDraft, [NoDraft EXCEPT !.step = "server"]}
    PROVE  DraftOK'
<1>1. draft' = NoDraft \/ draft' = [step |-> "server", server |-> NoServer,
                                    type |-> "none", filled |-> {}]
  BY DEF NoDraft
<1>2. CASE draft' = NoDraft
  BY <1>2 DEF NoDraft, DraftOK, Drafts, Steps, Before
<1>3. CASE draft' = [step |-> "server", server |-> NoServer,
                     type |-> "none", filled |-> {}]
  BY <1>3 DEF DraftOK, Drafts, Steps, Before
<1> QED
  BY <1>1, <1>2, <1>3

\* An answer the step accepts leaves a draft whose fields are filled.
LEMMA LongerDraft ==
    ASSUME NEW m, DraftOK, servers \subseteq Servers, draft.step # "confirm",
           Accepts(draft.step, m.text, User), draft' = Answered(m)
    PROVE  DraftOK' /\ (draft.step # "server" => draft'.server = draft.server)
<1> DEFINE step == draft.step
           type == draft.type
           newType == IF step = "metric_type" THEN m.text ELSE type
           newServer == IF step = "server" THEN m.text ELSE draft.server
<1>1. /\ step \in Steps \cup {"none"} /\ type \in Types \cup {"none"}
      /\ draft.server \in Servers \cup {NoServer} /\ draft.filled = Before(step, type)
      /\ draft = [step |-> step, server |-> draft.server, type |-> type,
                  filled |-> Before(step, type)]
  BY DEF DraftOK, Drafts
<1>2. draft' = [step |-> After(step, type), server |-> newServer, type |-> newType,
                filled |-> Before(step, type) \cup {step}]
  BY <1>1 DEF Answered
<1>3. step \in Steps \ {"confirm"}
  BY <1>1 DEF Accepts, Steps
<1>4. step = "server" => newServer \in Servers
  BY DEF Accepts, Mine
<1>5. step = "metric_type" => newType \in Types
  BY DEF Accepts
<1>6. step \notin {"server", "metric_type"} => type \in Types
  BY <1>3 DEF DraftOK, Before, Steps
<1>7. step # "server" => "server" \in draft.filled
  BY <1>3 DEF DraftOK, Before, Steps
<1>8. newType \in Types \cup {"none"} /\ (step = "container" => type = "docker")
  BY <1>1, <1>5 DEF DraftOK
<1>9. /\ After(step, type) \in Steps \ {"server"}
      /\ Before(After(step, type), newType) = Before(step, type) \cup {step}
      /\ Before(step, type) \cup {step} \subseteq Steps
      /\ After(step, type) = "container" => newType = "docker"
  BY <1>1, <1>3, <1>6, <1>8, OneMoreField
<1>10. newServer \in Servers
  BY <1>4, <1>7 DEF DraftOK
<1>11. "metric_type" \in Before(step, type) \cup {step} => newType \in Types
  BY <1>1, <1>3, <1>5 DEF DraftOK
<1> QED
  BY <1>2, <1>8, <1>9, <1>10, <1>11 DEF DraftOK, Drafts

\* What handling a message, to its end or not, leaves in shape.
LEMMA ShapedAfter ==
    ASSUME ConstantsAssumption, Shaped, NEW m, Outcome(m)
    PROVE  /\ linked' \subseteq Users /\ codes' \subseteq Users /\ IsFiniteSet(linked')
           /\ servers' \subseteq Servers
           /\ rules' \subseteq [server : Servers, owner : Users]
           /\ on' \in BOOLEAN /\ pending' \in Servers \cup {NoServer}
           /\ DraftOK'
<1> USE DEF Shaped
<1>1. codes' \subseteq Users
  BY LinkAfter DEF TypeOK
<1>2. linked' \subseteq Users /\ IsFiniteSet(linked')
  <2>1. CASE linked' = linked
    BY <2>1 DEF TypeOK
  <2>2. CASE \E v \in codes : linked' = linked \cup {v}
    BY <2>2, FS_AddElement DEF TypeOK
  <2> QED
    BY <2>1, <2>2, LinkAfter
<1>3. servers' \subseteq Servers
  BY ServersAfter DEF TypeOK
<1>4. rules' \subseteq [server : Servers, owner : Users]
  <2>1. CASE rules' \subseteq rules
    BY <2>1 DEF TypeOK
  <2>2. CASE Known /\ draft.server \in servers /\ rules' = rules \cup {NewRule(User)}
    <3>1. User \in Users
      BY <2>2, TheUser DEF TypeOK
    <3>2. NewRule(User) \in [server : Servers, owner : Users]
      BY <2>2, <3>1 DEF NewRule, TypeOK
    <3> QED
      BY <2>2, <3>2 DEF TypeOK
  <2> QED
    BY <2>1, <2>2, RulesAfter
<1>5. on' \in BOOLEAN
  BY OnAfter DEF TypeOK
<1>6. pending' \in Servers \cup {NoServer}
  BY PendingAfter DEF TypeOK
<1>7. DraftOK'
  <2>1. CASE draft' = draft
    BY <2>1 DEF TypeOK, DraftOK
  <2>2. CASE draft' \in {NoDraft, [NoDraft EXCEPT !.step = "server"]}
    BY <2>2, NewDraft
  <2>3. CASE /\ draft.step # "confirm" /\ Accepts(draft.step, m.text, User)
             /\ draft' = Answered(m)
    BY <2>3, LongerDraft DEF TypeOK
  <2> QED
    BY <2>1, <2>2, <2>3, DraftAfter
<1> QED
  BY <1>1, <1>2, <1>3, <1>4, <1>5, <1>6, <1>7

LEMMA ShapedInit ==
    ASSUME ConstantsAssumption, Init
    PROVE  Shaped
<1>1. IsFiniteSet(linked)
  BY FS_Singleton DEF Init
<1>2. DraftOK
  BY DEF Init, NoDraft, DraftOK, Drafts, Steps, Before
<1>3. inbox \in Seq(scenario.says) /\ Len(inbox) = 0
  BY DEF Init
<1>4. linked \subseteq Users /\ codes \subseteq Users
  BY DEF Init, ConstantsAssumption
<1>5. on \in BOOLEAN /\ wanted \in BOOLEAN /\ relinked \in BOOLEAN
  BY DEF Init
<1>6. got \in 0 .. Len(inbox) /\ index \in 0 .. got /\ links \in Nat
      /\ faults \in 0 .. MaxFaults /\ Len(inbox) <= MaxInbox
  BY <1>3 DEF Init, ConstantsAssumption
<1>7. /\ scenario \in Scenarios /\ servers \subseteq Servers
      /\ rules = {} /\ pending = NoServer
  BY DEF Init
<1> QED
  BY <1>1, <1>2, <1>3, <1>4, <1>5, <1>6, <1>7 DEF Shaped, TypeOK

\* What the owner, the web UI and time do.
LEMMA ShapedOwner ==
    ASSUME ConstantsAssumption, Shaped,
           \/ \E m \in scenario.says : Send(m)
           \/ \E u \in Users : IssueCode(u) \/ SetChat(u)
           \/ Expire
    PROVE  Shaped'
<1> USE DEF Shaped
<1>1. ASSUME NEW m \in scenario.says, Send(m)
      PROVE  Shaped'
  <2>1. inbox' = Append(inbox, m) /\ Len(inbox) < MaxInbox
    BY <1>1 DEF Send
  <2>2. inbox' \in Seq(scenario.says) /\ Len(inbox') = Len(inbox) + 1
    BY <2>1 DEF TypeOK
  <2>3. wanted' \in BOOLEAN
    BY <1>1 DEF Send, TypeOK
  <2> QED
    BY <1>1, <2>1, <2>2, <2>3
       DEF TypeOK, Send, effects, DraftOK, ConstantsAssumption
<1>2. ASSUME NEW u \in Users, IssueCode(u)
      PROVE  Shaped'
  BY <1>2 DEF TypeOK, IssueCode, polling, sent, DraftOK
<1>3. ASSUME NEW u \in Users, SetChat(u)
      PROVE  Shaped'
  <2>1. linked' \subseteq Users /\ IsFiniteSet(linked')
    BY <1>3, FS_AddElement, FS_RemoveElement DEF SetChat, TypeOK
  <2>2. relinked' \in BOOLEAN
    BY <1>3 DEF SetChat, Relink, TypeOK
  <2> QED
    BY <1>3, <2>1, <2>2 DEF TypeOK, SetChat, polling, sent, DraftOK
<1>4. ASSUME Expire
      PROVE  Shaped'
  <2>1. DraftOK'
    BY <1>4, NewDraft DEF Expire, DraftOK, TypeOK
  <2> QED
    BY <1>4, <2>1 DEF Expire, polling, sent, TypeOK
<1> QED
  BY <1>1, <1>2, <1>3, <1>4

\* What polling does with the batch.
LEMMA Polled ==
    ASSUME Shaped, Poll
    PROVE  /\ inbox' \in Seq(scenario.says) /\ Len(inbox') = Len(inbox) - index
           /\ \A i \in 1 .. Len(inbox') : inbox'[i] = inbox[index + i]
           /\ index' = 0 /\ got' = Len(inbox')
<1>1. inbox \in Seq(scenario.says) /\ index \in 0 .. Len(inbox)
  BY DEF Shaped, TypeOK
<1>2. inbox' = SubSeq(inbox, index + 1, Len(inbox))
  BY DEF Poll
<1>3. Len(inbox) \in Nat /\ index + 1 \in Int
      /\ \A i \in index + 1 .. Len(inbox) : inbox[i] \in scenario.says
  BY <1>1
<1>4. /\ inbox' \in Seq(scenario.says)
      /\ Len(inbox') = IF index + 1 <= Len(inbox) THEN Len(inbox) - (index + 1) + 1 ELSE 0
      /\ \A i \in 1 .. Len(inbox) - (index + 1) + 1 : inbox'[i] = inbox[index + 1 + i - 1]
  <2> DEFINE S == scenario.says
             from == index + 1
             to == Len(inbox)
  <2> HIDE DEF S, from, to
  <2>1. from \in Int /\ to \in Int /\ \A i \in from .. to : inbox[i] \in S
    BY <1>3 DEF S, from, to
  <2>2. /\ SubSeq(inbox, from, to) \in Seq(S)
        /\ Len(SubSeq(inbox, from, to)) = IF from <= to THEN to - from + 1 ELSE 0
        /\ \A i \in 1 .. to - from + 1 : SubSeq(inbox, from, to)[i] = inbox[from + i - 1]
    BY <2>1, SubSeqProperties
  <2> QED
    BY <1>2, <2>2 DEF S, from, to
<1>5. Len(inbox') = Len(inbox) - index
  BY <1>1, <1>3, <1>4
<1>6. \A i \in 1 .. Len(inbox') : inbox'[i] = inbox[index + i]
  BY <1>1, <1>3, <1>4, <1>5
<1> QED
  BY <1>4, <1>5, <1>6 DEF Poll

\* What the loop does.
LEMMA ShapedLoop ==
    ASSUME ConstantsAssumption, Shaped, Poll \/ Handle \/ HandleFails \/ Crash
    PROVE  Shaped'
<1> USE DEF Shaped
<1>1. CASE Poll
  <2>1. inbox' \in Seq(scenario.says) /\ Len(inbox') <= MaxInbox
        /\ got' \in 0 .. Len(inbox') /\ index' \in 0 .. got'
    BY <1>1, Polled DEF TypeOK, ConstantsAssumption
  <2> QED
    BY <1>1, <2>1 DEF TypeOK, Poll, effects, sent, DraftOK
<1>2. CASE Handle
  <2>1. Outcome(Message)
    BY <1>2 DEF Handle, Outcome
  <2>2. index' \in 0 .. got
    BY <1>2 DEF Handle, Continue, Advance, TypeOK
  <2>3. relinked' \in BOOLEAN
    BY <1>2 DEF Handle, Relink, TypeOK
  <2> QED
    BY <1>2, <2>1, <2>2, <2>3, ShapedAfter DEF TypeOK, Handle, sent
<1>3. CASE HandleFails
  <2>1. Outcome(Message)
    BY <1>3 DEF HandleFails, Outcome
  <2>2. got' \in 0 .. Len(inbox) /\ index' \in 0 .. got'
    BY <1>3 DEF HandleFails, Continue, Restart, Advance, TypeOK
  <2>3. faults' \in 0 .. MaxFaults
    BY <1>3 DEF HandleFails, TypeOK, ConstantsAssumption
  <2> QED
    BY <1>3, <2>1, <2>2, <2>3, ShapedAfter DEF TypeOK, HandleFails, sent
<1>4. CASE Crash
  BY <1>4 DEF TypeOK, Crash, Restart, effects, sent, DraftOK, ConstantsAssumption
<1> QED
  BY <1>1, <1>2, <1>3, <1>4

LEMMA ShapedStep ==
    ASSUME ConstantsAssumption, Shaped, [Next]_vars
    PROVE  Shaped'
<1>1. CASE UNCHANGED vars
  BY <1>1 DEF Shaped, TypeOK, DraftOK, vars, polling, effects, sent
<1> QED
  BY <1>1, ShapedOwner, ShapedLoop DEF Next

LEMMA ShapedAlways == Spec => []Shaped
<1> USE ConstantsAssumption
<1> QED
  BY ShapedInit, ShapedStep, PTL DEF Spec

\* Type correctness; with it, no step of the dialogue meets a draft in which a field is
\* missing, whatever was interrupted, resumed, expired or delivered again.
THEOREM TypeCorrect == Spec => []TypeOK
<1>1. Shaped => TypeOK
  BY DEF Shaped
<1> QED
  BY <1>1, ShapedAlways, PTL

----------------------------------------------------------------------------
(* Who owns the rules. *)

\* Unless the link changed during a dialogue, the chat is that of the owner of the
\* draft's server: he was the user when it was named.
Owned ==
    ~relinked => /\ \A r \in rules : Owner[r.server] = r.owner
                 /\ "server" \in draft.filled => linked = {Owner[draft.server]}

LEMMA OwnedAfter ==
    ASSUME Shaped, Owned, NEW m, Outcome(m), ~relinked,
           linked' = linked \/ draft = NoDraft
    PROVE  /\ \A r \in rules' : Owner[r.server] = r.owner
           /\ "server" \in draft'.filled => linked' = {Owner[draft'.server]}
<1>1. \A r \in rules' : Owner[r.server] = r.owner
  <2>1. CASE rules' \subseteq rules
    BY <2>1 DEF Owned
  <2>2. CASE Known /\ draft.step = "confirm" /\ rules' = rules \cup {NewRule(User)}
    <3>1. "server" \in draft.filled
      BY <2>2 DEF Shaped, TypeOK, DraftOK, Before
    <3>2. linked = {User}
      BY <2>2, TheUser DEF Shaped
    <3>3. Owner[draft.server] = User
      BY <3>1, <3>2 DEF Owned
    <3> QED
      BY <2>2, <3>3 DEF NewRule, Owned
  <2> QED
    BY <2>1, <2>2, RulesAfter
<1>2. ASSUME "server" \in draft'.filled
      PROVE  linked' = {Owner[draft'.server]}
  <2>1. draft' # NoDraft /\ draft' # [NoDraft EXCEPT !.step = "server"]
    <3>1. NoDraft.filled = {} /\ [NoDraft EXCEPT !.step = "server"].filled = {}
      BY DEF NoDraft
    <3> QED
      BY <1>2, <3>1
  <2>2. CASE draft' = draft
    <3>1. draft # NoDraft
      BY <2>1, <2>2
    <3> QED
      BY <1>2, <2>2, <3>1 DEF Owned
  <2>3. CASE /\ Known /\ draft.step # "confirm"
             /\ Accepts(draft.step, m.text, User)
             /\ draft' = Answered(m)
    <3>1. draft # NoDraft
      BY <2>3 DEF NoDraft, Accepts
    <3>2. linked' = {User} /\ linked = {User}
      BY <2>3, <3>1, TheUser DEF Shaped
    <3>3. CASE draft.step = "server"
      <4>1. Owner[m.text] = User
        BY <2>3, <3>3 DEF Accepts, Mine
      <4>2. draft'.server = m.text
        BY <2>3, <3>3 DEF Answered, Shaped, TypeOK, DraftOK, Drafts
      <4> QED
        BY <3>2, <4>1, <4>2
    <3>4. CASE draft.step # "server"
      <4>1. draft'.server = draft.server
        BY <2>3, <3>4, LongerDraft DEF Shaped, TypeOK
      <4>2. draft'.filled = draft.filled \cup {draft.step}
        BY <2>3 DEF Answered, Shaped, TypeOK, DraftOK, Drafts
      <4> QED
        BY <1>2, <3>2, <3>4, <4>1, <4>2 DEF Owned
    <3> QED
      BY <3>3, <3>4
  <2> QED
    BY <2>1, <2>2, <2>3, DraftAfter
<1> QED
  BY <1>1, <1>2

LEMMA OwnedStep ==
    ASSUME Shaped, Owned, [Next]_vars
    PROVE  Owned'
<1>1. NoDraft.filled = {}
  BY DEF NoDraft
<1>2. ASSUME NEW m \in scenario.says, Send(m)
      PROVE  Owned'
  BY <1>2 DEF Send, effects, Owned
<1>3. ASSUME NEW u \in Users, IssueCode(u)
      PROVE  Owned'
  BY <1>3 DEF IssueCode, Owned
<1>4. ASSUME NEW u \in Users, SetChat(u)
      PROVE  Owned'
  <2>1. UNCHANGED <<rules, draft>> /\ (~relinked' => ~relinked)
        /\ (~relinked' => linked' = linked \/ draft = NoDraft)
    BY <1>4 DEF SetChat, Relink
  <2> QED
    BY <1>1, <2>1 DEF Owned
<1>5. ASSUME Expire
      PROVE  Owned'
  BY <1>1, <1>5 DEF Expire, Owned
<1>6. ASSUME Handle
      PROVE  Owned'
  <2>1. Outcome(Message) /\ (~relinked' => ~relinked)
        /\ (~relinked' => linked' = linked \/ draft = NoDraft)
    BY <1>6 DEF Handle, Relink, Outcome
  <2> QED
    BY <2>1, OwnedAfter DEF Owned
<1>7. ASSUME HandleFails
      PROVE  Owned'
  <2>1. Partial(Message, User) /\ relinked' = relinked
    BY <1>7 DEF HandleFails
  <2>2. Outcome(Message) /\ linked' = linked
    BY <2>1, LinkAfterFailure DEF Outcome
  <2> QED
    BY <2>1, <2>2, OwnedAfter DEF Owned
<1>8. ASSUME Poll \/ Crash \/ UNCHANGED vars
      PROVE  Owned'
  BY <1>8 DEF Poll, Crash, vars, effects, Owned
<1> QED
  BY <1>2, <1>3, <1>4, <1>5, <1>6, <1>7, <1>8 DEF Next

\* A rule belongs to the owner of its server, for any number of users and servers and
\* whatever fails, unless the chat changed hands during a dialogue.
THEOREM RulesAreTheOwners == Spec => []RulesHaveOwners
<1>1. ConstantsAssumption /\ Init => Owned
  BY DEF Init, Owned, NoDraft
<1>2. Owned => RulesHaveOwners
  BY DEF Owned, RulesHaveOwners
<1> QED
  BY <1>1, <1>2, ConstantsAssumption, OwnedStep, ShapedAlways, PTL DEF Spec

----------------------------------------------------------------------------
(* Deletions. *)

Unhandled == index + 1 .. Len(inbox)
IsDelete(m, s) == m.cmd = "delete" /\ m.text = s

\* A confirmation that is still to be handled is marked as one that came after its
\* question if the question has been or will have been handled by then.
Foretold ==
    \A i \in Unhandled :
        /\ inbox[i].cmd = "confirm"
        /\ \/ pending # NoServer /\ pending = inbox[i].text
           \/ \E j \in index + 1 .. i - 1 : IsDelete(inbox[j], inbox[i].text)
        => inbox[i].text \in confirmed

\* Every deletion that is pending, or is still to be, was asked for.
Asked ==
    /\ pending # NoServer => pending \in asked
    /\ \A i \in Unhandled : inbox[i].cmd = "delete" => inbox[i].text \in asked

\* As long as nothing fails and no update is delivered again.
InOrder == faults = 0 => Servers \ servers \subseteq confirmed /\ Asked /\ Foretold

\* One more update.
LEMMA OrderOfSend ==
    ASSUME Shaped, InOrder, NEW m \in scenario.says, Send(m)
    PROVE  InOrder'
<1> SUFFICES ASSUME faults' = 0
             PROVE  (Servers \ servers)' \subseteq confirmed' /\ Asked' /\ Foretold'
  BY DEF InOrder
<1>1. /\ inbox' = Append(inbox, m)
      /\ UNCHANGED <<index, pending, servers, faults>>
      /\ asked' = IF m.cmd = "delete" THEN asked \cup {m.text} ELSE asked
      /\ confirmed' = IF m.cmd = "confirm" /\ m.text \in asked
                      THEN confirmed \cup {m.text} ELSE confirmed
  BY DEF Send, effects
<1>2. Servers \ servers \subseteq confirmed /\ Asked /\ Foretold
  BY <1>1 DEF InOrder
<1>3. /\ Len(inbox) \in Nat /\ index \in Nat /\ index <= Len(inbox)
      /\ Len(inbox') = Len(inbox) + 1 /\ inbox'[Len(inbox) + 1] = m
      /\ \A i \in 1 .. Len(inbox) : inbox'[i] = inbox[i]
  BY <1>1 DEF Shaped, TypeOK
<1>4. \A i \in Unhandled' : i \in Unhandled \/ i = Len(inbox) + 1
  BY <1>1, <1>3 DEF Unhandled
<1>5. \A i \in Unhandled : i \in 1 .. Len(inbox) /\ inbox'[i] = inbox[i]
  BY <1>3 DEF Unhandled
<1>6. Asked'
  BY <1>1, <1>2, <1>3, <1>4, <1>5 DEF Asked
<1>7. Foretold'
  <2> SUFFICES ASSUME NEW i \in Unhandled', inbox'[i].cmd = "confirm",
                      \/ pending # NoServer /\ pending = inbox'[i].text
                      \/ \E j \in index + 1 .. i - 1 : IsDelete(inbox'[j], inbox'[i].text)
               PROVE  inbox'[i].text \in confirmed'
    BY <1>1 DEF Foretold, IsDelete
  <2>1. CASE i \in Unhandled
    <3>1. \A j \in index + 1 .. i - 1 : inbox'[j] = inbox[j]
      BY <2>1, <1>3 DEF Unhandled
    <3>2. inbox[i].text \in confirmed
      BY <2>1, <3>1, <1>2, <1>5 DEF Foretold
    <3> QED
      BY <2>1, <3>2, <1>1, <1>5
  <2>2. CASE i = Len(inbox) + 1
    <3>1. \A j \in index + 1 .. i - 1 : j \in Unhandled
      BY <2>2, <1>3 DEF Unhandled
    <3>2. m.text \in asked
      BY <2>2, <3>1, <1>2, <1>3, <1>5 DEF Asked, IsDelete
    <3> QED
      BY <2>2, <3>2, <1>1, <1>3
  <2> QED
    BY <2>1, <2>2, <1>4
<1> QED
  BY <1>1, <1>2, <1>6, <1>7

\* One update less: the first of those that were not handled.
LEMMA OrderOfHandle ==
    ASSUME ConstantsAssumption, Shaped, InOrder, Handle
    PROVE  InOrder'
<1> DEFINE m == Message
<1> SUFFICES ASSUME faults' = 0
             PROVE  (Servers \ servers)' \subseteq confirmed' /\ Asked' /\ Foretold'
  BY DEF InOrder
<1>1. /\ index < got /\ index' = index + 1
      /\ UNCHANGED <<inbox, asked, confirmed, faults>> /\ Outcome(m)
  BY DEF Handle, Continue, Advance, Outcome, sent
<1>2. Servers \ servers \subseteq confirmed /\ Asked /\ Foretold
  BY <1>1 DEF InOrder
<1>3. /\ Len(inbox) \in Nat /\ index \in Nat /\ index + 1 \in Unhandled
      /\ m = inbox[index + 1]
      /\ \A i \in Unhandled' : i \in Unhandled /\ index + 1 \in index + 1 .. i - 1
  BY <1>1 DEF Shaped, TypeOK, Unhandled, Message
<1> HIDE DEF m
<1>4. Servers \ servers' \subseteq confirmed
  <2>1. CASE servers' = servers
    BY <2>1, <1>2
  <2>2. CASE m.cmd = "confirm" /\ m.text \in servers /\ pending = m.text
             /\ servers' = servers \ {m.text}
    <3>1. pending # NoServer
      BY <2>2 DEF ConstantsAssumption, Shaped, TypeOK
    <3>2. m.text \in confirmed
      BY <2>2, <3>1, <1>2, <1>3 DEF Foretold
    <3> QED
      BY <2>2, <3>2, <1>2
  <2> QED
    BY <2>1, <2>2, <1>1, ServersAfter
<1>5. pending' \in {pending, NoServer} \/ IsDelete(m, pending')
  BY <1>1, PendingAfter DEF IsDelete
<1>6. Asked'
  <2>1. pending' # NoServer => pending' \in asked
    BY <1>2, <1>3, <1>5 DEF Asked, IsDelete
  <2> QED
    BY <2>1, <1>1, <1>2, <1>3 DEF Asked
<1>7. Foretold'
  <2> SUFFICES ASSUME NEW i \in Unhandled', inbox[i].cmd = "confirm",
                      \/ pending' # NoServer /\ pending' = inbox[i].text
                      \/ \E j \in index' + 1 .. i - 1 : IsDelete(inbox[j], inbox[i].text)
               PROVE  inbox[i].text \in confirmed
    BY <1>1 DEF Foretold, IsDelete
  <2>1. \/ pending # NoServer /\ pending = inbox[i].text
        \/ \E j \in index + 1 .. i - 1 : IsDelete(inbox[j], inbox[i].text)
    <3>1. ASSUME NEW j \in index' + 1 .. i - 1
          PROVE  j \in index + 1 .. i - 1
      BY <1>1, <1>3
    <3>2. CASE IsDelete(m, inbox[i].text)
      BY <3>2, <1>3
    <3> QED
      BY <3>1, <3>2, <1>5
  <2> QED
    BY <2>1, <1>2, <1>3 DEF Foretold
<1> QED
  BY <1>1, <1>4, <1>6, <1>7

\* The rest of the batch, counted anew.
LEMMA OrderOfPoll ==
    ASSUME Shaped, InOrder, Poll
    PROVE  InOrder'
<1> SUFFICES ASSUME faults' = 0
             PROVE  (Servers \ servers)' \subseteq confirmed' /\ Asked' /\ Foretold'
  BY DEF InOrder
<1>1. UNCHANGED <<servers, pending, asked, confirmed, faults>>
  BY DEF Poll, effects, sent
<1>2. Servers \ servers \subseteq confirmed /\ Asked /\ Foretold
  BY <1>1 DEF InOrder
<1>3. /\ Len(inbox) \in Nat /\ index \in Nat /\ index' = 0
      /\ Len(inbox') = Len(inbox) - index
      /\ \A i \in 1 .. Len(inbox') : inbox'[i] = inbox[index + i]
  BY Polled DEF Shaped, TypeOK
<1>4. \A i \in Unhandled' : /\ i \in 1 .. Len(inbox')
                            /\ index + i \in Unhandled /\ inbox'[i] = inbox[index + i]
  BY <1>3 DEF Unhandled
<1>5. Asked'
  BY <1>1, <1>2, <1>4 DEF Asked
<1>6. Foretold'
  <2> SUFFICES ASSUME NEW i \in Unhandled', inbox'[i].cmd = "confirm",
                      \/ pending # NoServer /\ pending = inbox'[i].text
                      \/ \E j \in index' + 1 .. i - 1 : IsDelete(inbox'[j], inbox'[i].text)
               PROVE  inbox'[i].text \in confirmed
    BY <1>1 DEF Foretold, IsDelete
  <2>1. ASSUME NEW j \in index' + 1 .. i - 1
        PROVE  /\ index + j \in index + 1 .. (index + i) - 1
               /\ inbox'[j] = inbox[index + j]
    BY <1>3, <1>4
  <2> QED
    BY <2>1, <1>2, <1>4 DEF Foretold
<1> QED
  BY <1>1, <1>2, <1>5, <1>6

LEMMA OrderStep ==
    ASSUME ConstantsAssumption, Shaped, InOrder, [Next]_vars
    PROVE  InOrder'
<1>1. ASSUME HandleFails \/ Crash
      PROVE  InOrder'
  BY <1>1 DEF HandleFails, Crash, InOrder, Shaped, TypeOK
<1>2. ASSUME (\E u \in Users : IssueCode(u) \/ SetChat(u)) \/ UNCHANGED vars
      PROVE  InOrder'
  BY <1>2 DEF IssueCode, SetChat, vars, polling, effects, sent, InOrder, Asked, Foretold,
              Unhandled, IsDelete
<1>3. ASSUME Expire
      PROVE  InOrder'
  BY <1>3 DEF Expire, polling, sent, InOrder, Asked, Foretold, Unhandled, IsDelete
<1> QED
  BY <1>1, <1>2, <1>3, OrderOfSend, OrderOfHandle, OrderOfPoll DEF Next

\* As long as no update is delivered again, a server disappears only if its deletion was
\* asked for and confirmed after that, in any stream of messages.
THEOREM OnlyConfirmedDeletions == Spec => []DeletedAsAsked
<1>1. ConstantsAssumption /\ Init => InOrder
  BY DEF Init, InOrder, Asked, Foretold, Unhandled
<1>2. InOrder => DeletedAsAsked
  BY DEF InOrder, DeletedAsAsked
<1> QED
  BY <1>1, <1>2, ConstantsAssumption, OrderStep, ShapedAlways, PTL DEF Spec

----------------------------------------------------------------------------
(* Toggling. *)

ToggledBy(m, b) == IF m.cmd = "toggle" THEN ~b ELSE b

\* A way to count toggles without counting: what the rule's switch will be after each
\* of the updates that are still to be handled.
Course(f) ==
    /\ f \in [index .. Len(inbox) -> BOOLEAN]
    /\ f[index] = on /\ f[Len(inbox)] = wanted
    /\ \A i \in Unhandled : f[i] = ToggledBy(inbox[i], f[i - 1])

\* As long as nothing fails and nobody touches the link.
Foreseen ==
    faults + links = 0 =>
        /\ codes = {} /\ linked = {Linked}
        /\ Mine(RuleServer, Linked) => \E f : Course(f)

LEMMA CourseOfSend ==
    ASSUME Shaped, Foreseen, NEW m \in scenario.says, Send(m)
    PROVE  Foreseen'
<1>1. /\ inbox' = Append(inbox, m)
      /\ UNCHANGED <<index, on, servers, linked, codes, faults, links>>
      /\ wanted' = ToggledBy(m, wanted)
  BY DEF Send, effects, ToggledBy
<1> SUFFICES ASSUME faults + links = 0, Mine(RuleServer, Linked), NEW f, Course(f)
             PROVE  \E g : Course(g)'
  BY <1>1 DEF Foreseen, Mine
<1> DEFINE g == [i \in index .. Len(inbox) + 1 |->
                   IF i = Len(inbox) + 1 THEN wanted' ELSE f[i]]
<1>2. /\ Len(inbox) \in Nat /\ index \in Nat /\ index <= Len(inbox)
      /\ Len(inbox') = Len(inbox) + 1 /\ inbox'[Len(inbox) + 1] = m
      /\ \A i \in 1 .. Len(inbox) : inbox'[i] = inbox[i]
  BY <1>1 DEF Shaped, TypeOK
<1>3. wanted' \in BOOLEAN /\ wanted \in BOOLEAN
  BY <1>1 DEF Shaped, TypeOK, ToggledBy
<1>4. g \in [index' .. Len(inbox') -> BOOLEAN]
  BY <1>1, <1>2, <1>3 DEF Course
<1>5. g[index] = f[index] /\ g[Len(inbox')] = wanted' /\ g[Len(inbox)] = f[Len(inbox)]
  BY <1>2
<1>6. ASSUME NEW i \in Unhandled'
      PROVE  g[i] = ToggledBy(inbox'[i], g[i - 1])
  <2>1. CASE i \in Unhandled
    <3>1. /\ i \in 1 .. Len(inbox) /\ i \in index .. Len(inbox)
          /\ i - 1 \in index .. Len(inbox)
          /\ i # Len(inbox) + 1 /\ i - 1 # Len(inbox) + 1
      BY <2>1, <1>2 DEF Unhandled
    <3>2. g[i] = f[i] /\ g[i - 1] = f[i - 1] /\ inbox'[i] = inbox[i]
      BY <3>1, <1>2
    <3> QED
      BY <2>1, <3>2 DEF Course
  <2>2. CASE i = Len(inbox) + 1
    <3>1. g[i] = wanted' /\ g[i - 1] = wanted /\ inbox'[i] = m
      BY <2>2, <1>2, <1>5 DEF Course
    <3> QED
      BY <3>1, <1>1
  <2> QED
    BY <2>1, <2>2, <1>1, <1>2 DEF Unhandled
<1> HIDE DEF g
<1>7. PICK h : h = g
  OBVIOUS
<1>8. Course(h)'
  BY <1>1, <1>4, <1>5, <1>6, <1>7 DEF Course
<1> QED
  BY <1>8

LEMMA CourseOfHandle ==
    ASSUME ConstantsAssumption, Shaped, Foreseen, Handle
    PROVE  Foreseen'
<1>1. /\ index < got /\ index' = index + 1
      /\ UNCHANGED <<inbox, wanted, faults, links>> /\ Outcome(Message)
      /\ Full(Message, User)
  BY DEF Handle, Continue, Advance, Outcome, sent
<1> SUFFICES ASSUME faults + links = 0
             PROVE  /\ codes' = {} /\ linked' = {Linked}
                    /\ Mine(RuleServer, Linked)' => \E g : Course(g)'
  BY <1>1 DEF Foreseen
<1>2. codes = {} /\ linked = {Linked}
  BY DEF Foreseen
<1>3. codes' = {} /\ linked' = {Linked}
  BY <1>1, <1>2, LinkAfter
<1>4. Known /\ User = Linked
  <2>1. Cardinality({Linked}) = 1
    BY FS_Singleton
  <2> QED
    BY <1>2, <2>1 DEF Known, User
<1>5. ASSUME Mine(RuleServer, Linked)'
      PROVE  \E g : Course(g)'
  <2>1. Mine(RuleServer, Linked)
    BY <1>1, <1>5, ServersAfter DEF Mine
  <2>2. PICK f : Course(f)
    BY <2>1 DEF Foreseen
  <2> DEFINE g == [i \in index + 1 .. Len(inbox) |-> f[i]]
  <2>3. /\ Len(inbox) \in Nat /\ index \in Nat /\ index + 1 \in Unhandled
        /\ index + 1 <= Len(inbox) /\ Message = inbox[index + 1]
    BY <1>1 DEF Shaped, TypeOK, Unhandled, Message
  <2>4. on' = ToggledBy(Message, on)
    BY <1>1, <1>4, <2>1, OnAfter DEF ToggledBy
  <2>5. f[index + 1] = on'
    <3>1. f[index + 1] = ToggledBy(inbox[index + 1], f[index + 1 - 1])
      BY <2>2, <2>3 DEF Course
    <3>2. index + 1 - 1 = index
      BY <2>3
    <3> QED
      BY <3>1, <3>2, <2>2, <2>3, <2>4 DEF Course
  <2>6. g \in [index' .. Len(inbox') -> BOOLEAN]
    BY <1>1, <2>2, <2>3 DEF Course
  <2>7. g[index'] = on' /\ g[Len(inbox')] = wanted'
    BY <1>1, <2>2, <2>3, <2>5 DEF Course
  <2>8. ASSUME NEW i \in Unhandled'
        PROVE  g[i] = ToggledBy(inbox'[i], g[i - 1])
    <3>1. /\ i \in Unhandled /\ i \in index + 1 .. Len(inbox)
          /\ i - 1 \in index + 1 .. Len(inbox)
      BY <1>1, <2>3 DEF Unhandled
    <3> QED
      BY <1>1, <2>2, <3>1 DEF Course
  <2> HIDE DEF g
  <2>9. PICK h : h = g
    OBVIOUS
  <2>10. Course(h)'
    BY <2>6, <2>7, <2>8, <2>9 DEF Course
  <2> QED
    BY <2>10
<1> QED
  BY <1>3, <1>5

LEMMA CourseOfPoll ==
    ASSUME Shaped, Foreseen, Poll
    PROVE  Foreseen'
<1>1. UNCHANGED <<on, servers, linked, codes, faults, links, wanted>>
  BY DEF Poll, effects, sent
<1> SUFFICES ASSUME faults + links = 0, Mine(RuleServer, Linked), NEW f, Course(f)
             PROVE  \E g : Course(g)'
  BY <1>1 DEF Foreseen, Mine
<1>2. /\ Len(inbox) \in Nat /\ index \in Nat /\ index' = 0 /\ index <= Len(inbox)
      /\ Len(inbox') = Len(inbox) - index
      /\ \A i \in 1 .. Len(inbox') : inbox'[i] = inbox[index + i]
  BY Polled DEF Shaped, TypeOK
<1> DEFINE g == [i \in 0 .. Len(inbox) - index |-> f[index + i]]
<1>3. g \in [index' .. Len(inbox') -> BOOLEAN]
  BY <1>2 DEF Course
<1>4. g[index'] = on' /\ g[Len(inbox')] = wanted'
  BY <1>1, <1>2 DEF Course
<1>5. ASSUME NEW i \in Unhandled'
      PROVE  g[i] = ToggledBy(inbox'[i], g[i - 1])
  <2>1. i \in 1 .. Len(inbox') /\ i \in 0 .. Len(inbox) - index
        /\ i - 1 \in 0 .. Len(inbox) - index
    BY <1>2 DEF Unhandled
  <2>2. index + i \in Unhandled /\ index + (i - 1) = (index + i) - 1
    BY <1>2, <2>1 DEF Unhandled
  <2>3. f[index + i] = ToggledBy(inbox[index + i], f[(index + i) - 1])
    <3>1. \A k \in Unhandled : f[k] = ToggledBy(inbox[k], f[k - 1])
      BY DEF Course
    <3> QED
      BY <2>2, <3>1
  <2>4. g[i] = f[index + i] /\ g[i - 1] = f[index + (i - 1)] /\ inbox'[i] = inbox[index + i]
    BY <2>1, <1>2
  <2> QED
    BY <2>2, <2>3, <2>4
<1> HIDE DEF g
<1>6. PICK h : h = g
  OBVIOUS
<1>7. Course(h)'
  BY <1>3, <1>4, <1>5, <1>6 DEF Course
<1> QED
  BY <1>7

LEMMA CourseStep ==
    ASSUME ConstantsAssumption, Shaped, Foreseen, [Next]_vars
    PROVE  Foreseen'
<1>1. ASSUME HandleFails \/ Crash \/ \E u \in Users : IssueCode(u) \/ SetChat(u)
      PROVE  Foreseen'
  <2>1. faults' + links' # 0
    BY <1>1 DEF HandleFails, Crash, IssueCode, SetChat, Shaped, TypeOK
  <2> QED
    BY <2>1 DEF Foreseen
<1>2. ASSUME Expire
      PROVE  Foreseen'
  BY <1>2 DEF Expire, polling, sent, Foreseen, Mine, Course, Unhandled
<1>3. ASSUME UNCHANGED vars
      PROVE  Foreseen'
  BY <1>3 DEF vars, polling, effects, sent, Foreseen, Mine, Course, Unhandled
<1> QED
  BY <1>1, <1>2, <1>3, CourseOfSend, CourseOfHandle, CourseOfPoll DEF Next

LEMMA CourseInit ==
    ASSUME ConstantsAssumption, Init
    PROVE  Foreseen
<1> DEFINE f == [i \in 0 .. 0 |-> TRUE]
<1>1. f \in [index .. Len(inbox) -> BOOLEAN] /\ f[index] = on /\ f[Len(inbox)] = wanted
  BY DEF Init
<1>2. Unhandled = {}
  BY DEF Init, Unhandled
<1>3. Course(f)
  BY <1>1, <1>2 DEF Course
<1> QED
  BY <1>3 DEF Init, Foreseen

\* No update is skipped or handled twice: when a stream of messages has been handled,
\* the rule is as the toggles among them say, if nothing failed, the link was left alone
\* and the rule was its user's.
THEOREM EveryToggleCounts == Spec => []ToggledAsAsked
<1>1. Shaped /\ Foreseen => ToggledAsAsked
  BY DEF Shaped, TypeOK, Foreseen, Course, ToggledAsAsked
<1> QED
  BY <1>1, ConstantsAssumption, CourseInit, CourseStep, ShapedAlways, PTL DEF Spec
=============================================================================
