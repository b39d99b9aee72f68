---------------------------------- MODULE Bot ----------------------------------
(***************************************************************************)
(* The Telegram bot and one chat: updates that Telegram keeps until they   *)
(* are confirmed, the loop that handles them one at a time, and what the   *)
(* commands keep between messages, in Redis with a TTL: the link code, the *)
(* deletion to be confirmed, the draft of the /createrule dialogue.        *)
(*                                                                         *)
(* The offset lives in memory: after a restart Telegram delivers again     *)
(* whatever was not confirmed.  A handler that raises is logged and its    *)
(* update is not handled again.                                            *)
(***************************************************************************)
EXTENDS Naturals, Sequences, FiniteSets

CONSTANTS
    Users,        \* accounts
    Servers,      \* servers at the start
    Owner,        \* the owner of each
    RuleServer,   \* the server of the rule that /toggle is sent for
    Linked,       \* the user who has linked the chat at the start
    Scenarios,    \* what is sent and how often the web UI changes the link
    NoServer,     \* not a server
    MaxInbox,     \* bound on the unconfirmed updates
    MaxFaults     \* bound on the crashes and failed handlers

ASSUME ConstantsAssumption ==
    /\ MaxInbox \in Nat /\ MaxFaults \in Nat
    /\ Owner \in [Servers -> Users] /\ RuleServer \in Servers /\ Linked \in Users
    /\ NoServer \notin Servers

VARIABLES
    scenario,     \* what is sent in this behaviour
    inbox,        \* updates Telegram has not seen confirmed
    got,          \* how many of them getUpdates has returned
    index,        \* how many of these the loop is done with: the offset
    linked,       \* users whose telegram_chat_id is this chat
    codes,        \* keys tg:linkcode:*, by the user they link
    servers,
    rules,        \* rules that the dialogue created
    on,           \* is_active of the rule that is toggled
    pending,      \* key pending_delete: of the chat
    draft,        \* key rule_draft: of the chat
    links, faults,
    asked,        \* history: servers whose deletion was asked for, as sent
    confirmed,    \* history: and confirmed after that, as sent
    wanted,       \* history: is_active after all the toggles that were sent
    relinked      \* history: the link changed while there was a draft

polling == <<inbox, got, index>>
sent == <<asked, confirmed, wanted>>
effects == <<linked, codes, servers, rules, on, pending, draft>>
vars == <<scenario, polling, effects, links, faults, sent, relinked>>

NoDraft == [step |-> "none", server |-> NoServer, type |-> "none", filled |-> {}]

\* Texts the dialogue understands; a server's id is a number.
Types == {"system", "docker"}
Say(text) == [cmd |-> "text", text |-> text]
Command(cmd) == [cmd |-> cmd, text |-> "none"]
About(cmd, what) == [cmd |-> cmd, text |-> what]

Init ==
    /\ scenario \in Scenarios
    /\ inbox = <<>> /\ got = 0 /\ index = 0
    /\ linked = {Linked} /\ codes = {}
    /\ servers = Servers /\ rules = {} /\ on = TRUE
    /\ pending = NoServer /\ draft = NoDraft
    /\ links = 0 /\ faults = 0
    /\ asked = {} /\ confirmed = {} /\ wanted = TRUE /\ relinked = FALSE

----------------------------------------------------------------------------
(* The owner, the web UI, and time. *)

Send(m) ==
    /\ Len(inbox) < MaxInbox
    /\ inbox' = Append(inbox, m)
    /\ asked' = IF m.cmd = "delete" THEN asked \cup {m.text} ELSE asked
    /\ confirmed' = IF m.cmd = "confirm" /\ m.text \in asked
                    THEN confirmed \cup {m.text} ELSE confirmed
    /\ wanted' = IF m.cmd = "toggle" THEN ~wanted ELSE wanted
    /\ UNCHANGED <<scenario, got, index, effects, links, faults, relinked>>

IssueCode(u) ==
    /\ links < scenario.links
    /\ links' = links + 1
    /\ codes' = codes \cup {u}
    /\ UNCHANGED <<scenario, polling, linked, servers, rules, on, pending, draft, faults,
                   sent, relinked>>

Relink == relinked' = (relinked \/ (draft # NoDraft /\ linked' # linked))

\* PATCH /me/telegram, with this chat or another one.
SetChat(u) ==
    /\ links < scenario.links
    /\ links' = links + 1
    /\ linked' = IF u \in linked THEN linked \ {u} ELSE linked \cup {u}
    /\ Relink
    /\ UNCHANGED <<scenario, polling, codes, servers, rules, on, pending, draft, faults,
                   sent>>

\* A key's TTL is over.
Expire ==
    /\ \/ draft' = NoDraft /\ UNCHANGED <<pending, codes>>
       \/ pending' = NoServer /\ UNCHANGED <<draft, codes>>
       \/ codes' = {} /\ UNCHANGED <<draft, pending>>
    /\ UNCHANGED <<scenario, polling, linked, servers, rules, on, links, faults, sent,
                   relinked>>

----------------------------------------------------------------------------
(* The handlers: the effects of one message, given the linked user. *)

Message == inbox[index + 1]
Nothing == UNCHANGED effects
OnlyDraft(d) ==
    draft' = d /\ UNCHANGED <<linked, codes, servers, rules, on, pending>>
\* Variant: the owner is not looked at.
MineOrNot(s, u) == s \in servers
Mine(s, u) == s \in servers /\ Owner[s] = u

\* GET and DEL of the code in one transaction, then the UPDATE of the user.
HandleStart(u) ==
    /\ codes' = codes \ {u}
    /\ linked' = IF u \in codes THEN linked \cup {u} ELSE linked
    /\ UNCHANGED <<servers, rules, on, pending, draft>>

HandleCreateRule(u) ==
    IF \E s \in servers : Mine(s, u)
    THEN OnlyDraft([NoDraft EXCEPT !.step = "server"])
    ELSE OnlyDraft(NoDraft)

\* /status, /servers and the like only read; a draft is dropped before.
HandleQuery == OnlyDraft(NoDraft)

HandleToggle(u) ==
    /\ on' = IF Mine(RuleServer, u) THEN ~on ELSE on
    /\ draft' = NoDraft
    /\ UNCHANGED <<linked, codes, servers, rules, pending>>

HandleDelete(s, u) ==
    /\ pending' = IF Mine(s, u) THEN s ELSE pending
    /\ draft' = NoDraft
    /\ UNCHANGED <<linked, codes, servers, rules, on>>

\* Variant: any pending deletion is confirmed.
MatchesAny(s) == pending # NoServer
Matches(s) == pending = s

\* The pending deletion is consumed whether or not it is the one confirmed.  The
\* rules of a server go with it.
HandleConfirm(s, u) ==
    /\ pending' = IF Mine(s, u) THEN NoServer ELSE pending
    /\ servers' = IF Mine(s, u) /\ Matches(s) THEN servers \ {s} ELSE servers
    /\ rules' = {r \in rules : r.server \in servers'}
    /\ draft' = NoDraft
    /\ UNCHANGED <<linked, codes, on>>

\* Answers a step accepts: two steps take free text.
Accepts(step, text, u) ==
    CASE step = "server" -> Mine(text, u)
      [] step = "metric_type" -> text \in Types
      [] step = "name" -> TRUE
      [] step = "metric" -> text = "field"
      [] step = "container" -> TRUE
      [] step = "operator" -> text = "op"
      [] step = "threshold" -> text \in Servers
      [] step = "channels" -> text = "channels"
      [] OTHER -> FALSE

\* Variant: the container is not asked for.
AfterNoContainer(step, type) ==
    CASE step = "server" -> "metric_type" [] step = "metric_type" -> "name"
      [] step = "name" -> "metric"
      [] step = "metric" -> "operator"
      [] step = "operator" -> "threshold" [] step = "threshold" -> "channels"
      [] step = "channels" -> "confirm"

After(step, type) ==
    CASE step = "server" -> "metric_type" [] step = "metric_type" -> "name"
      [] step = "name" -> "metric"
      [] step = "metric" -> IF type = "docker" THEN "container" ELSE "operator"
      [] step = "container" -> "operator"
      [] step = "operator" -> "threshold" [] step = "threshold" -> "channels"
      [] OTHER -> "confirm"

\* One answer: the next step with one more field, or the question again.
Answer(text, u) ==
    /\ draft.step # "confirm"
    /\ OnlyDraft(IF Accepts(draft.step, text, u)
                 THEN [draft EXCEPT
                         !.step = After(draft.step, draft.type),
                         !.server = IF draft.step = "server" THEN text ELSE @,
                         !.type = IF draft.step = "metric_type" THEN text ELSE @,
                         !.filled = @ \cup {draft.step}]
                 ELSE draft)

\* The rule belongs to the user who is linked now.  Its server may be gone.
NewRule(u) == [server |-> draft.server, owner |-> u]
Create(u) ==
    /\ draft.step = "confirm"
    /\ draft.server \in servers
    /\ rules' = rules \cup {NewRule(u)}
    /\ UNCHANGED <<linked, codes, servers, on, pending>>

\* "yes" creates the rule, unless the server is gone: then the INSERT raises and the
\* draft stays.  "no" ends the dialogue, anything else repeats the question.
Confirm(text, u) ==
    \/ text = "yes" /\ Create(u) /\ draft' = NoDraft
    \/ text = "yes" /\ draft.server \notin servers /\ Nothing
    \/ text = "no" /\ OnlyDraft(NoDraft)
    \/ text \notin {"yes", "no"} /\ Nothing

\* The user of the chat.  telegram_chat_id is not unique: with two of them the query
\* raises, and with none the message is refused.
Known == Cardinality(linked) = 1
User == CHOOSE u \in linked : TRUE

\* _handle_message, to its end.
Full(m, u) ==
    CASE m.cmd = "start" -> HandleStart(m.text)
      [] m.cmd # "start" /\ ~Known -> Nothing
      [] OTHER ->
           \/ m.cmd = "cancel" /\ OnlyDraft(NoDraft)
           \/ m.cmd = "query" /\ HandleQuery
           \/ m.cmd = "text" /\ draft = NoDraft /\ Nothing
           \/ m.cmd = "text" /\ draft.step = "confirm" /\ Confirm(m.text, u)
           \/ m.cmd = "text" /\ draft # NoDraft /\ Answer(m.text, u)
           \/ m.cmd = "createrule" /\ HandleCreateRule(u)
           \/ m.cmd = "toggle" /\ HandleToggle(u)
           \/ m.cmd = "delete" /\ HandleDelete(m.text, u)
           \/ m.cmd = "confirm" /\ HandleConfirm(m.text, u)

\* _handle_message, ended by a failure between two of its effects.
Partial(m, u) ==
    \/ Nothing
    \/ /\ m.cmd = "start"
       /\ codes' = codes \ {m.text}
       /\ UNCHANGED <<linked, servers, rules, on, pending, draft>>
    \/ /\ Known
       /\ \/ m.cmd \notin {"start", "text"} /\ OnlyDraft(NoDraft)
          \/ /\ m.cmd = "confirm" /\ Mine(m.text, u)
             /\ pending' = NoServer /\ draft' = NoDraft
             /\ UNCHANGED <<linked, codes, servers, rules, on>>
          \/ m = Say("yes") /\ Create(u) /\ UNCHANGED draft

----------------------------------------------------------------------------
(* The loop. *)

\* Variant: the request carries no offset.
PollAgain ==
    /\ index = got
    /\ inbox # <<>>
    /\ got' = Len(inbox)
    /\ index' = 0
    /\ UNCHANGED <<scenario, inbox, effects, links, faults, sent, relinked>>

\* getUpdates confirms what the offset has passed and returns the rest.
Poll ==
    /\ index = got
    /\ inbox # <<>>
    /\ inbox' = SubSeq(inbox, index + 1, Len(inbox))
    /\ got' = Len(inbox')
    /\ index' = 0
    /\ UNCHANGED <<scenario, effects, links, faults, sent, relinked>>

\* Variant: the offset is that of the batch's last update.
AdvanceToLast == got
Advance == index + 1

\* The loop goes on to the next update.
Continue == index' = Advance

\* The process is started again and has no offset.
Restart == index' = 0 /\ got' = 0

Handle ==
    /\ index < got
    /\ Full(Message, User)
    /\ Relink
    /\ Continue
    /\ UNCHANGED <<scenario, inbox, got, links, faults, sent>>

\* An exception is logged; a crash restarts the process, before, in or after a
\* handler.
HandleFails ==
    /\ index < got
    /\ faults < MaxFaults
    /\ faults' = faults + 1
    /\ \/ Partial(Message, User) /\ Continue /\ UNCHANGED got
       \/ Partial(Message, User) /\ Restart
    /\ UNCHANGED <<scenario, inbox, links, sent, relinked>>

Crash ==
    /\ faults < MaxFaults
    /\ faults' = faults + 1
    /\ Restart
    /\ UNCHANGED <<scenario, inbox, effects, links, sent, relinked>>

Next ==
    \/ \E m \in scenario.says : Send(m)
    \/ \E u \in Users : IssueCode(u) \/ SetChat(u)
    \/ Expire
    \/ Poll \/ Handle \/ HandleFails \/ Crash

Spec == Init /\ [][Next]_vars

\* The loop runs; a process that died is restarted.
FairSpec == Spec /\ WF_vars(Poll \/ Handle)

----------------------------------------------------------------------------
(* Properties. *)

Before(step, type) ==
    CASE step = "none" -> {}
      [] step = "server" -> {}
      [] step = "metric_type" -> {"server"}
      [] step = "name" -> {"server", "metric_type"}
      [] step = "metric" -> {"server", "metric_type", "name"}
      [] OTHER -> {"server", "metric_type", "name", "metric"}
                  \cup (IF step = "container" \/ type = "system" THEN {} ELSE {"container"})
                  \cup (IF step \in {"threshold", "channels", "confirm"}
                        THEN {"operator"} ELSE {})
                  \cup (IF step \in {"channels", "confirm"} THEN {"threshold"} ELSE {})
                  \cup (IF step = "confirm" THEN {"channels"} ELSE {})

Steps == {"server", "metric_type", "name", "metric", "container", "operator",
          "threshold", "channels", "confirm"}
Drafts == [step : Steps \cup {"none"}, server : Servers \cup {NoServer},
           type : Types \cup {"none"}, filled : SUBSET Steps]

\* At every step of the dialogue the fields that later steps read are filled, and
\* only a rule on docker samples is asked for its container.
DraftOK ==
    /\ draft \in Drafts
    /\ draft.filled = Before(draft.step, draft.type)
    /\ "server" \in draft.filled => draft.server \in Servers
    /\ "metric_type" \in draft.filled => draft.type \in Types
    /\ draft.step = "container" => draft.type = "docker"

\* Every variable has its shape, and so has the draft, however the dialogue was
\* interrupted and resumed: no handler reads a missing key of it.
TypeOK ==
    /\ scenario \in Scenarios
    /\ inbox \in Seq(scenario.says) /\ Len(inbox) <= MaxInbox
    /\ got \in 0 .. Len(inbox) /\ index \in 0 .. got
    /\ linked \subseteq Users /\ codes \subseteq Users /\ servers \subseteq Servers
    /\ rules \subseteq [server : Servers, owner : Users] /\ on \in BOOLEAN
    /\ pending \in Servers \cup {NoServer}
    /\ DraftOK
    /\ links \in Nat /\ faults \in 0 .. MaxFaults
    /\ wanted \in BOOLEAN /\ relinked \in BOOLEAN

\* A server disappears only if its deletion was asked for and confirmed in that
\* order, and never because another one's was confirmed.  Once updates are delivered
\* again a confirmation may precede its question.
DeletedAsAsked == faults = 0 => Servers \ servers \subseteq confirmed

\* No update is skipped or handled twice: when all are handled the toggled rule is as
\* it was asked to be, if nothing failed, the chat stayed linked and the rule was its
\* user's all the time.
ToggledAsAsked ==
    faults + links = 0 /\ index = Len(inbox) /\ Mine(RuleServer, Linked) => on = wanted

\* A rule belongs to the owner of its server.  The dialogue checks that at its first
\* step only and takes the owner at the last one: the property is lost if the chat
\* is linked to somebody else in the middle of a dialogue, which /start does not end.
RulesHaveOwners ==
    ~relinked => \A r \in rules : Owner[r.server] = r.owner

\* However many handlers fail, the loop gets on: a full backlog does not stay full, and
\* updates leave it in order, so each of them is handled although others keep coming.
UpdatesAreHandled == Len(inbox) = MaxInbox ~> Len(inbox) < MaxInbox
=============================================================================
