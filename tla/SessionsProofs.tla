---------------------------- MODULE SessionsProofs ----------------------------
(***************************************************************************)
(* Theorems about Sessions, for every number of browsers, requests, tokens *)
(* and resets.                                                             *)
(***************************************************************************)
EXTENDS Sessions, TLAPS, FiniteSetTheorems

Steps == {"idle", "login", "check", "rotate", "mark", "undo", "granted", "refused",
          "logout", "revoke reuse", "set password", "revoke reset"}
Request == [pc : Steps, dev : Devices \cup {None}, tok : Nat, new : Nat, seen : Nat,
            todo : SUBSET Int]

\* The steps of a request that stands for a browser, of one that presents a token,
\* and of one that has stored a new token nobody has yet.
OfBrowser == Steps \ {"idle", "set password", "revoke reset"}
Presenting == {"check", "rotate", "mark", "undo", "logout"}
Granting == {"mark", "undo", "granted"}

----------------------------------------------------------------------------
(* The inductive invariant: TypeOK in parts, and what it needs. *)

Counters ==
    /\ password \in Nat /\ asked \in 0 .. MaxResets
    /\ issued \in 0 .. MaxTokens /\ expired \in 0 .. issued
KeysTyped ==
    /\ live \subseteq (expired + 1) .. issued
    /\ used \subseteq (1 .. issued) \ live
    /\ resets \subseteq 1 .. asked
StoredTyped == stored \in [Devices -> 0 .. issued]
ReqBounded == \A r \in Requests : req[r].tok <= issued /\ req[r].new <= issued
OverlapTyped == overlapped \in BOOLEAN
ReqTyped == req \in [Requests -> Request]
HistoryTyped ==
    /\ opened \in [Tokens -> Nat]
    /\ successors \in [Tokens -> SUBSET Tokens]
    /\ crashes \in Nat

\* What a request carries at each step.
Carried ==
    \A r \in Requests :
        /\ req[r].pc \in OfBrowser => req[r].dev \in Devices
        /\ req[r].pc \in Presenting => req[r].tok # None
        /\ req[r].new # None <=> req[r].pc \in Granting

\* A token that was exchanged, or whose exchange is to be marked, is not live.
SpentIsDead ==
    /\ \A t \in Tokens : Spent(t) => t <= issued /\ t \notin live
    /\ \A r \in Requests : At(r, "mark") => req[r].tok \notin live

IInv ==
    /\ Counters /\ KeysTyped /\ StoredTyped /\ ReqBounded /\ OverlapTyped
    /\ ReqTyped /\ HistoryTyped /\ Carried /\ SpentIsDead

\* A slot without a request has the shape of one.
LEMMA IdleIsRequest == Idle \in Request
BY DEF Idle, Request, Steps, None

\* An empty Redis and no request in flight satisfy the invariant.
LEMMA InitInvariant == Init => IInv
<1> SUFFICES ASSUME Init PROVE IInv
  OBVIOUS
<1> USE ConstantsAssumption DEF Init, None
<1>1. Counters
  BY DEF Counters
<1>2. KeysTyped
  BY DEF KeysTyped
<1>3. StoredTyped
  BY DEF StoredTyped
<1>4. ReqBounded
  BY DEF ReqBounded, Idle
<1>5. OverlapTyped
  BY DEF OverlapTyped
<1>6. ReqTyped
  BY IdleIsRequest DEF ReqTyped
<1>7. HistoryTyped
  BY DEF HistoryTyped
<1>8. Carried
  BY DEF Carried, OfBrowser, Presenting, Granting, Idle
<1>9. SpentIsDead
  BY DEF SpentIsDead, Spent, At, Idle
<1> QED
  BY <1>1, <1>2, <1>3, <1>4, <1>5, <1>6, <1>7, <1>8, <1>9 DEF IInv

----------------------------------------------------------------------------
(* How a step changes one request. *)

Moved(r, pc, dev, tok, new, seen) ==
    /\ req' \in [Requests -> Request]
    /\ req'[r].pc = pc /\ req'[r].dev = dev /\ req'[r].tok = tok
    /\ req'[r].new = new /\ req'[r].seen = seen
    /\ \A q \in Requests \ {r} : req'[q] = req[q]

\* A handler goes on to its next command.
LEMMA MoveTo ==
    ASSUME ReqTyped, NEW r \in Requests, NEW pc \in Steps,
           req' = [req EXCEPT ![r].pc = pc]
    PROVE  Moved(r, pc, req[r].dev, req[r].tok, req[r].new, req[r].seen)
BY DEF ReqTyped, Request, Moved

\* A handler goes on and notes a new token, or drops it.
LEMMA MoveWithNew ==
    ASSUME ReqTyped, NEW r \in Requests, NEW pc \in Steps, NEW n \in Nat,
           req' = [req EXCEPT ![r].pc = pc, ![r].new = n]
    PROVE  Moved(r, pc, req[r].dev, req[r].tok, n, req[r].seen)
BY DEF ReqTyped, Request, Moved

\* A handler begins the SCAN over the keys that are there.
LEMMA MoveWithTodo ==
    ASSUME ReqTyped, NEW r \in Requests, NEW pc \in Steps, NEW s \in SUBSET Int,
           req' = [req EXCEPT ![r].pc = pc, ![r].todo = s]
    PROVE  Moved(r, pc, req[r].dev, req[r].tok, req[r].new, req[r].seen)
BY DEF ReqTyped, Request, Moved

\* A request is answered, or dies.
LEMMA MoveEnd ==
    ASSUME ReqTyped, NEW r \in Requests, req' = [req EXCEPT ![r] = Idle]
    PROVE  Moved(r, "idle", None, None, None, 0)
BY IdleIsRequest DEF ReqTyped, Moved, Idle

\* A request arrives.
LEMMA MoveBegin ==
    ASSUME ReqTyped, NEW r \in Requests, NEW x \in Request, req' = [req EXCEPT ![r] = x]
    PROVE  Moved(r, x.pc, x.dev, x.tok, x.new, x.seen)
BY DEF ReqTyped, Moved

\* A login arrives from a browser; the hash it read is noted.
LEMMA MoveLogin ==
    ASSUME ReqTyped, NEW r \in Requests, NEW pc \in Steps, NEW d \in Devices, NEW n \in Nat,
           req' = [req EXCEPT ![r] = [Idle EXCEPT !.pc = pc, !.dev = d, !.seen = n]]
    PROVE  Moved(r, pc, d, None, None, n)
<1> DEFINE x == [Idle EXCEPT !.pc = pc, !.dev = d, !.seen = n]
<1>1. Idle.tok = None /\ Idle.new = None
  BY DEF Idle
<1>2. x.tok = Idle.tok /\ x.new = Idle.new
  BY IdleIsRequest DEF Request
<1>3. x \in Request /\ x.pc = pc /\ x.dev = d /\ x.seen = n
  BY IdleIsRequest DEF Request
<1>4. req' = [req EXCEPT ![r] = x]
  OBVIOUS
<1> HIDE DEF x
<1> QED
  BY <1>1, <1>2, <1>3, <1>4, MoveBegin DEF Moved

\* A refresh or a logout arrives with the token of a browser.
LEMMA MovePresent ==
    ASSUME ReqTyped, NEW r \in Requests, NEW pc \in Steps, NEW d \in Devices, NEW n \in Nat,
           req' = [req EXCEPT ![r] = [Idle EXCEPT !.pc = pc, !.dev = d, !.tok = n]]
    PROVE  Moved(r, pc, d, n, None, 0)
<1> DEFINE x == [Idle EXCEPT !.pc = pc, !.dev = d, !.tok = n]
<1>1. Idle.seen = 0 /\ Idle.new = None
  BY DEF Idle
<1>2. x.seen = Idle.seen /\ x.new = Idle.new
  BY IdleIsRequest DEF Request
<1>3. x \in Request /\ x.pc = pc /\ x.dev = d /\ x.tok = n
  BY IdleIsRequest DEF Request
<1>4. req' = [req EXCEPT ![r] = x]
  OBVIOUS
<1> HIDE DEF x
<1> QED
  BY <1>1, <1>2, <1>3, <1>4, MoveBegin DEF Moved

\* What is assumed of a move for the parts of the invariant that speak of requests.
LEMMA MovedKeeps ==
    ASSUME IInv, NEW r \in Requests, NEW pc, NEW dev, NEW tok, NEW new, NEW seen,
           Moved(r, pc, dev, tok, new, seen),
           issued' \in Nat, issued <= issued', tok <= issued', new <= issued',
           pc \in OfBrowser => dev \in Devices,
           pc \in Presenting => tok # None,
           new # None <=> pc \in Granting
    PROVE  ReqTyped' /\ ReqBounded' /\ Carried'
<1>1. ReqTyped'
  BY DEF Moved, ReqTyped
<1>2. ReqBounded'
  <2>1. issued \in Nat /\ \A q \in Requests : req[q].tok \in Nat /\ req[q].new \in Nat
    BY ConstantsAssumption DEF IInv, Counters, ReqTyped, Request
  <2>2. req'[r].tok = tok /\ req'[r].new = new
    BY DEF Moved
  <2>3. \A q \in Requests \ {r} : req'[q] = req[q]
    BY DEF Moved
  <2>4. \A q \in Requests : req[q].tok <= issued /\ req[q].new <= issued
    BY DEF IInv, ReqBounded
  <2> QED
    BY <2>1, <2>2, <2>3, <2>4 DEF ReqBounded
<1>3. Carried'
  BY DEF IInv, Carried, Moved, OfBrowser, Presenting, Granting, Steps
<1> QED
  BY <1>1, <1>2, <1>3

\* What most steps need of the invariant.
LEMMA Basics ==
    ASSUME IInv
    PROVE  /\ ReqTyped /\ issued \in Nat /\ expired \in Nat /\ live \in SUBSET Int
           /\ password \in Nat /\ crashes \in Nat
           /\ \A d \in Devices : stored[d] \in Nat /\ stored[d] <= issued
           /\ \A r \in Requests : /\ req[r].pc \in Steps /\ req[r].tok \in Nat
                                  /\ req[r].new \in Nat /\ req[r].seen \in Nat
                                  /\ req[r].tok <= issued /\ req[r].new <= issued
<1>1. issued \in Nat /\ expired \in Nat /\ password \in Nat /\ crashes \in Nat
  BY ConstantsAssumption DEF IInv, Counters, HistoryTyped
<1>2. live \in SUBSET Int
  BY <1>1 DEF IInv, KeysTyped
<1>3. \A d \in Devices : stored[d] \in Nat /\ stored[d] <= issued
  BY <1>1 DEF IInv, StoredTyped
<1>4. \A r \in Requests : /\ req[r].pc \in Steps /\ req[r].tok \in Nat
                          /\ req[r].new \in Nat /\ req[r].seen \in Nat
  BY DEF IInv, ReqTyped, Request
<1>5. \A r \in Requests : req[r].tok <= issued /\ req[r].new <= issued
  BY DEF IInv, ReqBounded
<1> QED
  BY <1>1, <1>2, <1>3, <1>4, <1>5 DEF IInv

----------------------------------------------------------------------------
(* The effect of each step of a request, variable by variable. *)

\* login, up to the verification: only the request changes.
LEMMA LoginVerifyEffect ==
    ASSUME IInv, NEW r \in Requests, NEW d \in Devices, LoginVerify(r, d)
    PROVE  /\ At(r, "idle") /\ stored[d] = None
           /\ Moved(r, "login", d, None, None, password)
           /\ password' = password /\ asked' = asked /\ issued' = issued
           /\ expired' = expired /\ live' = live /\ used' = used
           /\ resets' = resets /\ stored' = stored /\ opened' = opened
           /\ successors' = successors /\ delivered' = delivered
           /\ revoked' = revoked /\ late' = late /\ overlapped' = overlapped
           /\ crashes' = crashes
<1>1. req' = [req EXCEPT ![r] = [Idle EXCEPT !.pc = "login", !.dev = d, !.seen = password]]
  BY DEF LoginVerify
<1>2. Moved(r, "login", d, None, None, password)
  BY <1>1, Basics, MoveLogin DEF Steps
<1> QED
  BY <1>2 DEF LoginVerify, keys, users, history

\* apiFetch presents the stored token: only the request changes.
LEMMA RefreshBeginEffect ==
    ASSUME IInv, NEW r \in Requests, NEW d \in Devices, RefreshBegin(r, d)
    PROVE  /\ At(r, "idle") /\ stored[d] # None
           /\ Moved(r, "check", d, stored[d], None, 0)
           /\ overlapped' \in BOOLEAN
           /\ ~overlapped' => ~overlapped /\ \A q \in Requests : req[q].tok # stored[d]
           /\ password' = password /\ asked' = asked /\ issued' = issued
           /\ expired' = expired /\ live' = live /\ used' = used
           /\ resets' = resets /\ stored' = stored /\ opened' = opened
           /\ successors' = successors /\ delivered' = delivered
           /\ revoked' = revoked /\ late' = late /\ crashes' = crashes
<1>1. req' = [req EXCEPT ![r] = [Idle EXCEPT !.pc = "check", !.dev = d,
                                             !.tok = stored[d]]]
  BY DEF RefreshBegin, Present
<1>2. Moved(r, "check", d, stored[d], None, 0)
  BY <1>1, Basics, MovePresent DEF Steps
<1>3. /\ overlapped' \in BOOLEAN
      /\ ~overlapped' => ~overlapped /\ \A q \in Requests : req[q].tok # stored[d]
  BY Zenon DEF RefreshBegin, Present
<1>4. At(r, "idle") /\ stored[d] # None
  BY DEF RefreshBegin, Present
<1>5. UNCHANGED <<users, issued, expired, keys, stored, opened, successors, delivered,
                  revoked, late, crashes>>
  BY DEF RefreshBegin, Present
<1> QED
  BY <1>2, <1>3, <1>4, <1>5 DEF keys, users

\* logout presents the stored token: only the request changes.
LEMMA LogoutBeginEffect ==
    ASSUME IInv, NEW r \in Requests, NEW d \in Devices, LogoutBegin(r, d)
    PROVE  /\ At(r, "idle") /\ stored[d] # None
           /\ Moved(r, "logout", d, stored[d], None, 0)
           /\ overlapped' \in BOOLEAN
           /\ ~overlapped' => ~overlapped /\ \A q \in Requests : req[q].tok # stored[d]
           /\ password' = password /\ asked' = asked /\ issued' = issued
           /\ expired' = expired /\ live' = live /\ used' = used
           /\ resets' = resets /\ stored' = stored /\ opened' = opened
           /\ successors' = successors /\ delivered' = delivered
           /\ revoked' = revoked /\ late' = late /\ crashes' = crashes
<1>1. req' = [req EXCEPT ![r] = [Idle EXCEPT !.pc = "logout", !.dev = d,
                                             !.tok = stored[d]]]
  BY DEF LogoutBegin, Present
<1>2. Moved(r, "logout", d, stored[d], None, 0)
  BY <1>1, Basics, MovePresent DEF Steps
<1>3. /\ overlapped' \in BOOLEAN
      /\ ~overlapped' => ~overlapped /\ \A q \in Requests : req[q].tok # stored[d]
  BY Zenon DEF LogoutBegin, Present
<1>4. At(r, "idle") /\ stored[d] # None
  BY DEF LogoutBegin, Present
<1>5. UNCHANGED <<users, issued, expired, keys, stored, opened, successors, delivered,
                  revoked, late, crashes>>
  BY DEF LogoutBegin, Present
<1> QED
  BY <1>2, <1>3, <1>4, <1>5 DEF keys, users

\* store_refresh_jti of a login: one new live token.
LEMMA LoginStoreEffect ==
    ASSUME IInv, NEW r \in Requests, LoginStore(r)
    PROVE  /\ At(r, "login")
           /\ Moved(r, "granted", req[r].dev, req[r].tok, issued', req[r].seen)
           /\ issued' = issued + 1 /\ issued' \in Tokens
           /\ opened' = [opened EXCEPT ![issued'] = req[r].seen]
           /\ late \subseteq late'
           /\ req[r].seen # password \/ Revoking => issued' \in late'
           /\ live' = live \cup {issued'}
           /\ password' = password /\ asked' = asked /\ expired' = expired
           /\ used' = used /\ resets' = resets /\ stored' = stored
           /\ successors' = successors /\ delivered' = delivered
           /\ revoked' = revoked /\ overlapped' = overlapped
           /\ crashes' = crashes
<1>1. /\ issued < MaxTokens /\ issued' = issued + 1
      /\ opened' = [opened EXCEPT ![issued'] = req[r].seen]
  BY DEF LoginStore, Issue
<1>2. issued' \in Tokens /\ issued' \in Nat
  BY <1>1, Basics, ConstantsAssumption DEF Tokens
<1>3. req' = [req EXCEPT ![r].pc = "granted", ![r].new = issued']
  BY DEF LoginStore
<1>4. Moved(r, "granted", req[r].dev, req[r].tok, issued', req[r].seen)
  BY <1>2, <1>3, Basics, MoveWithNew DEF Steps
<1>5. late' = IF req[r].seen # password \/ Revoking THEN late \cup {issued'} ELSE late
  BY DEF LoginStore, Issue
<1>6. /\ late \subseteq late'
      /\ req[r].seen # password \/ Revoking => issued' \in late'
  BY <1>5
<1>7. At(r, "login") /\ live' = live \cup {issued'}
  BY DEF LoginStore
<1>8. UNCHANGED <<users, expired, used, resets, stored, successors, delivered,
                  revoked, overlapped, crashes>>
  BY DEF LoginStore
<1> QED
  BY <1>1, <1>2, <1>4, <1>6, <1>7, <1>8 DEF users

\* is_refresh_jti_used and the checks before it: only the request changes.
LEMMA CheckUsedEffect ==
    ASSUME IInv, NEW r \in Requests, CheckUsed(r)
    PROVE  /\ At(r, "check")
           /\ \E pc \in {"refused", "rotate", "revoke reuse"} :
                /\ Moved(r, pc, req[r].dev, req[r].tok, req[r].new, req[r].seen)
                /\ pc = "revoke reuse" => req[r].tok \in used
           /\ password' = password /\ asked' = asked /\ issued' = issued
           /\ expired' = expired /\ live' = live /\ used' = used
           /\ resets' = resets /\ stored' = stored /\ opened' = opened
           /\ successors' = successors /\ delivered' = delivered
           /\ revoked' = revoked /\ late' = late /\ overlapped' = overlapped
           /\ crashes' = crashes
<1>1. At(r, "check") /\ UNCHANGED <<users, issued, expired, keys, stored, history, crashes>>
  BY DEF CheckUsed
<1>2. CASE req' = [req EXCEPT ![r].pc = "refused"]
  <2>1. Moved(r, "refused", req[r].dev, req[r].tok, req[r].new, req[r].seen)
    BY <1>2, Basics, MoveTo DEF Steps
  <2> QED
    BY <1>1, <2>1, Basics DEF keys, users, history
<1>3. CASE req[r].tok \in used /\ req' = [req EXCEPT ![r].pc = "revoke reuse", ![r].todo = live]
  <2>1. Moved(r, "revoke reuse", req[r].dev, req[r].tok, req[r].new, req[r].seen)
    BY <1>3, Basics, MoveWithTodo DEF Steps
  <2> QED
    BY <1>1, <1>3, <2>1, Basics DEF keys, users, history
<1>4. CASE req' = [req EXCEPT ![r].pc = "rotate"]
  <2>1. Moved(r, "rotate", req[r].dev, req[r].tok, req[r].new, req[r].seen)
    BY <1>4, Basics, MoveTo DEF Steps
  <2> QED
    BY <1>1, <2>1, Basics DEF keys, users, history
<1> QED
  BY <1>2, <1>3, <1>4 DEF CheckUsed

\* rotate_refresh_jti, its transaction: one live token replaced, if it was live.
LEMMA RotateEffect ==
    ASSUME IInv, NEW r \in Requests, Rotate(r)
    PROVE  /\ At(r, "rotate")
           /\ issued' = issued + 1 /\ issued' \in Tokens
           /\ \/ /\ req[r].tok \in live
                 /\ successors' = [successors EXCEPT ![req[r].tok] = @ \cup {issued'}]
                 /\ Moved(r, "mark", req[r].dev, req[r].tok, issued', req[r].seen)
              \/ /\ req[r].tok \notin live /\ successors' = successors
                 /\ Moved(r, "undo", req[r].dev, req[r].tok, issued', req[r].seen)
           /\ opened' = [opened EXCEPT ![issued'] = opened[req[r].tok]]
           /\ late \subseteq late'
           /\ req[r].tok \in late \/ Revoking => issued' \in late'
           /\ live' = (live \ {req[r].tok}) \cup {issued'}
           /\ password' = password /\ asked' = asked /\ expired' = expired
           /\ used' = used /\ resets' = resets /\ stored' = stored
           /\ delivered' = delivered /\ revoked' = revoked
           /\ overlapped' = overlapped /\ crashes' = crashes
<1>1. /\ issued < MaxTokens /\ issued' = issued + 1
      /\ opened' = [opened EXCEPT ![issued'] = opened[req[r].tok]]
  BY DEF Rotate, Issue
<1>2. issued' \in Tokens /\ issued' \in Nat
  BY <1>1, Basics, ConstantsAssumption DEF Tokens
<1>3. late' = IF req[r].tok \in late \/ Revoking THEN late \cup {issued'} ELSE late
  BY DEF Rotate, Issue
<1>4. /\ late \subseteq late'
      /\ req[r].tok \in late \/ Revoking => issued' \in late'
  BY <1>3
<1>5. \/ /\ req[r].tok \in live
         /\ successors' = [successors EXCEPT ![req[r].tok] = @ \cup {issued'}]
         /\ req' = [req EXCEPT ![r].pc = "mark", ![r].new = issued']
      \/ /\ req[r].tok \notin live /\ successors' = successors
         /\ req' = [req EXCEPT ![r].pc = "undo", ![r].new = issued']
  BY DEF Rotate
<1>6. \/ /\ req[r].tok \in live
         /\ successors' = [successors EXCEPT ![req[r].tok] = @ \cup {issued'}]
         /\ Moved(r, "mark", req[r].dev, req[r].tok, issued', req[r].seen)
      \/ /\ req[r].tok \notin live /\ successors' = successors
         /\ Moved(r, "undo", req[r].dev, req[r].tok, issued', req[r].seen)
  <2>1. "mark" \in Steps /\ "undo" \in Steps
    BY DEF Steps
  <2> QED
    BY <1>2, <1>5, <2>1, Basics, MoveWithNew
<1>7. At(r, "rotate") /\ live' = (live \ {req[r].tok}) \cup {issued'}
  BY DEF Rotate
<1>8. UNCHANGED <<users, expired, used, resets, stored, delivered, revoked, overlapped,
                  crashes>>
  BY DEF Rotate
<1> QED
  BY <1>1, <1>2, <1>4, <1>6, <1>7, <1>8 DEF users

\* rotate_refresh_jti, its marker.
LEMMA MarkUsedEffect ==
    ASSUME IInv, NEW r \in Requests, MarkUsed(r)
    PROVE  /\ At(r, "mark")
           /\ Moved(r, "granted", req[r].dev, req[r].tok, req[r].new, req[r].seen)
           /\ used' = used \cup {req[r].tok}
           /\ password' = password /\ asked' = asked /\ issued' = issued
           /\ expired' = expired /\ live' = live /\ resets' = resets
           /\ stored' = stored /\ opened' = opened /\ successors' = successors
           /\ delivered' = delivered /\ revoked' = revoked /\ late' = late
           /\ overlapped' = overlapped /\ crashes' = crashes
<1>1. req' = [req EXCEPT ![r].pc = "granted"]
  BY DEF MarkUsed
<1>2. Moved(r, "granted", req[r].dev, req[r].tok, req[r].new, req[r].seen)
  BY <1>1, Basics, MoveTo DEF Steps
<1> QED
  BY <1>2 DEF MarkUsed, users, history

\* rotate_refresh_jti, refused: the new token is deleted.
LEMMA UndoEffect ==
    ASSUME IInv, NEW r \in Requests, Undo(r)
    PROVE  /\ At(r, "undo")
           /\ Moved(r, "refused", req[r].dev, req[r].tok, None, req[r].seen)
           /\ live' = live \ {req[r].new}
           /\ password' = password /\ asked' = asked /\ issued' = issued
           /\ expired' = expired /\ used' = used /\ resets' = resets
           /\ stored' = stored /\ opened' = opened /\ successors' = successors
           /\ delivered' = delivered /\ revoked' = revoked /\ late' = late
           /\ overlapped' = overlapped /\ crashes' = crashes
<1>1. req' = [req EXCEPT ![r].pc = "refused", ![r].new = None]
  BY DEF Undo
<1>2. Moved(r, "refused", req[r].dev, req[r].tok, None, req[r].seen)
  BY <1>1, Basics, MoveWithNew DEF Steps, None
<1> QED
  BY <1>2 DEF Undo, users, history

\* revoke_all_refresh_for_user deletes one key.
LEMMA RevokeOneEffect ==
    ASSUME IInv, NEW r \in Requests, RevokeOne(r)
    PROVE  /\ req' = req
           /\ \E t \in live : live' = live \ {t} /\ revoked' = revoked \cup {t}
           /\ password' = password /\ asked' = asked /\ issued' = issued
           /\ expired' = expired /\ used' = used /\ resets' = resets
           /\ stored' = stored /\ opened' = opened /\ successors' = successors
           /\ delivered' = delivered /\ late' = late /\ overlapped' = overlapped
           /\ crashes' = crashes
BY DEF RevokeOne, users

\* revoke_all_refresh_for_user is over: only the request changes.
LEMMA RevokeEndEffect ==
    ASSUME IInv, NEW r \in Requests, RevokeEnd(r)
    PROVE  /\ \/ /\ At(r, "revoke reuse")
                 /\ Moved(r, "refused", req[r].dev, req[r].tok, req[r].new, req[r].seen)
              \/ /\ At(r, "revoke reset")
                 /\ Moved(r, "idle", None, None, None, 0)
           /\ password' = password /\ asked' = asked /\ issued' = issued
           /\ expired' = expired /\ live' = live /\ used' = used
           /\ resets' = resets /\ stored' = stored /\ opened' = opened
           /\ successors' = successors /\ delivered' = delivered
           /\ revoked' = revoked /\ late' = late /\ overlapped' = overlapped
           /\ crashes' = crashes
<1>1. UNCHANGED <<users, issued, expired, keys, stored, history, crashes>>
  BY DEF RevokeEnd
<1>2. CASE At(r, "revoke reuse") /\ req' = [req EXCEPT ![r].pc = "refused"]
  <2>1. Moved(r, "refused", req[r].dev, req[r].tok, req[r].new, req[r].seen)
    BY <1>2, Basics, MoveTo DEF Steps
  <2> QED
    BY <1>1, <1>2, <2>1 DEF keys, users, history
<1>3. CASE At(r, "revoke reset") /\ req' = [req EXCEPT ![r] = Idle]
  <2>1. Moved(r, "idle", None, None, None, 0)
    BY <1>3, Basics, MoveEnd
  <2> QED
    BY <1>1, <1>3, <2>1 DEF keys, users, history
<1> QED
  BY <1>2, <1>3 DEF RevokeEnd

\* logout deletes the presented token.
LEMMA LogoutRevokeEffect ==
    ASSUME IInv, NEW r \in Requests, LogoutRevoke(r)
    PROVE  /\ At(r, "logout")
           /\ Moved(r, "refused", req[r].dev, req[r].tok, req[r].new, req[r].seen)
           /\ live' = live \ {req[r].tok} /\ revoked' = revoked \cup {req[r].tok}
           /\ password' = password /\ asked' = asked /\ issued' = issued
           /\ expired' = expired /\ used' = used /\ resets' = resets
           /\ stored' = stored /\ opened' = opened /\ successors' = successors
           /\ delivered' = delivered /\ late' = late /\ overlapped' = overlapped
           /\ crashes' = crashes
<1>1. req' = [req EXCEPT ![r].pc = "refused"]
  BY DEF LogoutRevoke
<1>2. Moved(r, "refused", req[r].dev, req[r].tok, req[r].new, req[r].seen)
  BY <1>1, Basics, MoveTo DEF Steps
<1> QED
  BY <1>2 DEF LogoutRevoke, users

\* setTokens replaces the browser's token.
LEMMA GrantedEffect ==
    ASSUME IInv, NEW r \in Requests, Granted(r)
    PROVE  /\ At(r, "granted")
           /\ Moved(r, "idle", None, None, None, 0)
           /\ stored' = [stored EXCEPT ![req[r].dev] = req[r].new]
           /\ delivered' = delivered \cup {req[r].new}
           /\ password' = password /\ asked' = asked /\ issued' = issued
           /\ expired' = expired /\ live' = live /\ used' = used
           /\ resets' = resets /\ opened' = opened /\ successors' = successors
           /\ revoked' = revoked /\ late' = late /\ overlapped' = overlapped
           /\ crashes' = crashes
<1>1. Moved(r, "idle", None, None, None, 0)
  BY Basics, MoveEnd DEF Granted
<1> QED
  BY <1>1 DEF Granted, users, keys

\* clearTokens removes the browser's token.
LEMMA RefusedEffect ==
    ASSUME IInv, NEW r \in Requests, Refused(r)
    PROVE  /\ At(r, "refused")
           /\ Moved(r, "idle", None, None, None, 0)
           /\ stored' = [stored EXCEPT ![req[r].dev] = None]
           /\ password' = password /\ asked' = asked /\ issued' = issued
           /\ expired' = expired /\ live' = live /\ used' = used
           /\ resets' = resets /\ opened' = opened /\ successors' = successors
           /\ delivered' = delivered /\ revoked' = revoked /\ late' = late
           /\ overlapped' = overlapped /\ crashes' = crashes
<1>1. Moved(r, "idle", None, None, None, 0)
  BY Basics, MoveEnd DEF Refused
<1> QED
  BY <1>1 DEF Refused, users, keys, history

\* A request dies: Redis stays as it is.
LEMMA CrashEffect ==
    ASSUME IInv, NEW r \in Requests, Crash(r)
    PROVE  /\ Moved(r, "idle", None, None, None, 0)
           /\ crashes' = crashes + 1
           /\ \/ stored' = stored
              \/ At(r, "logout") /\ stored' = [stored EXCEPT ![req[r].dev] = None]
           /\ password' = password /\ asked' = asked /\ issued' = issued
           /\ expired' = expired /\ live' = live /\ used' = used
           /\ resets' = resets /\ opened' = opened /\ successors' = successors
           /\ delivered' = delivered /\ revoked' = revoked /\ late' = late
           /\ overlapped' = overlapped
<1>1. Moved(r, "idle", None, None, None, 0)
  BY Basics, MoveEnd DEF Crash
<1> QED
  BY <1>1 DEF Crash, users, keys

\* consume_password_reset_token: the link is used up.
LEMMA ResetBeginEffect ==
    ASSUME IInv, NEW r \in Requests, ResetBegin(r)
    PROVE  /\ At(r, "idle")
           /\ Moved(r, "set password", None, None, None, 0)
           /\ resets' \subseteq resets
           /\ password' = password /\ asked' = asked /\ issued' = issued
           /\ expired' = expired /\ live' = live /\ used' = used
           /\ stored' = stored /\ opened' = opened /\ successors' = successors
           /\ delivered' = delivered /\ revoked' = revoked /\ late' = late
           /\ overlapped' = overlapped /\ crashes' = crashes
<1> DEFINE x == [Idle EXCEPT !.pc = "set password"]
<1>1. req' = [req EXCEPT ![r] = x]
  BY DEF ResetBegin
<1>0. /\ x \in Request /\ x.pc = "set password" /\ x.dev = None /\ x.tok = None
      /\ x.seen = 0 /\ x.new = None
  BY DEF Idle, Request, Steps, None
<1> HIDE DEF x
<1>2. Moved(r, "set password", None, None, None, 0)
  BY <1>1, <1>0, Basics, MoveBegin
<1> QED
  BY <1>2 DEF ResetBegin, users, history

\* reset_password commits the new hash: no token changes.
LEMMA SetPasswordEffect ==
    ASSUME IInv, NEW r \in Requests, SetPassword(r)
    PROVE  /\ At(r, "set password")
           /\ Moved(r, "revoke reset", req[r].dev, req[r].tok, req[r].new, req[r].seen)
           /\ password' = password + 1
           /\ asked' = asked /\ issued' = issued /\ expired' = expired
           /\ live' = live /\ used' = used /\ resets' = resets
           /\ stored' = stored /\ opened' = opened /\ successors' = successors
           /\ delivered' = delivered /\ revoked' = revoked /\ late' = late
           /\ overlapped' = overlapped /\ crashes' = crashes
<1>1. req' = [req EXCEPT ![r].pc = "revoke reset", ![r].todo = live]
  BY DEF SetPassword
<1>2. Moved(r, "revoke reset", req[r].dev, req[r].tok, req[r].new, req[r].seen)
  BY <1>1, Basics, MoveWithTodo DEF Steps
<1> QED
  BY <1>2 DEF SetPassword, keys, history

----------------------------------------------------------------------------
(* The invariant is inductive. *)

\* The parts of the invariant.
LEMMA Parts ==
    ASSUME IInv
    PROVE  /\ Counters /\ KeysTyped /\ StoredTyped /\ ReqBounded /\ OverlapTyped
           /\ ReqTyped /\ HistoryTyped /\ Carried /\ SpentIsDead
BY DEF IInv

\* Carried, step by step.
LEMMA CarriedAt ==
    ASSUME IInv, NEW r \in Requests
    PROVE  /\ At(r, "login") => req[r].dev \in Devices /\ req[r].new = None
           /\ At(r, "check") => req[r].dev \in Devices /\ req[r].tok # None /\ req[r].new = None
           /\ At(r, "rotate") => req[r].dev \in Devices /\ req[r].tok # None /\ req[r].new = None
           /\ At(r, "mark") => req[r].dev \in Devices /\ req[r].tok # None /\ req[r].new # None
           /\ At(r, "undo") => req[r].dev \in Devices /\ req[r].tok # None /\ req[r].new # None
           /\ At(r, "granted") => req[r].dev \in Devices /\ req[r].new # None
           /\ At(r, "refused") => req[r].dev \in Devices /\ req[r].new = None
           /\ At(r, "logout") => req[r].dev \in Devices /\ req[r].tok # None /\ req[r].new = None
           /\ At(r, "revoke reuse") => req[r].dev \in Devices /\ req[r].new = None
           /\ At(r, "idle") \/ At(r, "set password") => req[r].new = None
           /\ At(r, "revoke reset") => req[r].new = None
BY Parts DEF Carried, At, Steps, OfBrowser, Presenting, Granting

\* Every command of every handler preserves the invariant.
LEMMA StepInvariant == IInv /\ [Next]_vars => IInv'
<1> SUFFICES ASSUME IInv, [Next]_vars PROVE IInv'
  OBVIOUS
<1> USE ConstantsAssumption
<1>1. ASSUME NEW r \in Requests, NEW d \in Devices, LoginVerify(r, d) PROVE IInv'
  <2>a. issued' \in Nat /\ issued <= issued' /\ None <= issued'
    BY <1>1, LoginVerifyEffect, Basics DEF None, Tokens
  <2>c. "login" \in OfBrowser /\ "login" \notin Presenting /\ "login" \notin Granting
    BY DEF OfBrowser, Presenting, Granting, Steps
  <2>1. ReqTyped' /\ ReqBounded' /\ Carried'
    BY <1>1, LoginVerifyEffect, <2>a, <2>c, Basics, MovedKeeps
  <2>2. Counters'
    BY <1>1, LoginVerifyEffect, Parts, Basics DEF Counters, Tokens
  <2>3. KeysTyped'
    BY <1>1, LoginVerifyEffect, Parts, Basics
       DEF KeysTyped, SpentIsDead, At, Carried, Presenting, None
  <2>4. StoredTyped'
    BY <1>1, LoginVerifyEffect, Parts, Basics DEF StoredTyped, None
  <2>5. OverlapTyped'
    BY <1>1, LoginVerifyEffect, Parts DEF OverlapTyped
  <2>6. HistoryTyped'
    BY <1>1, LoginVerifyEffect, Parts, Basics DEF HistoryTyped
  <2>7. SpentIsDead'
    BY <1>1, LoginVerifyEffect, Parts, Basics DEF SpentIsDead, Spent, At, Moved
  <2> QED
    BY <2>1, <2>2, <2>3, <2>4, <2>5, <2>6, <2>7 DEF IInv
<1>2. ASSUME NEW r \in Requests, NEW d \in Devices, RefreshBegin(r, d) PROVE IInv'
  <2>a. issued' \in Nat /\ issued <= issued' /\ stored[d] <= issued' /\ None <= issued'
    BY <1>2, RefreshBeginEffect, Basics DEF None, Tokens
  <2>b. d \in Devices /\ stored[d] # None
    BY <1>2, RefreshBeginEffect, CarriedAt
  <2>c. "check" \in OfBrowser /\ "check" \in Presenting /\ "check" \notin Granting
    BY DEF OfBrowser, Presenting, Granting, Steps
  <2>1. ReqTyped' /\ ReqBounded' /\ Carried'
    BY <1>2, RefreshBeginEffect, <2>a, <2>b, <2>c, Basics, MovedKeeps
  <2>2. Counters'
    BY <1>2, RefreshBeginEffect, Parts, Basics DEF Counters, Tokens
  <2>3. KeysTyped'
    BY <1>2, RefreshBeginEffect, Parts, Basics
       DEF KeysTyped, SpentIsDead, At, Carried, Presenting, None
  <2>4. StoredTyped'
    BY <1>2, RefreshBeginEffect, Parts, Basics DEF StoredTyped, None
  <2>5. OverlapTyped'
    BY <1>2, RefreshBeginEffect, Parts DEF OverlapTyped
  <2>6. HistoryTyped'
    BY <1>2, RefreshBeginEffect, Parts, Basics DEF HistoryTyped
  <2>7. SpentIsDead'
    BY <1>2, RefreshBeginEffect, Parts, Basics DEF SpentIsDead, Spent, At, Moved
  <2> QED
    BY <2>1, <2>2, <2>3, <2>4, <2>5, <2>6, <2>7 DEF IInv
<1>3. ASSUME NEW r \in Requests, NEW d \in Devices, LogoutBegin(r, d) PROVE IInv'
  <2>a. issued' \in Nat /\ issued <= issued' /\ stored[d] <= issued' /\ None <= issued'
    BY <1>3, LogoutBeginEffect, Basics DEF None, Tokens
  <2>b. d \in Devices /\ stored[d] # None
    BY <1>3, LogoutBeginEffect, CarriedAt
  <2>c. "logout" \in OfBrowser /\ "logout" \in Presenting /\ "logout" \notin Granting
    BY DEF OfBrowser, Presenting, Granting, Steps
  <2>1. ReqTyped' /\ ReqBounded' /\ Carried'
    BY <1>3, LogoutBeginEffect, <2>a, <2>b, <2>c, Basics, MovedKeeps
  <2>2. Counters'
    BY <1>3, LogoutBeginEffect, Parts, Basics DEF Counters, Tokens
  <2>3. KeysTyped'
    BY <1>3, LogoutBeginEffect, Parts, Basics
       DEF KeysTyped, SpentIsDead, At, Carried, Presenting, None
  <2>4. StoredTyped'
    BY <1>3, LogoutBeginEffect, Parts, Basics DEF StoredTyped, None
  <2>5. OverlapTyped'
    BY <1>3, LogoutBeginEffect, Parts DEF OverlapTyped
  <2>6. HistoryTyped'
    BY <1>3, LogoutBeginEffect, Parts, Basics DEF HistoryTyped
  <2>7. SpentIsDead'
    BY <1>3, LogoutBeginEffect, Parts, Basics DEF SpentIsDead, Spent, At, Moved
  <2> QED
    BY <2>1, <2>2, <2>3, <2>4, <2>5, <2>6, <2>7 DEF IInv
<1>4. ASSUME NEW r \in Requests, LoginStore(r) PROVE IInv'
  <2>0. /\ issued' = issued + 1 /\ issued' \in Tokens
        /\ At(r, "login")
    BY <1>4, LoginStoreEffect
  <2>a. issued' \in Nat /\ issued <= issued' /\ req[r].tok <= issued'
    BY <2>0, Basics DEF None, Tokens
  <2>b. req[r].dev \in Devices /\ issued' # None
    <3>1. req[r].dev \in Devices
      BY <2>0, CarriedAt
    <3>2. issued' # None
      BY <2>0 DEF Tokens, None
    <3> QED
      BY <3>1, <3>2
  <2>c. "granted" \in OfBrowser /\ "granted" \notin Presenting /\ "granted" \in Granting
    BY DEF OfBrowser, Presenting, Granting, Steps
  <2>1. ReqTyped' /\ ReqBounded' /\ Carried'
    BY <1>4, LoginStoreEffect, <2>a, <2>b, <2>c, Basics, MovedKeeps
  <2>2. Counters'
    BY <1>4, LoginStoreEffect, Parts, Basics DEF Counters, Tokens
  <2>d. live' = live \cup {issued'} /\ expired' = expired /\ used' = used
    BY <1>4, LoginStoreEffect
  <2>e. resets' = resets /\ asked' = asked
    BY <1>4, LoginStoreEffect
  <2>3. KeysTyped'
    BY <2>0, <2>d, <2>e, Parts, Basics DEF KeysTyped, Counters
  <2>4. StoredTyped'
    BY <1>4, LoginStoreEffect, Parts, Basics DEF StoredTyped, None
  <2>5. OverlapTyped'
    BY <1>4, LoginStoreEffect, Parts DEF OverlapTyped
  <2>6. HistoryTyped'
    BY <1>4, LoginStoreEffect, Parts, Basics DEF HistoryTyped
  <2>f. /\ successors' = successors /\ req'[r].pc = "granted"
        /\ \A q \in Requests \ {r} : req'[q] = req[q]
    BY <1>4, LoginStoreEffect DEF Moved
  <2>7. SpentIsDead'
    <3>1. \A q \in Requests : req[q].tok # issued'
      BY <2>0, Basics
    <3>2. \A t \in Tokens : t <= issued => t # issued' /\ t <= issued'
      BY <2>0, Basics DEF Tokens
    <3>3. ASSUME NEW t \in Tokens, Spent(t)' PROVE t <= issued' /\ t \notin live'
      BY <2>d, <2>f, <3>2, <3>3, Parts DEF SpentIsDead, Spent
    <3>4. ASSUME NEW q \in Requests, At(q, "mark")' PROVE req'[q].tok \notin live'
      BY <2>d, <2>f, <3>1, <3>4, Parts DEF SpentIsDead, At
    <3> QED
      BY <3>3, <3>4 DEF SpentIsDead
  <2> QED
    BY <2>1, <2>2, <2>3, <2>4, <2>5, <2>6, <2>7 DEF IInv
<1>5. ASSUME NEW r \in Requests, CheckUsed(r) PROVE IInv'
  <2>0. issued' = issued /\ At(r, "check")
    BY <1>5, CheckUsedEffect
  <2>a. /\ issued' \in Nat /\ issued <= issued'
        /\ req[r].tok <= issued' /\ req[r].new <= issued'
    BY <2>0, Basics
  <2>d. req[r].dev \in Devices /\ req[r].tok # None /\ req[r].new = None
    BY <2>0, CarriedAt
  <2>b. \A pc \in {"refused", "rotate", "revoke reuse"} : pc \notin Granting
    BY DEF Granting
  <2>c. PICK pc \in {"refused", "rotate", "revoke reuse"} :
           Moved(r, pc, req[r].dev, req[r].tok, req[r].new, req[r].seen)
    BY <1>5, CheckUsedEffect
  <2>1. ReqTyped' /\ ReqBounded' /\ Carried'
    BY <2>a, <2>b, <2>c, <2>d, Basics, MovedKeeps
  <2>2. Counters'
    BY <1>5, CheckUsedEffect, Parts, Basics DEF Counters, Tokens
  <2>3. KeysTyped'
    BY <1>5, CheckUsedEffect, Parts, Basics
       DEF KeysTyped, SpentIsDead, At, Carried, Presenting, None
  <2>4. StoredTyped'
    BY <1>5, CheckUsedEffect, Parts, Basics DEF StoredTyped, None
  <2>5. OverlapTyped'
    BY <1>5, CheckUsedEffect, Parts DEF OverlapTyped
  <2>6. HistoryTyped'
    BY <1>5, CheckUsedEffect, Parts, Basics DEF HistoryTyped
  <2>7. SpentIsDead'
    BY <1>5, CheckUsedEffect, Parts, Basics DEF SpentIsDead, Spent, At, Moved
  <2> QED
    BY <2>1, <2>2, <2>3, <2>4, <2>5, <2>6, <2>7 DEF IInv
<1>6. ASSUME NEW r \in Requests, Rotate(r) PROVE IInv'
  <2>0. /\ issued' = issued + 1 /\ issued' \in Tokens
        /\ At(r, "rotate")
    BY <1>6, RotateEffect
  <2>a. issued' \in Nat /\ issued <= issued' /\ req[r].tok <= issued'
    BY <2>0, Basics DEF Tokens
  <2>d. req[r].dev \in Devices /\ req[r].tok # None
    BY <2>0, CarriedAt
  <2>e. issued' # None
    BY <2>0 DEF Tokens, None
  <2>b. \A pc \in {"mark", "undo"} : pc \in Granting
    BY DEF Granting
  <2>c. PICK pc \in {"mark", "undo"} :
           Moved(r, pc, req[r].dev, req[r].tok, issued', req[r].seen)
    BY <1>6, RotateEffect
  <2>1. ReqTyped' /\ ReqBounded' /\ Carried'
    BY <2>a, <2>b, <2>c, <2>d, <2>e, Basics, MovedKeeps
  <2>2. Counters'
    BY <1>6, RotateEffect, Parts, Basics DEF Counters, Tokens
  <2>f. live' = (live \ {req[r].tok}) \cup {issued'} /\ expired' = expired /\ used' = used
    BY <1>6, RotateEffect
  <2>g. resets' = resets /\ asked' = asked
    BY <1>6, RotateEffect
  <2>3. KeysTyped'
    BY <2>0, <2>f, <2>g, Parts, Basics DEF KeysTyped, Counters
  <2>4. StoredTyped'
    BY <1>6, RotateEffect, Parts, Basics DEF StoredTyped, None
  <2>5. OverlapTyped'
    BY <1>6, RotateEffect, Parts DEF OverlapTyped
  <2>h. \/ successors' = successors /\ req'[r].pc = "undo"
        \/ /\ req[r].tok \in live
           /\ successors' = [successors EXCEPT ![req[r].tok] = @ \cup {issued'}]
           /\ req'[r].pc = "mark" /\ req'[r].tok = req[r].tok
    BY <1>6, RotateEffect DEF Moved
  <2>i. \A q \in Requests \ {r} : req'[q] = req[q]
    BY <2>c DEF Moved
  <2>6. HistoryTyped'
    <3>1. successors \in [Tokens -> SUBSET Tokens]
      BY Parts DEF HistoryTyped
    <3>2. successors' \in [Tokens -> SUBSET Tokens]
      BY <2>0, <2>h, <3>1
    <3>3. opened \in [Tokens -> Nat] /\ req[r].tok \in Tokens
      <4>1. req[r].tok \in 1 .. issued /\ issued <= MaxTokens
        BY <2>d, Parts, Basics DEF Counters, None
      <4>2. req[r].tok \in Tokens
        BY <4>1, Basics DEF Tokens
      <4> QED
        BY <4>2, Parts DEF HistoryTyped
    <3>4. opened' = [opened EXCEPT ![issued'] = opened[req[r].tok]] /\ crashes' = crashes
      BY <1>6, RotateEffect
    <3>5. opened' \in [Tokens -> Nat]
      BY <3>3, <3>4
    <3> QED
      BY <3>2, <3>4, <3>5, Basics DEF HistoryTyped
  <2>7. SpentIsDead'
    <3>1. \A q \in Requests : req[q].tok # issued'
      BY <2>0, Basics
    <3>2. \A t \in Tokens : t <= issued => t # issued' /\ t <= issued'
      BY <2>0, Basics DEF Tokens
    <3>3. \A t \in Tokens : successors'[t] # {} => t \in Tokens /\ (Spent(t) \/ t = req[r].tok)
      BY <2>h, Parts DEF HistoryTyped, Spent
    <3>4. ASSUME NEW t \in Tokens, Spent(t)' PROVE t <= issued' /\ t \notin live'
      <4>1. CASE Spent(t)
        BY <2>f, <3>2, <4>1, Parts DEF SpentIsDead
      <4>2. CASE t = req[r].tok
        BY <2>a, <2>f, <3>1, <4>2
      <4> QED
        BY <3>3, <3>4, <4>1, <4>2 DEF Spent
    <3>5. ASSUME NEW q \in Requests, At(q, "mark")' PROVE req'[q].tok \notin live'
      <4>1. CASE q = r
        BY <2>f, <2>h, <3>1, <3>5, <4>1 DEF At
      <4>2. CASE q # r
        BY <2>f, <2>i, <3>1, <3>5, <4>2, Parts DEF SpentIsDead, At
      <4> QED
        BY <4>1, <4>2
    <3> QED
      BY <3>4, <3>5 DEF SpentIsDead
  <2> QED
    BY <2>1, <2>2, <2>3, <2>4, <2>5, <2>6, <2>7 DEF IInv
<1>7. ASSUME NEW r \in Requests, MarkUsed(r) PROVE IInv'
  <2>a. issued' \in Nat /\ issued <= issued' /\ req[r].tok <= issued' /\ req[r].new <= issued'
    BY <1>7, MarkUsedEffect, Basics DEF None, Tokens
  <2>b. req[r].dev \in Devices /\ req[r].new # None
    BY <1>7, MarkUsedEffect, CarriedAt
  <2>c. "granted" \in OfBrowser /\ "granted" \notin Presenting /\ "granted" \in Granting
    BY DEF OfBrowser, Presenting, Granting, Steps
  <2>1. ReqTyped' /\ ReqBounded' /\ Carried'
    BY <1>7, MarkUsedEffect, <2>a, <2>b, <2>c, Basics, MovedKeeps
  <2>2. Counters'
    BY <1>7, MarkUsedEffect, Parts, Basics DEF Counters, Tokens
  <2>3. KeysTyped'
    BY <1>7, MarkUsedEffect, Parts, Basics
       DEF KeysTyped, SpentIsDead, At, Carried, Presenting, None
  <2>4. StoredTyped'
    BY <1>7, MarkUsedEffect, Parts, Basics DEF StoredTyped, None
  <2>5. OverlapTyped'
    BY <1>7, MarkUsedEffect, Parts DEF OverlapTyped
  <2>6. HistoryTyped'
    BY <1>7, MarkUsedEffect, Parts, Basics DEF HistoryTyped
  <2>7. SpentIsDead'
    BY <1>7, MarkUsedEffect, Parts, Basics DEF SpentIsDead, Spent, At, Moved
  <2> QED
    BY <2>1, <2>2, <2>3, <2>4, <2>5, <2>6, <2>7 DEF IInv
<1>8. ASSUME NEW r \in Requests, Undo(r) PROVE IInv'
  <2>a. issued' \in Nat /\ issued <= issued' /\ req[r].tok <= issued' /\ None <= issued'
    BY <1>8, UndoEffect, Basics DEF None, Tokens
  <2>b. req[r].dev \in Devices
    BY <1>8, UndoEffect, CarriedAt
  <2>c. "refused" \in OfBrowser /\ "refused" \notin Presenting /\ "refused" \notin Granting
    BY DEF OfBrowser, Presenting, Granting, Steps
  <2>1. ReqTyped' /\ ReqBounded' /\ Carried'
    BY <1>8, UndoEffect, <2>a, <2>b, <2>c, Basics, MovedKeeps
  <2>2. Counters'
    BY <1>8, UndoEffect, Parts, Basics DEF Counters, Tokens
  <2>3. KeysTyped'
    BY <1>8, UndoEffect, Parts, Basics
       DEF KeysTyped, SpentIsDead, At, Carried, Presenting, None
  <2>4. StoredTyped'
    BY <1>8, UndoEffect, Parts, Basics DEF StoredTyped, None
  <2>5. OverlapTyped'
    BY <1>8, UndoEffect, Parts DEF OverlapTyped
  <2>6. HistoryTyped'
    BY <1>8, UndoEffect, Parts, Basics DEF HistoryTyped
  <2>7. SpentIsDead'
    BY <1>8, UndoEffect, Parts, Basics DEF SpentIsDead, Spent, At, Moved
  <2> QED
    BY <2>1, <2>2, <2>3, <2>4, <2>5, <2>6, <2>7 DEF IInv
<1>9. ASSUME NEW r \in Requests, RevokeOne(r) PROVE IInv'
  <2>1. ReqTyped' /\ ReqBounded' /\ Carried'
    BY <1>9, RevokeOneEffect, Parts DEF ReqTyped, ReqBounded, Carried
  <2>2. Counters'
    BY <1>9, RevokeOneEffect, Parts, Basics DEF Counters, Tokens
  <2>3. KeysTyped'
    BY <1>9, RevokeOneEffect, Parts, Basics
       DEF KeysTyped, SpentIsDead, At, Carried, Presenting, None
  <2>4. StoredTyped'
    BY <1>9, RevokeOneEffect, Parts, Basics DEF StoredTyped, None
  <2>5. OverlapTyped'
    BY <1>9, RevokeOneEffect, Parts DEF OverlapTyped
  <2>6. HistoryTyped'
    BY <1>9, RevokeOneEffect, Parts, Basics DEF HistoryTyped
  <2>7. SpentIsDead'
    BY <1>9, RevokeOneEffect, Parts, Basics DEF SpentIsDead, Spent, At, Moved
  <2> QED
    BY <2>1, <2>2, <2>3, <2>4, <2>5, <2>6, <2>7 DEF IInv
<1>10. ASSUME NEW r \in Requests, RevokeEnd(r) PROVE IInv'
  <2>0. issued' = issued
    BY <1>10, RevokeEndEffect
  <2>a. /\ issued' \in Nat /\ issued <= issued' /\ None <= issued'
        /\ req[r].tok <= issued' /\ req[r].new <= issued'
    BY <2>0, Basics DEF None
  <2>b. /\ "idle" \notin OfBrowser /\ "idle" \notin Presenting /\ "idle" \notin Granting
        /\ "refused" \notin Presenting /\ "refused" \notin Granting
    BY DEF OfBrowser, Presenting, Granting, Steps
  <2>1. ReqTyped' /\ ReqBounded' /\ Carried'
    <3>1. CASE /\ At(r, "revoke reuse")
               /\ Moved(r, "refused", req[r].dev, req[r].tok, req[r].new, req[r].seen)
      <4>1. req[r].dev \in Devices /\ req[r].new = None
        BY <3>1, CarriedAt
      <4> QED
        BY <2>a, <2>b, <3>1, <4>1, MovedKeeps
    <3>2. CASE Moved(r, "idle", None, None, None, 0)
      BY <2>a, <2>b, <3>2, MovedKeeps
    <3> QED
      BY <3>1, <3>2, <1>10, RevokeEndEffect
  <2>2. Counters'
    BY <1>10, RevokeEndEffect, Parts, Basics DEF Counters, Tokens
  <2>3. KeysTyped'
    BY <1>10, RevokeEndEffect, Parts, Basics
       DEF KeysTyped, SpentIsDead, At, Carried, Presenting, None
  <2>4. StoredTyped'
    BY <1>10, RevokeEndEffect, Parts, Basics DEF StoredTyped, None
  <2>5. OverlapTyped'
    BY <1>10, RevokeEndEffect, Parts DEF OverlapTyped
  <2>6. HistoryTyped'
    BY <1>10, RevokeEndEffect, Parts, Basics DEF HistoryTyped
  <2>7. SpentIsDead'
    BY <1>10, RevokeEndEffect, Parts, Basics DEF SpentIsDead, Spent, At, Moved
  <2> QED
    BY <2>1, <2>2, <2>3, <2>4, <2>5, <2>6, <2>7 DEF IInv
<1>11. ASSUME NEW r \in Requests, LogoutRevoke(r) PROVE IInv'
  <2>a. issued' \in Nat /\ issued <= issued' /\ req[r].tok <= issued' /\ req[r].new <= issued'
    BY <1>11, LogoutRevokeEffect, Basics DEF None, Tokens
  <2>b. req[r].dev \in Devices /\ req[r].new = None
    BY <1>11, LogoutRevokeEffect, CarriedAt
  <2>c. "refused" \in OfBrowser /\ "refused" \notin Presenting /\ "refused" \notin Granting
    BY DEF OfBrowser, Presenting, Granting, Steps
  <2>1. ReqTyped' /\ ReqBounded' /\ Carried'
    BY <1>11, LogoutRevokeEffect, <2>a, <2>b, <2>c, Basics, MovedKeeps
  <2>2. Counters'
    BY <1>11, LogoutRevokeEffect, Parts, Basics DEF Counters, Tokens
  <2>3. KeysTyped'
    BY <1>11, LogoutRevokeEffect, Parts, Basics
       DEF KeysTyped, SpentIsDead, At, Carried, Presenting, None
  <2>4. StoredTyped'
    BY <1>11, LogoutRevokeEffect, Parts, Basics DEF StoredTyped, None
  <2>5. OverlapTyped'
    BY <1>11, LogoutRevokeEffect, Parts DEF OverlapTyped
  <2>6. HistoryTyped'
    BY <1>11, LogoutRevokeEffect, Parts, Basics DEF HistoryTyped
  <2>7. SpentIsDead'
    BY <1>11, LogoutRevokeEffect, Parts, Basics DEF SpentIsDead, Spent, At, Moved
  <2> QED
    BY <2>1, <2>2, <2>3, <2>4, <2>5, <2>6, <2>7 DEF IInv
<1>12. ASSUME NEW r \in Requests, Granted(r) PROVE IInv'
  <2>a. issued' \in Nat /\ issued <= issued' /\ None <= issued'
    BY <1>12, GrantedEffect, Basics DEF None, Tokens
  <2>c. "idle" \notin OfBrowser /\ "idle" \notin Presenting /\ "idle" \notin Granting
    BY DEF OfBrowser, Presenting, Granting, Steps
  <2>1. ReqTyped' /\ ReqBounded' /\ Carried'
    BY <1>12, GrantedEffect, <2>a, <2>c, Basics, MovedKeeps
  <2>2. Counters'
    BY <1>12, GrantedEffect, Parts, Basics DEF Counters, Tokens
  <2>3. KeysTyped'
    BY <1>12, GrantedEffect, Parts, Basics
       DEF KeysTyped, SpentIsDead, At, Carried, Presenting, None
  <2>4. StoredTyped'
    BY <1>12, GrantedEffect, Parts, Basics DEF StoredTyped, None
  <2>5. OverlapTyped'
    BY <1>12, GrantedEffect, Parts DEF OverlapTyped
  <2>6. HistoryTyped'
    BY <1>12, GrantedEffect, Parts, Basics DEF HistoryTyped
  <2>7. SpentIsDead'
    BY <1>12, GrantedEffect, Parts, Basics DEF SpentIsDead, Spent, At, Moved
  <2> QED
    BY <2>1, <2>2, <2>3, <2>4, <2>5, <2>6, <2>7 DEF IInv
<1>13. ASSUME NEW r \in Requests, Refused(r) PROVE IInv'
  <2>a. issued' \in Nat /\ issued <= issued' /\ None <= issued'
    BY <1>13, RefusedEffect, Basics DEF None, Tokens
  <2>c. "idle" \notin OfBrowser /\ "idle" \notin Presenting /\ "idle" \notin Granting
    BY DEF OfBrowser, Presenting, Granting, Steps
  <2>1. ReqTyped' /\ ReqBounded' /\ Carried'
    BY <1>13, RefusedEffect, <2>a, <2>c, Basics, MovedKeeps
  <2>2. Counters'
    BY <1>13, RefusedEffect, Parts, Basics DEF Counters, Tokens
  <2>3. KeysTyped'
    BY <1>13, RefusedEffect, Parts, Basics
       DEF KeysTyped, SpentIsDead, At, Carried, Presenting, None
  <2>4. StoredTyped'
    BY <1>13, RefusedEffect, Parts, Basics DEF StoredTyped, None
  <2>5. OverlapTyped'
    BY <1>13, RefusedEffect, Parts DEF OverlapTyped
  <2>6. HistoryTyped'
    BY <1>13, RefusedEffect, Parts, Basics DEF HistoryTyped
  <2>7. SpentIsDead'
    BY <1>13, RefusedEffect, Parts, Basics DEF SpentIsDead, Spent, At, Moved
  <2> QED
    BY <2>1, <2>2, <2>3, <2>4, <2>5, <2>6, <2>7 DEF IInv
<1>14. ASSUME NEW r \in Requests, Crash(r) PROVE IInv'
  <2>a. issued' \in Nat /\ issued <= issued' /\ None <= issued'
    BY <1>14, CrashEffect, Basics DEF None, Tokens
  <2>c. "idle" \notin OfBrowser /\ "idle" \notin Presenting /\ "idle" \notin Granting
    BY DEF OfBrowser, Presenting, Granting, Steps
  <2>1. ReqTyped' /\ ReqBounded' /\ Carried'
    BY <1>14, CrashEffect, <2>a, <2>c, Basics, MovedKeeps
  <2>2. Counters'
    BY <1>14, CrashEffect, Parts, Basics DEF Counters, Tokens
  <2>3. KeysTyped'
    BY <1>14, CrashEffect, Parts, Basics
       DEF KeysTyped, SpentIsDead, At, Carried, Presenting, None
  <2>4. StoredTyped'
    BY <1>14, CrashEffect, Parts, Basics DEF StoredTyped, None
  <2>5. OverlapTyped'
    BY <1>14, CrashEffect, Parts DEF OverlapTyped
  <2>6. HistoryTyped'
    BY <1>14, CrashEffect, Parts, Basics DEF HistoryTyped
  <2>7. SpentIsDead'
    BY <1>14, CrashEffect, Parts, Basics DEF SpentIsDead, Spent, At, Moved
  <2> QED
    BY <2>1, <2>2, <2>3, <2>4, <2>5, <2>6, <2>7 DEF IInv
<1>15. ASSUME NEW r \in Requests, ResetBegin(r) PROVE IInv'
  <2>0. issued' = issued
    BY <1>15, ResetBeginEffect
  <2>a. issued' \in Nat /\ issued <= issued' /\ None <= issued'
    BY <2>0, Basics DEF None, Tokens
  <2>c. "set password" \notin OfBrowser /\ "set password" \notin Presenting /\ "set password" \notin Granting
    BY DEF OfBrowser, Presenting, Granting, Steps
  <2>1. ReqTyped' /\ ReqBounded' /\ Carried'
    BY <1>15, ResetBeginEffect, <2>a, <2>c, Basics, MovedKeeps
  <2>2. Counters'
    BY <1>15, ResetBeginEffect, Parts, Basics DEF Counters, Tokens
  <2>3. KeysTyped'
    BY <1>15, ResetBeginEffect, Parts, Basics
       DEF KeysTyped, SpentIsDead, At, Carried, Presenting, None
  <2>4. StoredTyped'
    BY <1>15, ResetBeginEffect, Parts, Basics DEF StoredTyped, None
  <2>5. OverlapTyped'
    BY <1>15, ResetBeginEffect, Parts DEF OverlapTyped
  <2>6. HistoryTyped'
    BY <1>15, ResetBeginEffect, Parts, Basics DEF HistoryTyped
  <2>7. SpentIsDead'
    BY <1>15, ResetBeginEffect, Parts, Basics DEF SpentIsDead, Spent, At, Moved
  <2> QED
    BY <2>1, <2>2, <2>3, <2>4, <2>5, <2>6, <2>7 DEF IInv
<1>16. ASSUME NEW r \in Requests, SetPassword(r) PROVE IInv'
  <2>0. issued' = issued
    BY <1>16, SetPasswordEffect
  <2>a. issued' \in Nat /\ issued <= issued' /\ req[r].tok <= issued' /\ req[r].new <= issued'
    BY <2>0, Basics DEF None, Tokens
  <2>b. req[r].new = None
    BY <1>16, SetPasswordEffect, CarriedAt
  <2>c. "revoke reset" \notin OfBrowser /\ "revoke reset" \notin Presenting /\ "revoke reset" \notin Granting
    BY DEF OfBrowser, Presenting, Granting, Steps
  <2>1. ReqTyped' /\ ReqBounded' /\ Carried'
    BY <1>16, SetPasswordEffect, <2>a, <2>b, <2>c, Basics, MovedKeeps
  <2>2. Counters'
    <3>1. /\ password' = password + 1 /\ asked' = asked
          /\ issued' = issued /\ expired' = expired
      BY <1>16, SetPasswordEffect
    <3> QED
      BY <3>1, Parts, Basics DEF Counters
  <2>3. KeysTyped'
    BY <1>16, SetPasswordEffect, Parts, Basics
       DEF KeysTyped, SpentIsDead, At, Carried, Presenting, None
  <2>4. StoredTyped'
    BY <1>16, SetPasswordEffect, Parts, Basics DEF StoredTyped, None
  <2>5. OverlapTyped'
    BY <1>16, SetPasswordEffect, Parts DEF OverlapTyped
  <2>6. HistoryTyped'
    BY <1>16, SetPasswordEffect, Parts, Basics DEF HistoryTyped
  <2>7. SpentIsDead'
    BY <1>16, SetPasswordEffect, Parts, Basics DEF SpentIsDead, Spent, At, Moved
  <2> QED
    BY <2>1, <2>2, <2>3, <2>4, <2>5, <2>6, <2>7 DEF IInv
<1>17. CASE ForgotPassword
  BY <1>17 DEF ForgotPassword, history, IInv, Counters, KeysTyped, StoredTyped, ReqBounded,
     OverlapTyped, ReqTyped, HistoryTyped, Carried, SpentIsDead, Spent, At
<1>18. CASE Expire
  BY <1>18 DEF Expire, users, history, IInv, Counters, KeysTyped, StoredTyped, ReqBounded,
     OverlapTyped, ReqTyped, HistoryTyped, Carried, SpentIsDead, Spent, At
<1>19. CASE UNCHANGED vars
  BY <1>19
     DEF vars, users, keys, history, IInv, Counters, KeysTyped, StoredTyped, ReqBounded,
     OverlapTyped, ReqTyped, HistoryTyped, Carried, SpentIsDead, Spent, At
<1> QED
  BY <1>1, <1>2, <1>3, <1>4, <1>5, <1>6, <1>7, <1>8, <1>9, <1>10, <1>11, <1>12, <1>13,
     <1>14, <1>15, <1>16, <1>17, <1>18, <1>19 DEF Next

\* The invariant holds in every reachable state.
LEMMA AlwaysInvariant == Spec => []IInv
<1>1. Init => IInv
  BY InitInvariant
<1>2. IInv /\ [Next]_vars => IInv'
  BY StepInvariant
<1> QED
  BY <1>1, <1>2, PTL DEF Spec

\* Every variable keeps its type, and no token is both live and marked as spent, although
\* rotate_refresh_jti writes and deletes the two keys in different commands.
THEOREM TypeCorrect == Spec => []TypeOK
<1>1. IInv => TypeOK
  BY Parts DEF TypeOK, Counters, KeysTyped, StoredTyped, ReqBounded, OverlapTyped
<1> QED
  BY <1>1, AlwaysInvariant, PTL

----------------------------------------------------------------------------
(* Revocation. *)

\* No step whitelists a token again: only a new number enters refresh:*.
LEMMA OnlyNewTokensGoLive ==
    ASSUME IInv, [Next]_vars
    PROVE  live' \subseteq live \cup {issued + 1}
<1>1. ASSUME NEW q \in Requests, NEW d \in Devices, LoginVerify(q, d)
        PROVE live' \subseteq live \cup {issued + 1}
  BY <1>1, LoginVerifyEffect
<1>2. ASSUME NEW q \in Requests, NEW d \in Devices, RefreshBegin(q, d)
        PROVE live' \subseteq live \cup {issued + 1}
  BY <1>2, RefreshBeginEffect
<1>3. ASSUME NEW q \in Requests, NEW d \in Devices, LogoutBegin(q, d)
        PROVE live' \subseteq live \cup {issued + 1}
  BY <1>3, LogoutBeginEffect
<1>4. ASSUME NEW q \in Requests, LoginStore(q) PROVE live' \subseteq live \cup {issued + 1}
  BY <1>4, LoginStoreEffect
<1>5. ASSUME NEW q \in Requests, CheckUsed(q) PROVE live' \subseteq live \cup {issued + 1}
  BY <1>5, CheckUsedEffect
<1>6. ASSUME NEW q \in Requests, Rotate(q) PROVE live' \subseteq live \cup {issued + 1}
  BY <1>6, RotateEffect
<1>7. ASSUME NEW q \in Requests, MarkUsed(q) PROVE live' \subseteq live \cup {issued + 1}
  BY <1>7, MarkUsedEffect
<1>8. ASSUME NEW q \in Requests, Undo(q) PROVE live' \subseteq live \cup {issued + 1}
  BY <1>8, UndoEffect
<1>9. ASSUME NEW q \in Requests, RevokeOne(q) PROVE live' \subseteq live \cup {issued + 1}
  BY <1>9, RevokeOneEffect
<1>10. ASSUME NEW q \in Requests, RevokeEnd(q) PROVE live' \subseteq live \cup {issued + 1}
  BY <1>10, RevokeEndEffect
<1>11. ASSUME NEW q \in Requests, LogoutRevoke(q)
        PROVE live' \subseteq live \cup {issued + 1}
  BY <1>11, LogoutRevokeEffect
<1>12. ASSUME NEW q \in Requests, Granted(q) PROVE live' \subseteq live \cup {issued + 1}
  BY <1>12, GrantedEffect
<1>13. ASSUME NEW q \in Requests, Refused(q) PROVE live' \subseteq live \cup {issued + 1}
  BY <1>13, RefusedEffect
<1>14. ASSUME NEW q \in Requests, Crash(q) PROVE live' \subseteq live \cup {issued + 1}
  BY <1>14, CrashEffect
<1>15. ASSUME NEW q \in Requests, ResetBegin(q) PROVE live' \subseteq live \cup {issued + 1}
  BY <1>15, ResetBeginEffect
<1>16. ASSUME NEW q \in Requests, SetPassword(q)
        PROVE live' \subseteq live \cup {issued + 1}
  BY <1>16, SetPasswordEffect
<1>17. CASE ForgotPassword
  BY <1>17 DEF ForgotPassword, history
<1>18. CASE Expire
  BY <1>18 DEF Expire, users, history
<1>19. CASE UNCHANGED vars
  BY <1>19 DEF vars, users, keys, history
<1> QED
  BY <1>1, <1>2, <1>3, <1>4, <1>5, <1>6, <1>7, <1>8, <1>9, <1>10, <1>11, <1>12, <1>13,
     <1>14, <1>15, <1>16, <1>17, <1>18, <1>19 DEF Next

\* A token deleted from refresh:* (rotated, logged out, revoked or expired) is never put
\* back by a concurrent rotation, its undoing, or a login.
THEOREM NeverLiveAgain == Spec => RevokedForGood
<1>1. ASSUME IInv, [Next]_vars
      PROVE  \A t \in 1 .. issued : t \notin live => t \notin live'
  <2>1. \A t \in 1 .. issued : t # issued + 1
    BY <1>1, Basics
  <2> QED
    BY <1>1, <2>1, OnlyNewTokensGoLive
<1> QED
  BY <1>1, AlwaysInvariant, PTL DEF Spec, RevokedForGood

----------------------------------------------------------------------------
(* Rotation. *)

AtMostOneEach ==
    \A t \in Tokens : successors[t] = {} \/ \E n \in Tokens : successors[t] = {n}

\* Only a rotation exchanges a token.
LEMMA OnlyRotationExchanges ==
    ASSUME IInv, [Next]_vars
    PROVE  successors' = successors \/ \E r \in Requests : Rotate(r)
<1>1. ASSUME NEW q \in Requests, NEW d \in Devices, LoginVerify(q, d)
        PROVE successors' = successors \/ \E r \in Requests : Rotate(r)
  BY <1>1, LoginVerifyEffect
<1>2. ASSUME NEW q \in Requests, NEW d \in Devices, RefreshBegin(q, d)
        PROVE successors' = successors \/ \E r \in Requests : Rotate(r)
  BY <1>2, RefreshBeginEffect
<1>3. ASSUME NEW q \in Requests, NEW d \in Devices, LogoutBegin(q, d)
        PROVE successors' = successors \/ \E r \in Requests : Rotate(r)
  BY <1>3, LogoutBeginEffect
<1>4. ASSUME NEW q \in Requests, LoginStore(q)
        PROVE successors' = successors \/ \E r \in Requests : Rotate(r)
  BY <1>4, LoginStoreEffect
<1>5. ASSUME NEW q \in Requests, CheckUsed(q)
        PROVE successors' = successors \/ \E r \in Requests : Rotate(r)
  BY <1>5, CheckUsedEffect
<1>6. ASSUME NEW q \in Requests, Rotate(q)
        PROVE successors' = successors \/ \E r \in Requests : Rotate(r)
  BY <1>6
<1>7. ASSUME NEW q \in Requests, MarkUsed(q)
        PROVE successors' = successors \/ \E r \in Requests : Rotate(r)
  BY <1>7, MarkUsedEffect
<1>8. ASSUME NEW q \in Requests, Undo(q)
        PROVE successors' = successors \/ \E r \in Requests : Rotate(r)
  BY <1>8, UndoEffect
<1>9. ASSUME NEW q \in Requests, RevokeOne(q)
        PROVE successors' = successors \/ \E r \in Requests : Rotate(r)
  BY <1>9, RevokeOneEffect
<1>10. ASSUME NEW q \in Requests, RevokeEnd(q)
        PROVE successors' = successors \/ \E r \in Requests : Rotate(r)
  BY <1>10, RevokeEndEffect
<1>11. ASSUME NEW q \in Requests, LogoutRevoke(q)
        PROVE successors' = successors \/ \E r \in Requests : Rotate(r)
  BY <1>11, LogoutRevokeEffect
<1>12. ASSUME NEW q \in Requests, Granted(q)
        PROVE successors' = successors \/ \E r \in Requests : Rotate(r)
  BY <1>12, GrantedEffect
<1>13. ASSUME NEW q \in Requests, Refused(q)
        PROVE successors' = successors \/ \E r \in Requests : Rotate(r)
  BY <1>13, RefusedEffect
<1>14. ASSUME NEW q \in Requests, Crash(q)
        PROVE successors' = successors \/ \E r \in Requests : Rotate(r)
  BY <1>14, CrashEffect
<1>15. ASSUME NEW q \in Requests, ResetBegin(q)
        PROVE successors' = successors \/ \E r \in Requests : Rotate(r)
  BY <1>15, ResetBeginEffect
<1>16. ASSUME NEW q \in Requests, SetPassword(q)
        PROVE successors' = successors \/ \E r \in Requests : Rotate(r)
  BY <1>16, SetPasswordEffect
<1>17. CASE ForgotPassword
  BY <1>17 DEF ForgotPassword, history
<1>18. CASE Expire
  BY <1>18 DEF Expire, users, history
<1>19. CASE UNCHANGED vars
  BY <1>19 DEF vars, users, keys, history
<1> QED
  BY <1>1, <1>2, <1>3, <1>4, <1>5, <1>6, <1>7, <1>8, <1>9, <1>10, <1>11, <1>12, <1>13,
     <1>14, <1>15, <1>16, <1>17, <1>18, <1>19 DEF Next

\* A rotation gives a successor only to a token that was live, so had none.
LEMMA RotationExchangesOnce ==
    ASSUME IInv, AtMostOneEach, NEW r \in Requests, Rotate(r)
    PROVE  AtMostOneEach'
<1>1. CASE successors' = successors
  BY <1>1 DEF AtMostOneEach
<1>2. CASE /\ req[r].tok \in live
           /\ successors' = [successors EXCEPT ![req[r].tok] = @ \cup {issued'}]
  <2>1. \A t \in Tokens : t = req[r].tok => successors[t] = {}
    BY <1>2, Parts DEF SpentIsDead, Spent
  <2>2. issued' \in Tokens
    BY RotateEffect
  <2>3. \A t \in Tokens : \/ successors'[t] = successors[t]
                          \/ t = req[r].tok /\ successors'[t] = successors[t] \cup {issued'}
    BY <1>2, Parts DEF HistoryTyped
  <2>4. \A t \in Tokens : successors'[t] = successors[t] \/ successors'[t] = {issued'}
    BY <2>1, <2>3
  <2> QED
    BY <2>2, <2>4 DEF AtMostOneEach
<1> QED
  BY <1>1, <1>2, RotateEffect

\* rotate_refresh_jti goes by what DEL returned, so concurrent requests with one token get
\* at most one successor between them.
THEOREM SingleUse == Spec => []ExchangedOnce
<1>1. Init => AtMostOneEach
  BY DEF Init, AtMostOneEach
<1>2. AtMostOneEach /\ IInv /\ [Next]_vars => AtMostOneEach'
  <2> SUFFICES ASSUME AtMostOneEach, IInv, [Next]_vars PROVE AtMostOneEach'
    OBVIOUS
  <2>1. CASE successors' = successors
    BY <2>1 DEF AtMostOneEach
  <2>2. CASE \E r \in Requests : Rotate(r)
    BY <2>2, RotationExchangesOnce
  <2> QED
    BY <2>1, <2>2, OnlyRotationExchanges
<1>3. AtMostOneEach => ExchangedOnce
  <2>1. \A n \in Tokens : Cardinality({n}) = 1
    BY FS_Singleton
  <2>2. Cardinality({}) = 0
    BY FS_EmptySet
  <2>3. 1 \in Nat /\ 0 \in Nat
    OBVIOUS
  <2>4. ASSUME AtMostOneEach, NEW t \in Tokens PROVE Cardinality(successors[t]) <= 1
    <3>1. Cardinality(successors[t]) = 0 \/ Cardinality(successors[t]) = 1
      BY <2>1, <2>2, <2>4 DEF AtMostOneEach
    <3> QED
      BY <3>1
  <2> QED
    BY <2>4 DEF ExchangedOnce
<1> QED
  BY <1>1, <1>2, <1>3, AlwaysInvariant, PTL DEF Spec

\* A request that is to write the marker writes it or dies, and nothing else removes it.
LEMMA MarkerIsWritten ==
    ASSUME IInv, [Next]_vars, NEW r \in Requests, At(r, "mark")
    PROVE  \/ At(r, "mark")' /\ req'[r].tok = req[r].tok
           \/ req[r].tok \in used'
           \/ crashes' > 0
<1> DEFINE Goal == \/ At(r, "mark")' /\ req'[r].tok = req[r].tok
                   \/ req[r].tok \in used'
                   \/ crashes' > 0
<1>1. ASSUME NEW q \in Requests, NEW d \in Devices, LoginVerify(q, d) PROVE Goal
  BY <1>1, LoginVerifyEffect DEF Moved, At
<1>2. ASSUME NEW q \in Requests, NEW d \in Devices, RefreshBegin(q, d) PROVE Goal
  BY <1>2, RefreshBeginEffect DEF Moved, At
<1>3. ASSUME NEW q \in Requests, NEW d \in Devices, LogoutBegin(q, d) PROVE Goal
  BY <1>3, LogoutBeginEffect DEF Moved, At
<1>4. ASSUME NEW q \in Requests, LoginStore(q) PROVE Goal
  BY <1>4, LoginStoreEffect DEF Moved, At
<1>5. ASSUME NEW q \in Requests, CheckUsed(q) PROVE Goal
  BY <1>5, CheckUsedEffect DEF Moved, At
<1>6. ASSUME NEW q \in Requests, Rotate(q) PROVE Goal
  BY <1>6, RotateEffect DEF Moved, At
<1>7. ASSUME NEW q \in Requests, MarkUsed(q) PROVE Goal
  <2>1. CASE q = r
    BY <1>7, <2>1, MarkUsedEffect
  <2>2. CASE q # r
    BY <1>7, <2>2, MarkUsedEffect DEF Moved, At
  <2> QED
    BY <2>1, <2>2
<1>8. ASSUME NEW q \in Requests, Undo(q) PROVE Goal
  BY <1>8, UndoEffect DEF Moved, At
<1>9. ASSUME NEW q \in Requests, RevokeOne(q) PROVE Goal
  BY <1>9, RevokeOneEffect DEF At
<1>10. ASSUME NEW q \in Requests, RevokeEnd(q) PROVE Goal
  BY <1>10, RevokeEndEffect DEF Moved, At
<1>11. ASSUME NEW q \in Requests, LogoutRevoke(q) PROVE Goal
  BY <1>11, LogoutRevokeEffect DEF Moved, At
<1>12. ASSUME NEW q \in Requests, Granted(q) PROVE Goal
  BY <1>12, GrantedEffect DEF Moved, At
<1>13. ASSUME NEW q \in Requests, Refused(q) PROVE Goal
  BY <1>13, RefusedEffect DEF Moved, At
<1>14. ASSUME NEW q \in Requests, Crash(q) PROVE Goal
  <2>1. crashes' = crashes + 1 /\ crashes \in Nat
    BY <1>14, CrashEffect, Basics
  <2> QED
    BY <2>1
<1>15. ASSUME NEW q \in Requests, ResetBegin(q) PROVE Goal
  BY <1>15, ResetBeginEffect DEF Moved, At
<1>16. ASSUME NEW q \in Requests, SetPassword(q) PROVE Goal
  BY <1>16, SetPasswordEffect DEF Moved, At
<1>17. CASE ForgotPassword
  BY <1>17 DEF ForgotPassword, history, At
<1>18. CASE Expire
  BY <1>18 DEF Expire, users, history, At
<1>19. CASE UNCHANGED vars
  BY <1>19 DEF vars, users, keys, history, At
<1> QED
  BY <1>1, <1>2, <1>3, <1>4, <1>5, <1>6, <1>7, <1>8, <1>9, <1>10, <1>11, <1>12, <1>13,
     <1>14, <1>15, <1>16, <1>17, <1>18, <1>19 DEF Next

\* Neither markers nor crashes are forgotten.
LEMMA MarkersStay ==
    ASSUME IInv, [Next]_vars
    PROVE  used \subseteq used' /\ (crashes > 0 => crashes' > 0)
<1>1. ASSUME NEW q \in Requests, NEW d \in Devices, LoginVerify(q, d)
        PROVE used \subseteq used' /\ (crashes > 0 => crashes' > 0)
  BY <1>1, LoginVerifyEffect
<1>2. ASSUME NEW q \in Requests, NEW d \in Devices, RefreshBegin(q, d)
        PROVE used \subseteq used' /\ (crashes > 0 => crashes' > 0)
  BY <1>2, RefreshBeginEffect
<1>3. ASSUME NEW q \in Requests, NEW d \in Devices, LogoutBegin(q, d)
        PROVE used \subseteq used' /\ (crashes > 0 => crashes' > 0)
  BY <1>3, LogoutBeginEffect
<1>4. ASSUME NEW q \in Requests, LoginStore(q)
        PROVE used \subseteq used' /\ (crashes > 0 => crashes' > 0)
  BY <1>4, LoginStoreEffect
<1>5. ASSUME NEW q \in Requests, CheckUsed(q)
        PROVE used \subseteq used' /\ (crashes > 0 => crashes' > 0)
  BY <1>5, CheckUsedEffect
<1>6. ASSUME NEW q \in Requests, Rotate(q)
        PROVE used \subseteq used' /\ (crashes > 0 => crashes' > 0)
  BY <1>6, RotateEffect
<1>7. ASSUME NEW q \in Requests, MarkUsed(q)
        PROVE used \subseteq used' /\ (crashes > 0 => crashes' > 0)
  BY <1>7, MarkUsedEffect
<1>8. ASSUME NEW q \in Requests, Undo(q)
        PROVE used \subseteq used' /\ (crashes > 0 => crashes' > 0)
  BY <1>8, UndoEffect
<1>9. ASSUME NEW q \in Requests, RevokeOne(q)
        PROVE used \subseteq used' /\ (crashes > 0 => crashes' > 0)
  BY <1>9, RevokeOneEffect
<1>10. ASSUME NEW q \in Requests, RevokeEnd(q)
        PROVE used \subseteq used' /\ (crashes > 0 => crashes' > 0)
  BY <1>10, RevokeEndEffect
<1>11. ASSUME NEW q \in Requests, LogoutRevoke(q)
        PROVE used \subseteq used' /\ (crashes > 0 => crashes' > 0)
  BY <1>11, LogoutRevokeEffect
<1>12. ASSUME NEW q \in Requests, Granted(q)
        PROVE used \subseteq used' /\ (crashes > 0 => crashes' > 0)
  BY <1>12, GrantedEffect
<1>13. ASSUME NEW q \in Requests, Refused(q)
        PROVE used \subseteq used' /\ (crashes > 0 => crashes' > 0)
  BY <1>13, RefusedEffect
<1>14. ASSUME NEW q \in Requests, Crash(q)
        PROVE used \subseteq used' /\ (crashes > 0 => crashes' > 0)
  BY <1>14, CrashEffect, Basics
<1>15. ASSUME NEW q \in Requests, ResetBegin(q)
        PROVE used \subseteq used' /\ (crashes > 0 => crashes' > 0)
  BY <1>15, ResetBeginEffect
<1>16. ASSUME NEW q \in Requests, SetPassword(q)
        PROVE used \subseteq used' /\ (crashes > 0 => crashes' > 0)
  BY <1>16, SetPasswordEffect
<1>17. CASE ForgotPassword
  BY <1>17 DEF ForgotPassword, history
<1>18. CASE Expire
  BY <1>18 DEF Expire, users, history
<1>19. CASE UNCHANGED vars
  BY <1>19 DEF vars, users, keys, history
<1> QED
  BY <1>1, <1>2, <1>3, <1>4, <1>5, <1>6, <1>7, <1>8, <1>9, <1>10, <1>11, <1>12, <1>13,
     <1>14, <1>15, <1>16, <1>17, <1>18, <1>19 DEF Next

\* Presented again, an exchanged token is recognised: it is marked in refresh_used:*, or the
\* request that exchanged it is about to mark it, unless a request died.
THEOREM ReuseIsRecognised == Spec => []SpentIsMarked
<1>1. Init => SpentIsMarked
  BY DEF Init, SpentIsMarked, Spent
<1>2. SpentIsMarked /\ IInv /\ [Next]_vars => SpentIsMarked'
  <2> SUFFICES ASSUME SpentIsMarked, IInv, [Next]_vars, NEW t \in Tokens, Spent(t)'
               PROVE  \/ t \in used'
                      \/ \E r \in Requests : At(r, "mark")' /\ req'[r].tok = t
                      \/ crashes' > 0
    BY DEF SpentIsMarked, At
  <2>1. CASE Spent(t)
    <3>1. CASE t \in used \/ crashes > 0
      BY <3>1, MarkersStay
    <3>2. CASE \E r \in Requests : At(r, "mark") /\ req[r].tok = t
      BY <3>2, MarkerIsWritten
    <3> QED
      BY <2>1, <3>1, <3>2 DEF SpentIsMarked
  <2>2. CASE ~Spent(t)
    <3>1. PICK r \in Requests : Rotate(r)
      BY <2>2, OnlyRotationExchanges DEF Spent
    <3>2. \/ successors' = successors
          \/ /\ successors' = [successors EXCEPT ![req[r].tok] = @ \cup {issued'}]
             /\ Moved(r, "mark", req[r].dev, req[r].tok, issued', req[r].seen)
      BY <3>1, RotateEffect
    <3>3. t = req[r].tok
      BY <2>2, <3>2, Parts DEF Spent, HistoryTyped
    <3>4. Moved(r, "mark", req[r].dev, req[r].tok, issued', req[r].seen)
      BY <2>2, <3>2 DEF Spent
    <3> QED
      BY <3>3, <3>4 DEF Moved, At
  <2> QED
    BY <2>1, <2>2
<1> QED
  BY <1>1, <1>2, AlwaysInvariant, PTL DEF Spec

----------------------------------------------------------------------------
(* Owners. *)

Owned(t) == t \in delivered \/ \E r \in Requests : req[r].new = t

\* A step that keeps what other requests hold, and what browsers have received, takes a
\* token from its owner only if its own request held it.
LEMMA OwnerKept ==
    ASSUME NEW q \in Requests, NEW t, Owned(t), delivered' = delivered,
           \A x \in Requests \ {q} : req'[x] = req[x],
           req'[q].new = req[q].new \/ req[q].new # t
    PROVE  Owned(t)'
BY DEF Owned

\* An owned token stays owned as long as no request dies, unless it is taken back.
LEMMA OwnerStays ==
    ASSUME IInv, [Next]_vars, crashes' = 0, NEW t \in live, Owned(t)
    PROVE  Owned(t)' \/ t \notin live'
<1>0. t # None
  BY Parts, Basics DEF KeysTyped, None
<1>1. ASSUME NEW q \in Requests, NEW d \in Devices, LoginVerify(q, d)
        PROVE Owned(t)' \/ t \notin live'
  <2>1. delivered' = delivered /\ \A x \in Requests \ {q} : req'[x] = req[x]
    BY <1>1, LoginVerifyEffect DEF Moved
  <2>2. req[q].new # t
    BY <1>1, <1>0, LoginVerifyEffect, CarriedAt
  <2> QED
    BY <2>1, <2>2, OwnerKept
<1>2. ASSUME NEW q \in Requests, NEW d \in Devices, RefreshBegin(q, d)
        PROVE Owned(t)' \/ t \notin live'
  <2>1. delivered' = delivered /\ \A x \in Requests \ {q} : req'[x] = req[x]
    BY <1>2, RefreshBeginEffect DEF Moved
  <2>2. req[q].new # t
    BY <1>2, <1>0, RefreshBeginEffect, CarriedAt
  <2> QED
    BY <2>1, <2>2, OwnerKept
<1>3. ASSUME NEW q \in Requests, NEW d \in Devices, LogoutBegin(q, d)
        PROVE Owned(t)' \/ t \notin live'
  <2>1. delivered' = delivered /\ \A x \in Requests \ {q} : req'[x] = req[x]
    BY <1>3, LogoutBeginEffect DEF Moved
  <2>2. req[q].new # t
    BY <1>3, <1>0, LogoutBeginEffect, CarriedAt
  <2> QED
    BY <2>1, <2>2, OwnerKept
<1>4. ASSUME NEW q \in Requests, LoginStore(q) PROVE Owned(t)' \/ t \notin live'
  <2>1. delivered' = delivered /\ \A x \in Requests \ {q} : req'[x] = req[x]
    BY <1>4, LoginStoreEffect DEF Moved
  <2>2. req[q].new # t
    BY <1>4, <1>0, LoginStoreEffect, CarriedAt
  <2> QED
    BY <2>1, <2>2, OwnerKept
<1>5. ASSUME NEW q \in Requests, CheckUsed(q) PROVE Owned(t)' \/ t \notin live'
  <2>1. delivered' = delivered /\ \A x \in Requests \ {q} : req'[x] = req[x]
    BY <1>5, CheckUsedEffect DEF Moved
  <2>2. req[q].new # t
    BY <1>5, <1>0, CheckUsedEffect, CarriedAt
  <2> QED
    BY <2>1, <2>2, OwnerKept
<1>6. ASSUME NEW q \in Requests, Rotate(q) PROVE Owned(t)' \/ t \notin live'
  <2>1. delivered' = delivered /\ \A x \in Requests \ {q} : req'[x] = req[x]
    BY <1>6, RotateEffect DEF Moved
  <2>2. req[q].new # t
    BY <1>6, <1>0, RotateEffect, CarriedAt
  <2> QED
    BY <2>1, <2>2, OwnerKept
<1>7. ASSUME NEW q \in Requests, MarkUsed(q) PROVE Owned(t)' \/ t \notin live'
  <2>1. delivered' = delivered /\ \A x \in Requests \ {q} : req'[x] = req[x]
    BY <1>7, MarkUsedEffect DEF Moved
  <2>2. req'[q].new = req[q].new
    BY <1>7, MarkUsedEffect DEF Moved
  <2> QED
    BY <2>1, <2>2, OwnerKept
<1>8. ASSUME NEW q \in Requests, Undo(q) PROVE Owned(t)' \/ t \notin live'
  <2>1. live' = live \ {req[q].new} /\ delivered' = delivered
    BY <1>8, UndoEffect
  <2>2. \A x \in Requests \ {q} : req'[x] = req[x]
    BY <1>8, UndoEffect DEF Moved
  <2> QED
    BY <2>1, <2>2 DEF Owned
<1>9. ASSUME NEW q \in Requests, RevokeOne(q) PROVE Owned(t)' \/ t \notin live'
  BY <1>9, RevokeOneEffect DEF Owned
<1>10. ASSUME NEW q \in Requests, RevokeEnd(q) PROVE Owned(t)' \/ t \notin live'
  <2>1. delivered' = delivered /\ \A x \in Requests \ {q} : req'[x] = req[x]
    BY <1>10, RevokeEndEffect DEF Moved
  <2>2. req[q].new # t
    BY <1>10, <1>0, RevokeEndEffect, CarriedAt
  <2> QED
    BY <2>1, <2>2, OwnerKept
<1>11. ASSUME NEW q \in Requests, LogoutRevoke(q) PROVE Owned(t)' \/ t \notin live'
  <2>1. delivered' = delivered
    BY <1>11, LogoutRevokeEffect
  <2>2. req'[q].new = req[q].new /\ \A x \in Requests \ {q} : req'[x] = req[x]
    BY <1>11, LogoutRevokeEffect DEF Moved
  <2> QED
    BY <2>1, <2>2 DEF Owned
<1>12. ASSUME NEW q \in Requests, Granted(q) PROVE Owned(t)' \/ t \notin live'
  <2>1. req'[q].new = None /\ \A x \in Requests \ {q} : req'[x] = req[x]
    BY <1>12, GrantedEffect DEF Moved
  <2>2. delivered' = delivered \cup {req[q].new}
    BY <1>12, GrantedEffect
  <2> QED
    BY <2>1, <2>2 DEF Owned
<1>13. ASSUME NEW q \in Requests, Refused(q) PROVE Owned(t)' \/ t \notin live'
  <2>1. delivered' = delivered /\ \A x \in Requests \ {q} : req'[x] = req[x]
    BY <1>13, RefusedEffect DEF Moved
  <2>2. req[q].new # t
    BY <1>13, <1>0, RefusedEffect, CarriedAt
  <2> QED
    BY <2>1, <2>2, OwnerKept
<1>14. ASSUME NEW q \in Requests, Crash(q) PROVE Owned(t)' \/ t \notin live'
  BY <1>14, CrashEffect, Basics
<1>15. ASSUME NEW q \in Requests, ResetBegin(q) PROVE Owned(t)' \/ t \notin live'
  <2>1. delivered' = delivered /\ \A x \in Requests \ {q} : req'[x] = req[x]
    BY <1>15, ResetBeginEffect DEF Moved
  <2>2. req[q].new # t
    BY <1>15, <1>0, ResetBeginEffect, CarriedAt
  <2> QED
    BY <2>1, <2>2, OwnerKept
<1>16. ASSUME NEW q \in Requests, SetPassword(q) PROVE Owned(t)' \/ t \notin live'
  <2>1. delivered' = delivered /\ \A x \in Requests \ {q} : req'[x] = req[x]
    BY <1>16, SetPasswordEffect DEF Moved
  <2>2. req[q].new # t
    BY <1>16, <1>0, SetPasswordEffect, CarriedAt
  <2> QED
    BY <2>1, <2>2, OwnerKept
<1>17. CASE ForgotPassword
  BY <1>17 DEF ForgotPassword, history, Owned
<1>18. CASE Expire
  BY <1>18 DEF Expire, users, history, Owned
<1>19. CASE UNCHANGED vars
  BY <1>19 DEF vars, users, keys, history, Owned
<1> QED
  BY <1>1, <1>2, <1>3, <1>4, <1>5, <1>6, <1>7, <1>8, <1>9, <1>10, <1>11, <1>12, <1>13,
     <1>14, <1>15, <1>16, <1>17, <1>18, <1>19 DEF Next

\* A token that goes live belongs to the request that stored it.
LEMMA NewTokenIsOwned ==
    ASSUME IInv, [Next]_vars
    PROVE  \/ live' \subseteq live
           \/ \E r \in Requests : live' \subseteq live \cup {issued'} /\ req'[r].new = issued'
<1> DEFINE Goal == \/ live' \subseteq live
                   \/ \E r \in Requests : /\ live' \subseteq live \cup {issued'}
                                           /\ req'[r].new = issued'
<1>1. ASSUME NEW q \in Requests, NEW d \in Devices, LoginVerify(q, d) PROVE Goal
  BY <1>1, LoginVerifyEffect
<1>2. ASSUME NEW q \in Requests, NEW d \in Devices, RefreshBegin(q, d) PROVE Goal
  BY <1>2, RefreshBeginEffect
<1>3. ASSUME NEW q \in Requests, NEW d \in Devices, LogoutBegin(q, d) PROVE Goal
  BY <1>3, LogoutBeginEffect
<1>4. ASSUME NEW q \in Requests, LoginStore(q) PROVE Goal
  BY <1>4, LoginStoreEffect DEF Moved
<1>5. ASSUME NEW q \in Requests, CheckUsed(q) PROVE Goal
  BY <1>5, CheckUsedEffect
<1>6. ASSUME NEW q \in Requests, Rotate(q) PROVE Goal
  BY <1>6, RotateEffect DEF Moved
<1>7. ASSUME NEW q \in Requests, MarkUsed(q) PROVE Goal
  BY <1>7, MarkUsedEffect
<1>8. ASSUME NEW q \in Requests, Undo(q) PROVE Goal
  BY <1>8, UndoEffect
<1>9. ASSUME NEW q \in Requests, RevokeOne(q) PROVE Goal
  BY <1>9, RevokeOneEffect
<1>10. ASSUME NEW q \in Requests, RevokeEnd(q) PROVE Goal
  BY <1>10, RevokeEndEffect
<1>11. ASSUME NEW q \in Requests, LogoutRevoke(q) PROVE Goal
  BY <1>11, LogoutRevokeEffect
<1>12. ASSUME NEW q \in Requests, Granted(q) PROVE Goal
  BY <1>12, GrantedEffect
<1>13. ASSUME NEW q \in Requests, Refused(q) PROVE Goal
  BY <1>13, RefusedEffect
<1>14. ASSUME NEW q \in Requests, Crash(q) PROVE Goal
  BY <1>14, CrashEffect
<1>15. ASSUME NEW q \in Requests, ResetBegin(q) PROVE Goal
  BY <1>15, ResetBeginEffect
<1>16. ASSUME NEW q \in Requests, SetPassword(q) PROVE Goal
  BY <1>16, SetPasswordEffect
<1>17. CASE ForgotPassword
  BY <1>17 DEF ForgotPassword, history
<1>18. CASE Expire
  BY <1>18 DEF Expire, users, history
<1>19. CASE UNCHANGED vars
  BY <1>19 DEF vars, users, keys, history
<1> QED
  BY <1>1, <1>2, <1>3, <1>4, <1>5, <1>6, <1>7, <1>8, <1>9, <1>10, <1>11, <1>12, <1>13,
     <1>14, <1>15, <1>16, <1>17, <1>18, <1>19 DEF Next

\* As long as no request dies, every key refresh:* is one a browser has received or a
\* running request will hand over or take back: a refused rotation leaves no session behind.
THEOREM NoOrphanKeys == Spec => []EveryKeyHasOwner
<1> DEFINE Inv == crashes = 0 => \A t \in live : Owned(t)
<1>1. Init => Inv
  BY DEF Init
<1>2. Inv /\ IInv /\ [Next]_vars => Inv'
  <2> SUFFICES ASSUME Inv, IInv, [Next]_vars, crashes' = 0, NEW t \in live'
               PROVE  Owned(t)'
    BY DEF Owned
  <2>1. crashes = 0
    BY MarkersStay, Basics
  <2>2. CASE t \in live
    BY <2>1, <2>2, OwnerStays
  <2>3. CASE t \notin live
    BY <2>3, NewTokenIsOwned DEF Owned
  <2> QED
    BY <2>2, <2>3
<1>3. Inv => EveryKeyHasOwner
  BY DEF EveryKeyHasOwner, Owned
<1> HIDE DEF Inv
<1> QED
  BY <1>1, <1>2, <1>3, AlwaysInvariant, PTL DEF Spec
=============================================================================
