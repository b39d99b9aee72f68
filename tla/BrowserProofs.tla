---------------------------- MODULE BrowserProofs ----------------------------
(***************************************************************************)
(* What the browsers of an account rely on: theorems about Sessions that   *)
(* need to know who holds which token.                                     *)
(***************************************************************************)
EXTENDS SessionsProofs

----------------------------------------------------------------------------
(* Who holds a token. *)

\* Browsers keep and present tokens that were delivered, each browser its own; a new
\* token is known to its request alone until it is delivered.
Private ==
    /\ delivered \subseteq 1 .. issued
    /\ \A d \in Devices : stored[d] \in delivered \cup {None}
    /\ \A r \in Requests : req[r].tok \in delivered \cup {None}
    /\ \A r \in Requests : req[r].new \notin delivered
    /\ \A r, q \in Requests : r # q /\ req[r].new = req[q].new => req[r].new = None
    /\ \A d, e \in Devices : d # e /\ stored[d] = stored[e] => stored[d] = None
    /\ \A r \in Requests, d \in Devices :
         req[r].tok = stored[d] /\ stored[d] # None => req[r].dev = d

\* A step that delivers nothing, and only forgets or keeps what its request holds.
LEMMA PrivateQuiet ==
    ASSUME IInv, Private, NEW q \in Requests, delivered' = delivered, issued' = issued,
           \A x \in Requests \ {q} : req'[x] = req[x],
           \/ req'[q].tok = None
           \/ req'[q].tok = req[q].tok /\ req'[q].dev = req[q].dev,
           req'[q].new = None \/ req'[q].new = req[q].new,
           \A d \in Devices : stored'[d] = stored[d] \/ stored'[d] = None
    PROVE  Private'
<1>1. None \notin delivered
  BY DEF Private, None
<1> QED
  BY <1>1 DEF Private

\* A step that gives its request a new token.
LEMMA PrivateIssue ==
    ASSUME IInv, Private, NEW q \in Requests, delivered' = delivered, issued' = issued + 1,
           \A x \in Requests \ {q} : req'[x] = req[x],
           req'[q].tok = req[q].tok, req'[q].dev = req[q].dev, req'[q].new = issued',
           stored' = stored
    PROVE  Private'
<1>1. delivered' \subseteq 1 .. issued'
  BY Basics DEF Private
<1>2. issued' \notin delivered
  BY Basics DEF Private
<1>3. \A x \in Requests : req[x].new # issued'
  BY Basics
<1> QED
  BY <1>1, <1>2, <1>3 DEF Private

\* apiFetch or logout reads the stored token and presents it.
LEMMA PrivatePresent ==
    ASSUME IInv, Private, NEW q \in Requests, NEW d \in Devices, delivered' = delivered,
           issued' = issued, \A x \in Requests \ {q} : req'[x] = req[x],
           req'[q].tok = stored[d], req'[q].dev = d, req'[q].new = None,
           stored' = stored
    PROVE  Private'
<1>1. None \notin delivered
  BY DEF Private, None
<1> QED
  BY <1>1 DEF Private

\* setTokens: the token of an answer becomes the browser's.
LEMMA PrivateGranted ==
    ASSUME IInv, Private, NEW q \in Requests, Granted(q)
    PROVE  Private'
<1>1. /\ \A x \in Requests \ {q} : req'[x] = req[x]
      /\ req'[q].tok = None /\ req'[q].new = None /\ req'[q].dev = None
  BY GrantedEffect DEF Moved
<1>2. req[q].new # None /\ req[q].dev \in Devices
  BY GrantedEffect, CarriedAt
<1>3. /\ delivered' = delivered \cup {req[q].new} /\ issued' = issued
      /\ stored' = [stored EXCEPT ![req[q].dev] = req[q].new]
  BY GrantedEffect
<1>4. /\ stored'[req[q].dev] = req[q].new
      /\ \A d \in Devices \ {req[q].dev} : stored'[d] = stored[d]
  BY <1>2, <1>3, Parts DEF StoredTyped
<1>5. req[q].new \in 1 .. issued
  BY <1>2, Basics DEF None
<1>6. req[q].new \notin delivered
  BY DEF Private
<1>7. \A d \in Devices : stored[d] # req[q].new
  BY <1>2, <1>6 DEF Private
<1>8. \A x \in Requests : req[x].tok # req[q].new
  BY <1>2, <1>6 DEF Private
<1>a. delivered' \subseteq 1 .. issued'
  BY <1>3, <1>5 DEF Private
<1>b. \A d \in Devices : stored'[d] \in delivered' \cup {None}
  BY <1>3, <1>4 DEF Private
<1>c. \A r \in Requests : req'[r].tok \in delivered' \cup {None}
  BY <1>1, <1>3 DEF Private
<1>d. \A r \in Requests : req'[r].new \notin delivered'
  <2>1. None \notin delivered'
    BY <1>a DEF None
  <2>2. \A r \in Requests \ {q} : req[r].new # req[q].new
    BY <1>2 DEF Private
  <2> QED
    BY <1>1, <1>3, <2>1, <2>2 DEF Private
<1>e. \A r, x \in Requests : r # x /\ req'[r].new = req'[x].new => req'[r].new = None
  BY <1>1 DEF Private
<1>f. \A d, e \in Devices : d # e /\ stored'[d] = stored'[e] => stored'[d] = None
  BY <1>4, <1>7 DEF Private
<1>g. \A r \in Requests, d \in Devices :
        req'[r].tok = stored'[d] /\ stored'[d] # None => req'[r].dev = d
  BY <1>1, <1>4, <1>8 DEF Private
<1> QED
  BY <1>a, <1>b, <1>c, <1>d, <1>e, <1>f, <1>g DEF Private

\* Every command of every handler keeps tokens private.
LEMMA PrivateStep ==
    ASSUME IInv, [Next]_vars, Private
    PROVE  Private'
<1>1. ASSUME NEW q \in Requests, NEW d \in Devices, LoginVerify(q, d) PROVE Private'
  <2>1. /\ delivered' = delivered /\ issued' = issued
        /\ \A x \in Requests \ {q} : req'[x] = req[x]
    BY <1>1, LoginVerifyEffect DEF Moved
  <2>2. \/ req'[q].tok = None
        \/ req'[q].tok = req[q].tok /\ req'[q].dev = req[q].dev
    BY <1>1, LoginVerifyEffect DEF Moved
  <2>3. req'[q].new = None \/ req'[q].new = req[q].new
    BY <1>1, LoginVerifyEffect DEF Moved
  <2>4. \A e \in Devices : stored'[e] = stored[e] \/ stored'[e] = None
    BY <1>1, LoginVerifyEffect
  <2> QED
    BY <2>1, <2>2, <2>3, <2>4, PrivateQuiet
<1>2. ASSUME NEW q \in Requests, NEW d \in Devices, RefreshBegin(q, d) PROVE Private'
  <2>1. /\ delivered' = delivered /\ issued' = issued /\ stored' = stored
        /\ \A x \in Requests \ {q} : req'[x] = req[x]
        /\ req'[q].tok = stored[d] /\ req'[q].dev = d /\ req'[q].new = None
    BY <1>2, RefreshBeginEffect DEF Moved
  <2> QED
    BY <2>1, PrivatePresent
<1>3. ASSUME NEW q \in Requests, NEW d \in Devices, LogoutBegin(q, d) PROVE Private'
  <2>1. /\ delivered' = delivered /\ issued' = issued /\ stored' = stored
        /\ \A x \in Requests \ {q} : req'[x] = req[x]
        /\ req'[q].tok = stored[d] /\ req'[q].dev = d /\ req'[q].new = None
    BY <1>3, LogoutBeginEffect DEF Moved
  <2> QED
    BY <2>1, PrivatePresent
<1>4. ASSUME NEW q \in Requests, LoginStore(q) PROVE Private'
  <2>1. /\ delivered' = delivered /\ issued' = issued + 1 /\ stored' = stored
        /\ \A x \in Requests \ {q} : req'[x] = req[x]
        /\ req'[q].tok = req[q].tok /\ req'[q].dev = req[q].dev /\ req'[q].new = issued'
    BY <1>4, LoginStoreEffect DEF Moved
  <2> QED
    BY <2>1, PrivateIssue
<1>5. ASSUME NEW q \in Requests, CheckUsed(q) PROVE Private'
  <2>1. /\ delivered' = delivered /\ issued' = issued
        /\ \A x \in Requests \ {q} : req'[x] = req[x]
    BY <1>5, CheckUsedEffect DEF Moved
  <2>2. \/ req'[q].tok = None
        \/ req'[q].tok = req[q].tok /\ req'[q].dev = req[q].dev
    BY <1>5, CheckUsedEffect DEF Moved
  <2>3. req'[q].new = None \/ req'[q].new = req[q].new
    BY <1>5, CheckUsedEffect DEF Moved
  <2>4. \A d \in Devices : stored'[d] = stored[d] \/ stored'[d] = None
    BY <1>5, CheckUsedEffect
  <2> QED
    BY <2>1, <2>2, <2>3, <2>4, PrivateQuiet
<1>6. ASSUME NEW q \in Requests, Rotate(q) PROVE Private'
  <2>1. /\ delivered' = delivered /\ issued' = issued + 1 /\ stored' = stored
        /\ \A x \in Requests \ {q} : req'[x] = req[x]
        /\ req'[q].tok = req[q].tok /\ req'[q].dev = req[q].dev /\ req'[q].new = issued'
    BY <1>6, RotateEffect DEF Moved
  <2> QED
    BY <2>1, PrivateIssue
<1>7. ASSUME NEW q \in Requests, MarkUsed(q) PROVE Private'
  <2>1. /\ delivered' = delivered /\ issued' = issued
        /\ \A x \in Requests \ {q} : req'[x] = req[x]
    BY <1>7, MarkUsedEffect DEF Moved
  <2>2. \/ req'[q].tok = None
        \/ req'[q].tok = req[q].tok /\ req'[q].dev = req[q].dev
    BY <1>7, MarkUsedEffect DEF Moved
  <2>3. req'[q].new = None \/ req'[q].new = req[q].new
    BY <1>7, MarkUsedEffect DEF Moved
  <2>4. \A d \in Devices : stored'[d] = stored[d] \/ stored'[d] = None
    BY <1>7, MarkUsedEffect
  <2> QED
    BY <2>1, <2>2, <2>3, <2>4, PrivateQuiet
<1>8. ASSUME NEW q \in Requests, Undo(q) PROVE Private'
  <2>1. /\ delivered' = delivered /\ issued' = issued
        /\ \A x \in Requests \ {q} : req'[x] = req[x]
    BY <1>8, UndoEffect DEF Moved
  <2>2. \/ req'[q].tok = None
        \/ req'[q].tok = req[q].tok /\ req'[q].dev = req[q].dev
    BY <1>8, UndoEffect DEF Moved
  <2>3. req'[q].new = None \/ req'[q].new = req[q].new
    BY <1>8, UndoEffect DEF Moved
  <2>4. \A d \in Devices : stored'[d] = stored[d] \/ stored'[d] = None
    BY <1>8, UndoEffect
  <2> QED
    BY <2>1, <2>2, <2>3, <2>4, PrivateQuiet
<1>9. ASSUME NEW q \in Requests, RevokeOne(q) PROVE Private'
  <2>1. /\ delivered' = delivered /\ issued' = issued
        /\ \A x \in Requests \ {q} : req'[x] = req[x]
    BY <1>9, RevokeOneEffect
  <2>2. \/ req'[q].tok = None
        \/ req'[q].tok = req[q].tok /\ req'[q].dev = req[q].dev
    BY <1>9, RevokeOneEffect
  <2>3. req'[q].new = None \/ req'[q].new = req[q].new
    BY <1>9, RevokeOneEffect
  <2>4. \A d \in Devices : stored'[d] = stored[d] \/ stored'[d] = None
    BY <1>9, RevokeOneEffect
  <2> QED
    BY <2>1, <2>2, <2>3, <2>4, PrivateQuiet
<1>10. ASSUME NEW q \in Requests, RevokeEnd(q) PROVE Private'
  <2>1. /\ delivered' = delivered /\ issued' = issued
        /\ \A x \in Requests \ {q} : req'[x] = req[x]
    BY <1>10, RevokeEndEffect DEF Moved
  <2>2. \/ req'[q].tok = None
        \/ req'[q].tok = req[q].tok /\ req'[q].dev = req[q].dev
    BY <1>10, RevokeEndEffect DEF Moved
  <2>3. req'[q].new = None \/ req'[q].new = req[q].new
    BY <1>10, RevokeEndEffect DEF Moved
  <2>4. \A d \in Devices : stored'[d] = stored[d] \/ stored'[d] = None
    BY <1>10, RevokeEndEffect
  <2> QED
    BY <2>1, <2>2, <2>3, <2>4, PrivateQuiet
<1>11. ASSUME NEW q \in Requests, LogoutRevoke(q) PROVE Private'
  <2>1. /\ delivered' = delivered /\ issued' = issued
        /\ \A x \in Requests \ {q} : req'[x] = req[x]
    BY <1>11, LogoutRevokeEffect DEF Moved
  <2>2. \/ req'[q].tok = None
        \/ req'[q].tok = req[q].tok /\ req'[q].dev = req[q].dev
    BY <1>11, LogoutRevokeEffect DEF Moved
  <2>3. req'[q].new = None \/ req'[q].new = req[q].new
    BY <1>11, LogoutRevokeEffect DEF Moved
  <2>4. \A d \in Devices : stored'[d] = stored[d] \/ stored'[d] = None
    BY <1>11, LogoutRevokeEffect
  <2> QED
    BY <2>1, <2>2, <2>3, <2>4, PrivateQuiet
<1>12. ASSUME NEW q \in Requests, Granted(q) PROVE Private'
  BY <1>12, PrivateGranted
<1>13. ASSUME NEW q \in Requests, Refused(q) PROVE Private'
  <2>1. /\ delivered' = delivered /\ issued' = issued
        /\ \A x \in Requests \ {q} : req'[x] = req[x]
    BY <1>13, RefusedEffect DEF Moved
  <2>2. \/ req'[q].tok = None
        \/ req'[q].tok = req[q].tok /\ req'[q].dev = req[q].dev
    BY <1>13, RefusedEffect DEF Moved
  <2>3. req'[q].new = None \/ req'[q].new = req[q].new
    BY <1>13, RefusedEffect DEF Moved
  <2>4. \A d \in Devices : stored'[d] = stored[d] \/ stored'[d] = None
    BY <1>13, RefusedEffect, Parts DEF StoredTyped
  <2> QED
    BY <2>1, <2>2, <2>3, <2>4, PrivateQuiet
<1>14. ASSUME NEW q \in Requests, Crash(q) PROVE Private'
  <2>1. /\ delivered' = delivered /\ issued' = issued
        /\ \A x \in Requests \ {q} : req'[x] = req[x]
    BY <1>14, CrashEffect DEF Moved
  <2>2. \/ req'[q].tok = None
        \/ req'[q].tok = req[q].tok /\ req'[q].dev = req[q].dev
    BY <1>14, CrashEffect DEF Moved
  <2>3. req'[q].new = None \/ req'[q].new = req[q].new
    BY <1>14, CrashEffect DEF Moved
  <2>4. \A d \in Devices : stored'[d] = stored[d] \/ stored'[d] = None
    BY <1>14, CrashEffect, Parts DEF StoredTyped
  <2> QED
    BY <2>1, <2>2, <2>3, <2>4, PrivateQuiet
<1>15. ASSUME NEW q \in Requests, ResetBegin(q) PROVE Private'
  <2>1. /\ delivered' = delivered /\ issued' = issued
        /\ \A x \in Requests \ {q} : req'[x] = req[x]
    BY <1>15, ResetBeginEffect DEF Moved
  <2>2. \/ req'[q].tok = None
        \/ req'[q].tok = req[q].tok /\ req'[q].dev = req[q].dev
    BY <1>15, ResetBeginEffect DEF Moved
  <2>3. req'[q].new = None \/ req'[q].new = req[q].new
    BY <1>15, ResetBeginEffect DEF Moved
  <2>4. \A d \in Devices : stored'[d] = stored[d] \/ stored'[d] = None
    BY <1>15, ResetBeginEffect
  <2> QED
    BY <2>1, <2>2, <2>3, <2>4, PrivateQuiet
<1>16. ASSUME NEW q \in Requests, SetPassword(q) PROVE Private'
  <2>1. /\ delivered' = delivered /\ issued' = issued
        /\ \A x \in Requests \ {q} : req'[x] = req[x]
    BY <1>16, SetPasswordEffect DEF Moved
  <2>2. \/ req'[q].tok = None
        \/ req'[q].tok = req[q].tok /\ req'[q].dev = req[q].dev
    BY <1>16, SetPasswordEffect DEF Moved
  <2>3. req'[q].new = None \/ req'[q].new = req[q].new
    BY <1>16, SetPasswordEffect DEF Moved
  <2>4. \A d \in Devices : stored'[d] = stored[d] \/ stored'[d] = None
    BY <1>16, SetPasswordEffect
  <2> QED
    BY <2>1, <2>2, <2>3, <2>4, PrivateQuiet
<1>17. CASE ForgotPassword
  BY <1>17 DEF ForgotPassword, history, Private
<1>18. CASE Expire
  BY <1>18 DEF Expire, users, history, Private
<1>19. CASE UNCHANGED vars
  BY <1>19 DEF vars, users, keys, history, Private
<1> QED
  BY <1>1, <1>2, <1>3, <1>4, <1>5, <1>6, <1>7, <1>8, <1>9, <1>10, <1>11, <1>12, <1>13,
     <1>14, <1>15, <1>16, <1>17, <1>18, <1>19 DEF Next

\* Tokens stay with their holders in every reachable state.
LEMMA AlwaysPrivate == Spec => []Private
<1>1. Init => Private
  BY DEF Init, Private, Idle, None
<1>2. Private /\ IInv /\ [Next]_vars => Private'
  BY PrivateStep
<1> QED
  BY <1>1, <1>2, AlwaysInvariant, PTL DEF Spec

----------------------------------------------------------------------------
(* Password reset. *)

\* A token of which a reset need not be afraid: opened with the present password, late,
\* about to be taken back, or still to be met by a revocation under way.
Spared(t) ==
    \/ opened[t] = password \/ t \in late
    \/ \E r \in Requests : At(r, "undo") /\ req[r].new = t
    \/ \E r \in Requests : At(r, "revoke reset") /\ t \in req[r].todo

AllSpared == \A t \in live : Spared(t)

\* A step spares what it spared before, unless its own request stood for that.
LEMMA SparedStays ==
    ASSUME NEW q \in Requests, NEW t, Spared(t), opened'[t] = opened[t],
           password' = password, late \subseteq late',
           \A x \in Requests \ {q} : req'[x] = req[x],
           At(q, "undo") => req[q].new # t,
           At(q, "revoke reset") => t \notin req[q].todo
    PROVE  Spared(t)'
<1>1. CASE opened[t] = password \/ t \in late
  BY <1>1 DEF Spared
<1>2. CASE \E r \in Requests : At(r, "undo") /\ req[r].new = t
  BY <1>2 DEF Spared, At
<1>3. CASE \E r \in Requests : At(r, "revoke reset") /\ t \in req[r].todo
  BY <1>3 DEF Spared, At
<1> QED
  BY <1>1, <1>2, <1>3 DEF Spared

\* Neither the undoing of a rotation nor a revocation are the steps of this request.
LEMMA OthersSpare ==
    ASSUME AllSpared, NEW q \in Requests, ~At(q, "undo"), ~At(q, "revoke reset"),
           opened' = opened, password' = password, late' = late, live' \subseteq live,
           \A x \in Requests \ {q} : req'[x] = req[x]
    PROVE  AllSpared'
BY SparedStays DEF AllSpared

\* A login's token is one of the present password or late.
LEMMA LoginSpared ==
    ASSUME IInv, AllSpared, NEW q \in Requests, LoginStore(q)
    PROVE  AllSpared'
<1>1. /\ password' = password /\ late \subseteq late' /\ live' = live \cup {issued'}
      /\ \A x \in Requests \ {q} : req'[x] = req[x]
  BY LoginStoreEffect DEF Moved
<1>2. ~At(q, "undo") /\ ~At(q, "revoke reset")
  BY LoginStoreEffect DEF At
<1>3. issued' \in Tokens /\ opened' = [opened EXCEPT ![issued'] = req[q].seen]
  BY LoginStoreEffect
<1>4. opened'[issued'] = req[q].seen
  BY <1>3, Parts DEF HistoryTyped
<1>5. req[q].seen # password => issued' \in late'
  BY LoginStoreEffect
<1>7. opened'[issued'] = password' \/ issued' \in late'
  BY <1>1, <1>4, <1>5
<1>8. ASSUME NEW t \in live PROVE opened'[t] = opened[t]
  <2>1. issued' = issued + 1
    BY LoginStoreEffect
  <2>2. t \in 1 .. issued
    BY Parts, Basics DEF KeysTyped
  <2>3. t # issued' /\ t \in Tokens
    BY <2>1, <2>2, Parts, Basics, ConstantsAssumption DEF Counters, Tokens
  <2> QED
    BY <1>3, <2>3, Parts DEF HistoryTyped
<1>9. ASSUME NEW t \in live PROVE Spared(t)'
  BY <1>1, <1>2, <1>8, SparedStays DEF AllSpared
<1> QED
  BY <1>1, <1>7, <1>9 DEF AllSpared, Spared

\* The token a rotation issues is spared because the one it replaces was, or because it
\* will be taken back.
LEMMA RotationSpared ==
    ASSUME IInv, Private, AllSpared, NEW q \in Requests, Rotate(q)
    PROVE  AllSpared'
<1>1. /\ password' = password /\ late \subseteq late'
      /\ live' = (live \ {req[q].tok}) \cup {issued'}
      /\ \A x \in Requests \ {q} : req'[x] = req[x]
  BY RotateEffect DEF Moved
<1>2. ~At(q, "undo") /\ ~At(q, "revoke reset")
  BY RotateEffect DEF At
<1>3. issued' \in Tokens /\ opened' = [opened EXCEPT ![issued'] = opened[req[q].tok]]
  BY RotateEffect
<1>4. opened'[issued'] = opened[req[q].tok]
  BY <1>3, Parts DEF HistoryTyped
<1>5. ASSUME NEW t \in live PROVE opened'[t] = opened[t]
  <2>1. issued' = issued + 1
    BY RotateEffect
  <2>2. t \in 1 .. issued
    BY Parts, Basics DEF KeysTyped
  <2>3. t # issued' /\ t \in Tokens
    BY <2>1, <2>2, Parts, Basics, ConstantsAssumption DEF Counters, Tokens
  <2> QED
    BY <1>3, <2>3, Parts DEF HistoryTyped
<1>6. ASSUME NEW t \in live PROVE Spared(t)'
  BY <1>1, <1>2, <1>5, SparedStays DEF AllSpared
<1>7. \/ opened'[issued'] = password' \/ issued' \in late'
      \/ At(q, "undo")' /\ req'[q].new = issued'
  <2>1. CASE req[q].tok \in live
    <3>1. ~ \E r \in Requests : req[r].new = req[q].tok
      <4>1. req[q].tok # None
        BY RotateEffect, CarriedAt
      <4> QED
        BY <4>1 DEF Private
    <3>2. CASE opened[req[q].tok] = password
      BY <1>1, <1>4, <3>2
    <3>3. CASE req[q].tok \in late \/ Revoking
      BY <3>3, RotateEffect
    <3> QED
      BY <2>1, <3>1, <3>2, <3>3 DEF AllSpared, Spared, Revoking
  <2>2. CASE req[q].tok \notin live
    BY <2>2, RotateEffect DEF Moved, At
  <2> QED
    BY <2>1, <2>2
<1> QED
  BY <1>1, <1>6, <1>7 DEF AllSpared, Spared, At

\* No command of a handler leaves a session of the old password behind.
LEMMA SparedStep ==
    ASSUME IInv, [Next]_vars, Private, AllSpared, crashes' = 0
    PROVE  AllSpared'
<1>1. ASSUME NEW q \in Requests, NEW d \in Devices, LoginVerify(q, d) PROVE AllSpared'
  <2>1. /\ opened' = opened /\ password' = password /\ late' = late
        /\ live' \subseteq live
    BY <1>1, LoginVerifyEffect
  <2>2. \A x \in Requests \ {q} : req'[x] = req[x]
    BY <1>1, LoginVerifyEffect DEF Moved
  <2>3. ~At(q, "undo") /\ ~At(q, "revoke reset")
    BY <1>1, LoginVerifyEffect DEF At
  <2> QED
    BY <2>1, <2>2, <2>3, OthersSpare
<1>2. ASSUME NEW q \in Requests, NEW d \in Devices, RefreshBegin(q, d) PROVE AllSpared'
  <2>1. /\ opened' = opened /\ password' = password /\ late' = late
        /\ live' \subseteq live
    BY <1>2, RefreshBeginEffect
  <2>2. \A x \in Requests \ {q} : req'[x] = req[x]
    BY <1>2, RefreshBeginEffect DEF Moved
  <2>3. ~At(q, "undo") /\ ~At(q, "revoke reset")
    BY <1>2, RefreshBeginEffect DEF At
  <2> QED
    BY <2>1, <2>2, <2>3, OthersSpare
<1>3. ASSUME NEW q \in Requests, NEW d \in Devices, LogoutBegin(q, d) PROVE AllSpared'
  <2>1. /\ opened' = opened /\ password' = password /\ late' = late
        /\ live' \subseteq live
    BY <1>3, LogoutBeginEffect
  <2>2. \A x \in Requests \ {q} : req'[x] = req[x]
    BY <1>3, LogoutBeginEffect DEF Moved
  <2>3. ~At(q, "undo") /\ ~At(q, "revoke reset")
    BY <1>3, LogoutBeginEffect DEF At
  <2> QED
    BY <2>1, <2>2, <2>3, OthersSpare
<1>4. ASSUME NEW q \in Requests, LoginStore(q) PROVE AllSpared'
  BY <1>4, LoginSpared
<1>5. ASSUME NEW q \in Requests, CheckUsed(q) PROVE AllSpared'
  <2>1. /\ opened' = opened /\ password' = password /\ late' = late
        /\ live' \subseteq live
    BY <1>5, CheckUsedEffect
  <2>2. \A x \in Requests \ {q} : req'[x] = req[x]
    BY <1>5, CheckUsedEffect DEF Moved
  <2>3. ~At(q, "undo") /\ ~At(q, "revoke reset")
    BY <1>5, CheckUsedEffect DEF At
  <2> QED
    BY <2>1, <2>2, <2>3, OthersSpare
<1>6. ASSUME NEW q \in Requests, Rotate(q) PROVE AllSpared'
  BY <1>6, RotationSpared
<1>7. ASSUME NEW q \in Requests, MarkUsed(q) PROVE AllSpared'
  <2>1. /\ opened' = opened /\ password' = password /\ late' = late
        /\ live' \subseteq live
    BY <1>7, MarkUsedEffect
  <2>2. \A x \in Requests \ {q} : req'[x] = req[x]
    BY <1>7, MarkUsedEffect DEF Moved
  <2>3. ~At(q, "undo") /\ ~At(q, "revoke reset")
    BY <1>7, MarkUsedEffect DEF At
  <2> QED
    BY <2>1, <2>2, <2>3, OthersSpare
<1>8. ASSUME NEW q \in Requests, Undo(q) PROVE AllSpared'
  <2>1. /\ opened' = opened /\ password' = password /\ late' = late
        /\ live' = live \ {req[q].new}
    BY <1>8, UndoEffect
  <2>2. \A x \in Requests \ {q} : req'[x] = req[x]
    BY <1>8, UndoEffect DEF Moved
  <2>3. ~At(q, "revoke reset")
    BY <1>8, UndoEffect DEF At
  <2> QED
    BY <2>1, <2>2, <2>3, SparedStays DEF AllSpared
<1>9. ASSUME NEW q \in Requests, RevokeOne(q) PROVE AllSpared'
  <2>1. /\ opened' = opened /\ password' = password /\ late' = late
        /\ live' \subseteq live /\ req' = req
    BY <1>9, RevokeOneEffect
  <2> QED
    BY <2>1 DEF AllSpared, Spared, At
<1>10. ASSUME NEW q \in Requests, RevokeEnd(q) PROVE AllSpared'
  <2>1. /\ opened' = opened /\ password' = password /\ late' = late /\ live' = live
    BY <1>10, RevokeEndEffect
  <2>2. \A x \in Requests \ {q} : req'[x] = req[x]
    BY <1>10, RevokeEndEffect DEF Moved
  <2>3. ~At(q, "undo")
    BY <1>10, RevokeEndEffect DEF At
  <2>4. req[q].todo \cap live = {}
    BY <1>10 DEF RevokeEnd
  <2> QED
    BY <2>1, <2>2, <2>3, <2>4, SparedStays DEF AllSpared
<1>11. ASSUME NEW q \in Requests, LogoutRevoke(q) PROVE AllSpared'
  <2>1. /\ opened' = opened /\ password' = password /\ late' = late
        /\ live' \subseteq live
    BY <1>11, LogoutRevokeEffect
  <2>2. \A x \in Requests \ {q} : req'[x] = req[x]
    BY <1>11, LogoutRevokeEffect DEF Moved
  <2>3. ~At(q, "undo") /\ ~At(q, "revoke reset")
    BY <1>11, LogoutRevokeEffect DEF At
  <2> QED
    BY <2>1, <2>2, <2>3, OthersSpare
<1>12. ASSUME NEW q \in Requests, Granted(q) PROVE AllSpared'
  <2>1. /\ opened' = opened /\ password' = password /\ late' = late
        /\ live' \subseteq live
    BY <1>12, GrantedEffect
  <2>2. \A x \in Requests \ {q} : req'[x] = req[x]
    BY <1>12, GrantedEffect DEF Moved
  <2>3. ~At(q, "undo") /\ ~At(q, "revoke reset")
    BY <1>12, GrantedEffect DEF At
  <2> QED
    BY <2>1, <2>2, <2>3, OthersSpare
<1>13. ASSUME NEW q \in Requests, Refused(q) PROVE AllSpared'
  <2>1. /\ opened' = opened /\ password' = password /\ late' = late
        /\ live' \subseteq live
    BY <1>13, RefusedEffect
  <2>2. \A x \in Requests \ {q} : req'[x] = req[x]
    BY <1>13, RefusedEffect DEF Moved
  <2>3. ~At(q, "undo") /\ ~At(q, "revoke reset")
    BY <1>13, RefusedEffect DEF At
  <2> QED
    BY <2>1, <2>2, <2>3, OthersSpare
<1>14. ASSUME NEW q \in Requests, Crash(q) PROVE AllSpared'
  BY <1>14, CrashEffect, Basics
<1>15. ASSUME NEW q \in Requests, ResetBegin(q) PROVE AllSpared'
  <2>1. /\ opened' = opened /\ password' = password /\ late' = late
        /\ live' \subseteq live
    BY <1>15, ResetBeginEffect
  <2>2. \A x \in Requests \ {q} : req'[x] = req[x]
    BY <1>15, ResetBeginEffect DEF Moved
  <2>3. ~At(q, "undo") /\ ~At(q, "revoke reset")
    BY <1>15, ResetBeginEffect DEF At
  <2> QED
    BY <2>1, <2>2, <2>3, OthersSpare
<1>16. ASSUME NEW q \in Requests, SetPassword(q) PROVE AllSpared'
  <2>1. req' = [req EXCEPT ![q].pc = "revoke reset", ![q].todo = live]
    BY <1>16 DEF SetPassword
  <2>2. req'[q].pc = "revoke reset" /\ req'[q].todo = live
    BY <2>1, Basics DEF ReqTyped, Request
  <2>3. live' = live
    BY <1>16, SetPasswordEffect
  <2> QED
    BY <2>2, <2>3 DEF AllSpared, Spared, At
<1>17. CASE ForgotPassword
  BY <1>17 DEF ForgotPassword, history, AllSpared, Spared, At
<1>18. CASE Expire
  <2>1. UNCHANGED <<users, opened, late, req>> /\ live' \subseteq live
    BY <1>18 DEF Expire, history
  <2> QED
    BY <2>1 DEF AllSpared, Spared, At, users
<1>19. CASE UNCHANGED vars
  BY <1>19 DEF vars, users, keys, history, AllSpared, Spared, At
<1> QED
  BY <1>1, <1>2, <1>3, <1>4, <1>5, <1>6, <1>7, <1>8, <1>9, <1>10, <1>11, <1>12, <1>13,
     <1>14, <1>15, <1>16, <1>17, <1>18, <1>19 DEF Next

\* When a reset is over and no request died, only late sessions of the old password are
\* left, however rotations, logins and revocations interleave.
THEOREM ResetIsThorough == Spec => []ResetEndsOldSessions
<1> DEFINE Inv == crashes = 0 => AllSpared
<1>1. Init => Inv
  BY DEF Init, AllSpared
<1>2. Inv /\ IInv /\ Private /\ [Next]_vars => Inv'
  <2> SUFFICES ASSUME Inv, IInv, Private, [Next]_vars, crashes' = 0
               PROVE  AllSpared'
    OBVIOUS
  <2>1. crashes = 0
    BY MarkersStay, Basics
  <2> QED
    BY <2>1, SparedStep
<1>3. Inv => ResetEndsOldSessions
  BY DEF AllSpared, Spared, ResetEndsOldSessions, Revoking
<1> HIDE DEF Inv
<1> QED
  BY <1>1, <1>2, <1>3, AlwaysInvariant, AlwaysPrivate, PTL DEF Spec

----------------------------------------------------------------------------
(* Markers and new tokens. *)

UsedDelivered == used \subseteq delivered

\* Whoever is about to receive a token receives a live one, unless it was revoked or has
\* expired meanwhile.
AboutToGrant(r) == At(r, "mark") \/ At(r, "granted")
Good(t) == t \in live \cup revoked \/ t <= expired
FreshIsGood == \A r \in Requests : AboutToGrant(r) => Good(req[r].new)

\* Only a token that a browser presented is marked.
LEMMA UsedStep ==
    ASSUME IInv, [Next]_vars, Private, UsedDelivered
    PROVE  UsedDelivered'
<1>1. ASSUME NEW q \in Requests, NEW d \in Devices, LoginVerify(q, d) PROVE UsedDelivered'
  <2>1. used' = used /\ delivered' = delivered
    BY <1>1, LoginVerifyEffect
  <2> QED
    BY <2>1 DEF UsedDelivered
<1>2. ASSUME NEW q \in Requests, NEW d \in Devices, RefreshBegin(q, d) PROVE UsedDelivered'
  <2>1. used' = used /\ delivered' = delivered
    BY <1>2, RefreshBeginEffect
  <2> QED
    BY <2>1 DEF UsedDelivered
<1>3. ASSUME NEW q \in Requests, NEW d \in Devices, LogoutBegin(q, d) PROVE UsedDelivered'
  <2>1. used' = used /\ delivered' = delivered
    BY <1>3, LogoutBeginEffect
  <2> QED
    BY <2>1 DEF UsedDelivered
<1>4. ASSUME NEW q \in Requests, LoginStore(q) PROVE UsedDelivered'
  <2>1. used' = used /\ delivered' = delivered
    BY <1>4, LoginStoreEffect
  <2> QED
    BY <2>1 DEF UsedDelivered
<1>5. ASSUME NEW q \in Requests, CheckUsed(q) PROVE UsedDelivered'
  <2>1. used' = used /\ delivered' = delivered
    BY <1>5, CheckUsedEffect
  <2> QED
    BY <2>1 DEF UsedDelivered
<1>6. ASSUME NEW q \in Requests, Rotate(q) PROVE UsedDelivered'
  <2>1. used' = used /\ delivered' = delivered
    BY <1>6, RotateEffect
  <2> QED
    BY <2>1 DEF UsedDelivered
<1>7. ASSUME NEW q \in Requests, MarkUsed(q) PROVE UsedDelivered'
  <2>1. used' = used \cup {req[q].tok} /\ delivered' = delivered
    BY <1>7, MarkUsedEffect
  <2>2. req[q].tok \in delivered
    BY <1>7, MarkUsedEffect, CarriedAt DEF Private
  <2> QED
    BY <2>1, <2>2 DEF UsedDelivered
<1>8. ASSUME NEW q \in Requests, Undo(q) PROVE UsedDelivered'
  <2>1. used' = used /\ delivered' = delivered
    BY <1>8, UndoEffect
  <2> QED
    BY <2>1 DEF UsedDelivered
<1>9. ASSUME NEW q \in Requests, RevokeOne(q) PROVE UsedDelivered'
  <2>1. used' = used /\ delivered' = delivered
    BY <1>9, RevokeOneEffect
  <2> QED
    BY <2>1 DEF UsedDelivered
<1>10. ASSUME NEW q \in Requests, RevokeEnd(q) PROVE UsedDelivered'
  <2>1. used' = used /\ delivered' = delivered
    BY <1>10, RevokeEndEffect
  <2> QED
    BY <2>1 DEF UsedDelivered
<1>11. ASSUME NEW q \in Requests, LogoutRevoke(q) PROVE UsedDelivered'
  <2>1. used' = used /\ delivered' = delivered
    BY <1>11, LogoutRevokeEffect
  <2> QED
    BY <2>1 DEF UsedDelivered
<1>12. ASSUME NEW q \in Requests, Granted(q) PROVE UsedDelivered'
  <2>1. used' = used /\ delivered \subseteq delivered'
    BY <1>12, GrantedEffect
  <2> QED
    BY <2>1 DEF UsedDelivered
<1>13. ASSUME NEW q \in Requests, Refused(q) PROVE UsedDelivered'
  <2>1. used' = used /\ delivered' = delivered
    BY <1>13, RefusedEffect
  <2> QED
    BY <2>1 DEF UsedDelivered
<1>14. ASSUME NEW q \in Requests, Crash(q) PROVE UsedDelivered'
  <2>1. used' = used /\ delivered' = delivered
    BY <1>14, CrashEffect
  <2> QED
    BY <2>1 DEF UsedDelivered
<1>15. ASSUME NEW q \in Requests, ResetBegin(q) PROVE UsedDelivered'
  <2>1. used' = used /\ delivered' = delivered
    BY <1>15, ResetBeginEffect
  <2> QED
    BY <2>1 DEF UsedDelivered
<1>16. ASSUME NEW q \in Requests, SetPassword(q) PROVE UsedDelivered'
  <2>1. used' = used /\ delivered' = delivered
    BY <1>16, SetPasswordEffect
  <2> QED
    BY <2>1 DEF UsedDelivered
<1>17. CASE ForgotPassword
  BY <1>17 DEF ForgotPassword, history, UsedDelivered
<1>18. CASE Expire
  BY <1>18 DEF Expire, users, history, UsedDelivered
<1>19. CASE UNCHANGED vars
  BY <1>19 DEF vars, users, keys, history, UsedDelivered
<1> QED
  BY <1>1, <1>2, <1>3, <1>4, <1>5, <1>6, <1>7, <1>8, <1>9, <1>10, <1>11, <1>12, <1>13,
     <1>14, <1>15, <1>16, <1>17, <1>18, <1>19 DEF Next

\* A step keeps a token good unless it deletes it without revoking it.
LEMMA GoodStays ==
    ASSUME NEW t, Good(t), t \in live \cup revoked => t \in live' \cup revoked',
           expired' = expired
    PROVE  Good(t)'
BY DEF Good

\* The other requests keep their good tokens, and this one's is good or not to be granted.
LEMMA FreshStays ==
    ASSUME FreshIsGood, NEW q \in Requests, expired' = expired,
           \A x \in Requests \ {q} : req'[x] = req[x],
           \A x \in Requests \ {q} : AboutToGrant(x) =>
              (req[x].new \in live \cup revoked => req[x].new \in live' \cup revoked'),
           AboutToGrant(q)' => req'[q].new \in live'
    PROVE  FreshIsGood'
<1>1. ASSUME NEW x \in Requests \ {q}, AboutToGrant(x)' PROVE Good(req[x].new)'
  <2>1. AboutToGrant(x)
    BY <1>1 DEF AboutToGrant, At
  <2>2. Good(req[x].new)
    BY <2>1 DEF FreshIsGood
  <2>3. req'[x].new = req[x].new
    OBVIOUS
  <2> QED
    BY <2>1, <2>2, <2>3 DEF Good
<1>2. AboutToGrant(q)' => Good(req[q].new)'
  BY DEF Good
<1> QED
  BY <1>1, <1>2 DEF FreshIsGood

\* A request that is neither marking nor answering moves on without a token to grant.
LEMMA FreshQuiet ==
    ASSUME FreshIsGood, NEW q \in Requests, expired' = expired,
           live \cup revoked \subseteq live' \cup revoked',
           \A x \in Requests \ {q} : req'[x] = req[x],
           req'[q].pc # "mark" /\ req'[q].pc # "granted"
    PROVE  FreshIsGood'
<1>1. ~AboutToGrant(q)'
  BY DEF AboutToGrant, At
<1> QED
  BY <1>1, FreshStays

\* No step spoils a token that is about to be granted.
LEMMA FreshStep ==
    ASSUME IInv, [Next]_vars, Private, FreshIsGood
    PROVE  FreshIsGood'
<1>1. ASSUME NEW q \in Requests, NEW d \in Devices, LoginVerify(q, d) PROVE FreshIsGood'
  <2>1. expired' = expired /\ live \cup revoked \subseteq live' \cup revoked'
    BY <1>1, LoginVerifyEffect
  <2>2. \A x \in Requests \ {q} : req'[x] = req[x]
    BY <1>1, LoginVerifyEffect DEF Moved
  <2>3. req'[q].pc # "mark" /\ req'[q].pc # "granted"
    BY <1>1, LoginVerifyEffect DEF Moved
  <2> QED
    BY <2>1, <2>2, <2>3, FreshQuiet
<1>2. ASSUME NEW q \in Requests, NEW d \in Devices, RefreshBegin(q, d) PROVE FreshIsGood'
  <2>1. expired' = expired /\ live \cup revoked \subseteq live' \cup revoked'
    BY <1>2, RefreshBeginEffect
  <2>2. \A x \in Requests \ {q} : req'[x] = req[x]
    BY <1>2, RefreshBeginEffect DEF Moved
  <2>3. req'[q].pc # "mark" /\ req'[q].pc # "granted"
    BY <1>2, RefreshBeginEffect DEF Moved
  <2> QED
    BY <2>1, <2>2, <2>3, FreshQuiet
<1>3. ASSUME NEW q \in Requests, NEW d \in Devices, LogoutBegin(q, d) PROVE FreshIsGood'
  <2>1. expired' = expired /\ live \cup revoked \subseteq live' \cup revoked'
    BY <1>3, LogoutBeginEffect
  <2>2. \A x \in Requests \ {q} : req'[x] = req[x]
    BY <1>3, LogoutBeginEffect DEF Moved
  <2>3. req'[q].pc # "mark" /\ req'[q].pc # "granted"
    BY <1>3, LogoutBeginEffect DEF Moved
  <2> QED
    BY <2>1, <2>2, <2>3, FreshQuiet
<1>4. ASSUME NEW q \in Requests, LoginStore(q) PROVE FreshIsGood'
  <2>1. expired' = expired /\ revoked' = revoked /\ live' = live \cup {issued'}
    BY <1>4, LoginStoreEffect
  <2>2. req'[q].new = issued' /\ \A x \in Requests \ {q} : req'[x] = req[x]
    BY <1>4, LoginStoreEffect DEF Moved
  <2> QED
    BY <2>1, <2>2, FreshStays
<1>5. ASSUME NEW q \in Requests, CheckUsed(q) PROVE FreshIsGood'
  <2>1. expired' = expired /\ live \cup revoked \subseteq live' \cup revoked'
    BY <1>5, CheckUsedEffect
  <2>2. \A x \in Requests \ {q} : req'[x] = req[x]
    BY <1>5, CheckUsedEffect DEF Moved
  <2>3. req'[q].pc # "mark" /\ req'[q].pc # "granted"
    BY <1>5, CheckUsedEffect DEF Moved
  <2> QED
    BY <2>1, <2>2, <2>3, FreshQuiet
<1>6. ASSUME NEW q \in Requests, Rotate(q) PROVE FreshIsGood'
  <2>1. /\ expired' = expired /\ revoked' = revoked
        /\ live' = (live \ {req[q].tok}) \cup {issued'}
    BY <1>6, RotateEffect
  <2>2. req'[q].new = issued' /\ \A x \in Requests \ {q} : req'[x] = req[x]
    BY <1>6, RotateEffect DEF Moved
  <2>3. \A x \in Requests : req[x].new # req[q].tok
    BY <1>6, RotateEffect, CarriedAt DEF Private
  <2> QED
    BY <2>1, <2>2, <2>3, FreshStays
<1>7. ASSUME NEW q \in Requests, MarkUsed(q) PROVE FreshIsGood'
  <2>1. expired' = expired /\ revoked' = revoked /\ live' = live /\ At(q, "mark")
    BY <1>7, MarkUsedEffect
  <2>2. req'[q].new = req[q].new /\ \A x \in Requests \ {q} : req'[x] = req[x]
    BY <1>7, MarkUsedEffect DEF Moved
  <2>3. Good(req[q].new)
    BY <2>1 DEF FreshIsGood, AboutToGrant
  <2>4. \A x \in Requests : AboutToGrant(x)' => AboutToGrant(x) \/ x = q
    BY <2>2 DEF AboutToGrant, At
  <2> QED
    BY <2>1, <2>2, <2>3, <2>4 DEF FreshIsGood, Good
<1>8. ASSUME NEW q \in Requests, Undo(q) PROVE FreshIsGood'
  <2>1. expired' = expired /\ revoked' = revoked /\ live' = live \ {req[q].new}
    BY <1>8, UndoEffect
  <2>2. \A x \in Requests \ {q} : req'[x] = req[x]
    BY <1>8, UndoEffect DEF Moved
  <2>3. \A x \in Requests \ {q} : req[x].new # req[q].new
    BY <1>8, UndoEffect, CarriedAt DEF Private
  <2>4. req'[q].pc = "refused"
    BY <1>8, UndoEffect DEF Moved
  <2>5. ~AboutToGrant(q)'
    BY <2>4 DEF AboutToGrant, At
  <2> QED
    BY <2>1, <2>2, <2>3, <2>5, FreshStays
<1>9. ASSUME NEW q \in Requests, RevokeOne(q) PROVE FreshIsGood'
  <2>1. expired' = expired /\ req' = req /\ live \cup revoked \subseteq live' \cup revoked'
    BY <1>9, RevokeOneEffect
  <2> QED
    BY <2>1 DEF FreshIsGood, AboutToGrant, At, Good
<1>10. ASSUME NEW q \in Requests, RevokeEnd(q) PROVE FreshIsGood'
  <2>1. expired' = expired /\ live \cup revoked \subseteq live' \cup revoked'
    BY <1>10, RevokeEndEffect
  <2>2. \A x \in Requests \ {q} : req'[x] = req[x]
    BY <1>10, RevokeEndEffect DEF Moved
  <2>3. req'[q].pc # "mark" /\ req'[q].pc # "granted"
    BY <1>10, RevokeEndEffect DEF Moved
  <2> QED
    BY <2>1, <2>2, <2>3, FreshQuiet
<1>11. ASSUME NEW q \in Requests, LogoutRevoke(q) PROVE FreshIsGood'
  <2>1. expired' = expired /\ live \cup revoked \subseteq live' \cup revoked'
    BY <1>11, LogoutRevokeEffect
  <2>2. \A x \in Requests \ {q} : req'[x] = req[x]
    BY <1>11, LogoutRevokeEffect DEF Moved
  <2>3. req'[q].pc # "mark" /\ req'[q].pc # "granted"
    BY <1>11, LogoutRevokeEffect DEF Moved
  <2> QED
    BY <2>1, <2>2, <2>3, FreshQuiet
<1>12. ASSUME NEW q \in Requests, Granted(q) PROVE FreshIsGood'
  <2>1. expired' = expired /\ live \cup revoked \subseteq live' \cup revoked'
    BY <1>12, GrantedEffect
  <2>2. \A x \in Requests \ {q} : req'[x] = req[x]
    BY <1>12, GrantedEffect DEF Moved
  <2>3. req'[q].pc # "mark" /\ req'[q].pc # "granted"
    BY <1>12, GrantedEffect DEF Moved
  <2> QED
    BY <2>1, <2>2, <2>3, FreshQuiet
<1>13. ASSUME NEW q \in Requests, Refused(q) PROVE FreshIsGood'
  <2>1. expired' = expired /\ live \cup revoked \subseteq live' \cup revoked'
    BY <1>13, RefusedEffect
  <2>2. \A x \in Requests \ {q} : req'[x] = req[x]
    BY <1>13, RefusedEffect DEF Moved
  <2>3. req'[q].pc # "mark" /\ req'[q].pc # "granted"
    BY <1>13, RefusedEffect DEF Moved
  <2> QED
    BY <2>1, <2>2, <2>3, FreshQuiet
<1>14. ASSUME NEW q \in Requests, Crash(q) PROVE FreshIsGood'
  <2>1. expired' = expired /\ live \cup revoked \subseteq live' \cup revoked'
    BY <1>14, CrashEffect
  <2>2. \A x \in Requests \ {q} : req'[x] = req[x]
    BY <1>14, CrashEffect DEF Moved
  <2>3. req'[q].pc # "mark" /\ req'[q].pc # "granted"
    BY <1>14, CrashEffect DEF Moved
  <2> QED
    BY <2>1, <2>2, <2>3, FreshQuiet
<1>15. ASSUME NEW q \in Requests, ResetBegin(q) PROVE FreshIsGood'
  <2>1. expired' = expired /\ live \cup revoked \subseteq live' \cup revoked'
    BY <1>15, ResetBeginEffect
  <2>2. \A x \in Requests \ {q} : req'[x] = req[x]
    BY <1>15, ResetBeginEffect DEF Moved
  <2>3. req'[q].pc # "mark" /\ req'[q].pc # "granted"
    BY <1>15, ResetBeginEffect DEF Moved
  <2> QED
    BY <2>1, <2>2, <2>3, FreshQuiet
<1>16. ASSUME NEW q \in Requests, SetPassword(q) PROVE FreshIsGood'
  <2>1. expired' = expired /\ live \cup revoked \subseteq live' \cup revoked'
    BY <1>16, SetPasswordEffect
  <2>2. \A x \in Requests \ {q} : req'[x] = req[x]
    BY <1>16, SetPasswordEffect DEF Moved
  <2>3. req'[q].pc # "mark" /\ req'[q].pc # "granted"
    BY <1>16, SetPasswordEffect DEF Moved
  <2> QED
    BY <2>1, <2>2, <2>3, FreshQuiet
<1>17. CASE ForgotPassword
  BY <1>17 DEF ForgotPassword, history, FreshIsGood, AboutToGrant, At, Good
<1>18. CASE Expire
  <2>1. /\ expired' = expired + 1 /\ live' = live \ {expired'}
        /\ revoked' = revoked /\ req' = req
    BY <1>18 DEF Expire, history
  <2>2. ASSUME NEW r \in Requests, AboutToGrant(r) PROVE Good(req[r].new)'
    <3>1. Good(req[r].new)
      BY <2>2 DEF FreshIsGood
    <3> QED
      BY <2>1, <3>1, Basics DEF Good
  <2> QED
    BY <2>1, <2>2 DEF FreshIsGood, AboutToGrant, At
<1>19. CASE UNCHANGED vars
  BY <1>19 DEF vars, users, keys, history, FreshIsGood, AboutToGrant, At, Good
<1> QED
  BY <1>1, <1>2, <1>3, <1>4, <1>5, <1>6, <1>7, <1>8, <1>9, <1>10, <1>11, <1>12, <1>13,
     <1>14, <1>15, <1>16, <1>17, <1>18, <1>19 DEF Next

\* Markers are of delivered tokens, and what is about to be granted is good, in every
\* reachable state.
LEMMA AlwaysFresh == Spec => [](UsedDelivered /\ FreshIsGood)
<1>1. Init => UsedDelivered /\ FreshIsGood
  BY DEF Init, UsedDelivered, FreshIsGood, AboutToGrant, At, Idle
<1>2. UsedDelivered /\ FreshIsGood /\ IInv /\ Private /\ [Next]_vars
      => UsedDelivered' /\ FreshIsGood'
  BY UsedStep, FreshStep
<1> QED
  BY <1>1, <1>2, AlwaysInvariant, AlwaysPrivate, PTL DEF Spec

----------------------------------------------------------------------------
(* Browsers that behave. *)

NoReuse == \A r \in Requests : ~At(r, "revoke reuse")
TokensApart ==
    \A r, q \in Requests : r # q /\ req[r].tok = req[q].tok => req[r].tok = None
\* A request whose token is marked has marked it itself; a browser whose token is marked
\* is about to have another one.
UsedAreGranted == \A r \in Requests : req[r].tok \in used => At(r, "granted")
UsedAreReplaced ==
    \A d \in Devices : stored[d] \in used =>
        \E r \in Requests : At(r, "granted") /\ req[r].tok = stored[d]
StoredIsGood ==
    \A d \in Devices : stored[d] # None =>
        \/ Good(stored[d])
        \/ \E r \in Requests : AboutToGrant(r) /\ req[r].tok = stored[d]

Behaved == NoReuse /\ TokensApart /\ UsedAreGranted /\ UsedAreReplaced /\ StoredIsGood

\* No marker is of a token that is not there.
LEMMA NoneIsNotUsed ==
    ASSUME Private, UsedDelivered
    PROVE  None \notin used
BY DEF Private, UsedDelivered, None

\* A step of a request that is neither marking nor answering, which presents nothing and
\* takes no stored token away without revoking or exchanging it.
LEMMA BehavedQuiet ==
    ASSUME Behaved, Private, UsedDelivered, NEW q \in Requests, used' = used,
           expired' = expired, \A x \in Requests \ {q} : req'[x] = req[x],
           req'[q].tok = None \/ req'[q].tok = req[q].tok,
           req'[q].pc # "revoke reuse", ~At(q, "mark"), ~At(q, "granted"),
           \A d \in Devices : stored'[d] = stored[d] \/ stored'[d] = None,
           \A d \in Devices : stored[d] # None /\ stored[d] \in live \cup revoked =>
               \/ stored[d] \in live' \cup revoked'
               \/ req'[q].pc = "mark" /\ req'[q].tok = stored[d]
    PROVE  Behaved'
<1>1. NoReuse'
  BY DEF Behaved, NoReuse, At
<1>2. \A x \in Requests : req'[x].tok = None \/ req'[x].tok = req[x].tok
  <2> TAKE x \in Requests
  <2> QED
    BY DEF None
<1>3. TokensApart'
  <2>1. ASSUME NEW x \in Requests, NEW y \in Requests, x # y, req'[x].tok = req'[y].tok
        PROVE  req'[x].tok = None
    BY <1>2, <2>1 DEF Behaved, TokensApart
  <2> QED
    BY <2>1 DEF TokensApart, None
<1>4. UsedAreGranted'
  BY NoneIsNotUsed DEF Behaved, UsedAreGranted, At
<1>5. UsedAreReplaced'
  <2>1. ASSUME NEW d \in Devices, stored'[d] \in used
        PROVE  \E r \in Requests : req'[r].pc = "granted" /\ req'[r].tok = stored'[d]
    <3>1. stored'[d] = stored[d]
      BY <2>1, NoneIsNotUsed
    <3>2. PICK r \in Requests : At(r, "granted") /\ req[r].tok = stored[d]
      BY <2>1, <3>1 DEF Behaved, UsedAreReplaced
    <3>3. r # q
      BY <3>2
    <3> QED
      BY <3>1, <3>2, <3>3 DEF At
  <2> QED
    BY <2>1 DEF UsedAreReplaced, At
<1>6. ASSUME NEW d \in Devices, stored'[d] # None
      PROVE  \/ Good(stored[d])'
             \/ \E r \in Requests : AboutToGrant(r)' /\ req'[r].tok = stored[d]
  <2>1. stored[d] # None
    BY <1>6
  <2>2. stored'[d] = stored[d]
    BY <1>6
  <2>3. CASE Good(stored[d])
    <3>1. CASE stored[d] \in live \cup revoked
      <4>1. \/ stored[d] \in live' \cup revoked'
            \/ req'[q].pc = "mark" /\ req'[q].tok = stored[d]
        BY <2>1, <3>1
      <4> QED
        BY <4>1, <2>2 DEF Good, AboutToGrant, At
    <3>2. CASE stored[d] <= expired
      BY <3>2, <2>2 DEF Good
    <3> QED
      BY <2>3, <3>1, <3>2 DEF Good
  <2>4. CASE \E r \in Requests : AboutToGrant(r) /\ req[r].tok = stored[d]
    <3>1. PICK r \in Requests : AboutToGrant(r) /\ req[r].tok = stored[d]
      BY <2>4
    <3>2. r # q
      BY <3>1 DEF AboutToGrant
    <3> QED
      BY <3>1, <3>2 DEF AboutToGrant, At
  <2> QED
    BY <2>1, <2>3, <2>4 DEF Behaved, StoredIsGood
<1>7. StoredIsGood'
  BY <1>6 DEF StoredIsGood, Good
<1> QED
  BY <1>1, <1>3, <1>4, <1>5, <1>7 DEF Behaved

\* A token that nobody else is presenting is presented.
LEMMA BehavedPresent ==
    ASSUME IInv, Behaved, Private, UsedDelivered, NEW q \in Requests, NEW d \in Devices,
           At(q, "idle"), used' = used, expired' = expired, live' = live,
           revoked' = revoked, stored' = stored,
           \A x \in Requests \ {q} : req'[x] = req[x], req'[q].tok = stored[d],
           req'[q].pc # "revoke reuse",
           \A x \in Requests : req[x].tok # stored[d]
    PROVE  Behaved'
<1>1. NoReuse'
  BY DEF Behaved, NoReuse, At
<1>2. TokensApart'
  BY DEF Behaved, TokensApart
<1>3. stored[d] \notin used
  BY DEF Behaved, UsedAreReplaced
<1>4. UsedAreGranted'
  BY <1>3 DEF Behaved, UsedAreGranted, At
<1>5. UsedAreReplaced'
  BY DEF Behaved, UsedAreReplaced, At
<1>6. StoredIsGood'
  BY DEF Behaved, StoredIsGood, Good, AboutToGrant, At
<1> QED
  BY <1>1, <1>2, <1>4, <1>5, <1>6 DEF Behaved

\* The marker is written of a token that no other request has.
LEMMA BehavedMark ==
    ASSUME IInv, Behaved, NEW q \in Requests, MarkUsed(q)
    PROVE  Behaved'
<1>1. /\ \A x \in Requests \ {q} : req'[x] = req[x]
      /\ req'[q].tok = req[q].tok /\ req'[q].pc = "granted"
  BY MarkUsedEffect DEF Moved
<1>2. At(q, "mark") /\ req[q].tok # None
  BY MarkUsedEffect, CarriedAt
<1>3. used' = used \cup {req[q].tok}
  BY MarkUsedEffect
<1>4. stored' = stored /\ live' = live /\ revoked' = revoked /\ expired' = expired
  BY MarkUsedEffect
<1>5. \A x \in Requests \ {q} : req[x].tok # req[q].tok
  BY <1>2 DEF Behaved, TokensApart
<1>6. NoReuse'
  BY <1>1 DEF Behaved, NoReuse, At
<1>7. TokensApart'
  BY <1>1 DEF Behaved, TokensApart
<1>8. UsedAreGranted'
  BY <1>1, <1>3, <1>5 DEF Behaved, UsedAreGranted, At
<1>9. UsedAreReplaced'
  <2>1. ASSUME NEW d \in Devices, stored[d] \in used
        PROVE  \E r \in Requests : At(r, "granted")' /\ req'[r].tok = stored[d]
    BY <1>1, <2>1 DEF Behaved, UsedAreReplaced, At
  <2>2. At(q, "granted")' /\ req'[q].tok = req[q].tok
    BY <1>1 DEF At
  <2> QED
    BY <1>3, <1>4, <2>1, <2>2 DEF UsedAreReplaced
<1>10. StoredIsGood'
  <2>1. ASSUME NEW r \in Requests, AboutToGrant(r)
        PROVE  AboutToGrant(r)' /\ req'[r].tok = req[r].tok
    BY <1>1, <2>1 DEF AboutToGrant, At
  <2> QED
    BY <1>4, <2>1 DEF Behaved, StoredIsGood, Good
<1> QED
  BY <1>6, <1>7, <1>8, <1>9, <1>10 DEF Behaved

\* The browser's token is replaced by a good one, and no other browser's is.
LEMMA BehavedGranted ==
    ASSUME IInv, Behaved, Private, UsedDelivered, FreshIsGood, NEW q \in Requests,
           Granted(q)
    PROVE  Behaved'
<1>1. /\ \A x \in Requests \ {q} : req'[x] = req[x]
      /\ req'[q].tok = None /\ req'[q].pc = "idle"
  BY GrantedEffect DEF Moved
<1>2. At(q, "granted") /\ req[q].new # None /\ req[q].dev \in Devices
  BY GrantedEffect, CarriedAt
<1>3. stored' = [stored EXCEPT ![req[q].dev] = req[q].new]
  BY GrantedEffect
<1>4. used' = used /\ live' = live /\ revoked' = revoked /\ expired' = expired
  BY GrantedEffect
<1>5. /\ stored'[req[q].dev] = req[q].new
      /\ \A d \in Devices \ {req[q].dev} : stored'[d] = stored[d]
  BY <1>2, <1>3, Parts DEF StoredTyped
<1>6. Good(req[q].new)
  BY <1>2 DEF FreshIsGood, AboutToGrant
<1>7. req[q].new \notin used
  BY DEF Private, UsedDelivered
<1>8. ASSUME NEW d \in Devices \ {req[q].dev}, stored[d] # None
      PROVE  req[q].tok # stored[d]
  BY <1>8 DEF Private
<1>9. NoReuse'
  BY <1>1 DEF Behaved, NoReuse, At
<1>10. TokensApart'
  BY <1>1 DEF Behaved, TokensApart
<1>11. UsedAreGranted'
  BY <1>1, <1>4, NoneIsNotUsed DEF Behaved, UsedAreGranted, At
<1>12. UsedAreReplaced'
  <2>1. ASSUME NEW d \in Devices, stored'[d] \in used
        PROVE  \E r \in Requests : At(r, "granted")' /\ req'[r].tok = stored'[d]
    <3>1. d # req[q].dev /\ stored'[d] = stored[d]
      BY <1>5, <1>7, <2>1
    <3>2. stored[d] # None
      BY <2>1, <3>1, NoneIsNotUsed
    <3>3. PICK r \in Requests : At(r, "granted") /\ req[r].tok = stored[d]
      BY <2>1, <3>1 DEF Behaved, UsedAreReplaced
    <3>4. r # q
      BY <1>8, <3>1, <3>2, <3>3
    <3> QED
      BY <1>1, <3>1, <3>3, <3>4 DEF At
  <2> QED
    BY <1>4, <2>1 DEF UsedAreReplaced
<1>13. StoredIsGood'
  <2>1. ASSUME NEW d \in Devices \ {req[q].dev}, stored[d] # None, ~Good(stored[d])
        PROVE  \E r \in Requests : AboutToGrant(r)' /\ req'[r].tok = stored[d]
    <3>1. PICK r \in Requests : AboutToGrant(r) /\ req[r].tok = stored[d]
      BY <2>1 DEF Behaved, StoredIsGood
    <3>2. r # q
      BY <1>8, <2>1, <3>1
    <3> QED
      BY <1>1, <3>1, <3>2 DEF AboutToGrant, At
  <2> QED
    BY <1>4, <1>5, <1>6, <2>1 DEF StoredIsGood, Good
<1> QED
  BY <1>9, <1>10, <1>11, <1>12, <1>13 DEF Behaved

\* The five facts survive every step after which no two requests share a token and no
\* request has died.
LEMMA BehavedStep ==
    ASSUME IInv, [Next]_vars, Private, UsedDelivered, FreshIsGood, Behaved,
           ~overlapped', crashes' = 0
    PROVE  Behaved'
<1>1. ASSUME NEW q \in Requests, NEW d \in Devices, LoginVerify(q, d) PROVE Behaved'
  <2>1. used' = used /\ expired' = expired
    BY <1>1, LoginVerifyEffect
  <2>2. /\ \A x \in Requests \ {q} : req'[x] = req[x]
        /\ req'[q].tok = None \/ req'[q].tok = req[q].tok
    BY <1>1, LoginVerifyEffect DEF Moved
  <2>3. req'[q].pc # "revoke reuse"
    BY <1>1, LoginVerifyEffect DEF Moved
  <2>4. ~At(q, "mark") /\ ~At(q, "granted")
    BY <1>1, LoginVerifyEffect DEF At
  <2>5. \A e \in Devices : stored'[e] = stored[e] \/ stored'[e] = None
    BY <1>1, LoginVerifyEffect
  <2>6. \A e \in Devices : stored[e] # None /\ stored[e] \in live \cup revoked =>
            \/ stored[e] \in live' \cup revoked'
            \/ req'[q].pc = "mark" /\ req'[q].tok = stored[e]
    BY <1>1, LoginVerifyEffect
  <2> QED
    BY <2>1, <2>2, <2>3, <2>4, <2>5, <2>6, BehavedQuiet
<1>2. ASSUME NEW q \in Requests, NEW d \in Devices, RefreshBegin(q, d) PROVE Behaved'
  <2>1. /\ At(q, "idle") /\ used' = used /\ expired' = expired /\ live' = live
        /\ revoked' = revoked /\ stored' = stored
        /\ \A x \in Requests : req[x].tok # stored[d]
    BY <1>2, RefreshBeginEffect
  <2>2. /\ \A x \in Requests \ {q} : req'[x] = req[x]
        /\ req'[q].tok = stored[d] /\ req'[q].pc # "revoke reuse"
    BY <1>2, RefreshBeginEffect DEF Moved
  <2> QED
    BY <2>1, <2>2, BehavedPresent
<1>3. ASSUME NEW q \in Requests, NEW d \in Devices, LogoutBegin(q, d) PROVE Behaved'
  <2>1. /\ At(q, "idle") /\ used' = used /\ expired' = expired /\ live' = live
        /\ revoked' = revoked /\ stored' = stored
        /\ \A x \in Requests : req[x].tok # stored[d]
    BY <1>3, LogoutBeginEffect
  <2>2. /\ \A x \in Requests \ {q} : req'[x] = req[x]
        /\ req'[q].tok = stored[d] /\ req'[q].pc # "revoke reuse"
    BY <1>3, LogoutBeginEffect DEF Moved
  <2> QED
    BY <2>1, <2>2, BehavedPresent
<1>4. ASSUME NEW q \in Requests, LoginStore(q) PROVE Behaved'
  <2>1. used' = used /\ expired' = expired
    BY <1>4, LoginStoreEffect
  <2>2. /\ \A x \in Requests \ {q} : req'[x] = req[x]
        /\ req'[q].tok = None \/ req'[q].tok = req[q].tok
    BY <1>4, LoginStoreEffect DEF Moved
  <2>3. req'[q].pc # "revoke reuse"
    BY <1>4, LoginStoreEffect DEF Moved
  <2>4. ~At(q, "mark") /\ ~At(q, "granted")
    BY <1>4, LoginStoreEffect DEF At
  <2>5. \A d \in Devices : stored'[d] = stored[d] \/ stored'[d] = None
    BY <1>4, LoginStoreEffect
  <2>6. \A d \in Devices : stored[d] # None /\ stored[d] \in live \cup revoked =>
            \/ stored[d] \in live' \cup revoked'
            \/ req'[q].pc = "mark" /\ req'[q].tok = stored[d]
    BY <1>4, LoginStoreEffect
  <2> QED
    BY <2>1, <2>2, <2>3, <2>4, <2>5, <2>6, BehavedQuiet
<1>5. ASSUME NEW q \in Requests, CheckUsed(q) PROVE Behaved'
  <2>a. At(q, "check") /\ req[q].tok \notin used
    BY <1>5, CheckUsedEffect DEF Behaved, UsedAreGranted, At
  <2>1. used' = used /\ expired' = expired
    BY <1>5, CheckUsedEffect
  <2>2. /\ \A x \in Requests \ {q} : req'[x] = req[x]
        /\ req'[q].tok = None \/ req'[q].tok = req[q].tok
    BY <1>5, CheckUsedEffect DEF Moved
  <2>3. req'[q].pc # "revoke reuse"
    BY <1>5, <2>a, CheckUsedEffect DEF Moved
  <2>4. ~At(q, "mark") /\ ~At(q, "granted")
    BY <1>5, CheckUsedEffect DEF At
  <2>5. \A d \in Devices : stored'[d] = stored[d] \/ stored'[d] = None
    BY <1>5, CheckUsedEffect
  <2>6. \A d \in Devices : stored[d] # None /\ stored[d] \in live \cup revoked =>
            \/ stored[d] \in live' \cup revoked'
            \/ req'[q].pc = "mark" /\ req'[q].tok = stored[d]
    BY <1>5, CheckUsedEffect
  <2> QED
    BY <2>1, <2>2, <2>3, <2>4, <2>5, <2>6, BehavedQuiet
<1>6. ASSUME NEW q \in Requests, Rotate(q) PROVE Behaved'
  <2>a. revoked' = revoked /\ live' = (live \ {req[q].tok}) \cup {issued'}
    BY <1>6, RotateEffect
  <2>b. req[q].tok \in live => req'[q].pc = "mark" /\ req'[q].tok = req[q].tok
    BY <1>6, RotateEffect DEF Moved
  <2>1. used' = used /\ expired' = expired
    BY <1>6, RotateEffect
  <2>2. /\ \A x \in Requests \ {q} : req'[x] = req[x]
        /\ req'[q].tok = None \/ req'[q].tok = req[q].tok
    BY <1>6, RotateEffect DEF Moved
  <2>3. req'[q].pc # "revoke reuse"
    BY <1>6, RotateEffect DEF Moved
  <2>4. ~At(q, "mark") /\ ~At(q, "granted")
    BY <1>6, RotateEffect DEF At
  <2>5. \A d \in Devices : stored'[d] = stored[d] \/ stored'[d] = None
    BY <1>6, RotateEffect
  <2>6. \A d \in Devices : stored[d] # None /\ stored[d] \in live \cup revoked =>
            \/ stored[d] \in live' \cup revoked'
            \/ req'[q].pc = "mark" /\ req'[q].tok = stored[d]
    BY <2>a, <2>b
  <2> QED
    BY <2>1, <2>2, <2>3, <2>4, <2>5, <2>6, BehavedQuiet
<1>7. ASSUME NEW q \in Requests, MarkUsed(q) PROVE Behaved'
  BY <1>7, BehavedMark
<1>8. ASSUME NEW q \in Requests, Undo(q) PROVE Behaved'
  <2>a. revoked' = revoked /\ live' = live \ {req[q].new}
    BY <1>8, UndoEffect
  <2>b. \A d \in Devices : stored[d] # None => stored[d] # req[q].new
    BY DEF Private
  <2>1. used' = used /\ expired' = expired
    BY <1>8, UndoEffect
  <2>2. /\ \A x \in Requests \ {q} : req'[x] = req[x]
        /\ req'[q].tok = None \/ req'[q].tok = req[q].tok
    BY <1>8, UndoEffect DEF Moved
  <2>3. req'[q].pc # "revoke reuse"
    BY <1>8, UndoEffect DEF Moved
  <2>4. ~At(q, "mark") /\ ~At(q, "granted")
    BY <1>8, UndoEffect DEF At
  <2>5. \A d \in Devices : stored'[d] = stored[d] \/ stored'[d] = None
    BY <1>8, UndoEffect
  <2>6. \A d \in Devices : stored[d] # None /\ stored[d] \in live \cup revoked =>
            \/ stored[d] \in live' \cup revoked'
            \/ req'[q].pc = "mark" /\ req'[q].tok = stored[d]
    BY <2>a, <2>b
  <2> QED
    BY <2>1, <2>2, <2>3, <2>4, <2>5, <2>6, BehavedQuiet
<1>9. ASSUME NEW q \in Requests, RevokeOne(q) PROVE Behaved'
  <2>1. /\ used' = used /\ expired' = expired /\ stored' = stored /\ req' = req
        /\ live \cup revoked \subseteq live' \cup revoked'
    BY <1>9, RevokeOneEffect
  <2>2. \A t : Good(t) => Good(t)'
    BY <2>1 DEF Good
  <2> QED
    BY <2>1, <2>2 DEF Behaved, NoReuse, TokensApart, UsedAreGranted, UsedAreReplaced,
       StoredIsGood, AboutToGrant, At
<1>10. ASSUME NEW q \in Requests, RevokeEnd(q) PROVE Behaved'
  <2>1. used' = used /\ expired' = expired
    BY <1>10, RevokeEndEffect
  <2>2. /\ \A x \in Requests \ {q} : req'[x] = req[x]
        /\ req'[q].tok = None \/ req'[q].tok = req[q].tok
    BY <1>10, RevokeEndEffect DEF Moved
  <2>3. req'[q].pc # "revoke reuse"
    BY <1>10, RevokeEndEffect DEF Moved
  <2>4. ~At(q, "mark") /\ ~At(q, "granted")
    BY <1>10, RevokeEndEffect DEF At
  <2>5. \A d \in Devices : stored'[d] = stored[d] \/ stored'[d] = None
    BY <1>10, RevokeEndEffect
  <2>6. \A d \in Devices : stored[d] # None /\ stored[d] \in live \cup revoked =>
            \/ stored[d] \in live' \cup revoked'
            \/ req'[q].pc = "mark" /\ req'[q].tok = stored[d]
    BY <1>10, RevokeEndEffect
  <2> QED
    BY <2>1, <2>2, <2>3, <2>4, <2>5, <2>6, BehavedQuiet
<1>11. ASSUME NEW q \in Requests, LogoutRevoke(q) PROVE Behaved'
  <2>1. used' = used /\ expired' = expired
    BY <1>11, LogoutRevokeEffect
  <2>2. /\ \A x \in Requests \ {q} : req'[x] = req[x]
        /\ req'[q].tok = None \/ req'[q].tok = req[q].tok
    BY <1>11, LogoutRevokeEffect DEF Moved
  <2>3. req'[q].pc # "revoke reuse"
    BY <1>11, LogoutRevokeEffect DEF Moved
  <2>4. ~At(q, "mark") /\ ~At(q, "granted")
    BY <1>11, LogoutRevokeEffect DEF At
  <2>5. \A d \in Devices : stored'[d] = stored[d] \/ stored'[d] = None
    BY <1>11, LogoutRevokeEffect
  <2>6. \A d \in Devices : stored[d] # None /\ stored[d] \in live \cup revoked =>
            \/ stored[d] \in live' \cup revoked'
            \/ req'[q].pc = "mark" /\ req'[q].tok = stored[d]
    BY <1>11, LogoutRevokeEffect
  <2> QED
    BY <2>1, <2>2, <2>3, <2>4, <2>5, <2>6, BehavedQuiet
<1>12. ASSUME NEW q \in Requests, Granted(q) PROVE Behaved'
  BY <1>12, BehavedGranted
<1>13. ASSUME NEW q \in Requests, Refused(q) PROVE Behaved'
  <2>1. used' = used /\ expired' = expired
    BY <1>13, RefusedEffect
  <2>2. /\ \A x \in Requests \ {q} : req'[x] = req[x]
        /\ req'[q].tok = None \/ req'[q].tok = req[q].tok
    BY <1>13, RefusedEffect DEF Moved
  <2>3. req'[q].pc # "revoke reuse"
    BY <1>13, RefusedEffect DEF Moved
  <2>4. ~At(q, "mark") /\ ~At(q, "granted")
    BY <1>13, RefusedEffect DEF At
  <2>5. \A d \in Devices : stored'[d] = stored[d] \/ stored'[d] = None
    BY <1>13, RefusedEffect, Parts DEF StoredTyped
  <2>6. \A d \in Devices : stored[d] # None /\ stored[d] \in live \cup revoked =>
            \/ stored[d] \in live' \cup revoked'
            \/ req'[q].pc = "mark" /\ req'[q].tok = stored[d]
    BY <1>13, RefusedEffect
  <2> QED
    BY <2>1, <2>2, <2>3, <2>4, <2>5, <2>6, BehavedQuiet
<1>14. ASSUME NEW q \in Requests, Crash(q) PROVE Behaved'
  BY <1>14, CrashEffect, Basics
<1>15. ASSUME NEW q \in Requests, ResetBegin(q) PROVE Behaved'
  <2>1. used' = used /\ expired' = expired
    BY <1>15, ResetBeginEffect
  <2>2. /\ \A x \in Requests \ {q} : req'[x] = req[x]
        /\ req'[q].tok = None \/ req'[q].tok = req[q].tok
    BY <1>15, ResetBeginEffect DEF Moved
  <2>3. req'[q].pc # "revoke reuse"
    BY <1>15, ResetBeginEffect DEF Moved
  <2>4. ~At(q, "mark") /\ ~At(q, "granted")
    BY <1>15, ResetBeginEffect DEF At
  <2>5. \A d \in Devices : stored'[d] = stored[d] \/ stored'[d] = None
    BY <1>15, ResetBeginEffect
  <2>6. \A d \in Devices : stored[d] # None /\ stored[d] \in live \cup revoked =>
            \/ stored[d] \in live' \cup revoked'
            \/ req'[q].pc = "mark" /\ req'[q].tok = stored[d]
    BY <1>15, ResetBeginEffect
  <2> QED
    BY <2>1, <2>2, <2>3, <2>4, <2>5, <2>6, BehavedQuiet
<1>16. ASSUME NEW q \in Requests, SetPassword(q) PROVE Behaved'
  <2>1. used' = used /\ expired' = expired
    BY <1>16, SetPasswordEffect
  <2>2. /\ \A x \in Requests \ {q} : req'[x] = req[x]
        /\ req'[q].tok = None \/ req'[q].tok = req[q].tok
    BY <1>16, SetPasswordEffect DEF Moved
  <2>3. req'[q].pc # "revoke reuse"
    BY <1>16, SetPasswordEffect DEF Moved
  <2>4. ~At(q, "mark") /\ ~At(q, "granted")
    BY <1>16, SetPasswordEffect DEF At
  <2>5. \A d \in Devices : stored'[d] = stored[d] \/ stored'[d] = None
    BY <1>16, SetPasswordEffect
  <2>6. \A d \in Devices : stored[d] # None /\ stored[d] \in live \cup revoked =>
            \/ stored[d] \in live' \cup revoked'
            \/ req'[q].pc = "mark" /\ req'[q].tok = stored[d]
    BY <1>16, SetPasswordEffect
  <2> QED
    BY <2>1, <2>2, <2>3, <2>4, <2>5, <2>6, BehavedQuiet
<1>17. CASE ForgotPassword
  BY <1>17 DEF ForgotPassword, history, Behaved, NoReuse, TokensApart, UsedAreGranted,
     UsedAreReplaced,
     StoredIsGood, AboutToGrant, At, Good
<1>18. CASE Expire
  <2>1. /\ expired' = expired + 1 /\ live' = live \ {expired'}
        /\ revoked' = revoked /\ req' = req /\ used' = used /\ stored' = stored
    BY <1>18 DEF Expire, history
  <2>2. \A d \in Devices : Good(stored[d]) => Good(stored[d])'
    BY <2>1, Basics DEF Good
  <2> QED
    BY <2>1, <2>2 DEF Behaved, NoReuse, TokensApart, UsedAreGranted, UsedAreReplaced,
       StoredIsGood, AboutToGrant, At
<1>19. CASE UNCHANGED vars
  BY <1>19 DEF vars, users, keys, history, Behaved, NoReuse, TokensApart, UsedAreGranted,
     UsedAreReplaced,
     StoredIsGood, AboutToGrant, At, Good
<1> QED
  BY <1>1, <1>2, <1>3, <1>4, <1>5, <1>6, <1>7, <1>8, <1>9, <1>10, <1>11, <1>12, <1>13,
     <1>14, <1>15, <1>16, <1>17, <1>18, <1>19 DEF Next

\* That requests overlapped is not forgotten.
LEMMA OverlapStays ==
    ASSUME IInv, [Next]_vars, ~overlapped'
    PROVE  ~overlapped
<1>1. ASSUME NEW q \in Requests, NEW d \in Devices, LoginVerify(q, d) PROVE ~overlapped
  BY <1>1, LoginVerifyEffect
<1>2. ASSUME NEW q \in Requests, NEW d \in Devices, RefreshBegin(q, d) PROVE ~overlapped
  BY <1>2, RefreshBeginEffect
<1>3. ASSUME NEW q \in Requests, NEW d \in Devices, LogoutBegin(q, d) PROVE ~overlapped
  BY <1>3, LogoutBeginEffect
<1>4. ASSUME NEW q \in Requests, LoginStore(q) PROVE ~overlapped
  BY <1>4, LoginStoreEffect
<1>5. ASSUME NEW q \in Requests, CheckUsed(q) PROVE ~overlapped
  BY <1>5, CheckUsedEffect
<1>6. ASSUME NEW q \in Requests, Rotate(q) PROVE ~overlapped
  BY <1>6, RotateEffect
<1>7. ASSUME NEW q \in Requests, MarkUsed(q) PROVE ~overlapped
  BY <1>7, MarkUsedEffect
<1>8. ASSUME NEW q \in Requests, Undo(q) PROVE ~overlapped
  BY <1>8, UndoEffect
<1>9. ASSUME NEW q \in Requests, RevokeOne(q) PROVE ~overlapped
  BY <1>9, RevokeOneEffect
<1>10. ASSUME NEW q \in Requests, RevokeEnd(q) PROVE ~overlapped
  BY <1>10, RevokeEndEffect
<1>11. ASSUME NEW q \in Requests, LogoutRevoke(q) PROVE ~overlapped
  BY <1>11, LogoutRevokeEffect
<1>12. ASSUME NEW q \in Requests, Granted(q) PROVE ~overlapped
  BY <1>12, GrantedEffect
<1>13. ASSUME NEW q \in Requests, Refused(q) PROVE ~overlapped
  BY <1>13, RefusedEffect
<1>14. ASSUME NEW q \in Requests, Crash(q) PROVE ~overlapped
  BY <1>14, CrashEffect
<1>15. ASSUME NEW q \in Requests, ResetBegin(q) PROVE ~overlapped
  BY <1>15, ResetBeginEffect
<1>16. ASSUME NEW q \in Requests, SetPassword(q) PROVE ~overlapped
  BY <1>16, SetPasswordEffect
<1>17. CASE ForgotPassword
  BY <1>17 DEF ForgotPassword, history
<1>18. CASE Expire
  BY <1>18 DEF Expire, users, history
<1>19. CASE UNCHANGED vars
  BY <1>19 DEF vars, users, keys, history
<1> QED
  BY <1>1, <1>2, <1>3, <1>4, <1>5, <1>6, <1>7, <1>8, <1>9, <1>10, <1>11, <1>12, <1>13,
     <1>14, <1>15, <1>16, <1>17, <1>18, <1>19 DEF Next

\* A browser that presents a token in one request at a time and gets every answer is never
\* taken for a thief, and what it stores is good for a refresh until it expires or is
\* revoked.
THEOREM HonestBrowsersStay == Spec => []HonestBrowserKeepsSession
<1> DEFINE Inv == ~overlapped /\ crashes = 0 => Behaved
<1>1. Init => Inv
  <2> SUFFICES ASSUME Init
               PROVE  Behaved
    OBVIOUS
  <2>1. \A r \in Requests : req[r].tok = None /\ req[r].pc = "idle"
    BY DEF Init, Idle
  <2>2. used = {} /\ \A d \in Devices : stored[d] = None
    BY DEF Init
  <2>3. NoReuse
    BY <2>1 DEF NoReuse, At
  <2>4. TokensApart
    BY <2>1 DEF TokensApart
  <2>5. UsedAreGranted /\ UsedAreReplaced /\ StoredIsGood
    BY <2>2 DEF UsedAreGranted, UsedAreReplaced, StoredIsGood
  <2> QED
    BY <2>3, <2>4, <2>5 DEF Behaved
<1>2. Inv /\ IInv /\ Private /\ UsedDelivered /\ FreshIsGood /\ [Next]_vars => Inv'
  <2> SUFFICES ASSUME Inv, IInv, Private, UsedDelivered, FreshIsGood, [Next]_vars,
                      ~overlapped', crashes' = 0
               PROVE  Behaved'
    OBVIOUS
  <2>1. crashes = 0
    BY MarkersStay, Basics
  <2>2. ~overlapped
    BY OverlapStays
  <2> QED
    BY <2>1, <2>2, BehavedStep
<1>3. IInv /\ Inv => HonestBrowserKeepsSession
  <2> SUFFICES ASSUME IInv, Inv, ~overlapped, crashes = 0
               PROVE  /\ \A r \in Requests : ~At(r, "revoke reuse")
                      /\ \A d \in Devices : stored[d] # None =>
                            \/ stored[d] <= expired
                            \/ stored[d] \in live \cup revoked
                            \/ \E r \in Requests : (At(r, "mark") \/ At(r, "granted"))
                                                   /\ req[r].tok = stored[d]
    BY DEF HonestBrowserKeepsSession
  <2> QED
    BY DEF Behaved, NoReuse, StoredIsGood, Good, AboutToGrant
<1> HIDE DEF Inv
<1> QED
  BY <1>1, <1>2, <1>3, AlwaysInvariant, AlwaysPrivate, AlwaysFresh, PTL DEF Spec
=============================================================================
