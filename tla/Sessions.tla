------------------------------- MODULE Sessions -------------------------------
(***************************************************************************)
(* The sessions of one account: refresh tokens in Redis, the handlers that *)
(* issue, rotate and revoke them, the password reset, and the browsers     *)
(* that keep a token and present it.                                       *)
(*                                                                         *)
(* A handler is a sequence of Redis commands and database statements, and  *)
(* handlers of different requests interleave between them.  A pipeline is  *)
(* one MULTI/EXEC and therefore one step.  A token is numbered in the      *)
(* order of issue; tokens live equally long, so they expire in that order. *)
(***************************************************************************)
EXTENDS Integers, FiniteSets

CONSTANTS
    Devices,      \* browsers logged in, or not, to the account
    Requests,     \* requests that may be in flight at once
    MaxTokens,    \* bound on the refresh tokens issued
    MaxResets,    \* bound on the password resets asked for
    MaxExpired,   \* bound on the tokens that expire
    MaxCrashes    \* bound on the requests whose answer never comes

ASSUME ConstantsAssumption ==
    /\ MaxTokens \in Nat /\ MaxResets \in Nat
    /\ MaxExpired \in Nat /\ MaxCrashes \in Nat

VARIABLES
    password,     \* users.password_hash: how often it was changed
    issued,       \* refresh tokens issued so far
    expired,      \* of those, how many have expired
    live,         \* keys refresh:*
    used,         \* keys refresh_used:*
    asked,        \* password resets asked for
    resets,       \* keys pwd_reset:*
    stored,       \* localStorage of each device: its refresh token, or None
    req,          \* the requests in flight
    opened,       \* history: the password each token's session was opened with
    successors,   \* history: the tokens granted in exchange for each token
    delivered,    \* history: the tokens that reached a browser
    revoked,      \* history: the tokens deleted by logout or by a revocation
    late,         \* history: tokens stored while a revocation was under way, or
                  \* by a login whose password was replaced in between
    overlapped,   \* history: two requests presented one token at the same time
    crashes

keys == <<live, used, resets>>
users == <<password, asked>>
history == <<opened, successors, delivered, revoked, late, overlapped>>
vars == <<users, issued, expired, keys, stored, req, history, crashes>>

None == 0
Tokens == 1 .. MaxTokens
Idle == [pc |-> "idle", dev |-> None, tok |-> None, new |-> None,
         seen |-> 0, todo |-> {}]
At(r, where) == req[r].pc = where
Spent(t) == successors[t] # {}

Init ==
    /\ password = 0 /\ asked = 0
    /\ issued = 0 /\ expired = 0
    /\ live = {} /\ used = {} /\ resets = {}
    /\ stored = [d \in Devices |-> None]
    /\ req = [r \in Requests |-> Idle]
    /\ opened = [t \in Tokens |-> 0]
    /\ successors = [t \in Tokens |-> {}]
    /\ delivered = {} /\ revoked = {} /\ late = {}
    /\ overlapped = FALSE
    /\ crashes = 0

----------------------------------------------------------------------------
(* Login. *)

\* The row is read and the password verified against it.
LoginVerify(r, d) ==
    /\ At(r, "idle")
    /\ stored[d] = None
    /\ req' = [req EXCEPT ![r] = [Idle EXCEPT !.pc = "login", !.dev = d,
                                              !.seen = password]]
    /\ UNCHANGED <<users, issued, expired, keys, stored, history, crashes>>

Revoking == \E r \in Requests : At(r, "revoke reuse") \/ At(r, "revoke reset")

\* A new jti, of a session opened with the given password.
Issue(pwd, stale) ==
    /\ issued < MaxTokens
    /\ issued' = issued + 1
    /\ opened' = [opened EXCEPT ![issued'] = pwd]
    /\ late' = IF stale \/ Revoking THEN late \cup {issued'} ELSE late

LoginStore(r) ==
    /\ At(r, "login")
    /\ Issue(req[r].seen, req[r].seen # password)
    /\ live' = live \cup {issued'}
    /\ req' = [req EXCEPT ![r].pc = "granted", ![r].new = issued']
    /\ UNCHANGED <<users, expired, used, resets, stored, successors, delivered,
                   revoked, overlapped, crashes>>

----------------------------------------------------------------------------
(* Refresh: apiFetch reads the pair, meets a 401 and presents the token.   *)

\* A logout presents the token as well.
Present(r, d, where) ==
    /\ At(r, "idle")
    /\ stored[d] # None
    /\ req' = [req EXCEPT ![r] = [Idle EXCEPT !.pc = where, !.dev = d,
                                              !.tok = stored[d]]]
    /\ overlapped' = (overlapped \/ \E q \in Requests : req[q].tok = stored[d])
    /\ UNCHANGED <<users, issued, expired, keys, stored, opened, successors,
                   delivered, revoked, late, crashes>>

RefreshBegin(r, d) == Present(r, d, "check")

\* The limiter (5 requests a minute) or the decoding of an expired token
\* refuses; a spent token has all sessions revoked.
CheckUsed(r) ==
    /\ At(r, "check")
    /\ \/ req' = [req EXCEPT ![r].pc = "refused"]
       \/ /\ req[r].tok > expired
          /\ req[r].tok \in used
          /\ req' = [req EXCEPT ![r].pc = "revoke reuse", ![r].todo = live]
       \/ /\ req[r].tok > expired
          /\ req[r].tok \notin used
          /\ req' = [req EXCEPT ![r].pc = "rotate"]
    /\ UNCHANGED <<users, issued, expired, keys, stored, history, crashes>>

\* Variant: the number of deleted keys is not looked at.
RotateAnyway(r) ==
    /\ At(r, "rotate")
    /\ Issue(opened[req[r].tok], req[r].tok \in late)
    /\ live' = (live \ {req[r].tok}) \cup {issued'}
    /\ successors' = [successors EXCEPT ![req[r].tok] = @ \cup {issued'}]
    /\ req' = [req EXCEPT ![r].pc = "mark", ![r].new = issued']
    /\ UNCHANGED <<users, expired, used, resets, stored, delivered,
                   revoked, overlapped, crashes>>

\* DEL old, SET new in one transaction; what DEL returned decides.
Rotate(r) ==
    /\ At(r, "rotate")
    /\ Issue(opened[req[r].tok], req[r].tok \in late)
    /\ live' = (live \ {req[r].tok}) \cup {issued'}
    /\ \/ /\ req[r].tok \in live
          /\ successors' = [successors EXCEPT ![req[r].tok] = @ \cup {issued'}]
          /\ req' = [req EXCEPT ![r].pc = "mark", ![r].new = issued']
       \/ /\ req[r].tok \notin live
          /\ req' = [req EXCEPT ![r].pc = "undo", ![r].new = issued']
          /\ UNCHANGED successors
    /\ UNCHANGED <<users, expired, used, resets, stored, delivered,
                   revoked, overlapped, crashes>>

\* Variant: the old token's marker is not written.
MarkNothing(r) ==
    /\ At(r, "mark")
    /\ req' = [req EXCEPT ![r].pc = "granted"]
    /\ UNCHANGED <<users, issued, expired, keys, stored, history, crashes>>

\* Variant: the new token is marked.
MarkSuccessor(r) ==
    /\ At(r, "mark")
    /\ used' = used \cup {req[r].new}
    /\ req' = [req EXCEPT ![r].pc = "granted"]
    /\ UNCHANGED <<users, issued, expired, live, resets, stored, history, crashes>>

\* refresh_used:* of the old token, a command of its own.
MarkUsed(r) ==
    /\ At(r, "mark")
    /\ used' = used \cup {req[r].tok}
    /\ req' = [req EXCEPT ![r].pc = "granted"]
    /\ UNCHANGED <<users, issued, expired, live, resets, stored, history, crashes>>

\* Variant: the refused rotation restores the old token.
UndoRestoring(r) ==
    /\ At(r, "undo")
    /\ live' = (live \ {req[r].new}) \cup {req[r].tok}
    /\ req' = [req EXCEPT ![r].pc = "refused", ![r].new = None]
    /\ UNCHANGED <<users, issued, expired, used, resets, stored, history, crashes>>

\* Variant: the refused rotation leaves the new token.
UndoNothing(r) ==
    /\ At(r, "undo")
    /\ req' = [req EXCEPT ![r].pc = "refused", ![r].new = None]
    /\ UNCHANGED <<users, issued, expired, keys, stored, history, crashes>>

\* The new token of a refused rotation is taken back.
Undo(r) ==
    /\ At(r, "undo")
    /\ live' = live \ {req[r].new}
    /\ req' = [req EXCEPT ![r].pc = "refused", ![r].new = None]
    /\ UNCHANGED <<users, issued, expired, used, resets, stored, history, crashes>>

----------------------------------------------------------------------------
(* Revocation of all sessions: SCAN returns every key that is there from   *)
(* beginning to end, and may return others.                                *)

RevokeOne(r) ==
    /\ At(r, "revoke reuse") \/ At(r, "revoke reset")
    /\ \E t \in live :
         /\ live' = live \ {t}
         /\ revoked' = revoked \cup {t}
    /\ UNCHANGED <<users, issued, expired, used, resets, stored, req, opened,
                   successors, delivered, late, overlapped, crashes>>

RevokeEnd(r) ==
    /\ req[r].todo \cap live = {}
    /\ \/ At(r, "revoke reuse") /\ req' = [req EXCEPT ![r].pc = "refused"]
       \/ At(r, "revoke reset") /\ req' = [req EXCEPT ![r] = Idle]
    /\ UNCHANGED <<users, issued, expired, keys, stored, history, crashes>>

----------------------------------------------------------------------------
(* Logout and the answers. *)

LogoutBegin(r, d) == Present(r, d, "logout")

LogoutRevoke(r) ==
    /\ At(r, "logout")
    /\ live' = live \ {req[r].tok}
    /\ revoked' = revoked \cup {req[r].tok}
    /\ req' = [req EXCEPT ![r].pc = "refused"]
    /\ UNCHANGED <<users, issued, expired, used, resets, stored, opened,
                   successors, delivered, late, overlapped, crashes>>

\* Variant: a pair that is there is kept.
GrantedKeeping(r) ==
    /\ At(r, "granted")
    /\ stored' = [stored EXCEPT ![req[r].dev] = IF @ = None THEN req[r].new ELSE @]
    /\ delivered' = delivered \cup {req[r].new}
    /\ req' = [req EXCEPT ![r] = Idle]
    /\ UNCHANGED <<users, issued, expired, keys, opened, successors, revoked,
                   late, overlapped, crashes>>

\* setTokens: whatever pair is stored is replaced.
Granted(r) ==
    /\ At(r, "granted")
    /\ stored' = [stored EXCEPT ![req[r].dev] = req[r].new]
    /\ delivered' = delivered \cup {req[r].new}
    /\ req' = [req EXCEPT ![r] = Idle]
    /\ UNCHANGED <<users, issued, expired, keys, opened, successors,
                   revoked, late, overlapped, crashes>>

\* clearTokens, after a refused refresh or a logout: whatever pair is stored is
\* removed.
Refused(r) ==
    /\ At(r, "refused")
    /\ stored' = [stored EXCEPT ![req[r].dev] = None]
    /\ req' = [req EXCEPT ![r] = Idle]
    /\ UNCHANGED <<users, issued, expired, keys, history, crashes>>

\* The process dies with the request in flight, or the answer is lost.  apiFetch
\* rejects and stores nothing; logout clears the pair all the same.
Crash(r) ==
    /\ ~At(r, "idle")
    /\ crashes < MaxCrashes
    /\ crashes' = crashes + 1
    /\ req' = [req EXCEPT ![r] = Idle]
    /\ \/ ~At(r, "logout") /\ UNCHANGED stored
       \/ At(r, "logout") /\ stored' = [stored EXCEPT ![req[r].dev] = None]
    /\ UNCHANGED <<users, issued, expired, keys, opened, successors, delivered,
                   revoked, late, overlapped>>

----------------------------------------------------------------------------
(* Password reset. *)

\* A link that expires is one that is never used.
ForgotPassword ==
    /\ asked < MaxResets
    /\ asked' = asked + 1
    /\ resets' = resets \cup {asked'}
    /\ UNCHANGED <<password, issued, expired, live, used, stored, req, history,
                   crashes>>

\* GET and DEL of the token in one transaction.
ResetBegin(r) ==
    /\ At(r, "idle")
    /\ \E k \in resets : resets' = resets \ {k}
    /\ req' = [req EXCEPT ![r] = [Idle EXCEPT !.pc = "set password"]]
    /\ UNCHANGED <<users, issued, expired, live, used, stored, history, crashes>>

\* Variant: the new password ends the request; no session is revoked.
SetPasswordOnly(r) ==
    /\ At(r, "set password")
    /\ password' = password + 1
    /\ req' = [req EXCEPT ![r] = Idle]
    /\ UNCHANGED <<asked, issued, expired, keys, stored, history, crashes>>

\* The new hash is committed, then the revocation starts.
SetPassword(r) ==
    /\ At(r, "set password")
    /\ password' = password + 1
    /\ req' = [req EXCEPT ![r].pc = "revoke reset", ![r].todo = live]
    /\ UNCHANGED <<asked, issued, expired, keys, stored, history, crashes>>

\* The oldest token's JWT expires, and its key with it.  The marker of a spent
\* token is written later for as long, and outlives it.
Expire ==
    /\ expired < issued /\ expired < MaxExpired
    /\ expired' = expired + 1
    /\ live' = live \ {expired'}
    /\ UNCHANGED <<users, issued, used, resets, stored, req, history, crashes>>

Next ==
    \/ ForgotPassword \/ Expire
    \/ \E r \in Requests :
         \/ \E d \in Devices :
              LoginVerify(r, d) \/ RefreshBegin(r, d) \/ LogoutBegin(r, d)
         \/ LoginStore(r) \/ CheckUsed(r) \/ Rotate(r) \/ MarkUsed(r) \/ Undo(r)
         \/ RevokeOne(r) \/ RevokeEnd(r) \/ LogoutRevoke(r)
         \/ Granted(r) \/ Refused(r) \/ Crash(r)
         \/ ResetBegin(r) \/ SetPassword(r)

Spec == Init /\ [][Next]_vars

----------------------------------------------------------------------------
(* Properties. *)

\* Every variable has its shape, and a marker is never that of a live session:
\* a key refresh:* and a key refresh_used:* of one jti exclude each other
\* although they are written by different commands.
TypeOK ==
    /\ password \in Nat /\ asked \in 0 .. MaxResets
    /\ issued \in 0 .. MaxTokens /\ expired \in 0 .. issued
    /\ live \subseteq (expired + 1) .. issued
    /\ used \subseteq (1 .. issued) \ live
    /\ resets \subseteq 1 .. asked
    /\ stored \in [Devices -> 0 .. issued]
    /\ \A r \in Requests : req[r].tok <= issued /\ req[r].new <= issued
    /\ overlapped \in BOOLEAN

\* A refresh token is exchanged at most once, however many requests present it
\* at the same time: rotate_refresh_jti trusts what DEL returned.
ExchangedOnce == \A t \in Tokens : Cardinality(successors[t]) <= 1

\* Every key refresh:* belongs to a session somebody has, or to a request still
\* running: a refused rotation takes back the token it stored.  Requests that
\* died are the exception.
EveryKeyHasOwner ==
    crashes = 0 => live \subseteq delivered \cup {req[r].new : r \in Requests}

\* A token that was exchanged is recognised as spent when it comes back.
\* Between the rotation and the marker it is not; a request that dies
\* there leaves it unmarked for ever.
SpentIsMarked ==
    \A t \in Tokens : Spent(t) =>
        \/ t \in used
        \/ \E r \in Requests : At(r, "mark") /\ req[r].tok = t
        \/ crashes > 0

\* When a password reset is over, the sessions opened with the old password are
\* gone.  Sessions stored while the revocation ran, or by a login that had
\* verified the old password before, may survive (and their successors); the token
\* of a refused rotation is there for a moment.
ResetEndsOldSessions ==
    crashes = 0 /\ ~Revoking =>
        \A t \in live : \/ opened[t] = password \/ t \in late
                       \/ \E r \in Requests : At(r, "undo") /\ req[r].new = t

\* A browser that presents a token in one request at a time and receives every
\* answer keeps its session: reuse detection does not fire, and the token it holds
\* is good for another refresh until it expires or somebody revokes it; only a
\* rotation under way may have replaced it.
HonestBrowserKeepsSession ==
    ~overlapped /\ crashes = 0 =>
        /\ \A r \in Requests : ~At(r, "revoke reuse")
        /\ \A d \in Devices : stored[d] # None =>
               \/ stored[d] <= expired
               \/ stored[d] \in live \cup revoked
               \/ \E r \in Requests : (At(r, "mark") \/ At(r, "granted"))
                                      /\ req[r].tok = stored[d]

\* A token that is no longer whitelisted never is again, whatever is rotated,
\* refused or undone meanwhile.
RevokedForGood ==
    [][\A t \in 1 .. issued : t \notin live => t \notin live']_vars
=============================================================================
