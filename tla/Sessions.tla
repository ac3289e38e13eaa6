------------------------------ MODULE Sessions ------------------------------
(***************************************************************************)
(* Login sessions of N-Drive: AuthService, TokenManager, AuthRepository,   *)
(* the auth handlers and RequireAccessToken.                               *)
(*                                                                         *)
(* A login creates a row of the table sessions and hands out two tokens:   *)
(* a signed access token that names the row, and a random refresh token    *)
(* whose hash the row holds.  A refresh replaces the row by a new one in a *)
(* transaction.  The pool has one connection: whoever is in a transaction  *)
(* keeps everybody else waiting.  A request reads the clock before it      *)
(* waits for the connection.                                               *)
(*                                                                         *)
(* Time is counted in half seconds.  A session id stands for the row's     *)
(* uuid, its refresh token and that token's hash.                          *)
(***************************************************************************)
EXTENDS Integers, FiniteSets

CONSTANTS
    Request,        \* request slots
    SessionId,      \* ids that uuid.NewString can return
    AccessTTL,      \* lifetime of an access token
    RefreshTTL,     \* lifetime of a session
    Retention,      \* how long revoked rows are kept (sessionRevokedRetention)
    MaxTime,        \* bound on the clock
    Nil

(* NewTokenManager refuses other lifetimes.                                 *)
ASSUME TTLAssumption ==
    /\ AccessTTL \in Nat \ {0} /\ RefreshTTL \in Nat /\ RefreshTTL > AccessTTL
    /\ Retention \in Nat /\ MaxTime \in Nat
ASSUME IdAssumption == Nil \notin SessionId /\ Nil \notin Request /\ Nil \notin Int

VARIABLES
    sessions,   \* table sessions: id -> [expires, revoked]
    now,        \* the clock
    conn,       \* the request whose transaction holds the connection, or Nil
    pc,         \* the next step of every request
    loc,        \* the locals of every request
    issued,     \* history: the tokens handed out, id -> [from, exp]
    loggedOut   \* history: sessions whose logout was answered 204

table == <<sessions, now, conn, issued, loggedOut>>
vars  == <<sessions, now, conn, issued, loggedOut, pc, loc>>

Labels == {"idle", "findUser", "create", "find", "rotate", "commit",
           "validate", "revoke", "serve", "reply"}

(* SQL statements: every label between the arrival and the answer.          *)
SqlLabels == Labels \ {"idle", "reply"}

(* What RequireAccessToken protects: logout, me, and the routes of files    *)
(* and folders, which count as one.                                         *)
Protected == {"logout", "me", "files"}

Local == [op : Protected \cup {"login", "refresh", Nil},
          id : SessionId \cup {Nil},    \* the session of the tokens presented,
                                        \* or of those answered
          at : Nat,                     \* the clock as last read
          status : {200, 204, 401, 500, Nil}]

Blank == [op |-> Nil, id |-> Nil, at |-> 0, status |-> Nil]

Row == [expires : Nat, revoked : Nat \cup {Nil}]

(***************************************************************************)
(* Two formats of time.  RFC3339Nano drops a zero fraction, and "." sorts  *)
(* before "Z": as text, the middle of a second comes before its beginning. *)
(* NewNumericDate keeps whole seconds.                                     *)
(***************************************************************************)
Text(t) == 2 * (t \div 2) + (1 - (t % 2))

Floor(t) == 2 * (t \div 2)

(***************************************************************************)
(* TokenManager.Issue, at the time rec.at.                                 *)
(***************************************************************************)
NewRow(rec) == [expires |-> rec.at + RefreshTTL, revoked |-> Nil]

NewTokens(rec, from) == [from |-> from, exp |-> Floor(rec.at + AccessTTL)]

(* ValidateAccessToken: the signature is ours, and the token not expired.   *)
AccessValid(s) == s \in DOMAIN issued /\ now < issued[s].exp

(* The test of FindActiveSessionByTokenHash and of ValidateSession, on      *)
(* parsed times.                                                            *)
Active(s, t) ==
    /\ s \in DOMAIN sessions
    /\ sessions[s].revoked = Nil
    /\ sessions[s].expires > t

(***************************************************************************)
(* Control of a request.  A statement runs when it has the connection.     *)
(***************************************************************************)
Become(r, rec, label) ==
    /\ pc'  = [pc EXCEPT ![r] = label]
    /\ loc' = [loc EXCEPT ![r] = rec]

(* The answer; the other locals are done with.                              *)
Reply(r, status) == Become(r, [Blank EXCEPT !.status = status], "reply")

(* The answer carries the tokens of session s.                              *)
ReplyTokens(r, s) ==
    Become(r, [Blank EXCEPT !.id = s, !.status = 200], "reply")

(* The next statement, for which the clock is read again.                   *)
Continue(r, label) == Become(r, [loc[r] EXCEPT !.at = now], label)

Runs(r, label) == pc[r] = label /\ conn \in {Nil, r}

Put(f, x, v) == [y \in DOMAIN f \cup {x} |-> IF y = x THEN v ELSE f[y]]

(***************************************************************************)
(* Login.                                                                  *)
(***************************************************************************)
BeginLogin(r) ==
    /\ pc[r] = "idle"
    /\ Become(r, [Blank EXCEPT !.op = "login"], "findUser")
    /\ UNCHANGED table

(* Username and password match, or they do not.                             *)
FindUserByUsername(r) ==
    /\ Runs(r, "findUser")
    /\ Continue(r, "create") \/ Reply(r, 401)
    /\ UNCHANGED table

CreateSession(r) ==
    /\ Runs(r, "create")
    /\ \E s \in SessionId \ DOMAIN issued :
         /\ sessions' = Put(sessions, s, NewRow(loc[r]))
         /\ issued' = Put(issued, s, NewTokens(loc[r], Nil))
         /\ ReplyTokens(r, s)
    /\ UNCHANGED <<now, conn, loggedOut>>

(***************************************************************************)
(* Refresh.                                                                *)
(***************************************************************************)
(* The handler refresh, with the refresh token of s, or with none.          *)
RefreshWith(r, s) ==
    /\ pc[r] = "idle"
    /\ IF s = Nil
       THEN Reply(r, 401)
       ELSE Become(r, [Blank EXCEPT !.op = "refresh", !.id = s, !.at = now], "find")
    /\ UNCHANGED table

BeginRefresh(r) == \E s \in DOMAIN issued \cup {Nil} : RefreshWith(r, s)

FindActiveSessionByTokenHash(r) ==
    /\ Runs(r, "find")
    /\ IF Active(loc[r].id, loc[r].at) THEN Continue(r, "rotate") ELSE Reply(r, 401)
    /\ UNCHANGED table

(* Slip: the UPDATE does not ask whether the session is revoked.            *)
RotatableRevoked(s, t) ==
    s \in DOMAIN sessions /\ Text(sessions[s].expires) > Text(t)

(* The WHERE clause of RotateSession's UPDATE, on the text of the times.    *)
Rotatable(s, t) ==
    /\ s \in DOMAIN sessions
    /\ sessions[s].revoked = Nil
    /\ Text(sessions[s].expires) > Text(t)

(* Slip: the UPDATE takes effect at once, outside a transaction.            *)
RotateUpdateAlone(r) ==
    /\ Runs(r, "rotate")
    /\ IF Rotatable(loc[r].id, loc[r].at)
       THEN /\ Become(r, loc[r], "commit") /\ conn' = r
            /\ sessions' = [sessions EXCEPT ![loc[r].id].revoked = loc[r].at]
       ELSE Reply(r, 401) /\ UNCHANGED <<conn, sessions>>
    /\ UNCHANGED <<now, issued, loggedOut>>

(* Slip: there is no transaction that holds the connection.                 *)
RotateUnlocked(r) ==
    /\ Runs(r, "rotate")
    /\ IF Rotatable(loc[r].id, loc[r].at)
       THEN Become(r, loc[r], "commit")
       ELSE Reply(r, 401)
    /\ UNCHANGED table

(* RotateSession: BEGIN and UPDATE.  Nobody sees the change before COMMIT.  *)
RotateUpdate(r) ==
    /\ Runs(r, "rotate")
    /\ IF Rotatable(loc[r].id, loc[r].at)
       THEN Become(r, loc[r], "commit") /\ conn' = r
       ELSE Reply(r, 401) /\ conn' = conn
    /\ UNCHANGED <<sessions, now, issued, loggedOut>>

(* Slip: the new session is added and the old one stays.                    *)
RotateAdds(r) ==
    /\ Runs(r, "commit")
    /\ \E s \in SessionId \ DOMAIN issued :
         /\ sessions' = Put(sessions, s, NewRow(loc[r]))
         /\ issued' = Put(issued, s, NewTokens(loc[r], loc[r].id))
         /\ ReplyTokens(r, s)
    /\ conn' = Nil
    /\ UNCHANGED <<now, loggedOut>>

(* RotateSession: INSERT and COMMIT.                                        *)
RotateCommit(r) ==
    /\ Runs(r, "commit")
    /\ \E s \in SessionId \ DOMAIN issued :
         /\ sessions' = Put([sessions EXCEPT ![loc[r].id].revoked = loc[r].at],
                            s, NewRow(loc[r]))
         /\ issued' = Put(issued, s, NewTokens(loc[r], loc[r].id))
         /\ ReplyTokens(r, s)
    /\ conn' = Nil
    /\ UNCHANGED <<now, loggedOut>>

(***************************************************************************)
(* Requests behind RequireAccessToken, with the access token of s or none. *)
(***************************************************************************)
ProtectedWith(r, op, s) ==
    /\ pc[r] = "idle"
    /\ IF AccessValid(s)
       THEN Become(r, [Blank EXCEPT !.op = op, !.id = s, !.at = now], "validate")
       ELSE Reply(r, 401)
    /\ UNCHANGED table

BeginProtected(r) == \E op \in Protected, s \in DOMAIN issued \cup {Nil} :
    ProtectedWith(r, op, s)

ValidateSession(r) ==
    /\ Runs(r, "validate")
    /\ IF Active(loc[r].id, loc[r].at)
       THEN IF loc[r].op = "logout" THEN Continue(r, "revoke")
                                    ELSE Become(r, [Blank EXCEPT !.op = loc[r].op], "serve")
       ELSE Reply(r, 401)
    /\ UNCHANGED table

(* Slip: a logout that finds nothing to revoke is answered 204 as well.     *)
RevokeUncounted(r) ==
    /\ Runs(r, "revoke") /\ loc[r].id \in DOMAIN sessions
    /\ sessions' = [sessions EXCEPT ![loc[r].id].revoked = IF @ = Nil THEN loc[r].at ELSE @]
    /\ loggedOut' = loggedOut \cup {loc[r].id}
    /\ Reply(r, 204)
    /\ UNCHANGED <<now, conn, issued>>

(* Slip: the UPDATE does not ask whether the session is revoked.            *)
RevokeAgain(r) ==
    /\ Runs(r, "revoke") /\ loc[r].id \in DOMAIN sessions
    /\ sessions' = [sessions EXCEPT ![loc[r].id].revoked = loc[r].at]
    /\ loggedOut' = loggedOut \cup {loc[r].id}
    /\ Reply(r, 204)
    /\ UNCHANGED <<now, conn, issued>>

RevokeSession(r) ==
    /\ Runs(r, "revoke")
    /\ IF loc[r].id \in DOMAIN sessions /\ sessions[loc[r].id].revoked = Nil
       THEN /\ sessions' = [sessions EXCEPT ![loc[r].id].revoked = loc[r].at]
            /\ loggedOut' = loggedOut \cup {loc[r].id}
            /\ Reply(r, 204)
       ELSE Reply(r, 401) /\ UNCHANGED <<sessions, loggedOut>>
    /\ UNCHANGED <<now, conn, issued>>

(* me looks the user up; the handlers of files do what Drive models.        *)
Serve(r) == Runs(r, "serve") /\ Reply(r, 200) /\ UNCHANGED table

(***************************************************************************)
(* A statement fails.  Every handler of this module answers 401, those of  *)
(* files do not.  The deferred Rollback gives the connection back.         *)
(***************************************************************************)
FailStatus(r) == IF pc[r] = "serve" /\ loc[r].op = "files" THEN 500 ELSE 401

(* Slip: no deferred Rollback.                                              *)
FailsHoldingConn(r) ==
    /\ \E label \in SqlLabels : Runs(r, label)
    /\ Reply(r, FailStatus(r))
    /\ UNCHANGED table

StatementFails(r) ==
    /\ \E label \in SqlLabels : Runs(r, label)
    /\ Reply(r, FailStatus(r))
    /\ conn' = Nil
    /\ UNCHANGED <<sessions, now, issued, loggedOut>>

Answered(r) == pc[r] = "reply" /\ Become(r, Blank, "idle") /\ UNCHANGED table

Begin(r) == BeginLogin(r) \/ BeginRefresh(r) \/ BeginProtected(r)

(* What the server does until the answer is ready.                          *)
Handle(r) ==
    \/ FindUserByUsername(r) \/ CreateSession(r)
    \/ FindActiveSessionByTokenHash(r) \/ RotateUpdate(r) \/ RotateCommit(r)
    \/ ValidateSession(r) \/ RevokeSession(r) \/ Serve(r)

Step(r) == Handle(r) \/ StatementFails(r) \/ Answered(r)

(***************************************************************************)
(* The process is started again and prunes the table, or fails to.         *)
(***************************************************************************)
(* Slip: the retention window also moves the expiry.                        *)
PrunableEarly(s) == Text(sessions[s].expires) <= Text(now + Retention)

Prunable(s) ==
    \/ Text(sessions[s].expires) <= Text(now)
    \/ /\ sessions[s].revoked # Nil
       /\ Text(sessions[s].revoked) <= Text(now - Retention)

PruneSessions == sessions' =
    [s \in {t \in DOMAIN sessions : ~Prunable(t)} |-> sessions[s]]

Restart ==
    /\ PruneSessions \/ UNCHANGED sessions
    /\ conn' = Nil
    /\ pc' = [r \in Request |-> "idle"]
    /\ loc' = [r \in Request |-> Blank]
    /\ UNCHANGED <<now, issued, loggedOut>>

Tick ==
    /\ now < MaxTime
    /\ now' = now + 1
    /\ UNCHANGED <<sessions, conn, issued, loggedOut, pc, loc>>

Init ==
    /\ sessions = [s \in {} |-> Nil]
    /\ now = 0
    /\ conn = Nil
    /\ pc = [r \in Request |-> "idle"]
    /\ loc = [r \in Request |-> Blank]
    /\ issued = [s \in {} |-> Nil]
    /\ loggedOut = {}

Next == Tick \/ Restart \/ \E r \in Request : Begin(r) \/ Step(r)

Spec == Init /\ [][Next]_vars

(***************************************************************************)
(* Properties.                                                             *)
(***************************************************************************)
(* Types, and: a request holds the connection exactly while it is in the    *)
(* transaction of RotateSession.                                            *)
TypeOK ==
    /\ DOMAIN sessions \subseteq DOMAIN issued
    /\ \A s \in DOMAIN sessions : sessions[s] \in Row
    /\ DOMAIN issued \subseteq SessionId
    /\ \A s \in DOMAIN issued :
         issued[s] \in [from : DOMAIN issued \cup {Nil}, exp : Nat]
    /\ now \in Nat
    /\ pc \in [Request -> Labels] /\ loc \in [Request -> Local]
    /\ loggedOut \subseteq DOMAIN issued
    /\ conn \in Request \cup {Nil}
    /\ \A r \in Request : pc[r] = "commit" <=> conn = r

(* A refresh token works once: of any number of refreshes with one token,   *)
(* concurrent or not, one at most is answered with new tokens.              *)
OneTimeRefresh == \A s, t \in DOMAIN issued :
    (issued[s].from = issued[t].from /\ issued[s].from # Nil) => s = t

(* A logout answered 204 ends the login: no refresh that overlaps it leaves *)
(* a successor of the session behind.                                       *)
LogoutIsFinal == \A s \in DOMAIN issued : issued[s].from \notin loggedOut

(* One session of a login is usable at a time: a session that has been      *)
(* replaced opens nothing any more.                                         *)
ReplacedIsDead == \A s \in DOMAIN issued : issued[s].from \in DOMAIN sessions =>
    sessions[issued[s].from].revoked # Nil

(* A refresh never ends a login halfway: a session that is revoked was      *)
(* logged out, or has its successor, whatever fails or crashes.             *)
RotationKeepsLogin == \A s \in DOMAIN sessions : sessions[s].revoked # Nil =>
    s \in loggedOut \/ \E t \in DOMAIN issued : issued[t].from = s

(* Whoever holds an access token that is neither expired nor logged out nor *)
(* refreshed finds its session in the table, across restarts: pruning by    *)
(* the text of the times does not cut an access token short.                *)
LiveTokensKept == \A s \in DOMAIN issued :
    (/\ now < issued[s].exp /\ s \notin loggedOut
     /\ \A t \in DOMAIN issued : issued[t].from # s) => s \in DOMAIN sessions

(* A revocation is never undone, moved or repeated, and an expiry never     *)
(* extended; a row that was deleted does not come back.                     *)
RevokedForGood == [][
    /\ \A s \in DOMAIN sessions \cap DOMAIN sessions' :
         /\ sessions'[s].expires = sessions[s].expires
         /\ sessions[s].revoked # Nil => sessions'[s].revoked = sessions[s].revoked
    /\ \A s \in DOMAIN issued \ DOMAIN sessions : s \notin DOMAIN sessions']_vars
=============================================================================
