--------------------------- MODULE SessionsProofs ---------------------------
(***************************************************************************)
(* Machine-checked proofs about Sessions, for any number of requests,      *)
(* sessions and any lifetimes that NewTokenManager accepts.                *)
(***************************************************************************)
EXTENDS Sessions, TLAPS

(* A request presents and answers tokens that were handed out; while it is  *)
(* in the transaction of RotateSession, nobody revokes or prunes its        *)
(* session.                                                                 *)
RequestOK(r) ==
    /\ pc[r] \in {"find", "rotate", "commit", "validate", "revoke"} =>
         loc[r].id \in DOMAIN issued
    /\ pc[r] = "reply" => loc[r].id \in DOMAIN issued \cup {Nil}
    /\ pc[r] = "commit" =>
         loc[r].id \in DOMAIN sessions /\ sessions[loc[r].id].revoked = Nil

(* A logout leaves a revoked row, as long as the row exists.                *)
LoggedOutRevoked == \A s \in DOMAIN sessions :
    s \in loggedOut => sessions[s].revoked # Nil

(* A session outlives its access token, which expires on a whole second.    *)
RowOutlivesToken == \A s \in DOMAIN sessions :
    /\ issued[s].exp <= sessions[s].expires
    /\ issued[s].exp = Floor(issued[s].exp)

(* What is true of the table and of the tokens handed out.                  *)
TokensOK ==
    /\ LoggedOutRevoked /\ RowOutlivesToken
    /\ OneTimeRefresh /\ LogoutIsFinal /\ ReplacedIsDead /\ RotationKeepsLogin
    /\ LiveTokensKept

(* The conjunction that every step of AuthService and AuthRepository, a     *)
(* failing statement and a restart preserve.                                *)
SessionsInv == TypeOK /\ TokensOK /\ \A r \in Request : RequestOK(r)

(* The table of sessions, the tokens and the clock are typed.               *)
TableOK ==
    /\ DOMAIN sessions \subseteq DOMAIN issued
    /\ \A s \in DOMAIN sessions : sessions[s] \in Row
    /\ DOMAIN issued \subseteq SessionId
    /\ \A s \in DOMAIN issued :
         issued[s] \in [from : DOMAIN issued \cup {Nil}, exp : Nat]
    /\ now \in Nat
    /\ loggedOut \subseteq DOMAIN issued

(* The connection is held by the request in the transaction.                *)
ConnOK ==
    /\ conn \in Request \cup {Nil}
    /\ \A r \in Request : pc[r] = "commit" <=> conn = r

(* Request r moves on, the others stay where they are.                      *)
Moves(r) ==
    /\ pc' \in [Request -> Labels] /\ loc' \in [Request -> Local]
    /\ \A q \in Request \ {r} : pc'[q] = pc[q] /\ loc'[q] = loc[q]

rows == <<sessions, now, issued, loggedOut>>

(***************************************************************************)
(* The formats of time.                                                    *)
(***************************************************************************)
(* Times that RFC3339Nano orders by their text are at most in the same      *)
(* second; a whole second before the later one is not cut.                  *)
LEMMA TextOrder ==
    ASSUME NEW a \in Nat, NEW b \in Nat, NEW e \in Nat,
           e <= a, e = Floor(e), Text(a) <= Text(b)
    PROVE  e <= b
BY DEF Floor, Text

(* NewNumericDate rounds down, to a natural number, and only once.          *)
LEMMA FloorOK ==
    ASSUME NEW t \in Nat
    PROVE  Floor(t) \in Nat /\ Floor(t) <= t /\ Floor(Floor(t)) = Floor(t)
BY DEF Floor

(***************************************************************************)
(* Steps that only read.                                                   *)
(***************************************************************************)
(* Become moves one request, to the label and the locals it names.          *)
LEMMA BecomeMoves ==
    ASSUME TypeOK, NEW r \in Request, NEW rec \in Local, NEW label \in Labels,
           Become(r, rec, label)
    PROVE  Moves(r) /\ pc'[r] = label /\ loc'[r] = rec
BY DEF TypeOK, Become, Moves

(* An answer needs nothing of the table any more.                           *)
LEMMA ReplyMoves ==
    ASSUME TypeOK, NEW r \in Request, NEW status \in {200, 204, 401, 500},
           Reply(r, status)
    PROVE  /\ Moves(r) /\ pc'[r] = "reply"
           /\ loc'[r].id = Nil /\ loc'[r].status = status
<1>. DEFINE rec == [Blank EXCEPT !.status = status]
<1>1. rec \in Local /\ rec.id = Nil /\ rec.status = status /\ "reply" \in Labels
    BY DEF Blank, Local, Labels
<1>2. Become(r, rec, "reply")
    BY DEF Reply
<1>. HIDE DEF rec
<1>. QED BY <1>1, <1>2, BecomeMoves

(* Neither does an answer with tokens.                                      *)
LEMMA ReplyTokensMoves ==
    ASSUME TypeOK, NEW r \in Request, NEW s \in SessionId, ReplyTokens(r, s)
    PROVE  Moves(r) /\ pc'[r] = "reply" /\ loc'[r].id = s
<1>. DEFINE rec == [Blank EXCEPT !.id = s, !.status = 200]
<1>1. rec \in Local /\ rec.id = s /\ "reply" \in Labels
    BY DEF Blank, Local, Labels
<1>2. Become(r, rec, "reply")
    BY DEF ReplyTokens
<1>. HIDE DEF rec
<1>. QED BY <1>1, <1>2, BecomeMoves

(* Continue reads the clock, and keeps the tokens presented.                *)
LEMMA ContinueMoves ==
    ASSUME TypeOK, NEW r \in Request, NEW label \in Labels, Continue(r, label)
    PROVE  Moves(r) /\ pc'[r] = label /\ loc'[r].id = loc[r].id
<1>. DEFINE rec == [loc[r] EXCEPT !.at = now]
<1>1. rec \in Local /\ rec.id = loc[r].id
    BY DEF TypeOK, Local
<1>2. Become(r, rec, label)
    BY DEF Continue
<1>. HIDE DEF rec
<1>. QED BY <1>1, <1>2, BecomeMoves

(* A step that changes neither the table nor the tokens preserves the       *)
(* invariant as soon as the request that takes it relies on what is true.   *)
LEMMA QuietStep ==
    ASSUME SessionsInv, NEW r \in Request, Moves(r), UNCHANGED rows,
           ConnOK', RequestOK(r)'
    PROVE  SessionsInv'
<1>1. TypeOK'
    BY DEF SessionsInv, TypeOK, Moves, ConnOK, rows
<1>2. TokensOK'
    BY DEF SessionsInv, TokensOK, LoggedOutRevoked, RowOutlivesToken, OneTimeRefresh,
           LogoutIsFinal, ReplacedIsDead, RotationKeepsLogin, LiveTokensKept, rows
<1>3. \A q \in Request : RequestOK(q)'
    BY DEF SessionsInv, RequestOK, Moves, rows
<1>. QED BY <1>1, <1>2, <1>3 DEF SessionsInv

(* The connection does not change hands outside the transaction.            *)
LEMMA ConnKept ==
    ASSUME TypeOK, NEW r \in Request, Moves(r), conn' = conn,
           pc[r] # "commit", pc'[r] # "commit"
    PROVE  ConnOK'
BY DEF TypeOK, ConnOK, Moves

(* The connection is given back.                                            *)
LEMMA ConnReturned ==
    ASSUME TypeOK, NEW r \in Request, Moves(r), conn \in {Nil, r}, conn' = Nil,
           pc'[r] # "commit"
    PROVE  ConnOK'
BY IdAssumption DEF TypeOK, ConnOK, Moves

(* Answering, without having changed a row, is quiet.                       *)
LEMMA ReplyStep ==
    ASSUME SessionsInv, NEW r \in Request, NEW status \in {200, 204, 401, 500},
           Reply(r, status), UNCHANGED table, pc[r] # "commit"
    PROVE  SessionsInv'
<1>1. TypeOK /\ conn' = conn /\ UNCHANGED rows
    BY DEF SessionsInv, table, rows
<1>2. Moves(r) /\ pc'[r] = "reply" /\ loc'[r].id = Nil
    BY <1>1, ReplyMoves
<1>3. ConnOK'
    BY <1>1, <1>2, ConnKept
<1>4. RequestOK(r)'
    BY <1>2 DEF RequestOK
<1>. QED BY <1>1, <1>2, <1>3, <1>4, QuietStep

(* A step to a statement, with tokens that were handed out, is quiet.       *)
LEMMA ReadStep ==
    ASSUME SessionsInv, NEW r \in Request, NEW rec \in Local, NEW label \in Labels,
           Become(r, rec, label), UNCHANGED table,
           pc[r] # "commit", label # "commit",
           label # "reply",
           label \in {"find", "rotate", "validate", "revoke"} => rec.id \in DOMAIN issued
    PROVE  SessionsInv'
<1>1. TypeOK /\ conn' = conn /\ UNCHANGED rows
    BY DEF SessionsInv, table, rows
<1>2. Moves(r) /\ pc'[r] = label /\ loc'[r] = rec
    BY <1>1, BecomeMoves
<1>3. ConnOK'
    BY <1>1, <1>2, ConnKept
<1>4. RequestOK(r)'
    BY <1>1, <1>2 DEF RequestOK, rows
<1>. QED BY <1>1, <1>2, <1>3, <1>4, QuietStep

(* The next statement of a request, with the tokens it presented, is quiet. *)
LEMMA ContinueStep ==
    ASSUME SessionsInv, NEW r \in Request, NEW label \in Labels \ {"commit", "reply"},
           Continue(r, label), UNCHANGED table, pc[r] # "commit",
           label # "create" => loc[r].id \in DOMAIN issued
    PROVE  SessionsInv'
<1>. DEFINE rec == [loc[r] EXCEPT !.at = now]
<1>1. rec \in Local /\ rec.id = loc[r].id
    BY DEF SessionsInv, TypeOK, Local
<1>2. Become(r, rec, label)
    BY DEF Continue
<1>. HIDE DEF rec
<1>. QED BY <1>1, <1>2, ReadStep

(***************************************************************************)
(* A request arrives.                                                      *)
(***************************************************************************)
(* A refresh arrives with a token that was handed out, or with none.        *)
LEMMA RefreshWithStep ==
    ASSUME SessionsInv, NEW r \in Request, NEW s \in DOMAIN issued \cup {Nil},
           RefreshWith(r, s)
    PROVE  SessionsInv'
<1>. USE DEF RefreshWith
<1>1. CASE s = Nil
    BY <1>1, ReplyStep
<1>2. CASE s # Nil
  <2>. DEFINE rec == [Blank EXCEPT !.op = "refresh", !.id = s, !.at = now]
  <2>1. rec \in Local /\ rec.id = s /\ "find" \in Labels
    <3>1. now \in Nat /\ s \in SessionId
        BY <1>2 DEF SessionsInv, TypeOK
    <3>2. rec = [Blank EXCEPT !.op = "refresh", !.id = s, !.at = now]
        OBVIOUS
    <3>. HIDE DEF rec
    <3>3. rec = [op |-> "refresh", id |-> s, at |-> now, status |-> Nil]
        BY <3>2 DEF Blank
    <3>4. rec \in Local /\ rec.id = s
        BY <3>1, <3>3 DEF Local, Protected
    <3>. QED BY <3>4 DEF Labels
  <2>2. Become(r, rec, "find") /\ UNCHANGED table /\ pc[r] # "commit"
      BY <1>2
  <2>. HIDE DEF rec
  <2>. QED BY <1>2, <2>1, <2>2, ReadStep
<1>. QED BY <1>1, <1>2

(* A request behind RequireAccessToken arrives.                             *)
LEMMA ProtectedWithStep ==
    ASSUME SessionsInv, NEW r \in Request, NEW op \in Protected,
           NEW s \in DOMAIN issued \cup {Nil}, ProtectedWith(r, op, s)
    PROVE  SessionsInv'
<1>1. CASE ~AccessValid(s)
    BY <1>1, ReplyStep DEF ProtectedWith
<1>2. CASE AccessValid(s)
  <2>. DEFINE rec == [Blank EXCEPT !.op = op, !.id = s, !.at = now]
  <2>1. s \in DOMAIN issued
      BY <1>2 DEF AccessValid
  <2>2. rec \in Local /\ rec.id = s /\ "validate" \in Labels
    <3>1. now \in Nat /\ s \in SessionId
        BY <2>1 DEF SessionsInv, TypeOK
    <3>2. rec = [Blank EXCEPT !.op = op, !.id = s, !.at = now]
        OBVIOUS
    <3>. HIDE DEF rec
    <3>3. rec = [op |-> op, id |-> s, at |-> now, status |-> Nil]
        BY <3>2 DEF Blank
    <3>4. rec \in Local /\ rec.id = s
        BY <3>1, <3>3 DEF Local, Protected
    <3>. QED BY <3>4 DEF Labels
  <2>3. Become(r, rec, "validate") /\ UNCHANGED table /\ pc[r] # "commit"
      BY <1>2 DEF ProtectedWith
  <2>. HIDE DEF rec
  <2>. QED BY <2>1, <2>2, <2>3, ReadStep
<1>. QED BY <1>1, <1>2

(* The arrival of any request preserves the invariant.                      *)
LEMMA BeginStep ==
    ASSUME SessionsInv, NEW r \in Request, Begin(r)
    PROVE  SessionsInv'
<1>1. CASE BeginLogin(r)
  <2>1. [Blank EXCEPT !.op = "login"] \in Local /\ "findUser" \in Labels
      BY DEF Blank, Local, Labels
  <2>. QED BY <1>1, <2>1, ReadStep DEF BeginLogin
<1>2. CASE BeginRefresh(r)
    BY <1>2, RefreshWithStep DEF BeginRefresh
<1>3. CASE BeginProtected(r)
    BY <1>3, ProtectedWithStep DEF BeginProtected
<1>. QED BY <1>1, <1>2, <1>3 DEF Begin

(***************************************************************************)
(* Statements that read, and the beginning of the transaction.             *)
(***************************************************************************)
(* FindUserByUsername accepts the password or not.                          *)
LEMMA FindUserStep ==
    ASSUME SessionsInv, NEW r \in Request, FindUserByUsername(r)
    PROVE  SessionsInv'
<1>1. "create" \in Labels \ {"commit", "reply"}
    BY DEF Labels
<1>. QED BY <1>1, ContinueStep, ReplyStep DEF FindUserByUsername, Runs

(* FindActiveSessionByTokenHash finds the session or not.                   *)
LEMMA FindActiveStep ==
    ASSUME SessionsInv, NEW r \in Request, FindActiveSessionByTokenHash(r)
    PROVE  SessionsInv'
<1>1. "rotate" \in Labels \ {"commit", "reply"}
    BY DEF Labels
<1>2. loc[r].id \in DOMAIN issued /\ pc[r] # "commit"
    BY DEF SessionsInv, RequestOK, FindActiveSessionByTokenHash, Runs
<1>. QED BY <1>1, <1>2, ContinueStep, ReplyStep DEF FindActiveSessionByTokenHash

(* ValidateSession lets the request through or not.                         *)
LEMMA ValidateStep ==
    ASSUME SessionsInv, NEW r \in Request, ValidateSession(r)
    PROVE  SessionsInv'
<1>1. {"revoke", "serve"} \subseteq Labels \ {"commit", "reply"}
    BY DEF Labels
<1>2. loc[r].id \in DOMAIN issued /\ pc[r] # "commit"
    BY DEF SessionsInv, RequestOK, ValidateSession, Runs
<1>3. [Blank EXCEPT !.op = loc[r].op] \in Local
    BY DEF SessionsInv, TypeOK, Blank, Local
<1>4. CASE Reply(r, 401)
    BY <1>2, <1>4, ReplyStep DEF ValidateSession
<1>5. CASE Continue(r, "revoke")
    BY <1>1, <1>2, <1>5, ContinueStep DEF ValidateSession
<1>6. CASE Become(r, [Blank EXCEPT !.op = loc[r].op], "serve")
    BY <1>1, <1>2, <1>3, <1>6, ReadStep DEF ValidateSession
<1>. QED BY <1>4, <1>5, <1>6 DEF ValidateSession

(* RotateSession begins its transaction only with a live session, and takes *)
(* the connection that nobody held.                                         *)
LEMMA RotateUpdateStep ==
    ASSUME SessionsInv, NEW r \in Request, RotateUpdate(r)
    PROVE  SessionsInv'
<1>. USE DEF RotateUpdate, Runs
<1>1. CASE ~Rotatable(loc[r].id, loc[r].at)
    BY <1>1, ReplyStep DEF table
<1>2. CASE Rotatable(loc[r].id, loc[r].at)
  <2>1. TypeOK /\ loc[r] \in Local /\ "commit" \in Labels
      BY DEF SessionsInv, TypeOK, Labels
  <2>2. Moves(r) /\ pc'[r] = "commit" /\ loc'[r] = loc[r]
      BY <1>2, <2>1, BecomeMoves
  <2>3. conn = Nil /\ conn' = r /\ UNCHANGED rows
      BY <1>2, <2>1 DEF TypeOK, rows
  <2>4. ConnOK'
      BY <2>1, <2>2, <2>3, IdAssumption DEF TypeOK, ConnOK, Moves
  <2>5. RequestOK(r)'
      BY <1>2, <2>2, <2>3 DEF RequestOK, Rotatable, SessionsInv, TypeOK, rows
  <2>. QED BY <2>2, <2>3, <2>4, <2>5, QuietStep
<1>. QED BY <1>1, <1>2

(***************************************************************************)
(* Rows that come, change and go.                                          *)
(***************************************************************************)
(* The row of session s comes, with the successor of session from if there  *)
(* is one, and that one is revoked in the same step.                        *)
AddsSession(rec, s, from) ==
    /\ DOMAIN sessions' = DOMAIN sessions \cup {s}
    /\ sessions'[s] = NewRow(rec)
    /\ \A t \in DOMAIN sessions :
         /\ sessions'[t] \in Row
         /\ sessions'[t].expires = sessions[t].expires
         /\ sessions'[t].revoked = IF t = from THEN rec.at ELSE sessions[t].revoked
    /\ issued' = Put(issued, s, NewTokens(rec, from))
    /\ UNCHANGED <<now, loggedOut>>

(* A new session, of a login or of a refresh, preserves what is true of the *)
(* table and the tokens: the one it replaces was live until then.           *)
LEMMA AddSession ==
    ASSUME SessionsInv, NEW rec \in Local, NEW s \in SessionId \ DOMAIN issued,
           NEW from \in DOMAIN issued \cup {Nil}, AddsSession(rec, s, from),
           from # Nil => from \in DOMAIN sessions /\ sessions[from].revoked = Nil
    PROVE  TableOK' /\ TokensOK'
<1>. USE DEF AddsSession
<1>1. /\ DOMAIN issued' = DOMAIN issued \cup {s}
      /\ issued'[s] = NewTokens(rec, from)
      /\ \A t \in DOMAIN issued : issued'[t] = issued[t]
    BY DEF Put
<1>2. rec.at \in Nat /\ rec.at + RefreshTTL \in Nat /\ rec.at + AccessTTL \in Nat
    BY TTLAssumption DEF Local
<1>3. /\ issued'[s].from = from /\ issued'[s].exp = Floor(rec.at + AccessTTL)
      /\ sessions'[s].expires = rec.at + RefreshTTL /\ sessions'[s].revoked = Nil
    BY <1>1 DEF NewTokens, NewRow
<1>4. /\ issued'[s].exp \in Nat /\ issued'[s].exp <= sessions'[s].expires
      /\ issued'[s].exp = Floor(issued'[s].exp)
  <2>1. Floor(rec.at + AccessTTL) <= rec.at + AccessTTL
      BY <1>2, FloorOK
  <2>2. rec.at + AccessTTL <= rec.at + RefreshTTL
      BY <1>2, TTLAssumption
  <2>. QED BY <1>2, <1>3, <2>1, <2>2, FloorOK, TTLAssumption
<1>5. Nil \notin Nat
    BY IdAssumption
<1>6. /\ DOMAIN sessions \subseteq DOMAIN issued /\ DOMAIN issued \subseteq SessionId
      /\ Nil \notin DOMAIN issued /\ s # Nil
      /\ \A t \in DOMAIN issued : issued[t].from \in DOMAIN issued \cup {Nil}
      /\ loggedOut \subseteq DOMAIN issued
    BY IdAssumption DEF SessionsInv, TypeOK
<1>7. TableOK'
  <2>1. issued'[s] \in [from : DOMAIN issued \cup {Nil}, exp : Nat]
      BY <1>1, <1>3, <1>4 DEF NewTokens
  <2>2. sessions'[s] \in Row
      BY <1>2 DEF NewRow, Row
  <2>. QED BY <1>1, <2>1, <2>2 DEF SessionsInv, TypeOK, TableOK
<1>8. LoggedOutRevoked'
    BY <1>1, <1>2, <1>5, <1>6 DEF SessionsInv, TokensOK, LoggedOutRevoked
<1>9. RowOutlivesToken'
    BY <1>1, <1>4, <1>6 DEF SessionsInv, TokensOK, RowOutlivesToken
<1>10. from # Nil => /\ from \notin loggedOut
                     /\ \A t \in DOMAIN issued : issued[t].from # from
    BY DEF SessionsInv, TokensOK, ReplacedIsDead, LoggedOutRevoked
<1>11. OneTimeRefresh'
    BY <1>1, <1>3, <1>10 DEF SessionsInv, TokensOK, OneTimeRefresh
<1>12. LogoutIsFinal'
    BY <1>1, <1>3, <1>6, <1>10 DEF SessionsInv, TokensOK, LogoutIsFinal
<1>13. ReplacedIsDead'
    BY <1>1, <1>2, <1>3, <1>5, <1>6 DEF SessionsInv, TokensOK, ReplacedIsDead
<1>14. RotationKeepsLogin'
    BY <1>1, <1>3, <1>6 DEF SessionsInv, TokensOK, RotationKeepsLogin
<1>15. LiveTokensKept'
    BY <1>1 DEF SessionsInv, TokensOK, LiveTokensKept
<1>. QED BY <1>7, <1>8, <1>9, <1>11, <1>12, <1>13, <1>14, <1>15 DEF TokensOK

(* Whoever changes the table does so alone: nobody else is in a             *)
(* transaction, and no token is forgotten.                                  *)
LEMMA WriteStep ==
    ASSUME SessionsInv, NEW r \in Request, Moves(r), conn \in {Nil, r},
           pc'[r] = "reply", loc'[r].id \in DOMAIN issued' \cup {Nil},
           ConnOK', TableOK', TokensOK', DOMAIN issued \subseteq DOMAIN issued'
    PROVE  SessionsInv'
<1>1. TypeOK'
    BY DEF TypeOK, TableOK, ConnOK, Moves
<1>2. \A q \in Request : RequestOK(q)'
  <2>1. RequestOK(r)'
      BY DEF RequestOK
  <2>2. ASSUME NEW q \in Request \ {r} PROVE RequestOK(q)'
    <3>1. pc[q] # "commit" /\ pc'[q] = pc[q] /\ loc'[q] = loc[q]
        BY IdAssumption DEF SessionsInv, TypeOK, Moves
    <3>. QED BY <3>1 DEF RequestOK, SessionsInv
  <2>. QED BY <2>1, <2>2
<1>. QED BY <1>1, <1>2 DEF SessionsInv

(* CreateSession inserts the row of a login, which replaces none.           *)
LEMMA CreateAdds ==
    ASSUME SessionsInv, NEW r \in Request, NEW s \in SessionId \ DOMAIN issued,
           sessions' = Put(sessions, s, NewRow(loc[r])),
           issued' = Put(issued, s, NewTokens(loc[r], Nil)),
           UNCHANGED <<now, loggedOut>>
    PROVE  AddsSession(loc[r], s, Nil)
<1>1. Nil \notin DOMAIN sessions /\ s \notin DOMAIN sessions
    BY IdAssumption DEF SessionsInv, TypeOK
<1>2. \A t \in DOMAIN sessions : sessions'[t] = sessions[t] /\ sessions[t] \in Row
    BY <1>1 DEF Put, SessionsInv, TypeOK
<1>. QED BY <1>1, <1>2 DEF AddsSession, Put

(* The step of a login preserves the invariant.                             *)
LEMMA CreateStep ==
    ASSUME SessionsInv, NEW r \in Request, CreateSession(r)
    PROVE  SessionsInv'
<1>1. PICK s \in SessionId \ DOMAIN issued :
        /\ sessions' = Put(sessions, s, NewRow(loc[r]))
        /\ issued' = Put(issued, s, NewTokens(loc[r], Nil))
        /\ ReplyTokens(r, s)
    BY DEF CreateSession
<1>2. /\ TypeOK /\ loc[r] \in Local /\ pc[r] = "create" /\ conn \in {Nil, r}
      /\ UNCHANGED <<now, conn, loggedOut>>
    BY DEF SessionsInv, TypeOK, CreateSession, Runs
<1>3. Moves(r) /\ pc'[r] = "reply" /\ loc'[r].id = s
    BY <1>1, <1>2, ReplyTokensMoves
<1>4. TableOK' /\ TokensOK'
    BY <1>1, <1>2, CreateAdds, AddSession
<1>5. ConnOK'
    BY <1>2, <1>3, ConnKept
<1>6. DOMAIN issued \subseteq DOMAIN issued' /\ s \in DOMAIN issued'
    BY <1>1 DEF Put
<1>. QED BY <1>2, <1>3, <1>4, <1>5, <1>6, WriteStep

(* RotateSession revokes the old row and inserts the new one at COMMIT; the *)
(* old one was live until then.                                             *)
LEMMA RotateCommitAdds ==
    ASSUME SessionsInv, NEW r \in Request, NEW s \in SessionId \ DOMAIN issued,
           pc[r] = "commit", UNCHANGED <<now, loggedOut>>,
           sessions' = Put([sessions EXCEPT ![loc[r].id].revoked = loc[r].at],
                           s, NewRow(loc[r])),
           issued' = Put(issued, s, NewTokens(loc[r], loc[r].id))
    PROVE  /\ AddsSession(loc[r], s, loc[r].id)
           /\ loc[r].id \in DOMAIN sessions /\ sessions[loc[r].id].revoked = Nil
           /\ loc[r].id \in DOMAIN issued
<1>. DEFINE old == loc[r].id
            revoked == [sessions EXCEPT ![old].revoked = loc[r].at]
<1>1. old \in DOMAIN sessions /\ sessions[old].revoked = Nil /\ old \in DOMAIN issued
    BY DEF SessionsInv, RequestOK
<1>2. s \notin DOMAIN sessions /\ \A t \in DOMAIN sessions : sessions[t] \in Row
    BY DEF SessionsInv, TypeOK
<1>3. DOMAIN revoked = DOMAIN sessions
    OBVIOUS
<1>4. \A t \in DOMAIN sessions :
        revoked[t] = IF t = old THEN [sessions[t] EXCEPT !.revoked = loc[r].at]
                                ELSE sessions[t]
    OBVIOUS
<1>5. loc[r].at \in Nat
    BY DEF SessionsInv, TypeOK, Local
<1>6. \A t \in DOMAIN sessions :
        /\ revoked[t] \in Row
        /\ revoked[t].expires = sessions[t].expires
        /\ revoked[t].revoked = IF t = old THEN loc[r].at ELSE sessions[t].revoked
    BY <1>2, <1>4, <1>5 DEF Row
<1>7. sessions' = Put(revoked, s, NewRow(loc[r]))
    OBVIOUS
<1>. HIDE DEF revoked
<1>8. \A t \in DOMAIN sessions : sessions'[t] = revoked[t]
    BY <1>2, <1>3, <1>7 DEF Put
<1>9. DOMAIN sessions' = DOMAIN sessions \cup {s} /\ sessions'[s] = NewRow(loc[r])
    BY <1>3, <1>7 DEF Put
<1>. QED BY <1>1, <1>6, <1>8, <1>9 DEF AddsSession

(* The COMMIT of RotateSession preserves the invariant.                     *)
LEMMA RotateCommitStep ==
    ASSUME SessionsInv, NEW r \in Request, RotateCommit(r)
    PROVE  SessionsInv'
<1>1. PICK s \in SessionId \ DOMAIN issued :
        /\ sessions' = Put([sessions EXCEPT ![loc[r].id].revoked = loc[r].at],
                           s, NewRow(loc[r]))
        /\ issued' = Put(issued, s, NewTokens(loc[r], loc[r].id))
        /\ ReplyTokens(r, s)
    BY DEF RotateCommit
<1>2. /\ TypeOK /\ loc[r] \in Local /\ pc[r] = "commit" /\ conn \in {Nil, r}
      /\ conn' = Nil /\ UNCHANGED <<now, loggedOut>>
    BY DEF SessionsInv, TypeOK, RotateCommit, Runs
<1>3. Moves(r) /\ pc'[r] = "reply" /\ loc'[r].id = s
    BY <1>1, <1>2, ReplyTokensMoves
<1>4. TableOK' /\ TokensOK'
    BY <1>1, <1>2, RotateCommitAdds, AddSession
<1>5. ConnOK'
    BY <1>2, <1>3, ConnReturned
<1>6. DOMAIN issued \subseteq DOMAIN issued' /\ s \in DOMAIN issued'
    BY <1>1 DEF Put
<1>. QED BY <1>2, <1>3, <1>4, <1>5, <1>6, WriteStep

(* RevokeSession ends a session that has no successor, or changes nothing.  *)
LEMMA RevokeStep ==
    ASSUME SessionsInv, NEW r \in Request, RevokeSession(r)
    PROVE  SessionsInv'
<1>. DEFINE x == loc[r].id
            live == x \in DOMAIN sessions /\ sessions[x].revoked = Nil
<1>1. /\ TypeOK /\ loc[r] \in Local /\ pc[r] = "revoke" /\ conn \in {Nil, r}
      /\ UNCHANGED <<now, conn, issued>>
    BY DEF SessionsInv, TypeOK, RevokeSession, Runs
<1>2. CASE ~live
  <2>1. Reply(r, 401) /\ UNCHANGED table
      BY <1>2 DEF RevokeSession, table
  <2>. QED BY <1>1, <2>1, ReplyStep
<1>3. CASE live
  <2>1. /\ sessions' = [sessions EXCEPT ![x].revoked = loc[r].at]
        /\ loggedOut' = loggedOut \cup {x} /\ Reply(r, 204)
      BY <1>3 DEF RevokeSession
  <2>2. Moves(r) /\ pc'[r] = "reply" /\ loc'[r].id = Nil
      BY <1>1, <2>1, ReplyMoves
  <2>3. loc[r].at \in Nat /\ Nil \notin Nat
      BY <1>1, IdAssumption DEF Local
  <2>4. DOMAIN sessions' = DOMAIN sessions
      BY <2>1
  <2>5. \A t \in DOMAIN sessions :
          /\ sessions'[t] \in Row
          /\ sessions'[t].expires = sessions[t].expires
          /\ sessions'[t].revoked = IF t = x THEN loc[r].at ELSE sessions[t].revoked
      BY <1>1, <2>1, <2>3 DEF TypeOK, Row
  <2>6. TableOK'
      BY <1>1, <1>3, <2>1, <2>4, <2>5 DEF TypeOK, TableOK
  <2>7. \A t \in DOMAIN issued : issued[t].from # x
      BY <1>3 DEF SessionsInv, TokensOK, ReplacedIsDead
  <2>8. LoggedOutRevoked'
      BY <2>1, <2>3, <2>4, <2>5 DEF SessionsInv, TokensOK, LoggedOutRevoked
  <2>9. RowOutlivesToken'
      BY <1>1, <2>4, <2>5 DEF SessionsInv, TokensOK, RowOutlivesToken
  <2>10. OneTimeRefresh' /\ LogoutIsFinal'
      BY <1>1, <2>1, <2>7 DEF SessionsInv, TokensOK, OneTimeRefresh, LogoutIsFinal
  <2>11. ReplacedIsDead' /\ RotationKeepsLogin'
      BY <1>1, <2>1, <2>3, <2>4, <2>5
         DEF SessionsInv, TokensOK, ReplacedIsDead, RotationKeepsLogin
  <2>12. LiveTokensKept'
      BY <1>1, <2>1, <2>4 DEF SessionsInv, TokensOK, LiveTokensKept
  <2>13. ConnOK'
      BY <1>1, <2>2, ConnKept
  <2>. QED
      BY <1>1, <2>2, <2>6, <2>8, <2>9, <2>10, <2>11, <2>12, <2>13, WriteStep DEF TokensOK
<1>. QED BY <1>2, <1>3

(* A statement fails, and the deferred Rollback undoes the transaction.     *)
LEMMA FailStep ==
    ASSUME SessionsInv, NEW r \in Request, StatementFails(r)
    PROVE  SessionsInv'
<1>1. TypeOK /\ conn \in {Nil, r} /\ conn' = Nil /\ UNCHANGED rows
    BY DEF SessionsInv, StatementFails, Runs, rows
<1>2. FailStatus(r) \in {200, 204, 401, 500}
    BY DEF FailStatus
<1>3. Moves(r) /\ pc'[r] = "reply" /\ loc'[r].id = Nil
    BY <1>1, <1>2, ReplyMoves DEF StatementFails
<1>4. ConnOK'
    BY <1>1, <1>3, ConnReturned
<1>5. RequestOK(r)'
    BY <1>3 DEF RequestOK
<1>. QED BY <1>1, <1>3, <1>4, <1>5, QuietStep

(* Every step of the server for one request preserves the invariant.        *)
LEMMA StepStep ==
    ASSUME SessionsInv, NEW r \in Request, Step(r)
    PROVE  SessionsInv'
<1>1. CASE Serve(r)
    BY <1>1, ReplyStep DEF Serve, Runs
<1>2. CASE Answered(r)
  <2>1. Blank \in Local /\ "idle" \in Labels
      BY DEF Blank, Local, Labels
  <2>. QED BY <1>2, <2>1, ReadStep DEF Answered
<1>. QED
    BY <1>1, <1>2, FindUserStep, CreateStep, FindActiveStep, RotateUpdateStep,
       RotateCommitStep, ValidateStep, RevokeStep, FailStep DEF Step, Handle

(***************************************************************************)
(* The process.                                                            *)
(***************************************************************************)
(* PruneSessions deletes no row whose access token is still good: by the    *)
(* text of the times a row expires in its last second, but not before the   *)
(* second in which the token does.                                          *)
LEMMA PruneKeeps ==
    ASSUME SessionsInv, NEW s \in DOMAIN sessions, Prunable(s)
    PROVE  now >= issued[s].exp \/ sessions[s].revoked # Nil
<1>1. /\ sessions[s].expires \in Nat /\ now \in Nat /\ issued[s].exp \in Nat
    BY DEF SessionsInv, TypeOK, Row
<1>2. issued[s].exp <= sessions[s].expires /\ issued[s].exp = Floor(issued[s].exp)
    BY DEF SessionsInv, TokensOK, RowOutlivesToken
<1>3. CASE Text(sessions[s].expires) <= Text(now)
    BY <1>1, <1>2, <1>3, TextOrder
<1>. QED BY <1>3 DEF Prunable

(* A restart forgets the requests; rows that are pruned are not missed.     *)
LEMMA RestartStep ==
    ASSUME SessionsInv, Restart
    PROVE  SessionsInv'
<1>1. /\ DOMAIN sessions' \subseteq DOMAIN sessions
      /\ \A s \in DOMAIN sessions' : sessions'[s] = sessions[s]
      /\ \A s \in DOMAIN sessions \ DOMAIN sessions' : Prunable(s)
    BY DEF Restart, PruneSessions
<1>2. UNCHANGED <<now, issued, loggedOut>> /\ conn' = Nil
    BY DEF Restart
<1>3. pc' = [r \in Request |-> "idle"] /\ loc' = [r \in Request |-> Blank]
    BY DEF Restart
<1>4. TypeOK'
  <2>1. Blank \in Local /\ "idle" \in Labels
      BY DEF Blank, Local, Labels
  <2>2. pc' \in [Request -> Labels] /\ loc' \in [Request -> Local]
      BY <1>3, <2>1
  <2>3. \A r \in Request : pc'[r] # "commit" /\ r # Nil
      BY <1>3, IdAssumption
  <2>. QED BY <1>1, <1>2, <2>2, <2>3 DEF SessionsInv, TypeOK
<1>5. /\ LoggedOutRevoked' /\ RowOutlivesToken' /\ OneTimeRefresh'
      /\ LogoutIsFinal' /\ ReplacedIsDead' /\ RotationKeepsLogin'
    BY <1>1, <1>2 DEF SessionsInv, TokensOK, LoggedOutRevoked, RowOutlivesToken,
        OneTimeRefresh, LogoutIsFinal, ReplacedIsDead, RotationKeepsLogin
<1>6. LiveTokensKept'
  <2>1. SUFFICES ASSUME NEW s \in DOMAIN issued, now < issued[s].exp, s \notin loggedOut,
                        \A t \in DOMAIN issued : issued[t].from # s
                 PROVE  s \in DOMAIN sessions'
      BY <1>2 DEF LiveTokensKept
  <2>2. s \in DOMAIN sessions
      BY <2>1 DEF SessionsInv, TokensOK, LiveTokensKept
  <2>3. sessions[s].revoked = Nil
      BY <2>1, <2>2 DEF SessionsInv, TokensOK, RotationKeepsLogin
  <2>4. now \in Nat /\ issued[s].exp \in Nat
      BY DEF SessionsInv, TypeOK
  <2>5. ~Prunable(s)
      BY <2>1, <2>2, <2>3, <2>4, PruneKeeps
  <2>. QED BY <1>1, <2>2, <2>5
<1>7. \A r \in Request : RequestOK(r)'
    BY <1>3 DEF RequestOK
<1>. QED BY <1>4, <1>5, <1>6, <1>7 DEF SessionsInv, TokensOK

(* Time passes.                                                             *)
LEMMA TickStep ==
    ASSUME SessionsInv, Tick
    PROVE  SessionsInv'
<1>1. now \in Nat /\ now' = now + 1
    BY DEF SessionsInv, TypeOK, Tick
<1>2. UNCHANGED <<sessions, conn, issued, loggedOut, pc, loc>>
    BY DEF Tick
<1>3. TypeOK'
    BY <1>1, <1>2 DEF SessionsInv, TypeOK
<1>4. /\ LoggedOutRevoked' /\ RowOutlivesToken' /\ OneTimeRefresh'
      /\ LogoutIsFinal' /\ ReplacedIsDead' /\ RotationKeepsLogin'
    BY <1>2 DEF SessionsInv, TokensOK, LoggedOutRevoked, RowOutlivesToken,
        OneTimeRefresh, LogoutIsFinal, ReplacedIsDead, RotationKeepsLogin
<1>5. LiveTokensKept'
  <2>1. \A s \in DOMAIN issued : issued[s].exp \in Nat
      BY DEF SessionsInv, TypeOK
  <2>. QED BY <1>1, <1>2, <2>1 DEF SessionsInv, TokensOK, LiveTokensKept
<1>6. \A r \in Request : RequestOK(r)'
    BY <1>2 DEF SessionsInv, RequestOK
<1>. QED BY <1>3, <1>4, <1>5, <1>6 DEF SessionsInv, TokensOK

(* SessionsInv holds of the empty table, and every step preserves it.       *)
LEMMA InitOK == Init => SessionsInv
<1>. SUFFICES ASSUME Init PROVE SessionsInv
    OBVIOUS
<1>1. DOMAIN sessions = {} /\ DOMAIN issued = {} /\ now = 0 /\ conn = Nil /\ loggedOut = {}
    BY DEF Init
<1>2. pc \in [Request -> Labels] /\ loc \in [Request -> Local]
    BY DEF Init, Blank, Local, Labels
<1>3. \A r \in Request : pc[r] = "idle" /\ r # Nil
    BY IdAssumption DEF Init
<1>4. TypeOK
    BY <1>1, <1>2, <1>3 DEF TypeOK
<1>5. TokensOK
    BY <1>1 DEF TokensOK, LoggedOutRevoked, RowOutlivesToken, OneTimeRefresh,
        LogoutIsFinal, ReplacedIsDead, RotationKeepsLogin, LiveTokensKept
<1>6. \A r \in Request : RequestOK(r)
    BY <1>3 DEF RequestOK
<1>. QED BY <1>4, <1>5, <1>6 DEF SessionsInv

(* A step that changes nothing preserves the invariant, too.                *)
LEMMA NextOK ==
    ASSUME SessionsInv, [Next]_vars
    PROVE  SessionsInv'
<1>1. CASE UNCHANGED vars
  <2>1. TypeOK'
      BY <1>1 DEF SessionsInv, TypeOK, vars
  <2>2. TokensOK'
      BY <1>1 DEF SessionsInv, TokensOK, LoggedOutRevoked, RowOutlivesToken, OneTimeRefresh,
          LogoutIsFinal, ReplacedIsDead, RotationKeepsLogin, LiveTokensKept, vars
  <2>3. \A r \in Request : RequestOK(r)'
      BY <1>1 DEF SessionsInv, RequestOK, vars
  <2>. QED BY <2>1, <2>2, <2>3 DEF SessionsInv
<1>. QED BY <1>1, TickStep, RestartStep, BeginStep, StepStep DEF Next

(* The invariant of the sessions, for every number of requests and of       *)
(* sessions, wherever statements fail and the server is started again.      *)
THEOREM SessionsInvariant == Spec => []SessionsInv
<1>1. Init => SessionsInv
    BY InitOK
<1>2. SessionsInv /\ [Next]_vars => SessionsInv'
    BY NextOK
<1>. QED BY <1>1, <1>2, PTL DEF Spec

(* The tables are typed, and a request holds the only connection exactly    *)
(* while it is in the transaction of RotateSession: it never leaves it      *)
(* without giving the connection back.                                      *)
THEOREM SessionsTyped == Spec => []TypeOK
<1>1. SessionsInv => TypeOK
    BY DEF SessionsInv
<1>. QED BY <1>1, SessionsInvariant, PTL

(* A refresh token works once, however many refreshes present it at the     *)
(* same time.                                                               *)
THEOREM RefreshOnce == Spec => []OneTimeRefresh
<1>1. SessionsInv => OneTimeRefresh
    BY DEF SessionsInv, TokensOK
<1>. QED BY <1>1, SessionsInvariant, PTL

(* A logout answered 204 leaves no successor of the session behind, also    *)
(* when a refresh with the same token overlaps it.                          *)
THEOREM LogoutFinal == Spec => []LogoutIsFinal
<1>1. SessionsInv => LogoutIsFinal
    BY DEF SessionsInv, TokensOK
<1>. QED BY <1>1, SessionsInvariant, PTL

(* A session that has been replaced by a refresh is revoked, and opens      *)
(* nothing any more.                                                        *)
THEOREM ReplacedDead == Spec => []ReplacedIsDead
<1>1. SessionsInv => ReplacedIsDead
    BY DEF SessionsInv, TokensOK
<1>. QED BY <1>1, SessionsInvariant, PTL

(* A session is revoked by a logout, or because it has its successor: a     *)
(* refresh that fails or is cut off does not end the login.                 *)
THEOREM LoginSurvivesRotation == Spec => []RotationKeepsLogin
<1>1. SessionsInv => RotationKeepsLogin
    BY DEF SessionsInv, TokensOK
<1>. QED BY <1>1, SessionsInvariant, PTL

(* Pruning at startup, which compares times as texts, cuts no access token  *)
(* short, whatever the lifetimes, as long as a session outlives its token.  *)
THEOREM PruningKeepsTokens == Spec => []LiveTokensKept
<1>1. SessionsInv => LiveTokensKept
    BY DEF SessionsInv, TokensOK
<1>. QED BY <1>1, SessionsInvariant, PTL

(***************************************************************************)
(* What a step may do to a revocation.                                     *)
(***************************************************************************)
(* Rows keep their expiry and their revocation, and do not come back.       *)
KeepsRevocations ==
    /\ \A s \in DOMAIN sessions \cap DOMAIN sessions' :
         /\ sessions'[s].expires = sessions[s].expires
         /\ sessions[s].revoked # Nil => sessions'[s].revoked = sessions[s].revoked
    /\ \A s \in DOMAIN issued \ DOMAIN sessions : s \notin DOMAIN sessions'

(* A new session revokes only one that was live, under a fresh id.          *)
LEMMA AddKeeps ==
    ASSUME NEW rec \in Local, NEW s \in SessionId \ DOMAIN issued,
           NEW from \in DOMAIN issued \cup {Nil}, AddsSession(rec, s, from),
           from \in DOMAIN sessions => sessions[from].revoked = Nil,
           DOMAIN sessions \subseteq DOMAIN issued
    PROVE  KeepsRevocations
BY DEF AddsSession, KeepsRevocations

(* CreateSession and RotateSession only add to the table, RevokeSession     *)
(* only touches a live row, and PruneSessions only deletes.                 *)
LEMMA StepKeeps ==
    ASSUME SessionsInv, [Next]_vars
    PROVE  KeepsRevocations
<1>1. DOMAIN sessions \subseteq DOMAIN issued /\ Nil \notin DOMAIN sessions
    BY IdAssumption DEF SessionsInv, TypeOK
<1>2. \A r \in Request : loc[r] \in Local
    BY DEF SessionsInv, TypeOK
<1>3. CASE UNCHANGED sessions
    BY <1>3 DEF KeepsRevocations
<1>4. ASSUME NEW r \in Request, CreateSession(r) PROVE KeepsRevocations
  <2>1. PICK s \in SessionId \ DOMAIN issued :
          /\ sessions' = Put(sessions, s, NewRow(loc[r]))
          /\ issued' = Put(issued, s, NewTokens(loc[r], Nil))
      BY <1>4 DEF CreateSession
  <2>2. UNCHANGED <<now, loggedOut>>
      BY <1>4 DEF CreateSession
  <2>. QED BY <1>1, <1>2, <2>1, <2>2, CreateAdds, AddKeeps
<1>5. ASSUME NEW r \in Request, RotateCommit(r) PROVE KeepsRevocations
  <2>1. PICK s \in SessionId \ DOMAIN issued :
          /\ sessions' = Put([sessions EXCEPT ![loc[r].id].revoked = loc[r].at],
                             s, NewRow(loc[r]))
          /\ issued' = Put(issued, s, NewTokens(loc[r], loc[r].id))
      BY <1>5 DEF RotateCommit
  <2>2. UNCHANGED <<now, loggedOut>> /\ pc[r] = "commit"
      BY <1>5 DEF RotateCommit, Runs
  <2>. QED BY <1>1, <1>2, <2>1, <2>2, RotateCommitAdds, AddKeeps
<1>6. ASSUME NEW r \in Request, RevokeSession(r) PROVE KeepsRevocations
  <2>1. CASE loc[r].id \in DOMAIN sessions /\ sessions[loc[r].id].revoked = Nil
    <3>1. sessions' = [sessions EXCEPT ![loc[r].id].revoked = loc[r].at]
        BY <1>6, <2>1 DEF RevokeSession
    <3>2. \A s \in DOMAIN sessions : sessions[s] \in Row
        BY DEF SessionsInv, TypeOK
    <3>. QED BY <2>1, <3>1, <3>2 DEF KeepsRevocations, Row
  <2>. QED BY <1>3, <1>6, <2>1 DEF RevokeSession
<1>7. CASE Restart
  <2>1. CASE PruneSessions
      BY <2>1 DEF PruneSessions, KeepsRevocations
  <2>. QED BY <1>3, <1>7, <2>1 DEF Restart
<1>8. ASSUME NEW r \in Request, Begin(r) PROVE UNCHANGED sessions
    BY <1>8 DEF Begin, BeginLogin, BeginRefresh, RefreshWith, BeginProtected,
        ProtectedWith, table
<1>9. ASSUME NEW r \in Request, Step(r),
             ~CreateSession(r), ~RotateCommit(r), ~RevokeSession(r)
      PROVE  UNCHANGED sessions
    BY <1>9 DEF Step, Handle, FindUserByUsername, FindActiveSessionByTokenHash,
        RotateUpdate, ValidateSession, Serve, StatementFails, Answered, table
<1>10. CASE Tick
    BY <1>3, <1>10 DEF Tick
<1>11. CASE UNCHANGED vars
    BY <1>3, <1>11 DEF vars
<1>. QED BY <1>3, <1>4, <1>5, <1>6, <1>7, <1>8, <1>9, <1>10, <1>11 DEF Next

(* A revocation is never undone, moved or repeated, an expiry never         *)
(* extended, and a row that PruneSessions deleted never comes back.         *)
THEOREM RevocationsForGood == Spec => RevokedForGood
<1>1. SessionsInv /\ [Next]_vars => [KeepsRevocations]_vars
    BY StepKeeps
<1>. QED BY <1>1, SessionsInvariant, PTL DEF Spec, RevokedForGood, KeepsRevocations
=============================================================================
