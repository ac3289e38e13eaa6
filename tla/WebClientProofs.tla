--------------------------- MODULE WebClientProofs ---------------------------
(***************************************************************************)
(* Machine-checked proofs about the web client and the server together,    *)
(* for any number of tabs, calls and sessions.                             *)
(***************************************************************************)
EXTENDS WebClient, SessionsProofs

Kinds == {"login", "boot", "files", "logout"}

Call == [kind : Kinds \cup {Nil}, tab : Tab \cup {Nil},
         phase : {"none", "first", "toRefresh", "refresh", "toRetry", "retry"},
         ran : Nat]

(* A call c of files that got to its handler is not going to be sent again: *)
(* its answer is not 401, and without one it ends.  One that is refreshing  *)
(* or about to be sent has not got there.  p and v are the label and the    *)
(* locals of its request.                                                   *)
FilesCallOK(c, p, v) ==
    /\ c.phase \in {"first", "retry"} =>
         /\ p \in {"idle", "validate", "serve", "reply"}
         /\ p \in {"validate", "serve"} => v.op = "files"
         /\ p = "validate" => c.ran = 0
         /\ p = "reply" /\ v.status = 401 => c.ran = 0
         /\ c.ran \in {0, 1}
    /\ c.phase \in {"toRefresh", "toRetry"} => c.ran = 0 /\ p = "idle"
    /\ c.phase = "refresh" =>
         c.ran = 0 /\ p \in {"idle", "find", "rotate", "commit", "reply"}

(* Only calls with an access token are ever sent again.                     *)
CallOK(c, p, v) ==
    /\ c \in Call
    /\ c.phase = "none" => c = NoCall
    /\ c.phase = "first" => c.kind \in Kinds
    /\ c.phase \in {"toRefresh", "refresh", "toRetry", "retry"} =>
         c.kind \in Kinds \ {"login"}
    /\ c.kind = "files" => FilesCallOK(c, p, v)

CallsOK == call \in [Request -> Call] /\ \A r \in Request : CallOK(call[r], pc[r], loc[r])

(* The browser holds tokens that the server handed out.                     *)
ClientInv == held \in DOMAIN issued \cup {Nil} /\ CallsOK

(***************************************************************************)
(* The client drives the server through its routes only.                   *)
(***************************************************************************)
(* A request without the CSRF header is refused like one without a token.   *)
LEMMA RefusedBegins ==
    ASSUME NEW r \in Request, Refused(r)
    PROVE  Begin(r)
<1>1. RefreshWith(r, Nil)
    BY DEF Refused, RefreshWith
<1>. QED BY <1>1 DEF Begin, BeginRefresh

(* A call with the tokens of the browser is one of Sessions.                *)
LEMMA SendBegins ==
    ASSUME NEW r \in Request, NEW kind \in Kinds \ {"login"},
           held \in DOMAIN issued \cup {Nil}, SendProtected(r, kind)
    PROVE  Begin(r)
<1>1. Op(kind) \in Protected
    BY DEF Op, Kinds, Protected
<1>2. CASE Refused(r)
    BY <1>2, RefusedBegins
<1>3. CASE ProtectedWith(r, Op(kind), held)
    BY <1>1, <1>3 DEF Begin, BeginProtected
<1>. QED BY <1>2, <1>3 DEF SendProtected

(* Whatever the browser does, the server takes a step of Sessions or none.  *)
LEMMA ClientStepsAreSessions ==
    ASSUME ClientInv, [ClientNext]_all
    PROVE  [Next]_vars
<1>1. held \in DOMAIN issued \cup {Nil}
    BY DEF ClientInv
<1>2. \A r \in Request : call[r].phase = "toRetry" => call[r].kind \in Kinds \ {"login"}
    BY DEF ClientInv, CallsOK, CallOK
<1>3. CASE UNCHANGED all
    BY <1>3 DEF all
<1>4. CASE Tick \/ Restart
    BY <1>4 DEF Next
<1>5. ASSUME NEW r \in Request, Client(r) PROVE [Next]_vars
  <2>1. CASE refreshSession(r)
    <3>1. CASE UNCHANGED vars
        BY <3>1
    <3>2. CASE Refused(r)
        BY <3>2, RefusedBegins DEF Next
    <3>3. CASE RefreshWith(r, held)
        BY <1>1, <3>3 DEF Next, Begin, BeginRefresh
    <3>. QED BY <2>1, <3>1, <3>2, <3>3 DEF refreshSession
  <2>2. CASE Retry(r)
      BY <1>1, <1>2, <2>2, SendBegins DEF Retry, Next
  <2>3. CASE Receive(r)
    <3>1. pc[r] = "reply" /\ Become(r, Blank, "idle") /\ UNCHANGED table
        BY <2>3 DEF Receive, table
    <3>. QED BY <3>1 DEF Answered, Step, Next
  <2>4. CASE ConnectionReset(r)
      BY <2>4 DEF ConnectionReset
  <2>. QED BY <1>5, <2>1, <2>2, <2>3, <2>4 DEF Client
<1>6. ASSUME NEW r \in Request, NetworkError(r) PROVE [Next]_vars
    BY <1>6 DEF NetworkError
<1>7. ASSUME NEW r \in Request, Server(r) PROVE [Next]_vars
    BY <1>7 DEF Server, Step, Next
<1>8. ASSUME NEW r \in Request, NEW t \in Tab, Begins(r, t) PROVE [Next]_vars
  <2>1. CASE submitAuth(r, t)
      BY <2>1 DEF submitAuth, Begin, Next
  <2>2. CASE apiFor(r, t)
    <3>1. PICK kind \in {"files", "logout"} : SendProtected(r, kind)
        BY <2>2 DEF apiFor
    <3>2. kind \in Kinds \ {"login"}
        BY DEF Kinds
    <3>. QED BY <1>1, <3>1, <3>2, SendBegins DEF Next
  <2>3. CASE boot(r, t)
    <3>1. SendProtected(r, "boot") /\ "boot" \in Kinds \ {"login"}
        BY <2>3 DEF boot, Kinds
    <3>. QED BY <1>1, <3>1, SendBegins DEF Next
  <2>. QED BY <1>8, <2>1, <2>2, <2>3 DEF Begins
<1>. QED BY <1>3, <1>4, <1>5, <1>6, <1>7, <1>8 DEF ClientNext

(***************************************************************************)
(* One call and its request.                                               *)
(***************************************************************************)
(* Nothing is asked of a slot without a call.                               *)
LEMMA NoCallOK ==
    ASSUME NEW p, NEW v
    PROVE  NoCall \in Call /\ CallOK(NoCall, p, v)
BY DEF NoCall, Call, CallOK, FilesCallOK

(* Slot r changes, and calls of other slots may be given up.                *)
OthersStay(r) ==
    /\ call' \in [Request -> Call]
    /\ \A q \in Request \ {r} :
         /\ call'[q] \in {call[q], NoCall}
         /\ pc'[q] = pc[q] /\ loc'[q] = loc[q]

(* It is enough to look at the slot that changes.                           *)
LEMMA SlotStep ==
    ASSUME ClientInv, NEW r \in Request, OthersStay(r),
           CallOK(call'[r], pc'[r], loc'[r])
    PROVE  CallsOK'
<1>1. ASSUME NEW q \in Request \ {r} PROVE CallOK(call'[q], pc'[q], loc'[q])
    BY NoCallOK DEF OthersStay, ClientInv, CallsOK
<1>. QED BY <1>1 DEF CallsOK, OthersStay

(* A slot that was idle now holds a request of the call.                    *)
SendsFor(kind, p, v) ==
    \/ p = "reply" /\ v.status = 401
    \/ p = "validate" /\ v.op = Op(kind)

(* What the server gets when a call with an access token is sent.           *)
LEMMA SendMoves ==
    ASSUME TypeOK, NEW r \in Request, NEW kind \in Kinds \ {"login"}, SendProtected(r, kind)
    PROVE  pc[r] = "idle" /\ Moves(r) /\ SendsFor(kind, pc'[r], loc'[r])
<1>1. CASE pc[r] = "idle" /\ Reply(r, 401)
    BY <1>1, ReplyMoves DEF SendsFor
<1>2. CASE ProtectedWith(r, Op(kind), held)
  <2>1. CASE AccessValid(held)
    <3>. DEFINE rec == [Blank EXCEPT !.op = Op(kind), !.id = held, !.at = now]
    <3>1. Op(kind) \in Protected /\ held \in SessionId /\ now \in Nat
        BY <2>1 DEF AccessValid, TypeOK, Op, Kinds, Protected
    <3>2. rec \in Local /\ rec.op = Op(kind) /\ "validate" \in Labels
      <4>1. rec = [Blank EXCEPT !.op = Op(kind), !.id = held, !.at = now]
          OBVIOUS
      <4>. HIDE DEF SendProtected, rec
      <4>2. rec = [op |-> Op(kind), id |-> held, at |-> now, status |-> Nil]
          BY <4>1 DEF Blank
      <4>3. rec \in Local /\ rec.op = Op(kind)
          BY <3>1, <4>2 DEF Local, Protected
      <4>. QED BY <4>3 DEF Labels
    <3>3. Become(r, rec, "validate") /\ pc[r] = "idle"
        BY <1>2, <2>1 DEF ProtectedWith
    <3>. HIDE DEF rec
    <3>. QED BY <3>2, <3>3, BecomeMoves DEF SendsFor
  <2>. QED BY <1>1, <1>2, <2>1 DEF ProtectedWith
<1>. QED BY <1>1, <1>2 DEF SendProtected, Refused

(* What the server gets when the tokens are refreshed.                      *)
LEMMA RefreshMoves ==
    ASSUME TypeOK, NEW r \in Request, held \in DOMAIN issued \cup {Nil},
           Refused(r) \/ RefreshWith(r, held)
    PROVE  pc[r] = "idle" /\ Moves(r) /\ pc'[r] \in {"find", "reply"}
<1>1. CASE pc[r] = "idle" /\ Reply(r, 401)
    BY <1>1, ReplyMoves
<1>2. CASE RefreshWith(r, held) /\ held # Nil
  <2>. DEFINE rec == [Blank EXCEPT !.op = "refresh", !.id = held, !.at = now]
  <2>1. rec \in Local /\ "find" \in Labels
    <3>1. now \in Nat /\ held \in SessionId
        BY <1>2 DEF TypeOK
    <3>2. rec = [Blank EXCEPT !.op = "refresh", !.id = held, !.at = now]
        OBVIOUS
    <3>. HIDE DEF rec
    <3>3. rec = [op |-> "refresh", id |-> held, at |-> now, status |-> Nil]
        BY <3>2 DEF Blank
    <3>4. rec \in Local
        BY <3>1, <3>3 DEF Local, Protected
    <3>. QED BY <3>4 DEF Labels
  <2>2. Become(r, rec, "find") /\ pc[r] = "idle"
      BY <1>2 DEF RefreshWith
  <2>. HIDE DEF rec
  <2>. QED BY <2>1, <2>2, BecomeMoves
<1>. QED BY <1>1, <1>2 DEF Refused, RefreshWith

(* What the server makes of a request: files are served after validation    *)
(* only, and from there on the answer is not 401.                           *)
ServerMoves(p, v, p2, v2) ==
    /\ p # "idle"
    /\ p2 = "serve" => p = "validate"
    /\ p = "validate" /\ v.op = "files" =>
         (p2 = "serve" /\ v2.op = "files") \/ (p2 = "reply" /\ v2.status = 401)
    /\ p = "serve" => p2 = "reply" /\ (v.op = "files" => v2.status # 401)
    /\ p \in {"find", "rotate", "commit"} => p2 \in {"rotate", "commit", "reply"}

(* Every statement of the server moves its request so.                      *)
LEMMA HandleMoves ==
    ASSUME SessionsInv, NEW r \in Request, Handle(r) \/ StatementFails(r) \/ Answered(r)
    PROVE  Moves(r) /\ (pc[r] # "reply" => ServerMoves(pc[r], loc[r], pc'[r], loc'[r]))
<1>. USE DEF ServerMoves
<1>1. TypeOK /\ {"create", "rotate", "commit", "serve", "revoke", "idle"} \subseteq Labels
    BY DEF SessionsInv, Labels
<1>2. CASE FindUserByUsername(r)
    BY <1>1, <1>2, ContinueMoves, ReplyMoves DEF FindUserByUsername, Runs
<1>3. CASE CreateSession(r)
    BY <1>1, <1>3, ReplyTokensMoves DEF CreateSession, Runs
<1>4. CASE FindActiveSessionByTokenHash(r)
    BY <1>1, <1>4, ContinueMoves, ReplyMoves DEF FindActiveSessionByTokenHash, Runs
<1>5. CASE RotateUpdate(r)
  <2>1. loc[r] \in Local
      BY <1>1 DEF TypeOK
  <2>. QED BY <1>1, <1>5, <2>1, BecomeMoves, ReplyMoves DEF RotateUpdate, Runs
<1>6. CASE RotateCommit(r)
    BY <1>1, <1>6, ReplyTokensMoves DEF RotateCommit, Runs
<1>7. CASE ValidateSession(r)
  <2>. DEFINE rec == [Blank EXCEPT !.op = loc[r].op]
  <2>1. rec \in Local /\ rec.op = loc[r].op
      BY <1>1 DEF TypeOK, Blank, Local
  <2>2. pc[r] = "validate"
      BY <1>7 DEF ValidateSession, Runs
  <2>3. CASE Reply(r, 401)
      BY <1>1, <2>2, <2>3, ReplyMoves
  <2>4. CASE loc[r].op = "logout" /\ Continue(r, "revoke")
      BY <1>1, <2>2, <2>4, ContinueMoves
  <2>5. CASE Become(r, rec, "serve")
    <3>. HIDE DEF rec
    <3>. QED BY <1>1, <2>1, <2>2, <2>5, BecomeMoves
  <2>. QED BY <1>7, <2>3, <2>4, <2>5 DEF ValidateSession
<1>8. CASE RevokeSession(r)
    BY <1>1, <1>8, ReplyMoves DEF RevokeSession, Runs
<1>9. CASE Serve(r)
    BY <1>1, <1>9, ReplyMoves DEF Serve, Runs
<1>10. CASE StatementFails(r)
  <2>1. pc[r] # "idle" /\ FailStatus(r) \in {200, 204, 401, 500}
      BY <1>10 DEF StatementFails, SqlLabels, Runs, FailStatus
  <2>2. Moves(r) /\ pc'[r] = "reply" /\ loc'[r].status = FailStatus(r)
      BY <1>1, <1>10, <2>1, ReplyMoves DEF StatementFails
  <2>. QED BY <2>1, <2>2 DEF FailStatus
<1>11. CASE Answered(r)
  <2>1. Blank \in Local
      BY DEF Blank, Local
  <2>. QED BY <1>1, <1>11, <2>1, BecomeMoves DEF Answered
<1>. QED
    BY <1>2, <1>3, <1>4, <1>5, <1>6, <1>7, <1>8, <1>9, <1>10, <1>11 DEF Handle

(***************************************************************************)
(* The steps of the client.                                                *)
(***************************************************************************)
(* The call of slot r is over, and calls of other slots may be given up.    *)
CallEnds(r) ==
    /\ call' \in [Request -> Call] /\ call'[r] = NoCall
    /\ \A q \in Request : call'[q] \in {call[q], NoCall}

(* Done and Leave end the call.                                             *)
LEMMA DoneEnds ==
    ASSUME ClientInv, NEW r \in Request, Done(r) \/ Leave(r)
    PROVE  CallEnds(r)
<1>1. call \in [Request -> Call] /\ NoCall \in Call
    BY NoCallOK DEF ClientInv, CallsOK
<1>. QED BY <1>1 DEF Done, Leave, Unloaded, CallEnds

(* However a call ends, the browser keeps its tokens, drops them, or takes  *)
(* those of the answer to a login.                                          *)
LEMMA EndsOK ==
    ASSUME ClientInv, NEW r \in Request, NEW status, Ends(r, status)
    PROVE  /\ CallEnds(r)
           /\ held' \in {held, Nil} \/ (status = 200 /\ held' = loc[r].id)
<1>1. Done(r) \/ Leave(r)
    BY DEF Ends
<1>2. held' \in {held, Nil} \/ (status = 200 /\ held' = loc[r].id)
    BY DEF Ends, clearTokens
<1>. QED BY <1>1, <1>2, DoneEnds

(* A refresh that failed ends the call.                                     *)
LEMMA ExpiredOK ==
    ASSUME ClientInv, NEW r \in Request, Expired(r)
    PROVE  CallEnds(r) /\ held' \in {held, Nil}
<1>1. Done(r) \/ Leave(r)
    BY DEF Expired
<1>. QED BY <1>1, DoneEnds DEF Expired, clearTokens

(* A lost answer ends the call, too.                                        *)
LEMMA LoseOK ==
    ASSUME ClientInv, NEW r \in Request, Lose(r)
    PROVE  CallEnds(r) /\ held' \in {held, Nil}
<1>1. Nil # 200
    BY IdAssumption
<1>. QED BY <1>1, EndsOK, ExpiredOK DEF Lose

(* A call that ends leaves nothing to ask for.                              *)
LEMMA CallEndsStep ==
    ASSUME ClientInv, NEW r \in Request, CallEnds(r),
           \A q \in Request \ {r} : pc'[q] = pc[q] /\ loc'[q] = loc[q],
           issued' = issued, held' \in DOMAIN issued \cup {Nil}
    PROVE  ClientInv'
<1>1. OthersStay(r) /\ CallOK(call'[r], pc'[r], loc'[r])
    BY NoCallOK DEF CallEnds, OthersStay
<1>. QED BY <1>1, SlotStep DEF ClientInv

(* Another phase of a call, with its slot in order.                         *)
LEMMA PhaseStep ==
    ASSUME ClientInv, NEW r \in Request,
           NEW p \in {"toRefresh", "refresh", "toRetry", "retry"}, Phase(r, p),
           call[r].kind \in Kinds \ {"login"}, Moves(r),
           call[r].kind = "files" =>
             FilesCallOK([call[r] EXCEPT !.phase = p], pc'[r], loc'[r])
    PROVE  CallsOK'
<1>. DEFINE c == [call[r] EXCEPT !.phase = p]
<1>1. call \in [Request -> Call] /\ call[r] \in Call
    BY DEF ClientInv, CallsOK
<1>2. c \in Call /\ c.phase = p /\ c.kind = call[r].kind
    BY <1>1 DEF Call
<1>3. call' = [call EXCEPT ![r] = c]
    BY <1>1 DEF Phase
<1>4. call' \in [Request -> Call] /\ call'[r] = c
    BY <1>1, <1>2, <1>3
<1>5. OthersStay(r)
    BY <1>1, <1>3, <1>4 DEF OthersStay, Moves
<1>6. CallOK(c, pc'[r], loc'[r])
  <2>. HIDE DEF c
  <2>1. c.kind = "files" => FilesCallOK(c, pc'[r], loc'[r])
      BY <1>2 DEF c
  <2>. QED BY <1>2, <2>1 DEF CallOK
<1>. QED BY <1>4, <1>5, <1>6, SlotStep

(* A call begins in a slot that is free on both sides.                      *)
LEMMA StartStep ==
    ASSUME ClientInv, NEW r \in Request, NEW t \in Tab, NEW kind \in Kinds, Moves(r),
           call' \in [Request -> Call], call'[r] = NewCall(kind, t),
           \A q \in Request \ {r} : call'[q] \in {call[q], NoCall},
           kind = "files" => SendsFor(kind, pc'[r], loc'[r])
    PROVE  CallsOK'
<1>1. OthersStay(r)
    BY DEF OthersStay, Moves
<1>2. CallOK(call'[r], pc'[r], loc'[r])
  <2>1. call'[r] \in Call /\ call'[r].phase = "first" /\ call'[r].kind = kind /\ call'[r].ran = 0
      BY DEF NewCall, Call
  <2>. QED BY <2>1 DEF CallOK, FilesCallOK, SendsFor, Op, Kinds
<1>. QED BY <1>1, <1>2, SlotStep

(* submitAuth, apiFor and boot begin a call.                                *)
LEMMA BeginsStep ==
    ASSUME ClientInv, SessionsInv, NEW r \in Request, NEW t \in Tab, Begins(r, t)
    PROVE  CallsOK' /\ held' = held
<1>1. TypeOK /\ call \in [Request -> Call] /\ NoCall \in Call
    BY NoCallOK DEF SessionsInv, ClientInv, CallsOK
<1>2. \A kind \in Kinds : NewCall(kind, t) \in Call
    BY DEF NewCall, Call
<1>3. CASE submitAuth(r, t)
  <2>1. call' = [call EXCEPT ![r] = NewCall("login", t)] /\ held' = held
      BY <1>3 DEF submitAuth, Start
  <2>2. [Blank EXCEPT !.op = "login"] \in Local /\ "findUser" \in Labels
      BY DEF Blank, Local, Labels
  <2>3. Moves(r)
      BY <1>1, <1>3, <2>2, BecomeMoves DEF submitAuth, BeginLogin
  <2>4. "login" \in Kinds
      BY DEF Kinds
  <2>. QED BY <1>1, <1>2, <2>1, <2>3, <2>4, StartStep
<1>4. CASE apiFor(r, t)
  <2>1. PICK kind \in {"files", "logout"} : Start(r, t, kind) /\ SendProtected(r, kind)
      BY <1>4 DEF apiFor
  <2>2. kind \in Kinds /\ kind \in Kinds \ {"login"}
      BY DEF Kinds
  <2>3. Moves(r) /\ SendsFor(kind, pc'[r], loc'[r])
      BY <1>1, <2>1, <2>2, SendMoves
  <2>4. call' = [call EXCEPT ![r] = NewCall(kind, t)] /\ held' = held
      BY <2>1 DEF Start
  <2>. QED BY <1>1, <1>2, <2>2, <2>3, <2>4, StartStep
<1>5. CASE boot(r, t)
  <2>1. call' = [Unloaded(t) EXCEPT ![r] = NewCall("boot", t)] /\ held' = held
      BY <1>5 DEF boot
  <2>2. "boot" \in Kinds /\ "boot" \in Kinds \ {"login"}
      BY DEF Kinds
  <2>3. Moves(r)
      BY <1>1, <1>5, <2>2, SendMoves DEF boot
  <2>4. /\ call' \in [Request -> Call] /\ call'[r] = NewCall("boot", t)
        /\ \A q \in Request \ {r} : call'[q] \in {call[q], NoCall}
      BY <1>1, <1>2, <2>1, <2>2 DEF Unloaded
  <2>. QED BY <2>1, <2>2, <2>3, <2>4, StartStep
<1>. QED BY <1>3, <1>4, <1>5 DEF Begins

(* refreshSession sends a refresh for a call that was refused, or ends it.  *)
LEMMA RefreshStep ==
    ASSUME ClientInv, SessionsInv, NEW r \in Request, refreshSession(r)
    PROVE  ClientInv'
<1>1. /\ TypeOK /\ call[r].phase = "toRefresh" /\ CallOK(call[r], pc[r], loc[r])
      /\ held \in DOMAIN issued \cup {Nil} /\ call[r] \in Call
    BY DEF SessionsInv, ClientInv, CallsOK, refreshSession
<1>2. CASE remote /\ held = Nil
  <2>1. Expired(r) /\ UNCHANGED vars
      BY <1>2 DEF refreshSession
  <2>. QED BY <1>1, <2>1, ExpiredOK, CallEndsStep DEF vars
<1>3. CASE ~(remote /\ held = Nil)
  <2>1. /\ Refused(r) \/ RefreshWith(r, held)
        /\ Phase(r, "refresh") /\ held' = held
      BY <1>3 DEF refreshSession
  <2>2. UNCHANGED table
      BY <2>1 DEF Refused, RefreshWith
  <2>3. Moves(r) /\ pc'[r] \in {"find", "reply"}
      BY <1>1, <2>1, RefreshMoves
  <2>4. call[r].kind \in Kinds \ {"login"}
      BY <1>1 DEF CallOK
  <2>5. call[r].kind = "files" =>
          FilesCallOK([call[r] EXCEPT !.phase = "refresh"], pc'[r], loc'[r])
      BY <1>1, <2>3 DEF CallOK, FilesCallOK, Call
  <2>6. CallsOK'
      BY <2>1, <2>3, <2>4, <2>5, PhaseStep
  <2>. QED BY <1>1, <2>1, <2>2, <2>6 DEF ClientInv, table
<1>. QED BY <1>2, <1>3

(* A call is sent once more after it was refused: it had not got to its     *)
(* handler.                                                                 *)
LEMMA RetryStep ==
    ASSUME ClientInv, SessionsInv, NEW r \in Request, Retry(r)
    PROVE  ClientInv'
<1>1. /\ TypeOK /\ call[r].phase = "toRetry" /\ CallOK(call[r], pc[r], loc[r])
      /\ held \in DOMAIN issued \cup {Nil} /\ call[r] \in Call
    BY DEF SessionsInv, ClientInv, CallsOK, Retry
<1>2. call[r].kind \in Kinds \ {"login"} /\ SendProtected(r, call[r].kind)
    BY <1>1 DEF CallOK, Retry
<1>3. Moves(r) /\ SendsFor(call[r].kind, pc'[r], loc'[r])
    BY <1>1, <1>2, SendMoves
<1>4. call[r].kind = "files" =>
        FilesCallOK([call[r] EXCEPT !.phase = "retry"], pc'[r], loc'[r])
    BY <1>1, <1>3 DEF CallOK, FilesCallOK, Call, SendsFor, Op
<1>5. CallsOK'
    BY <1>2, <1>3, <1>4, PhaseStep DEF Retry
<1>6. UNCHANGED table /\ held' = held
    BY <1>2 DEF Retry, SendProtected, Refused, ProtectedWith
<1>. QED BY <1>1, <1>5, <1>6 DEF ClientInv, table

(* An answer arrives.                                                       *)
LEMMA ReceiveStep ==
    ASSUME ClientInv, SessionsInv, NEW r \in Request, Receive(r)
    PROVE  ClientInv'
<1>1. /\ TypeOK /\ pc[r] = "reply" /\ CallOK(call[r], pc[r], loc[r])
      /\ held \in DOMAIN issued \cup {Nil} /\ call[r] \in Call
      /\ loc[r].id \in DOMAIN issued \cup {Nil} /\ issued' = issued
      /\ call[r].phase \in Sent
    BY DEF SessionsInv, RequestOK, ClientInv, CallsOK, Receive, table
<1>2. Moves(r) /\ pc'[r] = "idle"
  <2>1. Blank \in Local /\ "idle" \in Labels
      BY DEF Blank, Local, Labels
  <2>. QED BY <1>1, <2>1, BecomeMoves DEF Receive
<1>3. \A q \in Request \ {r} : pc'[q] = pc[q] /\ loc'[q] = loc[q]
    BY <1>2 DEF Moves
<1>4. CASE call[r].phase = "first" /\ loc[r].status = 401 /\ call[r].kind # "login"
  <2>1. Phase(r, "toRefresh") /\ held' = held
      BY <1>4 DEF Receive
  <2>2. call[r].kind \in Kinds \ {"login"}
      BY <1>1, <1>4 DEF CallOK
  <2>3. call[r].kind = "files" =>
          FilesCallOK([call[r] EXCEPT !.phase = "toRefresh"], pc'[r], loc'[r])
      BY <1>1, <1>2, <1>4 DEF CallOK, FilesCallOK, Call
  <2>4. CallsOK'
      BY <1>2, <2>1, <2>2, <2>3, PhaseStep
  <2>. QED BY <1>1, <2>1, <2>4 DEF ClientInv
<1>5. CASE call[r].phase = "refresh" /\ loc[r].status = 200
  <2>1. Phase(r, "toRetry") /\ held' = loc[r].id
      BY <1>5 DEF Receive
  <2>2. call[r].kind \in Kinds \ {"login"}
      BY <1>1, <1>5 DEF CallOK
  <2>3. call[r].kind = "files" =>
          FilesCallOK([call[r] EXCEPT !.phase = "toRetry"], pc'[r], loc'[r])
      BY <1>1, <1>2, <1>5 DEF CallOK, FilesCallOK, Call
  <2>4. CallsOK'
      BY <1>2, <2>1, <2>2, <2>3, PhaseStep
  <2>. QED BY <1>1, <2>1, <2>4 DEF ClientInv
<1>6. CASE call[r].phase = "refresh" /\ loc[r].status # 200
  <2>1. Expired(r)
      BY <1>6 DEF Receive
  <2>. QED BY <1>1, <1>3, <2>1, ExpiredOK, CallEndsStep
<1>7. CASE /\ ~(call[r].phase = "first" /\ loc[r].status = 401 /\ call[r].kind # "login")
           /\ call[r].phase # "refresh"
  <2>1. Ends(r, loc[r].status)
      BY <1>7 DEF Receive
  <2>. QED BY <1>1, <1>3, <2>1, EndsOK, CallEndsStep
<1>. QED BY <1>4, <1>5, <1>6, <1>7

(* The server works on the request of a slot, and counts it when it gets to *)
(* its handler.                                                             *)
LEMMA ServerStep ==
    ASSUME ClientInv, SessionsInv, NEW r \in Request, Server(r)
    PROVE  CallsOK' /\ held' = held
<1>. DEFINE c == call[r]
            served == pc'[r] = "serve" /\ c # NoCall
            d == IF served THEN [c EXCEPT !.ran = @ + 1] ELSE c
<1>1. c \in Call /\ call \in [Request -> Call] /\ CallOK(c, pc[r], loc[r])
    BY DEF ClientInv, CallsOK
<1>2. /\ Moves(r)
      /\ pc[r] # "reply" => ServerMoves(pc[r], loc[r], pc'[r], loc'[r])
    BY HandleMoves DEF Server
<1>3. pc[r] = "reply" => Answered(r) /\ c.phase \notin Sent
    BY DEF Server, Handle, FindUserByUsername, CreateSession, RotateUpdate, RotateCommit,
        FindActiveSessionByTokenHash, ValidateSession, RevokeSession, Serve,
        StatementFails, SqlLabels, Runs
<1>4. call' = [call EXCEPT ![r] = d] /\ held' = held
    BY <1>1 DEF Server
<1>5. /\ d \in Call /\ d.kind = c.kind /\ d.phase = c.phase
      /\ d.ran = IF served THEN c.ran + 1 ELSE c.ran
    BY <1>1 DEF Call
<1>6. c.phase = "none" => d = NoCall
    BY <1>1 DEF CallOK
<1>7. c.kind = "files" => FilesCallOK(d, pc'[r], loc'[r])
  <2>. SUFFICES ASSUME c.kind = "files" PROVE FilesCallOK(d, pc'[r], loc'[r])
      OBVIOUS
  <2>1. FilesCallOK(c, pc[r], loc[r]) /\ c.ran \in Nat
      BY <1>1 DEF CallOK, Call
  <2>. HIDE DEF d, c
  <2>2. CASE c.phase \in {"first", "retry"}
    <3>1. pc[r] \in {"validate", "serve"} /\ loc[r].op = "files"
        BY <1>2, <1>3, <2>1, <2>2 DEF FilesCallOK, ServerMoves, Sent
    <3>2. CASE pc[r] = "validate"
        BY <1>2, <1>5, <2>1, <2>2, <3>1, <3>2 DEF FilesCallOK, ServerMoves
    <3>3. CASE pc[r] = "serve"
        BY <1>2, <1>5, <2>1, <2>2, <3>1, <3>3 DEF FilesCallOK, ServerMoves
    <3>. QED BY <3>1, <3>2, <3>3
  <2>3. CASE c.phase \in {"toRefresh", "toRetry"}
      BY <1>2, <2>1, <2>3 DEF FilesCallOK, ServerMoves
  <2>4. CASE c.phase = "refresh"
    <3>1. pc[r] \in {"find", "rotate", "commit"}
        BY <1>2, <1>3, <2>1, <2>4 DEF FilesCallOK, ServerMoves, Sent
    <3>. QED BY <1>2, <1>5, <2>1, <2>4, <3>1 DEF FilesCallOK, ServerMoves
  <2>. QED BY <1>5, <2>2, <2>3, <2>4 DEF FilesCallOK
<1>. HIDE DEF d
<1>8. CallOK(d, pc'[r], loc'[r])
    BY <1>1, <1>5, <1>6, <1>7 DEF CallOK
<1>9. OthersStay(r) /\ call'[r] = d
  <2>. HIDE DEF c
  <2>1. d \in Call
      BY <1>5
  <2>2. /\ call' \in [Request -> Call] /\ call'[r] = d
        /\ \A q \in Request \ {r} : call'[q] = call[q]
      BY <1>1, <1>4, <2>1
  <2>. QED BY <1>2, <2>2 DEF OthersStay, Moves
<1>. QED BY <1>4, <1>8, <1>9, SlotStep

(* No step of the server forgets a token.                                   *)
LEMMA IssuedGrows ==
    ASSUME NEW r \in Request, Step(r) \/ Begin(r)
    PROVE  DOMAIN issued \subseteq DOMAIN issued'
BY DEF Begin, BeginLogin, BeginRefresh, RefreshWith, BeginProtected, ProtectedWith,
    Step, Handle, FindUserByUsername, CreateSession, FindActiveSessionByTokenHash,
    RotateUpdate, RotateCommit, ValidateSession, RevokeSession, Serve, StatementFails,
    Answered, table, Put

(* Every step of the client, of the network and of the server preserves     *)
(* the invariant of the client.                                             *)
LEMMA ClientStep ==
    ASSUME ClientInv, SessionsInv, [ClientNext]_all
    PROVE  ClientInv'
<1>1. held \in DOMAIN issued \cup {Nil}
    BY DEF ClientInv
<1>2. CASE UNCHANGED <<issued, pc, loc, held, call>>
    BY <1>2 DEF ClientInv, CallsOK
<1>3. CASE Tick /\ UNCHANGED browser
    BY <1>2, <1>3 DEF Tick, browser
<1>4. CASE Restart /\ UNCHANGED browser
  <2>1. UNCHANGED <<issued, held, call>> /\ \A r \in Request : pc'[r] = "idle"
      BY <1>4 DEF Restart, browser
  <2>2. \A r \in Request : CallOK(call[r], pc'[r], loc'[r])
      BY <2>1 DEF ClientInv, CallsOK, CallOK, FilesCallOK
  <2>. QED BY <2>1, <2>2 DEF ClientInv, CallsOK
<1>5. ASSUME NEW r \in Request, Client(r) PROVE ClientInv'
  <2>1. CASE ConnectionReset(r)
    <3>1. Lose(r) /\ UNCHANGED vars
        BY <2>1 DEF ConnectionReset
    <3>. QED BY <1>1, <3>1, LoseOK, CallEndsStep DEF vars
  <2>. QED BY <1>5, <2>1, RefreshStep, RetryStep, ReceiveStep DEF Client
<1>6. ASSUME NEW r \in Request, NetworkError(r) PROVE ClientInv'
  <2>1. Lose(r) /\ UNCHANGED vars
      BY <1>6 DEF NetworkError
  <2>. QED BY <1>1, <2>1, LoseOK, CallEndsStep DEF vars
<1>7. ASSUME NEW r \in Request, Server(r) PROVE ClientInv'
  <2>1. Step(r)
      BY <1>7 DEF Server, Step
  <2>2. DOMAIN issued \subseteq DOMAIN issued'
      BY <2>1, IssuedGrows
  <2>. QED BY <1>1, <1>7, <2>2, ServerStep DEF ClientInv
<1>8. ASSUME NEW r \in Request, NEW t \in Tab, Begins(r, t) PROVE ClientInv'
  <2>1. UNCHANGED issued
      BY <1>8 DEF Begins, submitAuth, apiFor, boot, SendProtected, Refused,
          BeginLogin, ProtectedWith, table
  <2>. QED BY <1>1, <1>8, <2>1, BeginsStep DEF ClientInv
<1>9. CASE UNCHANGED all
    BY <1>2, <1>9 DEF all, vars, browser
<1>. QED BY <1>3, <1>4, <1>5, <1>6, <1>7, <1>8, <1>9 DEF ClientNext

(* The client and the server together keep their invariants, however many   *)
(* tabs and calls there are.                                                *)
THEOREM ClientInvariant == ClientSpec => [](SessionsInv /\ ClientInv)
<1>1. ClientInit => SessionsInv /\ ClientInv
  <2>. SUFFICES ASSUME ClientInit PROVE SessionsInv /\ ClientInv
      OBVIOUS
  <2>1. SessionsInv
      BY InitOK DEF ClientInit
  <2>2. ClientInv
      BY NoCallOK DEF ClientInit, ClientInv, CallsOK
  <2>. QED BY <2>1, <2>2
<1>2. SessionsInv /\ ClientInv /\ [ClientNext]_all => (SessionsInv /\ ClientInv)'
    BY ClientStep, ClientStepsAreSessions, NextOK
<1>. QED BY <1>1, <1>2, PTL DEF ClientSpec

(* Composed with any number of tabs, the server behaves as Sessions says:   *)
(* what is proved of Sessions holds behind this client.                     *)
THEOREM ClientDrivesSessions == ClientSpec => Spec
<1>1. ClientInit => Init
    BY DEF ClientInit
<1>2. ClientInv /\ [ClientNext]_all => [Next]_vars
    BY ClientStepsAreSessions
<1>. QED BY <1>1, <1>2, ClientInvariant, PTL DEF ClientSpec, Spec

(* A mutation of files gets to its handler once at most, although apiFor    *)
(* and xhrRequestFor send a call again after a refresh.                     *)
THEOREM MutationsRunOnce == ClientSpec => []RanOnce
<1>1. ClientInv => RanOnce
  <2>. SUFFICES ASSUME ClientInv, NEW r \in Request, call[r].kind = "files"
                PROVE  call[r].ran <= 1
      BY DEF RanOnce
  <2>1. CallOK(call[r], pc[r], loc[r]) /\ call[r] \in Call
      BY DEF ClientInv, CallsOK
  <2>. QED BY <2>1 DEF CallOK, FilesCallOK, Call, NoCall
<1>. QED BY <1>1, ClientInvariant, PTL
=============================================================================
