----------------------------- MODULE WebClient -----------------------------
(***************************************************************************)
(* The web client (the script in handler/httpapi/web.go) composed with the *)
(* sessions of the server: one browser with tabs that share their tokens,  *)
(* and one server.                                                         *)
(*                                                                         *)
(* A call of apiFor or xhrRequestFor that is answered 401 refreshes the    *)
(* session and is sent once more.  Calls run concurrently, in one tab and  *)
(* in several, and each uses the request slot of its own name on the       *)
(* server.  The tokens are cookies, or, when the page talks to a server of *)
(* another origin, entries of localStorage that go into a bearer header.   *)
(***************************************************************************)
EXTENDS Sessions

CONSTANTS
    Tab,            \* tabs of the browser
    CsrfTTL,        \* lifetime of the CSRF cookie (setCSRFToken)
    Faults          \* whether the network, statements and the server may fail

ASSUME ClientAssumption == CsrfTTL \in Nat \ {0} /\ Faults \in BOOLEAN

VARIABLES
    remote,     \* serverIsRemote: bearer tokens instead of cookies
    held,       \* the session whose tokens the browser holds, or Nil
    csrf,       \* when the CSRF cookie lapses, or Nil without one
    page,       \* what every tab shows: the landing page ("away", where a
                \* logout leads), "loading" until boot has its answer,
                \* the sign-in form or the workspace (state.user is set)
    call        \* the call of every slot: [kind, tab, phase], and how
                \* often it got to its handler (history)

browser == <<remote, held, csrf, page, call>>
all == <<vars, browser>>

(* Sent calls wait for an answer; the others are about to be sent.          *)
Sent == {"first", "refresh", "retry"}

NoCall == [kind |-> Nil, tab |-> Nil, phase |-> "none", ran |-> 0]

NewCall(kind, t) == [kind |-> kind, tab |-> t, phase |-> "first", ran |-> 0]

Phase(r, p) == call' = [call EXCEPT ![r].phase = p]

Done(r) == call' = [call EXCEPT ![r] = NoCall]

Show(t, p) == page' = [page EXCEPT ![t] = p]

(***************************************************************************)
(* What a request carries.  A cookie client has to echo the CSRF cookie,   *)
(* in a mutation (safeCookieMutation) and in a refresh.                    *)
(***************************************************************************)
CsrfMissing == ~remote /\ held # Nil /\ (csrf = Nil \/ csrf <= now)

Op(kind) == IF kind = "boot" THEN "me" ELSE kind

Refused(r) == pc[r] = "idle" /\ Reply(r, 401) /\ UNCHANGED table

SendProtected(r, kind) ==
    IF kind # "boot" /\ CsrfMissing THEN Refused(r)
                                    ELSE ProtectedWith(r, Op(kind), held)

(***************************************************************************)
(* Calls begin.  The button of the sign-in form is disabled meanwhile.     *)
(***************************************************************************)
Start(r, t, kind) ==
    /\ call[r] = NoCall
    /\ call' = [call EXCEPT ![r] = NewCall(kind, t)]
    /\ UNCHANGED <<remote, held, csrf, page>>

submitAuth(r, t) ==
    /\ page[t] = "signIn"
    /\ \A q \in Request : call[q].tab = t => call[q].kind # "login"
    /\ Start(r, t, "login") /\ BeginLogin(r)

apiFor(r, t) ==
    /\ page[t] = "workspace"
    /\ \E kind \in {"files", "logout"} : Start(r, t, kind) /\ SendProtected(r, kind)

(* Scripts of the page that is left run no more.                            *)
Unloaded(t) == [q \in Request |-> IF call[q].tab = t THEN NoCall ELSE call[q]]

(* The page is loaded, and boot asks for me.                                *)
boot(r, t) ==
    /\ call[r] = NoCall
    /\ call' = [Unloaded(t) EXCEPT ![r] = NewCall("boot", t)]
    /\ Show(t, "loading")
    /\ SendProtected(r, "boot")
    /\ UNCHANGED <<remote, held, csrf>>

(***************************************************************************)
(* Calls end, with an answer or with an error (status Nil).  clearTokens   *)
(* only touches localStorage; cookies go when the answer says so           *)
(* (clearCookies).  A logout ends on the landing page whatever came of it. *)
(***************************************************************************)
clearTokens == held' = IF remote THEN Nil ELSE held

NewCsrf == csrf' = IF remote THEN Nil ELSE now + CsrfTTL

Leave(r) == Show(call[r].tab, "away") /\ call' = Unloaded(call[r].tab)

Ends(r, status) ==
    LET c == call[r] IN
    CASE c.kind = "login" /\ status = 200 ->
            /\ held' = loc[r].id /\ NewCsrf
            /\ Show(c.tab, "workspace") /\ Done(r)
      [] c.kind = "boot" /\ status = 200 ->
            NewCsrf /\ Show(c.tab, "workspace") /\ Done(r) /\ UNCHANGED held
      [] c.kind = "boot" /\ status # 200 ->
            clearTokens /\ Show(c.tab, "signIn") /\ Done(r) /\ UNCHANGED csrf
      [] c.kind = "logout" /\ status = 204 ->
            held' = Nil /\ csrf' = Nil /\ Leave(r)
      [] c.kind = "logout" /\ status # 204 ->
            clearTokens /\ Leave(r) /\ UNCHANGED csrf
      [] OTHER -> Done(r) /\ UNCHANGED <<held, csrf, page>>

(* The refresh failed.                                                      *)
Expired(r) ==
    /\ clearTokens
    /\ IF call[r].kind = "logout" THEN Leave(r) ELSE Show(call[r].tab, "signIn") /\ Done(r)
    /\ UNCHANGED csrf

(***************************************************************************)
(* refreshSessionFor.  A cookie client always asks; the answer's cookies   *)
(* replace those of the browser.                                           *)
(***************************************************************************)
refreshSession(r) ==
    /\ call[r].phase = "toRefresh" /\ pc[r] = "idle"
    /\ IF remote /\ held = Nil
       THEN Expired(r) /\ UNCHANGED vars
       ELSE /\ IF CsrfMissing THEN Refused(r) ELSE RefreshWith(r, held)
            /\ Phase(r, "refresh")
            /\ UNCHANGED <<held, csrf, page>>
    /\ UNCHANGED remote

Retry(r) ==
    /\ call[r].phase = "toRetry"
    /\ SendProtected(r, call[r].kind)
    /\ Phase(r, "retry")
    /\ UNCHANGED <<remote, held, csrf, page>>

(* An answer arrives.  Only the first 401 of a call leads to a refresh.     *)
Receive(r) ==
    /\ pc[r] = "reply" /\ call[r].phase \in Sent
    /\ LET status == loc[r].status IN
       CASE call[r].phase = "first" /\ status = 401 /\ call[r].kind # "login" ->
               Phase(r, "toRefresh") /\ UNCHANGED <<held, csrf, page>>
         [] call[r].phase = "refresh" /\ status = 200 ->
               held' = loc[r].id /\ Phase(r, "toRetry") /\ UNCHANGED <<csrf, page>>
         [] call[r].phase = "refresh" /\ status # 200 -> Expired(r)
         [] OTHER -> Ends(r, status)
    /\ Become(r, Blank, "idle")
    /\ UNCHANGED <<table, remote>>

(* Slip: a call whose answer is lost is sent once more.                     *)
LoseAndRetry(r) ==
    IF call[r].phase = "first" /\ call[r].kind = "files"
    THEN Phase(r, "toRetry") /\ UNCHANGED <<held, csrf, page>>
    ELSE IF call[r].phase = "refresh" THEN Expired(r) ELSE Ends(r, Nil)

(* The promise of fetch is rejected.                                        *)
Lose(r) == IF call[r].phase = "refresh" THEN Expired(r) ELSE Ends(r, Nil)

(* The connection breaks before the answer; the server does not notice.     *)
NetworkError(r) ==
    /\ Faults /\ call[r].phase \in Sent /\ pc[r] # "idle"
    /\ Lose(r)
    /\ UNCHANGED <<vars, remote>>

(* The server that had the request is gone.                                 *)
ConnectionReset(r) ==
    /\ call[r].phase \in Sent /\ pc[r] = "idle"
    /\ Lose(r)
    /\ UNCHANGED <<vars, remote>>

Client(r) == refreshSession(r) \/ Retry(r) \/ Receive(r) \/ ConnectionReset(r)

(***************************************************************************)
(* The server.  Answers to calls that the browser has given up are lost.   *)
(***************************************************************************)
Server(r) ==
    /\ \/ Handle(r)
       \/ Faults /\ StatementFails(r)
       \/ Answered(r) /\ call[r].phase \notin Sent
    /\ call' = IF pc'[r] = "serve" /\ call[r] # NoCall THEN [call EXCEPT ![r].ran = @ + 1]
                                                      ELSE call
    /\ UNCHANGED <<remote, held, csrf, page>>

Begins(r, t) == submitAuth(r, t) \/ apiFor(r, t) \/ boot(r, t)

ClientInit ==
    /\ Init
    /\ remote \in BOOLEAN
    /\ held = Nil /\ csrf = Nil
    /\ page = [t \in Tab |-> "away"]
    /\ call = [r \in Request |-> NoCall]

ClientNext ==
    \/ Tick /\ UNCHANGED browser
    \/ Faults /\ Restart /\ UNCHANGED browser
    \/ \E r \in Request : Client(r) \/ NetworkError(r) \/ Server(r)
    \/ \E r \in Request, t \in Tab : Begins(r, t)

ClientSpec == ClientInit /\ [][ClientNext]_all

(* The server's requests as in Sessions; scripts run, and answers arrive.   *)
FairClientSpec == ClientSpec /\ \A r \in Request :
    WF_all(Client(r)) /\ SF_all(Server(r))

(***************************************************************************)
(* Properties.                                                             *)
(***************************************************************************)
(* A mutation of files gets to its handler once at most, however often the  *)
(* client sends it: only a call that was refused before is sent again.      *)
RanOnce == \A r \in Request : call[r].kind = "files" => call[r].ran <= 1

(* Every call of the page is settled: there is no circle of 401s and        *)
(* refreshes, and nobody waits for ever behind the connection.              *)
Settles == \A r \in Request : call[r] # NoCall ~> call[r] = NoCall
=============================================================================
