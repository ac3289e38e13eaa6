---------------------------- MODULE RateLimiter ----------------------------
(***************************************************************************)
(* The in-memory limiter in front of login and refresh (middleware).       *)
(*                                                                         *)
(* A window opens with the first request of a client and lasts Window.     *)
(* allow runs under the mutex and reads the clock there, so that a call is *)
(* one step.  A client is a key: the host of RemoteAddr.                   *)
(*                                                                         *)
(* The clock counts instants, Second of which make a second: a window may  *)
(* be any duration, while Retry-After is a number of whole seconds.        *)
(***************************************************************************)
EXTENDS Naturals, Sequences, FiniteSets

CONSTANTS
    Client,     \* hosts that send requests
    Limit,      \* requests per window
    Window,     \* length of a window
    Second,     \* length of a second
    MaxTime,    \* bound on the clock
    Nil

ASSUME LimitAssumption == Limit \in Nat \ {0} /\ Window \in Nat \ {0}
ASSUME SecondAssumption == Second \in Nat \ {0}
ASSUME TimeAssumption == MaxTime \in Nat /\ Nil \notin Nat

VARIABLES
    entries,    \* client -> [started, count]
    now,        \* the clock
    hits,       \* history: when requests were admitted, in order, by client
    refused     \* history: when the last request of a client was refused, or Nil

vars == <<entries, now, hits, refused>>

Entry == [started : Nat, count : Nat]

Put(f, x, v) == [y \in DOMAIN f \cup {x} |-> IF y = x THEN v ELSE f[y]]

Over(e) == now - e.started >= Window

(* The sweep at the head of allow drops the windows that are over.          *)
Swept == [c \in {d \in DOMAIN entries : ~Over(entries[d])} |-> entries[c]]

(* Slip: the request that fills the window is refused as well.              *)
FullEarly(c) == entries[c].count + 1 >= Limit

Full(c) == entries[c].count >= Limit

(* Slip: the count lives on in the next window.                             *)
FirstCounted(c) ==
    IF c \in DOMAIN entries THEN [started |-> now, count |-> entries[c].count]
                            ELSE [started |-> now, count |-> 1]

First(c) == [started |-> now, count |-> 1]

(* Slip: a window opens with every request.                                 *)
OneMoreSliding(c) == [started |-> now, count |-> 1]

OneMore(c) == [entries[c] EXCEPT !.count = @ + 1]

InWindow(c) == c \in DOMAIN entries /\ ~Over(entries[c])

(* What allow would answer.                                                 *)
Admits(c) == InWindow(c) => ~Full(c)

Admit(c) ==
    /\ Admits(c)
    /\ entries' = Put(Swept, c, IF InWindow(c) THEN OneMore(c) ELSE First(c))
    /\ hits' = [hits EXCEPT ![c] = Append(@, now)]
    /\ refused' = [refused EXCEPT ![c] = Nil]
    /\ now' = now

(* Slip: the window in minutes.                                             *)
RetryAfterMinutes == Window \div (60 * Second)

(* What a 429 announces: the window, its fraction of a second cut off.      *)
RetryAfter == Window \div Second

(* 429 with Retry-After; the sweep has happened all the same.               *)
Refuse(c) ==
    /\ ~Admits(c)
    /\ entries' = Swept
    /\ refused' = [refused EXCEPT ![c] = now]
    /\ UNCHANGED <<hits, now>>

Tick ==
    /\ now < MaxTime
    /\ now' = now + 1
    /\ UNCHANGED <<entries, hits, refused>>

Init ==
    /\ entries = [c \in {} |-> Nil]
    /\ now = 0
    /\ hits = [c \in Client |-> << >>]
    /\ refused = [c \in Client |-> Nil]

Next == Tick \/ \E c \in Client : Admit(c) \/ Refuse(c)

Spec == Init /\ [][Next]_vars

(***************************************************************************)
(* Properties.                                                             *)
(***************************************************************************)
(* Requests of c admitted at the times T.                                   *)
Admitted(c, T) == Cardinality({i \in DOMAIN hits[c] : hits[c][i] \in T})

(* Types, and: the count of a window is the number of requests admitted in  *)
(* it.                                                                      *)
TypeOK ==
    /\ DOMAIN entries \subseteq Client
    /\ \A c \in DOMAIN entries : entries[c] \in Entry
    /\ now \in 0..MaxTime
    /\ refused \in [Client -> 0..MaxTime \cup {Nil}]
    /\ \A c \in DOMAIN entries : LET s == entries[c].started IN
         entries[c].count = Admitted(c, s..(s + Window - 1))

(* "limits requests per client key in a fixed time window": a stretch of    *)
(* that length, wherever it begins, meets two windows at most, and reaches  *)
(* the request that opens a window before the last instants of the same     *)
(* window, so that it never holds twice the limit.                          *)
BurstBound == \A c \in Client, s \in 0..MaxTime :
    Admitted(c, s..(s + Window - 1)) <= 2 * Limit - 1

(* A client is refused only for what it sent itself, and recently: the      *)
(* limit was admitted within the window that ends with the refusal.         *)
RefusalJustified == \A c \in Client : refused[c] # Nil =>
    Admitted(c, {t \in 0..refused[c] : t + Window > refused[c]}) >= Limit

(* A client that waits as long as the Retry-After of its last 429 says is   *)
(* let in, if the window is a whole number of seconds.  If it is not, it    *)
(* may be refused once more, and has to wait one second longer.             *)
Slack == IF Window % Second = 0 THEN 0 ELSE 1

RetryAfterKept == \A c \in Client :
    refused[c] # Nil /\ now >= refused[c] + (RetryAfter + Slack) * Second => Admits(c)
=============================================================================
