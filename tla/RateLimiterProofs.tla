------------------------- MODULE RateLimiterProofs -------------------------
(***************************************************************************)
(* Machine-checked proofs about RateLimiter: for every limit, window and   *)
(* number of clients, how much a client is let in at most, and when it is  *)
(* refused.                                                                *)
(***************************************************************************)
EXTENDS RateLimiter, FiniteSetTheorems, SequenceTheorems, WellFoundedInduction, TLAPS

(***************************************************************************)
(* The inductive invariant.  h are the times at which requests of a client *)
(* were admitted, and t is the time.                                       *)
(***************************************************************************)
Ordered(h, t) ==
    /\ h \in Seq(Nat)
    /\ \A i, j \in 1..Len(h) : i <= j => h[i] <= h[j] /\ h[j] <= t

(* The first m requests belong to windows that are over at t, and the last  *)
(* of these windows, which holds the limit at most, begins with one of them.*)
Past(h, m, t) == m = 0 \/
    /\ h[m] < t
    /\ \E q \in 1..m : m - q < Limit /\ h[q] + Window <= t

(* The window e holds the last requests, and begins with the first of them. *)
WindowIs(h, e) ==
    /\ e \in Entry /\ e.count \in 1..Limit /\ e.count <= Len(h)
    /\ h[Len(h) - e.count + 1] = e.started /\ h[Len(h)] < e.started + Window
    /\ Past(h, Len(h) - e.count, e.started)

(* Among any 2 * Limit requests in a row, the last comes a window after the *)
(* first.                                                                   *)
Spread(h) == \A i, j \in 1..Len(h) :
    j = i + 2 * Limit - 1 => h[i] + Window <= h[j]

(* The refusal at r came after the limit, admitted within the window.       *)
RefusedIs(h, r, t) == r # Nil =>
    /\ r <= t /\ Len(h) >= Limit /\ h[Len(h)] <= r
    /\ h[Len(h) - Limit + 1] + Window > r

ClientInv(c) ==
    /\ Ordered(hits[c], now) /\ Spread(hits[c])
    /\ IF c \in DOMAIN entries THEN WindowIs(hits[c], entries[c])
                               ELSE Past(hits[c], Len(hits[c]), now)
    /\ RefusedIs(hits[c], refused[c], now)

RateInv ==
    /\ DOMAIN entries \subseteq Client /\ now \in 0..MaxTime
    /\ refused \in [Client -> 0..MaxTime \cup {Nil}]
    /\ DOMAIN hits = Client
    /\ \A c \in Client : ClientInv(c)

(***************************************************************************)
(* Time passes.                                                            *)
(***************************************************************************)
(* What holds of a client goes on to hold.                                  *)
LEMMA Later ==
    ASSUME NEW h, NEW t \in Nat, NEW u \in Nat, t <= u, Ordered(h, t),
           NEW m \in 0..Len(h), NEW r \in Nat \cup {Nil}
    PROVE  /\ Ordered(h, u)
           /\ Past(h, m, t) => Past(h, m, u)
           /\ RefusedIs(h, r, t) => RefusedIs(h, r, u)
<1>1. Len(h) \in Nat /\ \A i \in 1..Len(h) : h[i] \in Nat
    BY DEF Ordered
<1>2. Ordered(h, u)
    BY <1>1 DEF Ordered
<1>3. ASSUME Past(h, m, t) PROVE Past(h, m, u)
  <2>1. CASE m = 0
      BY <2>1 DEF Past
  <2>2. CASE m # 0
    <3>1. m \in 1..Len(h) /\ h[m] < t
        BY <1>1, <1>3, <2>2 DEF Past
    <3>2. PICK q \in 1..m : m - q < Limit /\ h[q] + Window <= t
        BY <1>3, <2>2 DEF Past
    <3>3. q \in 1..Len(h)
        BY <1>1, <3>1
    <3>4. h[m] < u /\ h[q] + Window <= u
        BY <1>1, <3>1, <3>2, <3>3, LimitAssumption
    <3>. QED BY <3>2, <3>4 DEF Past
  <2>. QED BY <2>1, <2>2
<1>4. RefusedIs(h, r, t) => RefusedIs(h, r, u)
    BY <1>1 DEF RefusedIs
<1>. QED BY <1>2, <1>3, <1>4

(* A window that is over leaves its requests to the past.                   *)
LEMMA WindowPasses ==
    ASSUME NEW h, NEW e, NEW t \in Nat, Ordered(h, t), WindowIs(h, e),
           t - e.started >= Window
    PROVE  Past(h, Len(h), t)
<1>1. /\ Len(h) \in Nat /\ \A i \in 1..Len(h) : h[i] \in Nat
      /\ Limit \in Nat \ {0} /\ Window \in Nat \ {0}
    BY LimitAssumption DEF Ordered
<1>2. /\ e.started \in Nat /\ e.count \in 1..Limit /\ e.count <= Len(h)
      /\ h[Len(h) - e.count + 1] = e.started /\ h[Len(h)] < e.started + Window
    BY DEF WindowIs, Entry
<1>3. PICK q : q = Len(h) - e.count + 1
    OBVIOUS
<1>4. q \in 1..Len(h) /\ Len(h) - q < Limit /\ h[q] + Window <= t
  <2>1. PICK k \in Nat, n \in Nat : k = e.count /\ n = Len(h)
      BY <1>1, <1>2
  <2>2. k >= 1 /\ k <= Limit /\ k <= n /\ q = n - k + 1
      BY <1>1, <1>2, <1>3, <2>1
  <2>3. q \in 1..n /\ n - q < Limit
      BY <1>1, <2>2
  <2>4. h[q] = e.started
      BY <1>2, <1>3
  <2>. QED BY <1>1, <1>2, <2>1, <2>3, <2>4
<1>5. h[Len(h)] < t
  <2>1. Len(h) \in 1..Len(h)
      BY <1>1, <1>2
  <2>2. PICK x \in Nat, y \in Nat : x = h[Len(h)] /\ y = e.started
      BY <1>1, <1>2, <2>1
  <2>3. x < y + Window /\ t - y >= Window
      BY <1>2, <2>2
  <2>4. x < t
      BY <1>1, <2>3
  <2>. QED BY <2>2, <2>4
<1>. QED BY <1>4, <1>5 DEF Past

(***************************************************************************)
(* A request is admitted.                                                  *)
(***************************************************************************)
(* The sequence of times grows at its end.                                  *)
LEMMA Grows ==
    ASSUME NEW h, NEW t \in Nat, Ordered(h, t)
    PROVE  LET g == Append(h, t) IN
           /\ Ordered(g, t) /\ Len(g) = Len(h) + 1 /\ g[Len(g)] = t
           /\ \A i \in 1..Len(h) : g[i] = h[i]
           /\ \A m \in 0..Len(h) : \A u : Past(h, m, u) => Past(g, m, u)
<1>1. PICK g : g = Append(h, t)
    OBVIOUS
<1>2. /\ g \in Seq(Nat) /\ Len(g) = Len(h) + 1 /\ g[Len(h) + 1] = t
      /\ \A i \in 1..Len(h) : g[i] = h[i]
  <2>1. h \in Seq(Nat)
      BY DEF Ordered
  <2>. QED BY <1>1, <2>1, AppendProperties
<1>3. Len(h) \in Nat /\ \A i \in 1..Len(h) : h[i] \in Nat /\ h[i] <= t
    BY DEF Ordered
<1>4. \A i, j \in 1..Len(g) : i <= j => g[i] <= g[j] /\ g[j] <= t
  <2>1. SUFFICES ASSUME NEW i \in 1..Len(g), NEW j \in 1..Len(g), i <= j
                 PROVE  g[i] <= g[j] /\ g[j] <= t
      OBVIOUS
  <2>2. CASE j \in 1..Len(h)
    <3>1. i \in 1..Len(h)
        BY <1>3, <2>1, <2>2
    <3>. QED BY <1>2, <2>1, <2>2, <3>1 DEF Ordered
  <2>3. CASE j = Len(h) + 1
    <3>1. i \in 1..Len(h) \/ i = Len(h) + 1
        BY <1>2, <1>3
    <3>. QED BY <1>2, <1>3, <2>3, <3>1
  <2>. QED BY <1>2, <1>3, <2>2, <2>3
<1>5. ASSUME NEW m \in 0..Len(h), NEW u, Past(h, m, u) PROVE Past(g, m, u)
  <2>1. CASE m = 0
      BY <2>1 DEF Past
  <2>2. CASE m # 0
    <3>1. m \in 1..Len(h) /\ \A q \in 1..m : q \in 1..Len(h)
        BY <1>3, <2>2
    <3>. QED BY <1>2, <1>5, <2>2, <3>1 DEF Past
  <2>. QED BY <2>1, <2>2
<1>6. Ordered(g, t) /\ g[Len(g)] = t
    BY <1>2, <1>4 DEF Ordered
<1>. QED BY <1>1, <1>2, <1>5, <1>6

(* If the windows before the one at b are over when it begins, and it holds *)
(* the limit at most, then 2 * Limit requests span more than a window.      *)
LEMMA StaysSpread ==
    ASSUME NEW h, NEW t \in Nat, Ordered(h, t), Spread(h),
           NEW b \in 1..(Len(h) + 1), Len(h) + 1 - b < Limit,
           NEW s \in Nat, s <= t, Past(h, b - 1, s)
    PROVE  Spread(Append(h, t))
<1>1. PICK g : g = Append(h, t)
    OBVIOUS
<1>2. /\ Len(g) = Len(h) + 1 /\ g[Len(h) + 1] = t
      /\ \A i \in 1..Len(h) : g[i] = h[i]
    BY <1>1, Grows
<1>3. /\ Len(h) \in Nat /\ \A i \in 1..Len(h) : h[i] \in Nat
      /\ Limit \in Nat \ {0} /\ Window \in Nat \ {0}
    BY LimitAssumption DEF Ordered
<1>4. SUFFICES ASSUME NEW i \in 1..Len(g), NEW j \in 1..Len(g), j = i + 2 * Limit - 1
               PROVE  g[i] + Window <= g[j]
    BY <1>1 DEF Spread
<1>5. i \in 1..Len(h)
    BY <1>2, <1>3, <1>4
<1>6. CASE j \in 1..Len(h)
    BY <1>2, <1>4, <1>5, <1>6 DEF Spread
<1>7. CASE j = Len(h) + 1
  <2>1. b - 1 # 0 /\ i <= b - Limit /\ i >= 1
      BY <1>3, <1>4, <1>5, <1>7
  <2>2. PICK q \in 1..(b - 1) : (b - 1) - q < Limit /\ h[q] + Window <= s
      BY <2>1 DEF Past
  <2>3. i <= q /\ q \in 1..Len(h)
      BY <1>3, <2>1, <2>2
  <2>4. h[i] <= h[q]
      BY <1>5, <2>3 DEF Ordered
  <2>5. g[i] = h[i] /\ g[j] = t
      BY <1>2, <1>5, <1>7
  <2>6. PICK x \in Nat, y \in Nat : x = h[i] /\ y = h[q]
      BY <1>3, <1>5, <2>3
  <2>7. x <= y /\ y + Window <= s
      BY <2>2, <2>4, <2>6
  <2>8. x + Window <= t
      BY <1>3, <2>7
  <2>. QED BY <2>5, <2>6, <2>8
<1>8. j \in 1..Len(h) \/ j = Len(h) + 1
    BY <1>2, <1>3
<1>. QED BY <1>6, <1>7, <1>8

(* A request that opens a window.                                           *)
LEMMA Opens ==
    ASSUME NEW h, NEW t \in Nat, Ordered(h, t), Spread(h), Past(h, Len(h), t)
    PROVE  /\ Spread(Append(h, t))
           /\ WindowIs(Append(h, t), [started |-> t, count |-> 1])
<1>1. /\ Len(h) \in Nat /\ Limit \in Nat \ {0} /\ Window \in Nat \ {0}
    BY LimitAssumption DEF Ordered
<1>2. PICK g : g = Append(h, t)
    OBVIOUS
<1>3. /\ Len(g) = Len(h) + 1 /\ g[Len(g)] = t
      /\ \A m \in 0..Len(h) : \A u : Past(h, m, u) => Past(g, m, u)
    BY <1>2, Grows
<1>4. Spread(g)
  <2>1. PICK b : b = Len(h) + 1
      OBVIOUS
  <2>2. b \in 1..(Len(h) + 1) /\ Len(h) + 1 - b < Limit /\ b - 1 = Len(h) /\ t <= t
      BY <1>1, <2>1
  <2>. QED BY <1>2, <2>2, StaysSpread
<1>5. PICK e : e = [started |-> t, count |-> 1]
    OBVIOUS
<1>6. e \in Entry /\ e.started = t /\ e.count = 1
    BY <1>5 DEF Entry
<1>7. /\ e.count \in 1..Limit /\ e.count <= Len(g) /\ Len(g) - e.count + 1 = Len(g)
      /\ Len(g) - e.count = Len(h) /\ Len(h) \in 0..Len(h) /\ t < t + Window
    BY <1>1, <1>3, <1>6
<1>8. Past(g, Len(g) - e.count, t)
    BY <1>3, <1>7
<1>9. WindowIs(g, e)
    BY <1>3, <1>6, <1>7, <1>8 DEF WindowIs
<1>. QED BY <1>2, <1>4, <1>5, <1>9

(* A further request of a window that is neither over nor full.             *)
LEMMA Counts ==
    ASSUME NEW h, NEW t \in Nat, Ordered(h, t), Spread(h),
           NEW e, WindowIs(h, e), t - e.started < Window, e.count < Limit
    PROVE  /\ Spread(Append(h, t))
           /\ WindowIs(Append(h, t), [e EXCEPT !.count = @ + 1])
<1>1. /\ Len(h) \in Nat /\ Limit \in Nat \ {0} /\ Window \in Nat \ {0}
      /\ \A i \in 1..Len(h) : h[i] \in Nat /\ h[i] <= t
    BY LimitAssumption DEF Ordered
<1>2. PICK g : g = Append(h, t)
    OBVIOUS
<1>3. /\ Len(g) = Len(h) + 1 /\ g[Len(g)] = t
      /\ \A i \in 1..Len(h) : g[i] = h[i]
      /\ \A m \in 0..Len(h) : \A u : Past(h, m, u) => Past(g, m, u)
    BY <1>2, Grows
<1>4. /\ e \in Entry /\ e.started \in Nat /\ e.count \in 1..Limit /\ e.count <= Len(h)
      /\ h[Len(h) - e.count + 1] = e.started
      /\ Past(h, Len(h) - e.count, e.started)
    BY DEF WindowIs, Entry
<1>5. PICK b : b = Len(h) - e.count + 1
    OBVIOUS
<1>6. /\ b \in 1..Len(h) /\ b \in 1..(Len(h) + 1) /\ Len(h) + 1 - b <= e.count
      /\ b - 1 = Len(h) - e.count /\ h[b] = e.started /\ e.started <= t
      /\ b - 1 \in 0..Len(h) /\ Len(h) + 1 - b < Limit
  <2>1. PICK k \in Nat, n \in Nat : k = e.count /\ n = Len(h)
      BY <1>1, <1>4
  <2>2. k >= 1 /\ k <= n /\ b = n - k + 1 /\ k < Limit
      BY <1>1, <1>4, <1>5, <2>1
  <2>3. /\ b \in 1..n /\ b \in 1..(n + 1) /\ n + 1 - b <= k /\ b - 1 = n - k
        /\ b - 1 \in 0..n /\ n + 1 - b < Limit
      BY <1>1, <2>2
  <2>4. h[b] = e.started
      BY <1>4, <1>5
  <2>5. e.started <= t
      BY <1>1, <2>1, <2>3, <2>4
  <2>. QED BY <2>1, <2>3, <2>4, <2>5
<1>7. Spread(g)
    BY <1>2, <1>4, <1>6, StaysSpread
<1>8. PICK f : f = [e EXCEPT !.count = @ + 1]
    OBVIOUS
<1>9. f \in Entry /\ f.started = e.started /\ f.count = e.count + 1
    BY <1>4, <1>8 DEF Entry
<1>10. /\ f.count \in 1..Limit /\ f.count <= Len(g) /\ Len(g) - f.count + 1 = b
       /\ Len(g) - f.count = b - 1 /\ t < f.started + Window
  <2>1. PICK k \in Nat, n \in Nat : k = e.count /\ n = Len(h)
      BY <1>1, <1>4
  <2>2. /\ k >= 1 /\ k <= n /\ b = n - k + 1 /\ k < Limit
        /\ f.count = k + 1 /\ Len(g) = n + 1
      BY <1>1, <1>3, <1>4, <1>5, <1>9, <2>1
  <2>3. t < f.started + Window
      BY <1>1, <1>4, <1>9
  <2>. QED BY <1>1, <2>2, <2>3
<1>11. Past(g, Len(g) - f.count, f.started) /\ g[b] = f.started
    BY <1>3, <1>4, <1>6, <1>9, <1>10
<1>12. WindowIs(g, f)
    BY <1>3, <1>9, <1>10, <1>11 DEF WindowIs
<1>. QED BY <1>2, <1>7, <1>8, <1>12

(***************************************************************************)
(* Steps.                                                                  *)
(***************************************************************************)
(* The sweep takes nothing from a client whose window is not over.          *)
LEMMA SweepKeeps ==
    ASSUME RateInv, NEW d \in Client, NEW es,
           d \in DOMAIN es <=> InWindow(d), InWindow(d) => es[d] = entries[d]
    PROVE  IF d \in DOMAIN es THEN WindowIs(hits[d], es[d])
                              ELSE Past(hits[d], Len(hits[d]), now)
<1>1. now \in Nat /\ ClientInv(d)
    BY TimeAssumption DEF RateInv
<1>2. CASE InWindow(d)
    BY <1>1, <1>2 DEF ClientInv, InWindow
<1>3. CASE d \notin DOMAIN entries
    BY <1>1, <1>3 DEF ClientInv, InWindow
<1>4. CASE d \in DOMAIN entries /\ ~InWindow(d)
  <2>1. Ordered(hits[d], now) /\ WindowIs(hits[d], entries[d])
      BY <1>1, <1>4 DEF ClientInv
  <2>2. now - entries[d].started >= Window
      BY <1>4 DEF InWindow, Over
  <2>3. Past(hits[d], Len(hits[d]), now)
      BY <1>1, <2>1, <2>2, WindowPasses
  <2>. QED BY <1>4, <2>3
<1>. QED BY <1>2, <1>3, <1>4

(* The windows that the sweep leaves.                                       *)
LEMMA SweptWindows ==
    /\ DOMAIN Swept \subseteq DOMAIN entries
    /\ \A d : d \in DOMAIN Swept <=> InWindow(d)
    /\ \A d \in DOMAIN Swept : Swept[d] = entries[d]
BY DEF Swept, InWindow

(* A request is let in.                                                     *)
LEMMA AdmitStep ==
    ASSUME RateInv, NEW c \in Client, Admit(c)
    PROVE  RateInv'
<1>1. /\ DOMAIN entries \subseteq Client /\ now \in 0..MaxTime /\ now \in Nat
      /\ refused \in [Client -> 0..MaxTime \cup {Nil}] /\ DOMAIN hits = Client
      /\ \A d \in Client : ClientInv(d)
    BY TimeAssumption DEF RateInv
<1>2. /\ now' = now /\ refused' = [refused EXCEPT ![c] = Nil]
      /\ DOMAIN hits' = Client /\ hits'[c] = Append(hits[c], now)
      /\ \A d \in Client \ {c} : hits'[d] = hits[d]
    BY <1>1 DEF Admit
<1>3. PICK v : v = IF InWindow(c) THEN OneMore(c) ELSE First(c)
    OBVIOUS
<1>4. entries' = Put(Swept, c, v)
    BY <1>3 DEF Admit
<1>5. /\ DOMAIN entries' = DOMAIN Swept \cup {c} /\ entries'[c] = v
      /\ \A d \in DOMAIN Swept : d # c => entries'[d] = Swept[d]
    BY <1>4 DEF Put
<1>6. DOMAIN entries' \subseteq Client /\ refused' \in [Client -> 0..MaxTime \cup {Nil}]
    BY <1>1, <1>2, <1>5, SweptWindows
<1>7. ASSUME NEW d \in Client, d # c PROVE ClientInv(d)'
  <2>1. /\ d \in DOMAIN entries' <=> InWindow(d)
        /\ InWindow(d) => entries'[d] = entries[d]
      BY <1>5, <1>7, SweptWindows
  <2>2. PICK es : es = entries'
      OBVIOUS
  <2>3. IF d \in DOMAIN es THEN WindowIs(hits[d], es[d])
                           ELSE Past(hits[d], Len(hits[d]), now)
      BY <2>1, <2>2, SweepKeeps
  <2>4. hits'[d] = hits[d] /\ refused'[d] = refused[d]
      BY <1>1, <1>2, <1>7
  <2>. QED BY <1>1, <1>2, <2>2, <2>3, <2>4 DEF ClientInv
<1>8. ClientInv(c)'
  <2>1. Ordered(hits[c], now) /\ Spread(hits[c])
      BY <1>1 DEF ClientInv
  <2>2. Ordered(Append(hits[c], now), now)
      BY <1>1, <2>1, Grows
  <2>3. Spread(Append(hits[c], now)) /\ WindowIs(Append(hits[c], now), v)
    <3>1. CASE InWindow(c)
      <4>1. v = [entries[c] EXCEPT !.count = @ + 1]
          BY <1>3, <3>1 DEF OneMore
      <4>2. WindowIs(hits[c], entries[c])
          BY <1>1, <3>1 DEF ClientInv, InWindow
      <4>3. ~(now - entries[c].started >= Window) /\ ~(entries[c].count >= Limit)
          BY <3>1 DEF Admit, Admits, Full, InWindow, Over
      <4>4. entries[c].started \in Nat /\ entries[c].count \in Nat
          BY <4>2 DEF WindowIs, Entry
      <4>5. now - entries[c].started < Window /\ entries[c].count < Limit
          BY <1>1, <4>3, <4>4, LimitAssumption
      <4>. QED BY <1>1, <2>1, <4>1, <4>2, <4>5, Counts
    <3>2. CASE ~InWindow(c)
      <4>1. v = [started |-> now, count |-> 1]
          BY <1>3, <3>2 DEF First
      <4>2. PICK es : es = Swept
          OBVIOUS
      <4>3. c \notin DOMAIN es
          BY <3>2, <4>2, SweptWindows
      <4>4. Past(hits[c], Len(hits[c]), now)
          BY <3>2, <4>3, SweepKeeps
      <4>. QED BY <1>1, <2>1, <4>1, <4>4, Opens
    <3>. QED BY <3>1, <3>2
  <2>4. c \in DOMAIN entries' /\ refused'[c] = Nil
      BY <1>1, <1>2, <1>5
  <2>. QED BY <1>2, <1>5, <2>2, <2>3, <2>4 DEF ClientInv, RefusedIs
<1>9. \A d \in Client : ClientInv(d)'
    BY <1>7, <1>8
<1>. QED BY <1>1, <1>2, <1>6, <1>9 DEF RateInv

(* A request is refused: the limit was admitted within this window.         *)
LEMMA RefuseStep ==
    ASSUME RateInv, NEW c \in Client, Refuse(c)
    PROVE  RateInv'
<1>1. /\ DOMAIN entries \subseteq Client /\ now \in 0..MaxTime /\ now \in Nat
      /\ refused \in [Client -> 0..MaxTime \cup {Nil}] /\ DOMAIN hits = Client
      /\ \A d \in Client : ClientInv(d)
    BY TimeAssumption DEF RateInv
<1>2. /\ now' = now /\ hits' = hits /\ entries' = Swept
      /\ refused' = [refused EXCEPT ![c] = now]
    BY DEF Refuse
<1>3. DOMAIN entries' \subseteq Client /\ refused' \in [Client -> 0..MaxTime \cup {Nil}]
    BY <1>1, <1>2, SweptWindows
<1>4. RefusedIs(hits[c], now, now)
  <2>1. InWindow(c) /\ Full(c)
      BY DEF Refuse, Admits
  <2>2. WindowIs(hits[c], entries[c]) /\ Ordered(hits[c], now)
      BY <1>1, <2>1 DEF ClientInv, InWindow
  <2>3. PICK e : e = entries[c]
      OBVIOUS
  <2>4. PICK h : h = hits[c]
      OBVIOUS
  <2>5. /\ e.started \in Nat /\ e.count \in 1..Limit /\ e.count <= Len(h)
        /\ h[Len(h) - e.count + 1] = e.started
      BY <2>2, <2>3, <2>4 DEF WindowIs, Entry
  <2>6. e.count >= Limit /\ ~(now - e.started >= Window)
      BY <2>1, <2>3 DEF Full, InWindow, Over
  <2>7. e.count = Limit
      BY <2>5, <2>6, LimitAssumption
  <2>8. Len(h) \in Nat /\ \A i \in 1..Len(h) : h[i] \in Nat /\ h[i] <= now
      BY <2>2, <2>4 DEF Ordered
  <2>9. Len(h) >= Limit /\ Len(h) \in 1..Len(h)
      BY <2>5, <2>7, <2>8, LimitAssumption
  <2>10. h[Len(h) - Limit + 1] + Window > now
    <3>1. h[Len(h) - Limit + 1] = e.started
        BY <2>5, <2>7
    <3>. QED BY <1>1, <2>5, <2>6, <3>1, LimitAssumption
  <2>. QED BY <1>1, <2>4, <2>8, <2>9, <2>10 DEF RefusedIs
<1>5. ASSUME NEW d \in Client PROVE ClientInv(d)'
  <2>1. PICK es : es = entries'
      OBVIOUS
  <2>2. IF d \in DOMAIN es THEN WindowIs(hits[d], es[d])
                           ELSE Past(hits[d], Len(hits[d]), now)
      BY <1>2, <2>1, SweptWindows, SweepKeeps
  <2>3. RefusedIs(hits[d], refused'[d], now)
    <3>1. CASE d = c
        BY <1>1, <1>2, <1>4, <3>1
    <3>2. CASE d # c
        BY <1>1, <1>2, <3>2 DEF ClientInv
    <3>. QED BY <3>1, <3>2
  <2>. QED BY <1>1, <1>2, <2>1, <2>2, <2>3 DEF ClientInv
<1>. QED BY <1>1, <1>2, <1>3, <1>5 DEF RateInv

(* The clock goes on.                                                       *)
LEMMA TickStep ==
    ASSUME RateInv, Tick
    PROVE  RateInv'
<1>1. /\ DOMAIN entries \subseteq Client /\ now \in 0..MaxTime /\ now \in Nat
      /\ refused \in [Client -> 0..MaxTime \cup {Nil}] /\ DOMAIN hits = Client
      /\ \A d \in Client : ClientInv(d)
    BY TimeAssumption DEF RateInv
<1>2. UNCHANGED <<entries, hits, refused>> /\ now' = now + 1 /\ now' \in 0..MaxTime
    BY <1>1, TimeAssumption DEF Tick
<1>3. ASSUME NEW d \in Client PROVE ClientInv(d)'
  <2>1. PICK t : t = now'
      OBVIOUS
  <2>2. t \in Nat /\ now <= t
      BY <1>1, <1>2, <2>1
  <2>3. /\ Ordered(hits[d], now) /\ Spread(hits[d]) /\ RefusedIs(hits[d], refused[d], now)
        /\ IF d \in DOMAIN entries THEN WindowIs(hits[d], entries[d])
                                   ELSE Past(hits[d], Len(hits[d]), now)
      BY <1>1 DEF ClientInv
  <2>4. Len(hits[d]) \in 0..Len(hits[d])
      BY <2>3 DEF Ordered
  <2>5. refused[d] \in Nat \cup {Nil}
      BY <1>1, TimeAssumption
  <2>6. /\ Ordered(hits[d], t) /\ RefusedIs(hits[d], refused[d], t)
        /\ Past(hits[d], Len(hits[d]), now) => Past(hits[d], Len(hits[d]), t)
      BY <1>1, <2>2, <2>3, <2>4, <2>5, Later
  <2>. QED BY <1>2, <2>1, <2>3, <2>6 DEF ClientInv
<1>. QED BY <1>1, <1>2, <1>3 DEF RateInv

(* The inductive invariant: windows follow each other without overlap, each *)
(* begins with a request and holds the limit at most, and a refusal is the  *)
(* answer to a full one.                                                    *)
THEOREM RateInvariance == Spec => []RateInv
<1>1. Init => RateInv
  <2>1. SUFFICES ASSUME Init PROVE RateInv
      OBVIOUS
  <2>2. << >> \in Seq(Nat) /\ Len(<< >>) = 0
      BY EmptySeq
  <2>3. DOMAIN entries = {} /\ now = 0 /\ DOMAIN hits = Client
      BY <2>1 DEF Init
  <2>4. now \in 0..MaxTime /\ refused \in [Client -> 0..MaxTime \cup {Nil}]
      BY <2>1, TimeAssumption DEF Init
  <2>5. ASSUME NEW c \in Client PROVE ClientInv(c)
    <3>1. hits[c] = << >> /\ refused[c] = Nil
        BY <2>1 DEF Init
    <3>2. Ordered(<< >>, now) /\ Spread(<< >>) /\ Past(<< >>, 0, now)
        BY <2>2 DEF Ordered, Spread, Past
    <3>. QED BY <2>2, <2>3, <3>1, <3>2 DEF ClientInv, RefusedIs
  <2>. QED BY <2>3, <2>4, <2>5 DEF RateInv
<1>2. RateInv /\ [Next]_vars => RateInv'
  <2>1. SUFFICES ASSUME RateInv, [Next]_vars PROVE RateInv'
      OBVIOUS
  <2>2. CASE UNCHANGED vars
      BY <2>1, <2>2 DEF vars, RateInv, ClientInv
  <2>3. CASE Next
      BY <2>1, <2>3, TickStep, AdmitStep, RefuseStep DEF Next
  <2>. QED BY <2>1, <2>2, <2>3
<1>. QED BY <1>1, <1>2, PTL DEF Spec

(***************************************************************************)
(* Counting.                                                               *)
(***************************************************************************)
(* A set of natural numbers has a least element.                            *)
LEMMA Least ==
    ASSUME NEW T, T \subseteq Nat, T # {}
    PROVE  \E x \in T : \A y \in T : x <= y
<1>1. PICK x \in T : \A y \in T : ~(<<y, x>> \in OpToRel(<, Nat))
    BY NatLessThanWellFounded, WFMin
<1>2. \A y \in T : ~(y < x)
    BY <1>1 DEF OpToRel
<1>3. \A y \in T : y \in Nat /\ x \in Nat
    OBVIOUS
<1>4. \A y \in T : x <= y
    BY <1>2, <1>3
<1>. QED BY <1>4

(* Requests within a stretch of the length of a window.                     *)
LEMMA CountBound ==
    ASSUME NEW h, NEW t \in Nat, Ordered(h, t), Spread(h), NEW s \in Nat
    PROVE  Cardinality({i \in DOMAIN h : h[i] \in s..(s + Window - 1)}) <= 2 * Limit - 1
<1>1. /\ Len(h) \in Nat /\ DOMAIN h = 1..Len(h) /\ \A i \in 1..Len(h) : h[i] \in Nat
      /\ Limit \in Nat \ {0} /\ Window \in Nat \ {0}
    BY LimitAssumption DEF Ordered
<1>2. PICK T : T = {i \in DOMAIN h : h[i] \in s..(s + Window - 1)}
    OBVIOUS
<1>3. \A i \in T : i \in 1..Len(h) /\ h[i] >= s /\ h[i] < s + Window
    BY <1>1, <1>2
<1>4. CASE T = {}
  <2>1. Cardinality(T) = 0
      BY <1>4, FS_EmptySet
  <2>. QED BY <1>1, <1>2, <2>1
<1>5. CASE T # {}
  <2>1. PICK x \in T : \A y \in T : x <= y
    <3>1. T \subseteq Nat
        BY <1>3
    <3>. QED BY <1>5, <3>1, Least
  <2>2. x \in 1..Len(h) /\ x \in Nat
      BY <1>3, <2>1
  <2>3. PICK z : z = x + 2 * Limit - 1
      OBVIOUS
  <2>4. z \in Nat /\ z >= 1 /\ z > x
      BY <1>1, <2>2, <2>3
  <2>5. ASSUME NEW y \in T PROVE y < z
    <3>1. SUFFICES ASSUME y >= z PROVE FALSE
        BY <1>3, <2>4, <2>5
    <3>2. y \in 1..Len(h) /\ z \in 1..Len(h)
        BY <1>1, <1>3, <2>4, <2>5, <3>1
    <3>3. h[x] + Window <= h[z]
        BY <2>2, <2>3, <3>2 DEF Spread
    <3>4. h[z] <= h[y]
        BY <2>4, <3>1, <3>2 DEF Ordered
    <3>5. h[x] >= s /\ h[y] < s + Window
        BY <1>3, <2>1, <2>5
    <3>. QED BY <1>1, <2>2, <3>2, <3>3, <3>4, <3>5
  <2>6. T \in SUBSET (x..(z - 1))
      BY <1>3, <2>1, <2>2, <2>4, <2>5
  <2>7. IsFiniteSet(x..(z - 1)) /\ Cardinality(x..(z - 1)) = 2 * Limit - 1
    <3>1. x \in Int /\ z - 1 \in Int /\ ~(x > z - 1) /\ (z - 1) - x + 1 = 2 * Limit - 1
        BY <1>1, <2>2, <2>3, <2>4
    <3>. QED BY <3>1, FS_Interval
  <2>8. Cardinality(T) <= Cardinality(x..(z - 1))
      BY <2>6, <2>7, FS_Subset
  <2>. QED BY <1>2, <2>7, <2>8
<1>. QED BY <1>4, <1>5

(* The last k requests, if they are exactly those at the times T.           *)
LEMMA CountLast ==
    ASSUME NEW h \in Seq(Nat), NEW k \in Nat, k <= Len(h), NEW T,
           \A i \in 1..Len(h) : h[i] \in T <=> i > Len(h) - k
    PROVE  Cardinality({i \in DOMAIN h : h[i] \in T}) = k
<1>1. PICK n \in Nat : n = Len(h)
    OBVIOUS
<1>2. {i \in DOMAIN h : h[i] \in T} = (n - k + 1)..n
  <2>1. DOMAIN h = 1..n
      BY <1>1
  <2>2. \A i \in (n - k + 1)..n : i \in 1..n /\ i > n - k
      BY <1>1
  <2>3. \A i \in 1..n : i > n - k => i \in (n - k + 1)..n
      BY <1>1
  <2>. QED BY <1>1, <2>1, <2>2, <2>3
<1>3. Cardinality((n - k + 1)..n) = k
  <2>1. n - k + 1 \in Int /\ n \in Int /\ n - (n - k + 1) + 1 = k
        /\ ((n - k + 1 > n) => k = 0)
      BY <1>1
  <2>. QED BY <2>1, FS_Interval
<1>. QED BY <1>2, <1>3

(***************************************************************************)
(* Theorems.                                                               *)
(***************************************************************************)
(* Types, and: the count of a window is the number of requests that were    *)
(* admitted in it.                                                          *)
THEOREM CountsExact == Spec => []TypeOK
<1>1. RateInv => TypeOK
  <2>1. SUFFICES ASSUME RateInv PROVE TypeOK
      OBVIOUS
  <2>2. SUFFICES ASSUME NEW c \in DOMAIN entries
                 PROVE  /\ entries[c] \in Entry
                        /\ entries[c].count =
                             Admitted(c, entries[c].started..(entries[c].started + Window - 1))
      BY <2>1 DEF RateInv, TypeOK
  <2>3. PICK h : h = hits[c]
      OBVIOUS
  <2>4. PICK e : e = entries[c]
      OBVIOUS
  <2>5. WindowIs(h, e) /\ Ordered(h, now)
      BY <2>1, <2>2, <2>3, <2>4 DEF RateInv, ClientInv
  <2>6. /\ h \in Seq(Nat) /\ Len(h) \in Nat /\ \A i \in 1..Len(h) : h[i] \in Nat
        /\ Limit \in Nat \ {0} /\ Window \in Nat \ {0}
      BY <2>5, LimitAssumption DEF Ordered
  <2>7. /\ e \in Entry /\ e.started \in Nat /\ e.count \in 1..Limit /\ e.count <= Len(h)
        /\ h[Len(h) - e.count + 1] = e.started /\ h[Len(h)] < e.started + Window
        /\ Past(h, Len(h) - e.count, e.started)
      BY <2>5 DEF WindowIs, Entry
  <2>8. PICK k \in Nat, n \in Nat, s \in Nat : k = e.count /\ n = Len(h) /\ s = e.started
      BY <2>6, <2>7
  <2>9. /\ k >= 1 /\ k <= n /\ h[n - k + 1] = s /\ h[n] < s + Window /\ n \in 1..n
        /\ n - k + 1 \in 1..n
    <3>1. k >= 1 /\ k <= n
        BY <2>6, <2>7, <2>8
    <3>2. h[n - k + 1] = s /\ h[n] < s + Window
        BY <2>7, <2>8
    <3>3. n \in 1..n /\ n - k + 1 \in 1..n
        BY <3>1
    <3>. QED BY <3>1, <3>2, <3>3
  <2>10. \A i \in 1..n : h[i] \in s..(s + Window - 1) <=> i > n - k
    <3>1. SUFFICES ASSUME NEW i \in 1..n
                   PROVE  h[i] \in s..(s + Window - 1) <=> i > n - k
        OBVIOUS
    <3>2. CASE i > n - k
      <4>1. h[n - k + 1] <= h[i] /\ h[i] <= h[n]
          BY <2>5, <2>8, <2>9, <3>2 DEF Ordered
      <4>2. h[i] \in Nat /\ h[n] \in Nat
          BY <2>6, <2>8, <2>9
      <4>. QED BY <2>6, <2>9, <3>2, <4>1, <4>2
    <3>3. CASE i <= n - k
      <4>1. n - k # 0 /\ n - k \in 1..n
          BY <2>9, <3>3
      <4>2. h[n - k] < s
          BY <2>7, <2>8, <4>1 DEF Past
      <4>3. h[i] <= h[n - k] /\ h[i] \in Nat /\ h[n - k] \in Nat
          BY <2>5, <2>6, <2>8, <3>3, <4>1 DEF Ordered
      <4>. QED BY <2>8, <3>3, <4>2, <4>3
    <3>. QED BY <2>8, <3>2, <3>3
  <2>11. Cardinality({i \in DOMAIN h : h[i] \in s..(s + Window - 1)}) = k
    <3>1. PICK T : T = s..(s + Window - 1)
        OBVIOUS
    <3>2. \A i \in 1..Len(h) : h[i] \in T <=> i > Len(h) - k
        BY <2>8, <2>10, <3>1
    <3>3. k <= Len(h)
        BY <2>8, <2>9
    <3>4. Cardinality({i \in DOMAIN h : h[i] \in T}) = k
        BY <2>6, <3>2, <3>3, CountLast
    <3>. QED BY <3>1, <3>4
  <2>. QED BY <2>3, <2>4, <2>7, <2>8, <2>11 DEF Admitted
<1>. QED BY <1>1, RateInvariance, PTL

(* A client gets in less than twice the limit within any stretch of the     *)
(* length of a window, wherever it begins.                                  *)
THEOREM BurstsBounded == Spec => []BurstBound
<1>1. RateInv => BurstBound
  <2>1. SUFFICES ASSUME RateInv, NEW c \in Client, NEW s \in 0..MaxTime
                 PROVE  Admitted(c, s..(s + Window - 1)) <= 2 * Limit - 1
      BY DEF BurstBound
  <2>2. s \in Nat /\ now \in Nat
      BY <2>1, TimeAssumption DEF RateInv
  <2>3. Ordered(hits[c], now) /\ Spread(hits[c])
      BY <2>1 DEF RateInv, ClientInv
  <2>. QED BY <2>2, <2>3, CountBound DEF Admitted
<1>. QED BY <1>1, RateInvariance, PTL

(* A client is refused for requests of its own only: the limit was admitted *)
(* in the window that ends with the refusal.                                *)
THEOREM RefusalsJustified == Spec => []RefusalJustified
<1>1. RateInv => RefusalJustified
  <2>1. SUFFICES ASSUME RateInv, NEW c \in Client, refused[c] # Nil
                 PROVE  Admitted(c, {t \in 0..refused[c] : t + Window > refused[c]}) >= Limit
      BY DEF RefusalJustified
  <2>2. PICK h : h = hits[c]
      OBVIOUS
  <2>3. PICK r \in Nat : r = refused[c]
      BY <2>1, TimeAssumption DEF RateInv
  <2>4. Ordered(h, now) /\ RefusedIs(h, r, now)
      BY <2>1, <2>2, <2>3 DEF RateInv, ClientInv
  <2>5. /\ Len(h) \in Nat /\ DOMAIN h = 1..Len(h) /\ \A i \in 1..Len(h) : h[i] \in Nat
        /\ Limit \in Nat \ {0} /\ Window \in Nat \ {0}
    <3>1. h \in Seq(Nat)
        BY <2>4 DEF Ordered
    <3>. QED BY <3>1, LimitAssumption
  <2>6. Len(h) >= Limit /\ h[Len(h)] <= r /\ h[Len(h) - Limit + 1] + Window > r
      BY <2>1, <2>3, <2>4 DEF RefusedIs
  <2>7. PICK n \in Nat, b \in Nat : n = Len(h) /\ b = n - Limit + 1
    <3>1. Len(h) - Limit + 1 \in Nat
        BY <2>5, <2>6
    <3>. QED BY <2>5, <3>1
  <2>8. b \in 1..n /\ n \in 1..n
      BY <2>5, <2>6, <2>7
  <2>9. PICK S : S = {i \in DOMAIN h : h[i] \in {t \in 0..r : t + Window > r}}
      OBVIOUS
  <2>10. b..n \in SUBSET S
    <3>1. SUFFICES ASSUME NEW i \in b..n PROVE i \in S
        OBVIOUS
    <3>2. i \in 1..n /\ b <= i /\ i <= n
        BY <2>8
    <3>3. h[b] <= h[i] /\ h[i] <= h[n]
        BY <2>4, <2>7, <2>8, <3>2 DEF Ordered
    <3>4. h[b] \in Nat /\ h[i] \in Nat /\ h[n] \in Nat
        BY <2>5, <2>7, <2>8, <3>2
    <3>5. h[i] \in 0..r /\ h[i] + Window > r
      <4>1. PICK x \in Nat, y \in Nat, z \in Nat : x = h[b] /\ y = h[i] /\ z = h[n]
          BY <3>4
      <4>2. x <= y /\ y <= z /\ z <= r /\ x + Window > r
          BY <2>6, <2>7, <3>3, <4>1
      <4>3. y \in 0..r /\ y + Window > r
          BY <2>5, <4>2
      <4>. QED BY <4>1, <4>3
    <3>. QED BY <2>5, <2>7, <2>9, <3>2, <3>5
  <2>11. IsFiniteSet(S)
    <3>1. IsFiniteSet(1..n)
        BY FS_Interval
    <3>2. S \in SUBSET (1..n)
        BY <2>5, <2>7, <2>9
    <3>. QED BY <3>1, <3>2, FS_Subset
  <2>12. Cardinality(b..n) = Limit
    <3>1. b \in Int /\ n \in Int /\ ~(b > n) /\ n - b + 1 = Limit
        BY <2>5, <2>7, <2>8
    <3>. QED BY <3>1, FS_Interval
  <2>13. Cardinality(b..n) <= Cardinality(S)
      BY <2>10, <2>11, FS_Subset
  <2>14. Cardinality(S) \in Nat
      BY <2>11, FS_CardinalityType
  <2>15. Cardinality(S) >= Limit
      BY <2>5, <2>12, <2>13, <2>14
  <2>. QED BY <2>2, <2>3, <2>9, <2>15 DEF Admitted
<1>. QED BY <1>1, RateInvariance, PTL

(* The seconds of Retry-After cover the window, with one more if the window *)
(* is not a whole number of them.                                           *)
LEMMA SecondsCover == (RetryAfter + Slack) * Second \in Nat
                      /\ (RetryAfter + Slack) * Second >= Window
<1>1. Window \in Nat \ {0} /\ Second \in Nat \ {0}
    BY LimitAssumption, SecondAssumption
<1>2. PICK q \in Nat, m \in Nat :
        /\ q = Window \div Second /\ m = Window % Second
        /\ Window = q * Second + m /\ m < Second
    BY <1>1
<1>3. CASE m = 0
    BY <1>1, <1>2, <1>3 DEF RetryAfter, Slack
<1>4. CASE m # 0
  <2>1. RetryAfter + Slack = q + 1
      BY <1>2, <1>4 DEF RetryAfter, Slack
  <2>2. (q + 1) * Second = q * Second + Second
      BY <1>1, <1>2
  <2>. QED BY <1>1, <1>2, <2>1, <2>2
<1>. QED BY <1>3, <1>4

(* A client that waits for the Retry-After of a 429 is let in, if windows   *)
(* are whole seconds; if they are not, it needs one second more.            *)
THEOREM RetryAfterHolds == Spec => []RetryAfterKept
<1>1. RateInv => RetryAfterKept
  <2>1. SUFFICES ASSUME RateInv, NEW c \in Client, refused[c] # Nil,
                        now >= refused[c] + (RetryAfter + Slack) * Second, InWindow(c)
                 PROVE  FALSE
      BY DEF RetryAfterKept, Admits
  <2>2. PICK h : h = hits[c]
      OBVIOUS
  <2>3. PICK e : e = entries[c]
      OBVIOUS
  <2>4. PICK r \in Nat : r = refused[c]
      BY <2>1, TimeAssumption DEF RateInv
  <2>5. Ordered(h, now) /\ RefusedIs(h, r, now) /\ WindowIs(h, e)
      BY <2>1, <2>2, <2>3, <2>4 DEF RateInv, ClientInv, InWindow
  <2>6. /\ Len(h) \in Nat /\ \A i \in 1..Len(h) : h[i] \in Nat
        /\ Window \in Nat \ {0} /\ now \in Nat
      BY <2>1, <2>5, LimitAssumption, TimeAssumption DEF Ordered, RateInv
  <2>7. /\ e.started \in Nat /\ e.count \in 1..Limit /\ e.count <= Len(h)
        /\ h[Len(h) - e.count + 1] = e.started
      BY <2>5 DEF WindowIs, Entry
  <2>8. PICK k \in Nat, n \in Nat : k = e.count /\ n = Len(h)
      BY <2>6, <2>7
  <2>9. n \in 1..n /\ n - k + 1 \in 1..n /\ n - k + 1 <= n /\ h[n - k + 1] = e.started
      BY <2>7, <2>8, LimitAssumption
  <2>10. e.started <= h[n]
      BY <2>5, <2>8, <2>9 DEF Ordered
  <2>11. h[n] <= r /\ h[n] \in Nat
      BY <2>1, <2>4, <2>5, <2>6, <2>8, <2>9 DEF RefusedIs
  <2>12. ~(now - e.started >= Window)
      BY <2>1, <2>3 DEF InWindow, Over
  <2>13. PICK w \in Nat : w = (RetryAfter + Slack) * Second /\ w >= Window
      BY SecondsCover
  <2>14. now >= r + Window
      BY <2>1, <2>4, <2>6, <2>13
  <2>. QED BY <2>4, <2>6, <2>7, <2>10, <2>11, <2>12, <2>14
<1>. QED BY <1>1, RateInvariance, PTL
=============================================================================
