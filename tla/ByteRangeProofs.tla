--------------------------- MODULE ByteRangeProofs ---------------------------
(***************************************************************************)
(* Machine-checked proofs about ByteRange: singleByteRange and serveRange  *)
(* serve exactly the bytes a Range header selects, for files of every size *)
(* and numbers of every length.                                            *)
(***************************************************************************)
EXTENDS ByteRange, TLAPS

(* The file and the request are typed, and an answer is what serveRange     *)
(* makes of them.                                                           *)
RangeInv ==
    /\ size \in 0..MaxSize /\ header \in Header /\ head \in BOOLEAN
    /\ resp \in {Idle, NoAnswer, serveRange}

(* A header has a number, the empty text or junk in each of its two places. *)
LEMMA HeaderTexts ==
    ASSUME NEW h \in Header
    PROVE  /\ h.first \in Int \/ h.first \in {Empty, Junk}
           /\ h.last \in Int \/ h.last \in {Empty, Junk}
           /\ h.first \in Int => h.first >= 0
           /\ h.bytes \in BOOLEAN /\ h.comma \in BOOLEAN /\ h.dash \in BOOLEAN
<1>1. MaxInt + 1 \in Int
    BY SizeAssumption
<1>2. h.first \in Text /\ h.last \in Text \cup {-1}
    BY DEF Header
<1>3. \A t \in Text : (t \in Int /\ t >= 0) \/ t \in {Empty, Junk}
    BY <1>1 DEF Text
<1>. QED BY <1>2, <1>3, TextAssumption DEF Header

(* The header selects single bytes of the file.                             *)
Single(h) == size > 0 /\ h.bytes /\ ~h.comma /\ h.dash

(* What singleByteRange says, in its four outcomes.                         *)
LEMMA RangeCases ==
    ASSUME size \in Nat, NEW h \in Header
    PROVE  LET r == singleByteRange(h, size) IN
           \/ r = Ignore /\ ~(Single(h) /\ WellFormed(h))
           \/ /\ r = Unsatisfiable /\ Single(h)
              /\ h.first # Empty /\ Parses(h.first) /\ h.first >= size
           \/ /\ r = Suffix(h.last, size) /\ Single(h)
              /\ h.first = Empty /\ Parses(h.last) /\ h.last > 0
           \/ /\ r = FromTo(h.first, h.last, size) /\ Single(h)
              /\ h.first # Empty /\ Parses(h.first) /\ h.first < size
              /\ h.last = Empty \/ (Parses(h.last) /\ h.last >= h.first)
<1>. DEFINE r == singleByteRange(h, size)
<1>1. CASE ~Single(h)
  <2>1. size <= 0 \/ ~h.bytes \/ h.comma \/ ~h.dash
      BY <1>1 DEF Single
  <2>2. r = Ignore
      BY <2>1 DEF singleByteRange
  <2>. QED BY <1>1, <2>2
<1>2. CASE Single(h) /\ h.first = Empty
  <2>1. r = IF Parses(h.last) /\ h.last > 0 THEN Suffix(h.last, size) ELSE Ignore
      BY <1>2 DEF singleByteRange, Single
  <2>2. ~Parses(h.first)
      BY <1>2, TextAssumption DEF Parses
  <2>. QED BY <1>2, <2>1, <2>2 DEF WellFormed
<1>3. CASE Single(h) /\ h.first # Empty
  <2>1. r = IF ~Parses(h.first) THEN Ignore
            ELSE IF Beyond(h.first, size) THEN Unsatisfiable
            ELSE IF h.last # Empty /\ (~Parses(h.last) \/ h.last < h.first) THEN Ignore
            ELSE FromTo(h.first, h.last, size)
      BY <1>3 DEF singleByteRange, Single
  <2>2. CASE ~Parses(h.first)
      BY <1>3, <2>1, <2>2 DEF WellFormed
  <2>3. CASE Parses(h.first) /\ h.first >= size
      BY <1>3, <2>1, <2>3 DEF Beyond
  <2>4. CASE Parses(h.first) /\ ~(h.first >= size)
    <3>1. h.first < size
        BY <2>4 DEF Parses
    <3>2. CASE h.last # Empty /\ ~Parses(h.last)
        BY <1>3, <2>1, <2>4, <3>2 DEF WellFormed, Beyond
    <3>3. CASE h.last # Empty /\ Parses(h.last) /\ h.last < h.first
      <4>1. ~(h.last >= h.first)
          BY <2>4, <3>3 DEF Parses
      <4>. QED BY <1>3, <2>1, <2>4, <3>3, <4>1 DEF WellFormed, Beyond
    <3>4. CASE h.last = Empty \/ (Parses(h.last) /\ ~(h.last < h.first))
      <4>1. h.last = Empty \/ (Parses(h.last) /\ h.last >= h.first)
          BY <2>4, <3>4 DEF Parses
      <4>. QED BY <1>3, <2>1, <2>4, <3>1, <3>4, <4>1 DEF Beyond
    <3>. QED BY <3>2, <3>3, <3>4
  <2>. QED BY <2>2, <2>3, <2>4
<1>. QED BY <1>1, <1>2, <1>3

(* Positions first to last of the file, and a serving of them.              *)
Serves(first, last) ==
    /\ serveRange = Answer(206, first, last - first + 1, Sent(last - first + 1))
    /\ first \in 0..last /\ last \in 0..(size - 1)
    /\ Selected = first..last

(* The outcome of serveRange: the whole file if there is no range, 416 if   *)
(* the range begins beyond the file, and otherwise what it selects.         *)
Outcome ==
    \/ /\ serveRange = Answer(200, 0, size, Sent(size))
       /\ Selected = {} /\ ~(size > 0 /\ WellFormed(header))
    \/ /\ serveRange = Answer(416, 0, 0, 0) /\ Selected = {}
       /\ Parses(header.first) /\ header.first >= size
    \/ \E first, last \in Int : Serves(first, last)

(* serveRange has that outcome for every file and every header.             *)
LEMMA ServeExact ==
    ASSUME size \in 0..MaxSize, header \in Header
    PROVE  Outcome
<1>. DEFINE r == singleByteRange(header, size)
<1>1. size \in Nat /\ size - 1 \in Int
    BY SizeAssumption
<1>2. /\ header.first \in Int => header.first >= 0
      /\ Empty \notin Int
    BY HeaderTexts, TextAssumption
<1>3. CASE r = Ignore /\ ~(Single(header) /\ WellFormed(header))
  <2>1. serveRange = Answer(200, 0, size, Sent(size))
      BY <1>3 DEF serveRange, Ignore
  <2>2. Selected = {}
      BY <1>1, <1>3 DEF Selected, Single, WellFormed
  <2>3. ~(size > 0 /\ WellFormed(header))
      BY <1>3 DEF Single, WellFormed
  <2>. QED BY <2>1, <2>2, <2>3 DEF Outcome
<1>4. CASE /\ r = Unsatisfiable /\ Single(header)
           /\ header.first # Empty /\ Parses(header.first) /\ header.first >= size
  <2>1. serveRange = Answer(416, 0, 0, 0)
      BY <1>4 DEF serveRange, Unsatisfiable
  <2>2. header.first \in Int
      BY <1>4 DEF Parses
  <2>3. Selected = {}
      BY <1>1, <1>4, <2>2 DEF Selected, Selects
  <2>. QED BY <1>4, <2>1, <2>3 DEF Outcome
<1>5. CASE /\ r = Suffix(header.last, size) /\ Single(header)
           /\ header.first = Empty /\ Parses(header.last) /\ header.last > 0
  <2>. DEFINE n == header.last
              m == IF n > size THEN size ELSE n
  <2>1. n \in Int /\ n > 0 /\ size > 0
      BY <1>5 DEF Parses, Single
  <2>2. m \in Int /\ m > 0 /\ m <= size /\ (m = n \/ (m = size /\ n > size))
      BY <1>1, <2>1
  <2>3. r = Serve(size - m, m)
      BY <1>5 DEF Suffix
  <2>4. WellFormed(header)
      BY <1>5 DEF WellFormed, Single
  <2>5. Selected = {p \in 0..(size - 1) : p >= size - n}
      BY <1>5, <2>4 DEF Selected, Selects
  <2>6. Selected = (size - m)..(size - 1)
    <3>. HIDE DEF m, n
    <3>1. {p \in 0..(size - 1) : p >= size - n} = (size - m)..(size - 1)
        BY <1>1, <2>1, <2>2
    <3>. QED BY <2>5, <3>1
  <2>. HIDE DEF m
  <2>7. (size - 1) - (size - m) + 1 = m
      BY <1>1, <2>2
  <2>8. serveRange = Answer(206, size - m, m, Sent(m))
      BY <2>3 DEF serveRange, Serve
  <2>9. Serves(size - m, size - 1)
      BY <1>1, <2>2, <2>6, <2>7, <2>8 DEF Serves
  <2>. QED BY <1>1, <2>2, <2>9 DEF Outcome
<1>6. CASE /\ r = FromTo(header.first, header.last, size) /\ Single(header)
           /\ header.first # Empty /\ Parses(header.first) /\ header.first < size
           /\ header.last = Empty \/ (Parses(header.last) /\ header.last >= header.first)
  <2>. DEFINE f == header.first
              l == header.last
              end == IF l = Empty \/ l >= size THEN size - 1 ELSE l
  <2>1. f \in Int /\ f >= 0 /\ f < size /\ (l # Empty => l \in Int /\ l >= f)
      BY <1>2, <1>6 DEF Parses
  <2>2. /\ end \in Int /\ end >= f /\ end <= size - 1
        /\ (l = Empty /\ end = size - 1) \/ (l \in Int /\ l >= size /\ end = size - 1)
             \/ (l \in Int /\ end = l)
      BY <1>1, <2>1
  <2>3. r = Serve(f, end - f + 1)
      BY <1>6 DEF FromTo
  <2>4. WellFormed(header)
      BY <1>6 DEF WellFormed, Single
  <2>5. Selected = {p \in 0..(size - 1) : p >= f /\ (l = Empty \/ p <= l)}
      BY <1>6, <2>4 DEF Selected, Selects
  <2>. HIDE DEF end, f, l
  <2>6. Selected = f..end
      BY <1>1, <1>2, <2>1, <2>2, <2>5
  <2>7. serveRange = Answer(206, f, end - f + 1, Sent(end - f + 1))
      BY <2>3 DEF serveRange, Serve
  <2>8. Serves(f, end)
      BY <1>1, <2>1, <2>2, <2>6, <2>7 DEF Serves
  <2>. QED BY <2>1, <2>2, <2>8 DEF Outcome
<1>. QED BY <1>1, <1>3, <1>4, <1>5, <1>6, RangeCases

(***************************************************************************)
(* The route.                                                              *)
(***************************************************************************)
(* Every request finds the route in order and leaves it so.                 *)
LEMMA RangeInvariant == Spec => []RangeInv
<1>1. Init => RangeInv
  <2>1. NoHeader \in Header /\ 0 \in 0..MaxSize
      BY SizeAssumption DEF NoHeader, Header, Text
  <2>. QED BY <2>1 DEF Init, RangeInv
<1>2. RangeInv /\ [Next]_vars => RangeInv'
  <2>. SUFFICES ASSUME RangeInv, [Next]_vars PROVE RangeInv'
      OBVIOUS
  <2>1. CASE Ask
      BY <2>1 DEF Ask, RangeInv
  <2>2. CASE Reply
    <3>1. UNCHANGED <<size, header, head>> /\ resp' = serveRange
        BY <2>2 DEF Reply
    <3>2. serveRange' = serveRange
        BY <3>1 DEF serveRange, Sent
    <3>. QED BY <3>1, <3>2 DEF RangeInv
  <2>3. CASE Done
    <3>1. NoHeader \in Header /\ 0 \in 0..MaxSize
        BY SizeAssumption DEF NoHeader, Header, Text
    <3>. QED BY <2>3, <3>1 DEF Done, RangeInv
  <2>4. CASE UNCHANGED vars
    <3>1. serveRange' = serveRange
        BY <2>4 DEF vars, serveRange, Sent
    <3>. QED BY <2>4, <3>1 DEF vars, RangeInv
  <2>. QED BY <2>1, <2>2, <2>3, <2>4 DEF Next
<1>. QED BY <1>1, <1>2, PTL DEF Spec

(* What a download announces and sends lies within the file, and HEAD gets  *)
(* no body.                                                                 *)
THEOREM RangeWithinFile == Spec => []TypeOK
<1>1. RangeInv => TypeOK
  <2>. SUFFICES ASSUME RangeInv PROVE TypeOK
      OBVIOUS
  <2>1. size \in Nat /\ size \in 0..MaxSize /\ header \in Header /\ head \in BOOLEAN
      BY SizeAssumption DEF RangeInv
  <2>2. CASE resp \in {Idle, NoAnswer}
      BY <2>1, <2>2 DEF TypeOK, Idle, NoAnswer, Answer
  <2>3. CASE resp = serveRange
    <3>1. Outcome
        BY <2>1, ServeExact
    <3>2. CASE serveRange = Answer(200, 0, size, Sent(size))
        BY <2>1, <2>3, <3>2 DEF TypeOK, Answer, Sent
    <3>3. CASE serveRange = Answer(416, 0, 0, 0)
        BY <2>1, <2>3, <3>3 DEF TypeOK, Answer
    <3>4. CASE \E first, last \in Int : Serves(first, last)
        BY <2>1, <2>3, <3>4 DEF TypeOK, Serves, Answer, Sent
    <3>. QED BY <3>1, <3>2, <3>3, <3>4 DEF Outcome
  <2>. QED BY <2>2, <2>3 DEF RangeInv
<1>. QED BY <1>1, RangeInvariant, PTL

(* A download answers with precisely the bytes the header selects, and with *)
(* 416 when it selects none of a file that has some.                        *)
THEOREM RangesExact == Spec => []RangeExact
<1>1. RangeInv => RangeExact
  <2>. SUFFICES ASSUME RangeInv, Answered PROVE RangeExact
      BY DEF RangeExact
  <2>1. resp = serveRange /\ Outcome /\ size \in Nat
      BY ServeExact, SizeAssumption DEF RangeInv, Answered
  <2>2. CASE /\ serveRange = Answer(200, 0, size, Sent(size))
             /\ Selected = {} /\ ~(size > 0 /\ WellFormed(header))
      BY <2>1, <2>2 DEF RangeExact, Answer
  <2>3. CASE /\ serveRange = Answer(416, 0, 0, 0) /\ Selected = {}
             /\ Parses(header.first) /\ header.first >= size
      BY <2>1, <2>3 DEF RangeExact, Answer
  <2>4. CASE \E first, last \in Int : Serves(first, last)
    <3>1. PICK first \in Int, last \in Int : Serves(first, last)
        BY <2>4
    <3>2. /\ resp.status = 206 /\ resp.start = first
          /\ resp.length = last - first + 1
        BY <2>1, <3>1 DEF Serves, Answer
    <3>3. first..last = Selected /\ first \in Selected
        BY <2>1, <3>1 DEF Serves
    <3>4. first + (last - first + 1) - 1 = last
        OBVIOUS
    <3>. QED BY <3>2, <3>3, <3>4 DEF RangeExact
  <2>. QED BY <2>1, <2>2, <2>3, <2>4 DEF Outcome
<1>. QED BY <1>1, RangeInvariant, PTL
=============================================================================
