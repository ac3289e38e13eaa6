----------------------------- MODULE ByteRange -----------------------------
(***************************************************************************)
(* Which bytes a download serves: singleByteRange and serveRange           *)
(* (handler/httpapi/files.go).                                             *)
(*                                                                         *)
(* A Range header is what the code takes apart: the prefix "bytes=", a     *)
(* comma, a dash, and the two texts around the first dash.  A text is      *)
(* empty, no number, or a number; MaxInt stands for the largest int64, and *)
(* a larger number does not parse.  No sign can precede the first dash.    *)
(***************************************************************************)
EXTENDS Integers

CONSTANTS
    MaxSize,    \* largest file
    MaxInt,     \* largest int64
    Empty,      \* the empty text
    Junk        \* a text that is no number

ASSUME SizeAssumption == MaxSize \in Nat /\ MaxInt \in Nat /\ MaxSize < MaxInt
ASSUME TextAssumption == Empty # Junk /\ {Empty, Junk} \cap Int = {}

Text == (0..MaxInt + 1) \cup {Empty, Junk}

Header == [bytes : BOOLEAN, comma : BOOLEAN, dash : BOOLEAN,
           first : Text, last : Text \cup {-1}]

VARIABLES
    size,       \* the size of the file, from its row
    header,     \* the Range header of the request
    head,       \* whether the method is HEAD
    resp        \* the answer, or NoAnswer

vars == <<size, header, head, resp>>

(* An answer: the status, what Content-Range and Content-Length announce,   *)
(* and the number of bytes sent.                                            *)
Answer(status, start, length, sent) ==
    [status |-> status, start |-> start, length |-> length, sent |-> sent]

NoAnswer == Answer(0, 0, 0, 0)

(***************************************************************************)
(* singleByteRange.                                                        *)
(***************************************************************************)
Ignore == [mode |-> "ignore", start |-> 0, length |-> 0]
Unsatisfiable == [mode |-> "unsatisfiable", start |-> 0, length |-> 0]
Serve(start, length) == [mode |-> "serve", start |-> start, length |-> length]

(* strconv.ParseInt succeeds.                                               *)
Parses(t) == t \in Int /\ t <= MaxInt

(* Slip: a suffix longer than the file is not cut.                          *)
SuffixUncut(n, sz) == Serve(sz - n, n)

Suffix(n, sz) == LET m == IF n > sz THEN sz ELSE n IN Serve(sz - m, m)

(* Slip: the last position is taken as a bound that is not part of it.      *)
FromToOpen(first, last, sz) ==
    LET end == IF last = Empty \/ last >= sz THEN sz - 1 ELSE last
    IN  Serve(first, end - first)

FromTo(first, last, sz) ==
    LET end == IF last = Empty \/ last >= sz THEN sz - 1 ELSE last
    IN  Serve(first, end - first + 1)

Beyond(first, sz) == first >= sz

singleByteRange(h, sz) ==
    CASE sz <= 0 \/ ~h.bytes \/ h.comma \/ ~h.dash -> Ignore
      [] sz > 0 /\ h.bytes /\ ~h.comma /\ h.dash /\ h.first = Empty ->
            IF Parses(h.last) /\ h.last > 0 THEN Suffix(h.last, sz) ELSE Ignore
      [] sz > 0 /\ h.bytes /\ ~h.comma /\ h.dash /\ h.first # Empty ->
            IF ~Parses(h.first) THEN Ignore
            ELSE IF Beyond(h.first, sz) THEN Unsatisfiable
            ELSE IF h.last # Empty /\ (~Parses(h.last) \/ h.last < h.first) THEN Ignore
            ELSE FromTo(h.first, h.last, sz)

(***************************************************************************)
(* serveRange.                                                             *)
(***************************************************************************)
Sent(n) == IF head THEN 0 ELSE n

serveRange ==
    LET range == singleByteRange(header, size) IN
    CASE range.mode = "unsatisfiable" -> Answer(416, 0, 0, 0)
      [] range.mode = "serve" ->
            Answer(206, range.start, range.length, Sent(range.length))
      [] range.mode = "ignore" -> Answer(200, 0, size, Sent(size))

(* The route: no request, a request for a file of any size, its answer.     *)
Idle == Answer(1, 0, 0, 0)

NoHeader == [bytes |-> FALSE, comma |-> FALSE, dash |-> FALSE,
             first |-> Empty, last |-> Empty]

Init == size = 0 /\ header = NoHeader /\ head = FALSE /\ resp = Idle

Ask ==
    /\ resp = Idle
    /\ size' \in 0..MaxSize /\ header' \in Header /\ head' \in BOOLEAN
    /\ resp' = NoAnswer

Reply ==
    /\ resp = NoAnswer
    /\ resp' = serveRange
    /\ UNCHANGED <<size, header, head>>

Done ==
    /\ resp \notin {Idle, NoAnswer}
    /\ size' = 0 /\ header' = NoHeader /\ head' = FALSE /\ resp' = Idle

Next == Ask \/ Reply \/ Done

Spec == Init /\ [][Next]_vars

(***************************************************************************)
(* The reference: RFC 7233, as far as single ranges of representable       *)
(* numbers go.                                                             *)
(***************************************************************************)
(* The header is a range, as opposed to one that is to be ignored.          *)
WellFormed(h) ==
    /\ h.bytes /\ ~h.comma /\ h.dash
    /\ \/ h.first = Empty /\ Parses(h.last) /\ h.last > 0
       \/ /\ Parses(h.first)
          /\ h.last = Empty \/ (Parses(h.last) /\ h.last >= h.first)

(* The positions of a file it selects.                                      *)
Selects(h, p) ==
    IF h.first = Empty THEN p >= size - h.last
                       ELSE p >= h.first /\ (h.last = Empty \/ p <= h.last)

Selected == {p \in 0..(size - 1) : WellFormed(header) /\ Selects(header, p)}

Answered == resp \notin {Idle, NoAnswer}

(* What is announced and sent lies within the file, and a HEAD request gets *)
(* the headers of the GET and no body.                                      *)
TypeOK ==
    /\ size \in 0..MaxSize /\ header \in Header /\ head \in BOOLEAN
    /\ resp.status \in {0, 1, 200, 206, 416}
    /\ resp.start >= 0 /\ resp.length >= 0
    /\ resp.start + resp.length <= size
    /\ resp.sent = IF head THEN 0 ELSE resp.length

(* A download answers 206 exactly when the header is a range that selects   *)
(* something, and then with precisely the bytes it selects; 416 for every   *)
(* range that selects nothing of a file that has bytes, and only if a start *)
(* beyond the file was asked for; and 200 with the whole file.              *)
RangeExact == Answered =>
    /\ resp.status = 206 <=> Selected # {}
    /\ resp.status = 206 =>
         resp.start..(resp.start + resp.length - 1) = Selected
    /\ size > 0 /\ WellFormed(header) /\ Selected = {} => resp.status = 416
    /\ resp.status = 416 => Parses(header.first) /\ header.first >= size
    /\ resp.status = 200 => resp.start = 0 /\ resp.length = size
=============================================================================
