------------------------------ MODULE LogQuery ------------------------------
(***************************************************************************)
(* The query in the log entry of a request (handler.go:38-110): random     *)
(* reads and writes, which have none, log the addresses of their body in   *)
(* its place, and no query is longer than maxLogQuery.                     *)
(*                                                                         *)
(* Only lengths matter, so a text is named by the positions its characters *)
(* have in the text that would be logged without the limit, 1, 2, 3, ...   *)
(***************************************************************************)
EXTENDS Naturals, Sequences, FiniteSets, SequencesExt

CONSTANTS maxLogQuery,   \* the limit
          KeyLengths,    \* the lengths of "words=", "dwords=" and "bits="
          Bodies         \* the lengths of the addresses given for each of the keys

ASSUME LogQueryAssumption ==
    /\ maxLogQuery \in Nat
    /\ KeyLengths \in Seq(Nat)
    /\ \A vals \in Bodies : vals \in Seq(Seq(Nat)) /\ Len(vals) = Len(KeyLengths)

VARIABLES body,     \* the body of the request
          built,    \* what buildLogQuery returned, in a sequence
          logged    \* what logRequests logged, in a sequence

logQueryVars == <<body, built, logged>>

Dots == <<0, 0, 0>>   \* no position in a text

-----------------------------------------------------------------------------
(* The lengths of what buildLogQuery appends, in order. *)
Pieces(vals) ==
    LET Separated(vs) == IF vs = <<>> THEN <<>>
                         ELSE <<vs[1]>> \o FlattenSeq([i \in 1..(Len(vs) - 1) |-> <<1, vs[i + 1]>>])
    IN  FlattenSeq([i \in 1..Len(KeyLengths) |->
            (IF i > 1 THEN <<1>> ELSE <<>>) \o <<KeyLengths[i]>> \o Separated(vals[i])])

(* The sum of the first i lengths, for every i. *)
Sums(lengths) ==
    LET sum[i \in 0..Len(lengths)] == IF i = 0 THEN 0 ELSE sum[i - 1] + lengths[i]
    IN  sum

Sum(lengths) == Sums(lengths)[Len(lengths)]

(* The whole text. *)
Full(vals) == [i \in 1..Sum(Pieces(vals)) |-> i]

(* Mutant: dots take the place of three characters as well. *)
Cut_NoText(s, room) == IF room >= 3 THEN SubSeq(s, 1, room - 3) \o Dots ELSE SubSeq(s, 1, room)

(* s, which is longer than room, cut to it; dots if they leave something. *)
Cut(s, room) == IF room > 3 THEN SubSeq(s, 1, room - 3) \o Dots ELSE SubSeq(s, 1, room)

(* Mutant: the text is cut when it fits exactly. *)
Fits_Strictly(length, room) == length < room

Fits(length, room) == length <= room

(* appendStr: acc.at is where the piece lies in the whole text. *)
AppendStr(acc, length) ==
    LET room  == maxLogQuery - Len(acc.b)
        piece == [i \in 1..length |-> acc.at + i]
    IN  IF ~acc.more THEN acc
        ELSE IF room = 0 THEN [acc EXCEPT !.more = FALSE]
        ELSE IF Fits(length, room)
             THEN [b |-> acc.b \o piece, at |-> acc.at + length, more |-> TRUE]
             ELSE [acc EXCEPT !.b = @ \o Cut(piece, room), !.more = FALSE]

NoText == [b |-> <<>>, at |-> 0, more |-> TRUE]

BuildLogQuery(vals) ==
    LET pieces == Pieces(vals)
        acc[i \in 0..Len(pieces)] ==
            IF i = 0 THEN NoText ELSE AppendStr(acc[i - 1], pieces[i])
    IN  acc[Len(pieces)].b

CapLogQuery(s) == IF Len(s) <= maxLogQuery THEN s ELSE Cut(s, maxLogQuery)

LogQueryInit == body \in Bodies /\ built = <<>> /\ logged = <<>>

(* The handler sets the query once it has read the body. *)
SetRawQuery ==
    /\ built = <<>> /\ logged = <<>>
    /\ built' = <<BuildLogQuery(body)>>
    /\ UNCHANGED <<body, logged>>

(* logRequests; a query of that length may also come with the request. *)
LogRequest ==
    /\ logged = <<>>
    /\ logged' = <<CapLogQuery(IF built = <<>> THEN Full(body) ELSE built[1])>>
    /\ UNCHANGED <<body, built>>

LogQueryNext == SetRawQuery \/ LogRequest

LogQuerySpec == LogQueryInit /\ [][LogQueryNext]_logQueryVars

-----------------------------------------------------------------------------
(* Properties. *)

(* A text cut at the limit where the last room characters of the limit     *)
(* take a beginning only: dots for the last three if there are more.       *)
CutAtLimit(full, room) ==
    IF room > 3 THEN SubSeq(full, 1, maxLogQuery - 3) \o Dots ELSE SubSeq(full, 1, maxLogQuery)

(* The characters left for the piece that does not fit: from its beginning *)
(* to the limit.                                                           *)
RoomLeft(vals) ==
    LET starts == {Sums(Pieces(vals))[i] : i \in 0..Len(Pieces(vals))}
    IN  CHOOSE room \in 0..maxLogQuery :
           /\ maxLogQuery - room \in starts
           /\ \A start \in starts : start <= maxLogQuery => start <= maxLogQuery - room

(* What is logged never exceeds the limit, whichever piece reaches it, and *)
(* it is the text itself where that fits: nothing is cut needlessly,       *)
(* skipped, or appended behind a cut.  A query that came with the request  *)
(* is cut with dots at the limit; one of the handler has dots only where   *)
(* more than three characters were left for the piece that is cut          *)
(* (handler.go:38-110).                                                    *)
LoggedStandsForBody ==
    logged # <<>> =>
       logged[1] = IF Len(Full(body)) <= maxLogQuery THEN Full(body)
                   ELSE CutAtLimit(Full(body), IF built = <<>> THEN maxLogQuery ELSE RoomLeft(body))

(* A query that is longer than the limit ends with dots in the log         *)
(* (handler.go:76, handler_test.go:1845).  It does not where three         *)
(* characters or fewer are left for the piece that is cut                  *)
(* (handler.go:90-91).                                                     *)
CutEndsWithDots ==
    logged # <<>> /\ Len(Full(body)) > maxLogQuery =>
       SubSeq(logged[1], maxLogQuery - 2, maxLogQuery) = Dots
=============================================================================
