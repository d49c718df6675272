---------------------------- MODULE StreamServer -----------------------------
(***************************************************************************)
(* External: what a SHOUTcast server sends, for small numbers: stretches   *)
(* of audio with titles between them, in chunks of one size or without.    *)
(***************************************************************************)
EXTENDS Integers, Sequences, SequencesExt

Piece(kind, at, value) == [kind |-> kind, at |-> at, value |-> value]

Title(i, length) == [j \in 1..length |-> Piece("title", j, i)]

(* A stretch of audio and what follows it.                                 *)
Period(m, i, units, unit) ==
  [j \in 1..IF m = 0 THEN 1 ELSE m |-> Piece("audio", 0, 1)]
    \o IF m = 0 THEN <<>>
       ELSE <<Piece("length", 0, units)>> \o Title(i, units * unit)

(* The audio is told by its place in the stream.                           *)
Placed(s) == [k \in 1..Len(s) |-> IF s[k].kind = "audio" THEN [s[k] EXCEPT !.at = k] ELSE s[k]]

StreamsOf(m, periods, maxUnits, unit) ==
  {Placed(FlattenSeq([i \in 1..periods |-> Period(m, i, units[i], unit)])) :
     units \in [1..periods -> 0..maxUnits]}

(* The chunks of a body: all of one size, but the last; and the end.       *)
Eol == <<Piece("cr", 0, 0), Piece("lf", 0, 1)>>
SizeLine(n) == <<Piece("size", 0, n)>> \o Eol
Encode(body, size) ==
  LET n == (Len(body) + size - 1) \div size
      Chunk(i) == SubSeq(body, (i - 1) * size + 1, IF i = n THEN Len(body) ELSE i * size)
  IN  [bytes |-> FlattenSeq([i \in 1..n |-> SizeLine(Len(Chunk(i))) \o Chunk(i) \o Eol])
                   \o SizeLine(0) \o Eol,
       chunks |-> {<<(i - 1) * (size + 5), (i - 1) * size>> : i \in 1..n}
                    \cup {<<Len(body) + 5 * n, Len(body)>>}]
==============================================================================
