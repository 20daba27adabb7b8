-------------------------------- MODULE Search --------------------------------
(***************************************************************************)
(* The search of a large file (packages/tool-runtime/src/stream-io.ts): a  *)
(* text is a sequence of characters that arrives in chunks, and a line     *)
(* that is too long is looked at in windows.                               *)
(***************************************************************************)
EXTENDS Naturals, Sequences, SequencesExt, FiniteSets, FiniteSetsExt

(* searchFileStream. "n" ends a line. The state is the line under way, the  *)
(* number of the line and the matches; consider() counts a line up and      *)
(* stops at maxMatches.                                                     *)
Occurs(line, q) == \E i \in 1..Len(line) - Len(q) + 1 : SubSeq(line, i, i + Len(q) - 1) = q

Consider(s, line, q, maxMatches) ==
  LET found == IF Occurs(line, q) THEN Append(s.matches, s.lineNo) ELSE s.matches
  IN  [s EXCEPT !.matches = found, !.lineNo = @ + 1, !.done = Len(found) >= maxMatches]

Overlap(q) == Max({Len(q), 1})

RECURSIVE Lines(_, _, _)
Lines(s, q, maxMatches) ==
  LET ends == {i \in DOMAIN s.carry : s.carry[i] = "n"}
      nl == Min(ends)
      rest == [s EXCEPT !.carry = SubSeq(s.carry, nl + 1, Len(s.carry))]
  IN  IF s.done \/ ends = {} THEN s
      ELSE Lines(Consider(rest, SubSeq(s.carry, 1, nl - 1), q, maxMatches), q, maxMatches)

RECURSIVE Windows(_, _, _, _)
Windows(s, q, maxMatches, maxLine) ==
  IF s.done \/ Len(s.carry) <= maxLine THEN s
  ELSE LET kept == [s EXCEPT !.carry = SubSeq(s.carry, maxLine - Overlap(q) + 1, Len(s.carry))]
       IN  Windows(Consider(kept, SubSeq(s.carry, 1, maxLine), q, maxMatches), q, maxMatches, maxLine)

(* The matches, as line numbers; chunks is how the stream cuts the text.    *)
SearchFileStream(chunks, q, maxMatches, maxLine) ==
  LET start == [carry |-> <<>>, lineNo |-> 1, matches |-> <<>>, done |-> FALSE]
      Data(s, chunk) ==
        IF s.done THEN s
        ELSE Windows(Lines([s EXCEPT !.carry = @ \o chunk], q, maxMatches), q, maxMatches, maxLine)
      end == FoldLeft(Data, start, chunks)
  IN  IF ~end.done /\ end.carry # <<>> THEN Consider(end, end.carry, q, maxMatches).matches
      ELSE end.matches
===============================================================================
