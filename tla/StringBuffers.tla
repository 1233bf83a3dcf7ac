---------------------------- MODULE StringBuffers ----------------------------
(***************************************************************************)
(* The buffers of vbuf.c and the loop around iconv: a text is converted    *)
(* into a buffer that is enlarged whenever iconv stops for lack of room.   *)
(* The three uses in the program:                                          *)
(*   "utf16"  pst_parse_block, to utf-8: a terminator is appended first    *)
(*   "from"   pst_convert_utf8, to utf-8: the terminator is converted too  *)
(*   "to"     write_body_part, from utf-8: without the terminator, which   *)
(*            is written behind the result                                 *)
(* A character is the bytes it takes and gives.  A charset with states     *)
(* (iso-2022-jp, utf-7) also writes a shift where the set changes.         *)
(***************************************************************************)
EXTENDS Integers, Sequences, SequencesExt

CONSTANTS Small, Large,  \* the arguments of pst_vballoc: 2, and 1024 for "utf16"
          MaxChars,      \* bound on the length of a text
          Stateful       \* charsets with shifts are among those of "to"

ASSUME BufferAssumption ==
  {Small, Large} \subseteq Nat \ {0} /\ MaxChars \in Nat /\ Stateful \in BOOLEAN

Char(in, out, set) == [in |-> in, out |-> out, set |-> set]
Plain == "plain"
ShiftBytes == 3

Chars(use) ==
  CASE use = "utf16" -> {Char(2, 1, Plain), Char(2, 3, Plain), Char(4, 4, Plain)}
    [] use = "from"  -> {Char(1, 1, Plain), Char(1, 2, Plain), Char(1, 3, Plain)}
    [] use = "to"    -> {Char(1, 1, Plain), Char(1, 2, Plain), Char(2, 2, Plain), Char(3, 2, Plain)}
    [] use = "shift" -> {Char(1, 1, Plain), Char(3, 2, "kanji")}

Uses == {"utf16", "from", "to"} \cup (IF Stateful THEN {"shift"} ELSE {})

VARIABLES
  at,      \* "set", "resize", "iconv", "grow", "terminate", "done", "failed"
  use,
  source,  \* utf16buf, the buffer of the source: blen and dlen
  left,    \* what iconv has not converted
  set,     \* the set of characters the output is in
  blen, dlen,
  given    \* history: the bytes of output the characters so far come to

stringVars == <<at, use, source, left, set, blen, dlen, given>>

InBytes(text) ==
  LET upTo[k \in 0 .. Len(text)] == IF k = 0 THEN 0 ELSE upTo[k - 1] + text[k].in
  IN upTo[Len(text)]

Larger(a, b) == IF a > b THEN a ELSE b

\* pst_vbresize
Resized(size, len) == Larger(size, len)

\* Variant: what is used is not counted.
GrownFromEmpty(size, used, len) == IF len <= size THEN size ELSE len

(* pst_vbgrow: the new size of a buffer of size bytes, used of them used.  *)
Grown(size, used, len) ==
  CASE len = 0 -> size
    [] len > 0 /\ size = 0 -> Resized(size, len)
    [] len > 0 /\ size > 0 /\ used + len <= size -> size
    [] OTHER -> size + (IF 2 * (used + len) < 3 * size THEN (3 * size) \div 2 ELSE len)

StringInit ==
  /\ use \in Uses
  /\ left \in SeqOf(Chars(use), MaxChars)
  /\ at = "set" /\ set = Plain
  /\ source = [blen |-> 0, dlen |-> 0]
  /\ blen = IF use = "utf16" THEN Large ELSE Small
  /\ dlen = 0 /\ given = 0

\* Variant: the text is converted as it is.
TerminatorMissing == <<>>

Terminator ==
  CASE use = "utf16" -> <<Char(2, 1, Plain)>>
    [] use = "from" -> <<Char(1, 1, Plain)>>
    [] OTHER -> <<>>

(* pst_vbset and pst_vbappend make the source of "utf16"; the others are   *)
(* strings already.                                                        *)
SetSource ==
  /\ at = "set" /\ at' = "resize"
  /\ source' = IF use = "utf16"
               THEN LET size == InBytes(left)
                    IN IF size = 0 THEN [blen |-> Resized(Large, 2), dlen |-> 2]
                       ELSE [blen |-> Grown(Resized(Large, size), size, 2), dlen |-> size + 2]
               ELSE source
  /\ left' = left \o Terminator
  /\ UNCHANGED <<use, set, blen, dlen, given>>

Resize ==
  /\ at = "resize" /\ at' = "iconv"
  /\ blen' = Resized(blen, (IF use = "utf16" THEN 1 ELSE 2) * InBytes(left))
  /\ dlen' = 0
  /\ UNCHANGED <<use, source, left, set, given>>

-----------------------------------------------------------------------------
(* iconv converts what fits, shift by shift and character by character, or *)
(* stops at something it cannot convert.                                   *)
Needed == IF Head(left).set = set THEN Head(left).out ELSE ShiftBytes

Convert ==
  /\ at = "iconv" /\ left # <<>> /\ Needed <= blen - dlen
  /\ dlen' = dlen + Needed
  /\ given' = given + Needed
  /\ IF Head(left).set = set
     THEN left' = Tail(left) /\ UNCHANGED set
     ELSE set' = Head(left).set /\ UNCHANGED left
  /\ UNCHANGED <<at, use, source, blen>>

Invalid ==
  /\ at = "iconv" /\ left # <<>> /\ at' = "failed"
  /\ UNCHANGED <<use, source, left, set, blen, dlen, given>>

Full ==
  /\ at = "iconv" /\ left # <<>> /\ Needed > blen - dlen
  /\ at' = "grow"
  /\ UNCHANGED <<use, source, left, set, blen, dlen, given>>

Whole ==
  /\ at = "iconv" /\ left = <<>>
  /\ at' = IF use \in {"to", "shift"} THEN "terminate" ELSE "done"
  /\ UNCHANGED <<use, source, left, set, blen, dlen, given>>

\* The loop: more room for what is left.
Grow ==
  /\ at = "grow" /\ at' = "iconv"
  /\ blen' = Grown(blen, dlen, (IF use = "utf16" THEN 1 ELSE 2) * InBytes(left))
  /\ UNCHANGED <<use, source, left, set, dlen, given>>

\* The caller makes room for a zero and writes it at dlen.
Terminate ==
  /\ at = "terminate" /\ at' = "done"
  /\ blen' = Grown(blen, dlen, 1)
  /\ UNCHANGED <<use, source, left, set, dlen, given>>

StringNext == SetSource \/ Resize \/ Convert \/ Invalid \/ Full \/ Whole \/ Grow \/ Terminate

StringSpec == StringInit /\ [][StringNext]_stringVars /\ WF_stringVars(StringNext)

-----------------------------------------------------------------------------
(* What is in a buffer fits it, with the zero behind a converted body and  *)
(* behind the source of a unicode string, and a text that was converted is *)
(* all there.                                                              *)
BufferHolds ==
  /\ source.dlen <= source.blen
  /\ dlen <= blen /\ dlen = given
  /\ at = "done" => left = <<>> /\ (use \in {"to", "shift"} => dlen + 1 <= blen)

\* A shift comes next and what the loop asks for is not enough for it:
\* pst_vbgrow finds the room that is there sufficient (vbuf.c:83, 173).
ShiftStuck ==
  /\ left # <<>> /\ Head(left).set # set
  /\ Grown(blen, dlen, 2 * InBytes(left)) - dlen < ShiftBytes

(* readpst.c:1628, 1635: a body is converted, or it turns out that it is   *)
(* "unable to convert"; so with strings.  The loop ends because in all     *)
(* three uses the room it asks for suffices for the next character; only a *)
(* charset with shifts, as iso-2022-jp (libpst.c:4756, 4780), may need     *)
(* more than that, and then the loop goes on for ever.                     *)
LoopEnds == <>(at \in {"done", "failed"} \/ ShiftStuck)
=============================================================================
