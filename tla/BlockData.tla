----------------------------- MODULE BlockData ------------------------------
(***************************************************************************)
(* The data of a block or of a tree of blocks, sent to a destination:      *)
(* pst_ff_getID2data(), pst_ff_compile_ID() and the pst_holder functions   *)
(* of libpst.c, with the base64 encoder of libstrfunc.c.                   *)
(*                                                                         *)
(* A holder sends the bytes to a buffer in memory, to a file, or to a file *)
(* in base64; then up to two bytes wait until a group of three is          *)
(* complete.  The bytes of a file are numbered in the order in which they  *)
(* are read.  What a block contains is chosen when it is read.             *)
(***************************************************************************)
EXTENDS Integers, Sequences, SequencesExt

CONSTANTS MaxDepth,   \* PST_MAX_BTREE_DEPTH
          MaxRead,    \* bound on the bytes of a data block
          MaxRefs,    \* bound on the references of an indirection block
          MaxBlocks,  \* bound on the blocks read
          LineGroups  \* groups on a line of base64: 76 characters are 19 groups

ASSUME SizesAssumption ==
  /\ {MaxDepth, MaxRead, MaxRefs} \subseteq Nat
  /\ {MaxBlocks, LineGroups} \subseteq Nat \ {0}

VARIABLES
  mode,    \* where the holder sends the data: "memory", "file" or "base64"
  pc,      \* "start", "run", "finish" or "done"
  stack,   \* the activations of pst_ff_compile_ID
  result,  \* ret of pst_ff_getID2data
  buffer,  \* the bytes in *(h->buf), up to the last position written
  file,    \* the bytes written to h->fp; in base64 its lines of groups
  extra,   \* base64_extra_chars
  column,  \* base64_line_count, in groups
  sent,    \* history: the bytes handed to pst_append_holder
  read,    \* history: the blocks read
  failed   \* history: some read failed or some block was refused

vars == <<mode, pc, stack, result, buffer, file, extra, column, sent, read, failed>>
holder == <<mode, buffer, file, extra, column>>

-----------------------------------------------------------------------------
Top == stack[Len(stack)]
NewFrame(size) == [kind |-> "open", left |-> 0, size |-> size]
SetTop(f) == [stack EXCEPT ![Len(stack)] = f]

\* The next z bytes of the file.
Bytes(z) == [i \in 1 .. z |-> Len(sent) + i]

\* base64_append, four characters at a time: a line that is full is ended first.
Put(lines, col, group) ==
  IF lines = <<>> \/ col = LineGroups THEN Append(lines, <<group>>)
  ELSE Append(Front(lines), Append(Last(lines), group))
NextColumn(col) == IF col = LineGroups THEN 1 ELSE col + 1

\* The lines and the column behind one more group.
WriteGroup(out, group) ==
  [lines |-> Put(out.lines, out.col, group), col |-> NextColumn(out.col)]

\* Mutant of Encode: every chunk starts with an empty line count.
EncodeAnew(groups) ==
  LET out[g \in 0 .. Len(groups)] ==
        IF g = 0 THEN [lines |-> file, col |-> 0] ELSE WriteGroup(out[g - 1], groups[g])
  IN  out[Len(groups)]

\* pst_base64_encode_multiple: groups of three bytes, the last may be shorter.
Encode(groups) ==
  LET out[g \in 0 .. Len(groups)] ==
        IF g = 0 THEN [lines |-> file, col |-> column] ELSE WriteGroup(out[g - 1], groups[g])
  IN  out[Len(groups)]

Groups(data) == [g \in 1 .. Len(data) \div 3 |-> SubSeq(data, 3 * g - 2, 3 * g)]
LeftOver(data) == SubSeq(data, 3 * (Len(data) \div 3) + 1, Len(data))

\* Mutant of Carried: the bytes left over from the last chunk are forgotten.
CarriedNothing(data) == data

\* What a call of pst_append_holder encodes: the bytes that wait come first.
Carried(data) == extra \o data

\* The result of pst_append_holder: in base64 without the bytes that wait.
NewSize(size, z) ==
  IF mode = "base64" THEN size + 3 * (Len(Carried(Bytes(z))) \div 3) ELSE size + z

\* Mutant of AppendHolder: the data goes behind everything in the buffer.
AppendHolderAtEnd(size, z) ==
  /\ buffer' = IF mode = "memory" THEN buffer \o Bytes(z) ELSE buffer
  /\ sent' = sent \o Bytes(z)
  /\ UNCHANGED <<mode, file, extra, column>>

\* pst_append_holder(h, size, buf, z)
AppendHolder(size, z) ==
  /\ CASE mode = "memory" ->
            /\ buffer' = SubSeq(buffer, 1, size) \o Bytes(z)
            /\ UNCHANGED <<file, extra, column>>
       [] mode = "file" ->
            /\ file' = file \o Bytes(z)
            /\ UNCHANGED <<buffer, extra, column>>
       [] mode = "base64" ->
            LET data == Carried(Bytes(z))
                out == Encode(Groups(data))
            IN  /\ file' = out.lines /\ column' = out.col
                /\ extra' = LeftOver(data)
                /\ UNCHANGED buffer
  /\ sent' = sent \o Bytes(z)
  /\ UNCHANGED mode

\* The current call of pst_ff_compile_ID returns size: it becomes the size of
\* the loop that called it, or the result.
Leave(size) ==
  LET rest == Front(stack)
  IN  IF rest # <<>>
      THEN /\ stack' = [rest EXCEPT ![Len(rest)].size = size]
           /\ UNCHANGED <<pc, result>>
      ELSE /\ stack' = <<>>
           /\ pc' = "finish"
           /\ result' = size

\* A block is read; in the end nothing more can be read.
CanRead == read < MaxBlocks
CountRead == read' = read + 1

-----------------------------------------------------------------------------
Init ==
  /\ mode \in {"memory", "file", "base64"}
  /\ pc = "start" /\ stack = <<>> /\ result = 0
  /\ buffer = <<>> /\ file = <<>> /\ extra = <<>> /\ column = 0
  /\ sent = <<>> /\ read = 0 /\ failed = FALSE

\* pst_ff_getID2data for a block of data; a failed read gives no bytes.
SingleBlock ==
  /\ pc = "start"
  /\ \E z \in 0 .. MaxRead :
       /\ AppendHolder(0, z)
       /\ result' = NewSize(0, z)
       /\ failed' = (z = 0)
  /\ pc' = "finish"
  /\ CountRead
  /\ UNCHANGED stack

\* Bit 1 of the id is set: an indirection block.
Indirect ==
  /\ pc = "start"
  /\ stack' = <<NewFrame(0)>>
  /\ pc' = "run"
  /\ UNCHANGED <<holder, result, sent, read, failed>>

Opening == pc = "run" /\ Top.kind = "open"

TooDeep == Len(stack) - 1 > MaxDepth

\* Too deep, or too small for the header: the size stays as it was.
Refuse ==
  /\ Opening
  /\ Leave(Top.size)
  /\ failed' = TRUE
  /\ UNCHANGED <<holder, sent, read>>

\* The block cannot be read: the result is 0, whatever was sent before.
ReadFails ==
  /\ Opening /\ ~TooDeep
  /\ Leave(0)
  /\ failed' = TRUE
  /\ UNCHANGED <<holder, sent, read>>

\* Type 0x0201 holds references to indirection blocks, 0x0101 to data blocks.
ReadReferences ==
  /\ Opening /\ ~TooDeep /\ CanRead
  /\ \E kind \in {"table", "list"}, n \in 0 .. MaxRefs :
       stack' = SetTop([Top EXCEPT !.kind = kind, !.left = n])
  /\ CountRead
  /\ UNCHANGED <<holder, pc, result, sent, failed>>

\* Any other type is data although it was referenced as an indirection block.
ReadPlain ==
  /\ Opening /\ ~TooDeep /\ CanRead
  /\ \E z \in 1 .. MaxRead :
       /\ AppendHolder(Top.size, z)
       /\ Leave(NewSize(Top.size, z))
  /\ CountRead
  /\ UNCHANGED failed

Referencing(kind) == pc = "run" /\ Top.kind = kind /\ Top.left > 0

NextTable ==
  /\ Referencing("table")
  /\ stack' = Append(SetTop([Top EXCEPT !.left = @ - 1]), NewFrame(Top.size))
  /\ UNCHANGED <<holder, pc, result, sent, read, failed>>

NextData ==
  /\ Referencing("list") /\ CanRead
  /\ \E z \in 1 .. MaxRead :
       /\ AppendHolder(Top.size, z)
       /\ stack' = SetTop([Top EXCEPT !.left = @ - 1, !.size = NewSize(Top.size, z)])
  /\ CountRead
  /\ UNCHANGED <<pc, result, failed>>

\* "call to getIDblock returned zero": so does this call.
NextDataFails ==
  /\ Referencing("list")
  /\ Leave(0)
  /\ failed' = TRUE
  /\ UNCHANGED <<holder, sent, read>>

EndReferences ==
  /\ pc = "run" /\ Top.kind \in {"table", "list"} /\ Top.left = 0
  /\ Leave(Top.size)
  /\ UNCHANGED <<holder, sent, read, failed>>

\* pst_finish_cleanup_holder: the bytes that wait are a last, short group.
Finish ==
  /\ pc = "finish"
  /\ IF mode = "base64" /\ extra # <<>>
     THEN LET out == Encode(<<extra>>)
          IN  file' = out.lines /\ column' = out.col
     ELSE UNCHANGED <<file, column>>
  /\ result' = result + IF mode = "base64" THEN Len(extra) ELSE 0
  /\ pc' = "done"
  /\ UNCHANGED <<mode, stack, buffer, extra, sent, read, failed>>

Next ==
  \/ SingleBlock \/ Indirect
  \/ Refuse \/ ReadFails \/ ReadReferences \/ ReadPlain
  \/ NextTable \/ NextData \/ NextDataFails \/ EndReferences
  \/ Finish

Spec == Init /\ [][Next]_vars

-----------------------------------------------------------------------------
Byte == 1 .. MaxBlocks * MaxRead
Frame == [kind : {"open", "table", "list"}, left : 0 .. MaxRefs, size : Nat]

\* The type invariant; the recursion is bounded although a table may lead back
\* to itself, and never more than two bytes wait.
TypeOK ==
  /\ mode \in {"memory", "file", "base64"} /\ pc \in {"start", "run", "finish", "done"}
  /\ stack \in Seq(Frame) /\ Len(stack) <= MaxDepth + 2 /\ (stack # <<>>) = (pc = "run")
  /\ result \in Nat
  /\ buffer \in Seq(Byte) /\ sent \in Seq(Byte) /\ extra \in Seq(Byte) /\ Len(extra) <= 2
  /\ file \in IF mode = "base64" THEN Seq(Seq(Seq(Byte))) ELSE Seq(Byte)
  /\ column \in 0 .. LineGroups
  /\ read \in 0 .. MaxBlocks /\ failed \in BOOLEAN

\* The bytes a reader of the destination gets.
Written == CASE mode = "memory" -> SubSeq(buffer, 1, result)
             [] mode = "file" -> file
             [] mode = "base64" -> FlattenSeq(FlattenSeq(file))

\* Without failures the destination holds the bytes of all blocks in the order
\* of the references, wherever the block boundaries fall, and the result is
\* their number.
DataComplete == pc = "done" /\ ~failed => Written = sent /\ result = Len(sent)

\* Whatever fails: only the last group of a base64 text is short, only its last
\* line is, and what was sent arrives completely, so that it can be decoded.
Base64WellFormed ==
  mode = "base64" =>
    LET groups == FlattenSeq(file)
    IN  /\ \A g \in 1 .. Len(groups) - 1 : Len(groups[g]) = 3
        /\ \A l \in 1 .. Len(file) - 1 : Len(file[l]) = LineGroups
        /\ file # <<>> => Len(Last(file)) \in 1 .. LineGroups
        /\ pc = "done" => FlattenSeq(groups) = sent

\* The caller of pst_attach_to_mem may read size bytes: after a failure the
\* buffer still holds that many, the last bytes that were read.
BufferHoldsSize ==
  /\ TypeOK
  /\ mode = "memory" /\ pc \in {"finish", "done"} =>
       result <= Len(buffer) /\ IsSuffix(SubSeq(buffer, 1, result), sent)
=============================================================================
