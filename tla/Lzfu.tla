-------------------------------- MODULE Lzfu --------------------------------
(***************************************************************************)
(* pst_lzfu_decompress.  The compressed text is groups of one byte of      *)
(* flags and up to eight tokens: a byte that stands for itself, or two     *)
(* bytes that name a place of the dictionary and a length.  All output is  *)
(* also written to the dictionary, a ring whose next place is set to 0.    *)
(*                                                                         *)
(* The bytes of the input are chosen as they are read.  The ring has Ring  *)
(* places instead of 4096, Groups tokens share a byte of flags instead of  *)
(* 8, lengths are at most MaxCopy instead of 17, and 32-bit sizes wrap at  *)
(* Word.                                                                   *)
(***************************************************************************)
EXTENDS Integers, Sequences, SequencesExt

CONSTANTS Ring, InitDict, Groups, MaxCopy, HeaderSize, Word, MaxCompSize, Bytes

ASSUME LzfuAssumption ==
  /\ {Ring, Groups, MaxCopy, HeaderSize, Word} \subseteq Nat \ {0}
  /\ InitDict \in Seq(Nat) /\ Len(InitDict) < Ring /\ MaxCopy >= 2 /\ 0 \in Bytes
  /\ MaxCompSize \in HeaderSize .. Word - 1

Cut(a, b) == IF a < b THEN a ELSE b

VARIABLES
  state,    \* "group", "token", "copy", "done"
  in_ptr, in_size,
  compsize,
  out_size,
  tokens,   \* flags that are left in this group
  copy,     \* the loop of a copied piece: offset and length left
  dict, dict_length,
  out,      \* out_buf
  history   \* history: the first text of the dictionary and all bytes since

rtfVars == <<state, in_ptr, in_size, compsize, out_size, tokens, copy, dict, dict_length, out, history>>
sizes == <<in_size, compsize, out_size>>

(* cbSize and cbRawSize are what the file says: cbSize + 4 may wrap, and   *)
(* cbRawSize is cut to what a block of this size can give.                 *)
MaxOut(size) == size * MaxCopy + (MaxCopy - 1)

RtfInit ==
  /\ state = "group"
  /\ compsize \in HeaderSize .. MaxCompSize
  /\ \E cbSize, cbRawSize \in 0 .. Word - 1 :
       /\ in_size = Cut((cbSize + 4) % Word, compsize)
       /\ out_size = Cut(cbRawSize, MaxOut(compsize))
  /\ in_ptr = HeaderSize
  /\ tokens = 0
  /\ copy = [offset |-> 0, length |-> 0]
  /\ dict = [k \in 0 .. Ring - 1 |-> IF k < Len(InitDict) THEN InitDict[k + 1] ELSE 0]
  /\ dict_length = Len(InitDict)
  /\ out = <<>>
  /\ history = InitDict

\* Variant: the next place keeps its old byte.
EmitKeep(byte) ==
  /\ dict_length' = (dict_length + 1) % Ring
  /\ dict' = [dict EXCEPT ![dict_length] = byte]
  /\ out' = IF Len(out) < out_size THEN Append(out, byte) ELSE out
  /\ history' = Append(history, byte)

\* A byte goes to the dictionary and, if there is room, to the output.
Emit(byte) ==
  /\ dict_length' = (dict_length + 1) % Ring
  /\ dict' = [dict EXCEPT ![dict_length] = byte, ![dict_length'] = 0]
  /\ out' = IF Len(out) < out_size THEN Append(out, byte) ELSE out
  /\ history' = Append(history, byte)

Group ==
  /\ state = "group"
  /\ IF in_ptr < in_size
     THEN in_ptr' = in_ptr + 1 /\ tokens' = Groups /\ state' = "token"
     ELSE state' = "done" /\ UNCHANGED <<in_ptr, tokens>>
  /\ UNCHANGED <<sizes, copy, dict, dict_length, out, history>>

\* The flag is off and there is a byte.
Literal ==
  /\ state = "token" /\ tokens > 0 /\ in_ptr < in_size
  /\ in_ptr' = in_ptr + 1 /\ tokens' = tokens - 1
  /\ \E byte \in Bytes : Emit(byte)
  /\ UNCHANGED <<state, sizes, copy>>

\* The flag is on and there are two bytes.
Reference ==
  /\ state = "token" /\ tokens > 0 /\ in_ptr + 1 < in_size
  /\ in_ptr' = in_ptr + 2 /\ tokens' = tokens - 1
  /\ \E offset \in 0 .. Ring - 1, length \in 2 .. MaxCopy :
       copy' = [offset |-> offset, length |-> length]
  /\ state' = "copy"
  /\ UNCHANGED <<sizes, dict, dict_length, out, history>>

\* The input ends inside a group: the flag says what is not there.
Nothing ==
  /\ state = "token" /\ tokens > 0 /\ in_ptr + 1 >= in_size
  /\ tokens' = tokens - 1
  /\ UNCHANGED <<state, in_ptr, sizes, copy, dict, dict_length, out, history>>

GroupDone ==
  /\ state = "token" /\ tokens = 0 /\ state' = "group"
  /\ UNCHANGED <<in_ptr, sizes, tokens, copy, dict, dict_length, out, history>>

CopyByte ==
  /\ state = "copy"
  /\ IF copy.length = 0
     THEN /\ state' = "token"
          /\ copy' = [offset |-> 0, length |-> 0]
          /\ UNCHANGED <<dict, dict_length, out, history>>
     ELSE /\ Emit(dict[copy.offset])
          /\ copy' = [offset |-> (copy.offset + 1) % Ring, length |-> copy.length - 1]
          /\ UNCHANGED state
  /\ UNCHANGED <<in_ptr, sizes, tokens>>

RtfNext == Group \/ Literal \/ Reference \/ Nothing \/ GroupDone \/ CopyByte

RtfSpec == RtfInit /\ [][RtfNext]_rtfVars

-----------------------------------------------------------------------------
(* The ring is a window on all text so far, cut off or not: a place holds  *)
(* the last byte that was written to it, among the Ring - 1 last, and 0 if *)
(* there is none or it is the place that is written next.  The comments at *)
(* lzfu.c:118 and 131 ask for this.                                        *)
DictIsWindow ==
  /\ dict_length = Len(history) % Ring
  /\ \A q \in 0 .. Ring - 1 :
       LET writes == {k \in DOMAIN history : (k - 1) % Ring = q /\ k > Len(history) - (Ring - 1)}
       IN dict[q] = IF writes = {} THEN 0 ELSE history[CHOOSE k \in writes : TRUE]

(* The output is the start of the text after the dictionary, and it is cut *)
(* only where the header says it ends: the bound that comes from the size  *)
(* of the block "never truncates valid output" (lzfu.c:79-80).             *)
OutputIsText ==
  LET text == SubSeq(history, Len(InitDict) + 1, Len(history))
  IN /\ out = SubSeq(text, 1, Cut(Len(text), out_size))
     /\ Len(text) <= MaxOut(compsize)

(* No byte is read behind the input, also when the file gives it a size    *)
(* that wraps, and none is left over: a last byte that is too little for a *)
(* reference begins a new group.                                           *)
InputUsed ==
  /\ in_ptr <= (IF in_size < HeaderSize THEN HeaderSize ELSE in_size) /\ in_size <= compsize
  /\ state = "done" => in_ptr = IF in_size < HeaderSize THEN HeaderSize ELSE in_size

\* pst_lzfu_decompress returns the text that was compressed: the dictionary is
\* the window on it, the output its start, and the input is used up.
TextDecompressed == DictIsWindow /\ OutputIsText /\ InputUsed
==============================================================================
