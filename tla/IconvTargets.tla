---------------------------- MODULE IconvTargets ----------------------------
(***************************************************************************)
(* The iconv descriptors of vbuf.c.  There are three for the whole         *)
(* process: from utf-16, and between utf-8 and the charset that was used   *)
(* last.  Every pst_open and every failed conversion closes them all;      *)
(* the next use of a charset opens two again, if the library knows it.     *)
(* A descriptor that was closed may be given out again.                    *)
(***************************************************************************)
EXTENDS Integers, FiniteSets

CONSTANTS Charsets,       \* names a message can ask for
          MaxDescriptors  \* bound: enough for all that are open at a time

ASSUME TargetsAssumption == MaxDescriptors \in Nat /\ MaxDescriptors >= 3

None == "none"     \* target_charset is NULL
Failed == 0        \* (iconv_t)-1
Descriptors == 1 .. MaxDescriptors

VARIABLES
  unicode_up, i16to8,
  target_charset,
  target_open_from, i8totarget,
  target_open_to, target2i8,
  open,     \* what each open descriptor converts
  used,     \* history: the descriptor of the last iconv call, what it was to
            \* convert and what it converts
  stray     \* history: a descriptor was closed that was not open

charsetVars == <<unicode_up, i16to8, target_charset, target_open_from, i8totarget,
                 target_open_to, target2i8, open, used, stray>>

NotUsed == [desc |-> Failed]

CharsetInit ==
  /\ unicode_up = FALSE /\ i16to8 = Failed
  /\ target_charset = None
  /\ target_open_from = FALSE /\ i8totarget = Failed
  /\ target_open_to = FALSE /\ target2i8 = Failed
  /\ open = <<>> /\ used = NotUsed /\ stray = FALSE

-----------------------------------------------------------------------------
(* The state as a record, for operations that are made of each other.      *)
Now == [up |-> unicode_up, utf16 |-> i16to8, charset |-> target_charset,
        from_open |-> target_open_from, from |-> i8totarget,
        to_open |-> target_open_to, to |-> target2i8, open |-> open, stray |-> stray]

Becomes(s) ==
  /\ unicode_up' = s.up /\ i16to8' = s.utf16
  /\ target_charset' = s.charset
  /\ target_open_from' = s.from_open /\ i8totarget' = s.from
  /\ target_open_to' = s.to_open /\ target2i8' = s.to
  /\ open' = s.open /\ stray' = s.stray

\* iconv_close.  Closing (iconv_t)-1 only gives an error.
Close(s, d) ==
  IF d \in DOMAIN s.open
  THEN [s EXCEPT !.open = [e \in DOMAIN s.open \ {d} |-> s.open[e]]]
  ELSE [s EXCEPT !.stray = (@ \/ d # Failed)]

CloseIf(s, condition, d) == IF condition THEN Close(s, d) ELSE s

\* iconv_open: the results, of which the last is a failure.
OpenNew(s, from, to) ==
  {<<[s EXCEPT !.open = [e \in DOMAIN s.open \cup {d} |->
                           IF e = d THEN [from |-> from, to |-> to] ELSE s.open[e]]], d>> :
     d \in {CHOOSE d \in Descriptors : d \notin DOMAIN s.open}}
  \cup {<<s, Failed>>}

UnicodeClose(s) ==
  LET s1 == CloseIf(s, s.up, s.utf16)
      s2 == CloseIf(s1, s.from_open, s.from)
      s3 == CloseIf(s2, s.to_open, s.to)
  IN [s3 EXCEPT !.up = FALSE, !.utf16 = IF s.up THEN Failed ELSE @,
                !.from_open = FALSE, !.from = IF s.from_open THEN Failed ELSE @,
                !.to_open = FALSE, !.to = IF s.to_open THEN Failed ELSE @,
                !.charset = None]

UnicodeInit(s) ==
  {[r[1] EXCEPT !.up = TRUE, !.utf16 = r[2]] :
     r \in OpenNew(IF s.up THEN UnicodeClose(s) ELSE s, "utf-16", "utf-8")}

\* Variant: descriptors that are open are taken for those of the charset.
OpenTargetsOnce(s, charset) ==
  IF s.charset # None THEN {s}
  ELSE LET from == OpenNew([s EXCEPT !.charset = charset], "utf-8", charset)
       IN UNION {{[r[1] EXCEPT !.from = f[2], !.from_open = f[2] # Failed,
                               !.to = r[2], !.to_open = r[2] # Failed] :
                    r \in OpenNew(f[1], charset, "utf-8")} : f \in from}

\* open_targets: nothing to do if the charset is the last one.
OpenTargets(s, charset) ==
  IF s.charset = charset THEN {s}
  ELSE LET closed == CloseIf(CloseIf(s, s.from_open, s.from), s.to_open, s.to)
           from == OpenNew([closed EXCEPT !.charset = charset], "utf-8", charset)
       IN UNION {{[r[1] EXCEPT !.from = f[2], !.from_open = f[2] # Failed,
                               !.to = r[2], !.to_open = r[2] # Failed] :
                    r \in OpenNew(f[1], charset, "utf-8")} : f \in from}

(* iconv with a descriptor: it converts, or it fails, and then everything  *)
(* starts again.                                                           *)
Iconv(s, d, from, to) ==
  /\ used' = [desc |-> d, from |-> from, to |-> to,
              does |-> IF d \in DOMAIN s.open THEN s.open[d] ELSE NotUsed]
  /\ \/ d # Failed /\ Becomes(s)
     \/ \E r \in UnicodeInit(s) : Becomes(r)

-----------------------------------------------------------------------------
\* pst_open, of one file after another.
PstOpen == (\E r \in UnicodeInit(Now) : Becomes(r)) /\ UNCHANGED used

\* pst_vb_utf16to8
Utf16to8 == unicode_up /\ Iconv(Now, i16to8, "utf-16", "utf-8")

\* pst_vb_utf8to8bit, with its return when there is no such target.
Utf8to8bit ==
  \E charset \in Charsets : \E s \in OpenTargets(Now, charset) :
    IF s.from_open THEN Iconv(s, s.from, "utf-8", charset)
    ELSE Becomes(s) /\ UNCHANGED used

\* pst_vb_8bit2utf8
To8bit2utf8 ==
  \E charset \in Charsets : \E s \in OpenTargets(Now, charset) :
    IF s.to_open THEN Iconv(s, s.to, charset, "utf-8")
    ELSE Becomes(s) /\ UNCHANGED used

CharsetNext == PstOpen \/ Utf16to8 \/ Utf8to8bit \/ To8bit2utf8

CharsetSpec == CharsetInit /\ [][CharsetNext]_charsetVars

-----------------------------------------------------------------------------
(* The open descriptors are the three that are kept, each once: none is    *)
(* leaked, closed twice, or kept after it was closed, in whatever order    *)
(* files are opened, charsets change and conversions fail.                 *)
DescriptorsOwned ==
  LET kept == {d \in {i16to8} : unicode_up} \cup {d \in {i8totarget} : target_open_from}
                \cup {d \in {target2i8} : target_open_to}
  IN /\ ~stray
     /\ DOMAIN open = kept \ {Failed}
     /\ target_open_from /\ target_open_to => i8totarget # target2i8
     /\ unicode_up /\ i16to8 # Failed => i16to8 \notin ({i8totarget, target2i8} \ {Failed})

(* A text is converted between the charsets it was asked for, although the *)
(* descriptors belong to whoever used them last, also in another file.     *)
RightConversion ==
  used.desc # Failed => used.does = [from |-> used.from, to |-> used.to]

\* Files, charsets and failures in any order: the descriptors that are open are
\* the ones that are kept, and each converts what it is used for.
DescriptorsRight == DescriptorsOwned /\ RightConversion
==============================================================================
