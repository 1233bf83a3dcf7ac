------------------------------- MODULE XAttrib -------------------------------
(***************************************************************************)
(* The extended attributes.  pst_load_extended_attributes reads records    *)
(* from the block of descriptor 0x61 into a list sorted by map, and        *)
(* pst_parse_block looks up the type of every property in it.  A record    *)
(* renames a type to a number or to a name that is in a second buffer.     *)
(*                                                                         *)
(* Half stands for 0x8000: a record and a type have 16 bits, but the map   *)
(* of a record gets Half added without being cut to 16 bits.               *)
(***************************************************************************)
EXTENDS Integers, Sequences, FiniteSets, SequencesExt

CONSTANTS Half,
          MaxRecords, \* bound on the records of the file
          Targets,    \* the numbers and names that types are renamed to
          NamesSize, \* hsize, and the bytes a length prefix takes (4)
          PrefixSize

ASSUME AttributeAssumption ==
  Half \in Nat \ {0} /\ MaxRecords \in Nat /\ NamesSize \in Nat /\ PrefixSize \in Nat \ {0}

Short == 0 .. 2 * Half - 1

VARIABLES
  phase,  \* "start", "records", "loaded", "refused"
  header, \* the block has an element 4: headerbuffer
  head,   \* p_head, then pf->x_head: the list
  loaded  \* history: the records that were not refused, as they came

attributeVars == <<phase, header, head, loaded>>

AttributeInit == phase = "start" /\ header = FALSE /\ head = <<>> /\ loaded = <<>>

(* The descriptor, its block and an element 3 are needed.  Other programs  *)
(* and files go on without attributes.                                     *)
Start ==
  /\ phase = "start"
  /\ phase' \in {"records", "refused"}
  /\ header' \in BOOLEAN
  /\ UNCHANGED <<head, loaded>>

\* The walk along the list: how many entries it passes before one that is not
\* below map.
Passed(list, map) ==
  LET ends == {k \in DOMAIN list : list[k].map >= map}
  IN IF ends = {} THEN Len(list) ELSE (CHOOSE k \in ends : \A j \in ends : k <= j) - 1

\* Variant: it goes after them.
InsertAfter(entry) ==
  /\ head' = InsertAt(head, Passed(head, entry.map + 1) + 1, entry)
  /\ loaded' = Append(loaded, entry)

\* A record goes before those of the same map.
Insert(entry) ==
  /\ head' = InsertAt(head, Passed(head, entry.map) + 1, entry)
  /\ loaded' = Append(loaded, entry)

(* A record for a name has the position of a length and the text in the    *)
(* header buffer; both must be inside.  The length has a sign.             *)
NameInside(extended, length) ==
  /\ header /\ extended + PrefixSize <= NamesSize
  /\ length >= 0 /\ length <= NamesSize - extended - PrefixSize

Record ==
  /\ phase = "records" /\ Len(loaded) < MaxRecords
  /\ \E map \in Short, t \in Targets :
       \/ Insert([map |-> map + Half, kind |-> "attrib", target |-> t])
       \/ \E extended \in 0 .. NamesSize, length \in -1 .. NamesSize :
            /\ NameInside(extended, length)
            /\ Insert([map |-> map + Half, kind |-> "header", target |-> t])
  /\ UNCHANGED <<phase, header>>

Loaded ==
  /\ phase = "records" /\ phase' = "loaded"
  /\ UNCHANGED <<header, head, loaded>>

AttributeNext == Start \/ Record \/ Loaded

AttributeSpec == AttributeInit /\ [][AttributeNext]_attributeVars

\* pst_parse_block: what a property of this type becomes.
Unmapped == [kind |-> "none"]
LookUp(type) ==
  LET k == Passed(head, type) + 1
  IN IF k <= Len(head) /\ head[k].map = type
     THEN [kind |-> head[k].kind, target |-> head[k].target]
     ELSE Unmapped

-----------------------------------------------------------------------------
(* A type is renamed as the last record for it says, whatever came before, *)
(* between and after; a type without a record keeps its number, also when  *)
(* a record would fit once its map was cut to 16 bits.                     *)
LastDefinitionWins ==
  \A type \in Short :
    LET defs == {k \in DOMAIN loaded : loaded[k].map = type}
    IN LookUp(type) =
         IF defs = {} THEN Unmapped
         ELSE LET last == loaded[CHOOSE k \in defs : \A j \in defs : j <= k]
              IN [kind |-> last.kind, target |-> last.target]

(* Every record stays in the list, which the walk of a lookup can rely on  *)
(* being sorted, and pst_close finds all of them to free.                  *)
ListSorted ==
  /\ \A j, k \in DOMAIN head : j < k => head[j].map <= head[k].map
  /\ \A e \in ToSet(loaded) :
       Cardinality({k \in DOMAIN head : head[k] = e}) = Cardinality({k \in DOMAIN loaded : loaded[k] = e})

\* What pst_load_extended_attributes leaves is right: a lookup finds the last
\* record for its type, and the list keeps every record, in order.
AttributesFound == LastDefinitionWins /\ ListSorted
==============================================================================
