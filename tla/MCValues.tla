------------------------------ MODULE MCValues ------------------------------
(* How a value gets out of the file: property blocks, extended attributes,  *)
(* compressed RTF, string buffers and iconv descriptors.  They share no     *)
(* variable, so a behaviour takes the steps of one of them; the others stay *)
(* in one of their first states.                                            *)
EXTENDS PropertyBlock, XAttrib, Lzfu, StringBuffers, IconvTargets

VARIABLE part

\* The first text of a ring of five places.  Blocks have up to nine bytes, two
\* of them header, so that twelve bytes of output wrap the ring twice.  A type
\* of an attribute has two bits, Half stands for the upper one.
MCInitDict == <<1, 2>>

allVars == <<part, vars, attributeVars, rtfVars, stringVars, charsetVars>>

Parts == {"block", "attributes", "rtf", "string", "charset"}

MCInit ==
  /\ part \in Parts
  /\ Init /\ AttributeInit /\ RtfInit /\ StringInit /\ CharsetInit
  /\ part # "rtf" => compsize = 2 /\ in_size = 2 /\ out_size = 0
  /\ part # "string" => use = "to" /\ left = <<>>

InBlock == part = "block" /\ Next /\ UNCHANGED <<part, attributeVars, rtfVars, stringVars, charsetVars>>
InAttributes == part = "attributes" /\ AttributeNext /\ UNCHANGED <<part, vars, rtfVars, stringVars, charsetVars>>
InRtf == part = "rtf" /\ RtfNext /\ UNCHANGED <<part, vars, attributeVars, stringVars, charsetVars>>
InString == part = "string" /\ StringNext /\ UNCHANGED <<part, vars, attributeVars, rtfVars, charsetVars>>
InCharset == part = "charset" /\ CharsetNext /\ UNCHANGED <<part, vars, attributeVars, rtfVars, stringVars>>

MCNext == InBlock \/ InAttributes \/ InRtf \/ InString \/ InCharset

\* A conversion goes on until it returns.
MCSpec == MCInit /\ [][MCNext]_allVars /\ WF_allVars(InString)

-----------------------------------------------------------------------------
(* The loop around iconv ends, but for the shift it has no room for        *)
(* (StringBuffers).                                                        *)
ConversionEnds == part = "string" => LoopEnds
==============================================================================
