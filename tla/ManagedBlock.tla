---------------------------- MODULE ManagedBlock ----------------------------
(***************************************************************************)
(* The managed block of a text file (managed-block.ts). A file is a        *)
(* sequence of lines <<kind, value>> of the kinds "begin" and "end", the   *)
(* two markers; "content", what wagglebot wrote between them; "text"; and  *)
(* "table", a TOML table outside the block. The blank lines that set the   *)
(* block apart are left out.                                               *)
(***************************************************************************)
EXTENDS Integers, Sequences

LineKinds == {"begin", "content", "end", "text", "table"}

Positions(doc, kind) == {i \in DOMAIN doc : doc[i][1] = kind}
Least(S) == CHOOSE i \in S : \A j \in S : i <= j

HasBlock(doc) == Positions(doc, "begin") # {} /\ Positions(doc, "end") # {}
Malformed(doc) ==
  \/ (Positions(doc, "begin") = {}) # (Positions(doc, "end") = {})
  \/ HasBlock(doc) /\ Least(Positions(doc, "end")) < Least(Positions(doc, "begin"))

Head1(doc) == SubSeq(doc, 1, Least(Positions(doc, "begin")) - 1)
Tail1(doc) == SubSeq(doc, Least(Positions(doc, "end")) + 1, Len(doc))

Block(content) == <<<<"begin", "">>, <<"content", content>>, <<"end", "">>>>

renderManagedBlock(doc, content) ==
  IF HasBlock(doc) THEN Head1(doc) \o Block(content) \o Tail1(doc)
                   ELSE doc \o Block(content)
removeManagedBlock(doc) == IF HasBlock(doc) THEN Head1(doc) \o Tail1(doc) ELSE doc

(* Everything the engineer wrote.                                          *)
outsideBlock(doc) == IF HasBlock(doc) /\ ~Malformed(doc) THEN Head1(doc) \o Tail1(doc) ELSE doc
=============================================================================
