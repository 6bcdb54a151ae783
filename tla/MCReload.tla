------------------------------ MODULE MCReload ------------------------------
(***************************************************************************)
(* Instance of PublicationReload: two contents that share rows; B has      *)
(* another text in a shared one, and a text row, a chunk and a graph row   *)
(* of its own.                                                             *)
(***************************************************************************)
EXTENDS PublicationReload
CONSTANTS A, B, doc, add, dchunk, achunk, node, edge, text, w1, w2, r1, r2
MCRowsOf == [p \in Pub |->
  Row \cap (IF p = A THEN {doc, dchunk, node} ELSE {doc, add, dchunk, achunk, node, edge})]
MCContent == [p \in Pub |-> [r \in RowsOf[p] |-> [c \in Column |->
  IF c = text THEN IF r = doc THEN p ELSE A ELSE IF r \in TextRow THEN NoPub ELSE p]]]
MCOrder == [p \in Pub |-> [r \in Row |->
  CASE r = doc -> 1 [] r = add -> 2 [] r = dchunk -> 3 [] r = achunk -> 4
    [] r = node -> 5 [] r = edge -> 6]]
MCVersionRows == [p \in Pub |-> RowsOf[p] \cap TextRow]

\* B takes the text row out of the version that A and B both have.
MCRowsWithout == [p \in Pub |-> Row \cap (IF p = A THEN {doc, node} ELSE {node, edge})]
MCSameVersion == [p \in Pub |-> TextRow]
=============================================================================
