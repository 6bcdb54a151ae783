------------------------------ MODULE MCStore ------------------------------
(***************************************************************************)
(* Instance of PublicationStore: contents that share a text row, and two   *)
(* that share a chunk. The text row has two columns: each of B and C       *)
(* differs from A in another one.                                          *)
(***************************************************************************)
EXTENDS PublicationStore, TLC
CONSTANTS A, B, C, doc, chunk, title, body, w1, w2, w3
Symmetry ==
  Permutations(Worker) \cup {(B :> C @@ C :> B @@ title :> body @@ body :> title)}
MCRowsOf == [p \in Pub |-> IF p = A THEN {doc} ELSE Row]
MCContent == [p \in Pub |-> [r \in MCRowsOf[p] |-> [c \in Column |->
  CASE c = publication_id -> IF r = doc THEN NoPub ELSE p
    [] OTHER -> IF r = doc /\ <<p, c>> \in {<<B, title>>, <<C, body>>} THEN p ELSE A]]]
MCOrder == [p \in Pub |-> [r \in Row |-> IF r = doc THEN 1 ELSE 2]]
MCVersionRows == [p \in Pub |-> TextRow]
=============================================================================
