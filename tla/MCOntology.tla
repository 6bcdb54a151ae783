----------------------------- MODULE MCOntology -----------------------------
(***************************************************************************)
(* Instance of Retrieval. Publication P has a document x whose version     *)
(* changes on day 3 and a restricted y; its edges are a triangle with a    *)
(* tail, an edge that is not approved and one taken from y. Q republishes  *)
(* x in one version, keeps an edge id with another end and lifts the       *)
(* restriction of y. Every limit is smaller than what it limits.           *)
(***************************************************************************)
EXTENDS Retrieval
CONSTANTS P, Q, a, b, c, e, x, y, x1, x2, x3, y1, internal, restricted, uses, owns

V(id, doc, from, to, articles, paragraphs) ==
  [id |-> id, doc |-> doc, status |-> "published", from |-> from, to |-> to,
   articles |-> articles, paragraphs |-> paragraphs]
At(doc, version, locator) == [doc |-> doc, version |-> version, locator |-> locator]

MCPlace == <<At(x, x1, <<1, 1>>), At(x, x1, <<1, 2>>), At(x, x1, <<2, 1>>),
             At(x, x2, <<1, 1>>), At(x, x3, <<2, 1>>), At(y, y1, <<1, 1>>)>>
MCVersions == [p \in Pub |->
  IF p = P THEN {V(x1, x, 1, 3, {1, 2}, {1, 2, 3}), V(x2, x, 3, Open, {1, 3}, {4}),
                 V(y1, y, 1, Open, {1}, {6})}
  ELSE {V(x3, x, 1, Open, {1, 2}, {5}), V(y1, y, 1, Open, {1}, {6})}]
MCClassOf == [p \in Pub |->
  [d \in {x, y} |-> IF p = P /\ d = y THEN restricted ELSE internal]]
MCNodeClass == [p \in Pub |->
  [n \in IF p = P THEN {a, b, c, e} ELSE {a, b, c} |->
     IF n = e THEN restricted ELSE internal]]

MCRequesters ==
  {[who |-> [classes |-> {internal}, docs |-> Unrestricted], day |-> 2],
   [who |-> [classes |-> {internal, restricted}, docs |-> {x}], day |-> 2],
   [who |-> [classes |-> {internal}, docs |-> Unrestricted], day |-> 3]}

E(id, s, t, type, doc, anchor, ok) ==
  [id |-> id, source |-> s, target |-> t, type |-> type, doc |-> doc,
   anchor |-> anchor, approved |-> ok]

EdgesP == {E(1, a, b, uses, x, <<1, 0>>, TRUE), E(2, b, c, uses, x, <<1, 2>>, TRUE),
           E(3, a, c, owns, x, Metadata, TRUE), E(4, c, e, uses, x, <<1, 1>>, TRUE),
           E(5, a, e, owns, y, <<1, 1>>, TRUE), E(6, a, c, uses, x, <<1, 1>>, FALSE)}
EdgesQ == {E(1, a, c, uses, x, <<1, 1>>, TRUE), E(2, b, c, uses, x, <<2, 0>>, TRUE),
           E(3, a, b, owns, y, <<1, 1>>, TRUE)}

MCTypeFilters == {{}, {uses}}
MCEdge == EdgesP \cup EdgesQ
MCEdges == [p \in Pub |-> IF p = P THEN EdgesP ELSE EdgesQ]
MCAltered == {E(1, c, a, uses, x, <<1, 0>>, TRUE), E(2, b, a, uses, x, <<1, 2>>, TRUE),
              E(3, a, c, owns, x, Metadata, FALSE)}

\* Scores of the paragraphs 1 to 6: one that weighs more than a weaker one in
\* every lane, the strongest that is needed, hits of one lane only, no hit.
Ask(lexical, vector, nodes) == [lexical |-> lexical, vector |-> vector, nodes |-> nodes]
MCQuestions ==
  {Ask(<<60, 19, 0, 0, 0, 0>>, <<0, 19, 10, 0, 0, 0>>, {b}),
   Ask(<<19, 51, 19, 19, 51, 19>>, <<19, 0, 0, 0, 19, 19>>, {a, b, c, e}),
   Ask(<<10, 0, 40, 0, 5, 25>>, <<0, 50, 10, 80, 5, 70>>, {a}),
   Ask(<<0, 0, 0, 0, 0, 0>>, <<0, 0, 0, 0, 0, 0>>, {b, e}),
   Ask(<<5, 30, 30, 19, 0, 0>>, <<5, 5, 20, 19, 0, 0>>, {}),
   Ask(<<51, 19, 18, 70, 60, 51>>, <<1, 19, 19, 1, 0, 30>>, {b, c})}
MCRestrictions == {Unrestricted, {x}, {y}}
=============================================================================
