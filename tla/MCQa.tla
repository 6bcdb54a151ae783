-------------------------------- MODULE MCQa --------------------------------
(***************************************************************************)
(* Instance of RegulationBrowsing, and of QaAnswer in it. P has version v1 *)
(* of document d, an article of two paragraphs, and document e that refers *)
(* to it. Q has another text for one paragraph, makes v2 effective and has *)
(* no document e. In R document d may not be read and no version of e is   *)
(* effective. A fact has a number, of which "digit" is a part, and is      *)
(* normalized to "brief"; "across" stands where a fact is followed by      *)
(* another body. An article or a chapter comes before the paragraphs in P  *)
(* and Q, which leaves one of them beyond the limit.                       *)
(***************************************************************************)
EXTENDS RegulationBrowsing
CONSTANTS P, Q, R, d, e, v1, v2, u1, a, b, n, x, fact, changed, pointer,
          digit, across, brief, one

MCPlace ==
  [y \in Prov |->
     [doc |-> IF y = x THEN e ELSE d,
      version |-> IF y = x THEN u1 ELSE IF y = n THEN v2 ELSE v1,
      article |-> one]]

Effective(v, u) == [y \in Doc |-> IF y = d THEN v ELSE u]

MCContent ==
  [p \in Pub |->
     CASE p = P -> [docs |-> {d, e}, readable |-> {d, e},
                    versions |-> {v1, u1}, effective |-> Effective(v1, u1),
                    body |-> [y \in {a, b, x} |->
                                IF y = x THEN {pointer} ELSE {fact, digit}]]
       [] p = Q -> [docs |-> {d}, readable |-> {d}, versions |-> {v1, v2},
                    effective |-> Effective(v2, None),
                    body |-> [y \in {a, b, n} |->
                                IF y = b THEN {changed} ELSE {fact, digit}]]
       [] p = R -> [docs |-> {d, e}, readable |-> {e},
                    versions |-> {v1, u1}, effective |-> Effective(v1, None),
                    body |-> [y \in {a, b, x} |->
                                IF y = x THEN {pointer} ELSE {fact, digit}]]]

\* The first version of each document has the label 1.0.
MCMadeUp == [y \in Doc |-> IF y = d THEN v1 ELSE u1]

MCCode == [y \in Doc |-> IF y = e THEN 1 ELSE 2]
MCPosition ==
  [p \in Pub |-> [y \in Prov |->
     CASE p = P -> IF y = b THEN 3 ELSE 2
       [] p = Q -> IF y = a THEN 3 ELSE 2
       [] p = R -> IF y = b THEN 2 ELSE 1]]

MCNumbers == [s \in Passage |-> CASE s = fact  -> {24} [] s = brief -> {24}
                                  [] s = digit -> {4}  [] OTHER     -> {}]
MCSeams(quotes) ==
  IF \E i \in 1 .. Len(quotes) - 1 : fact \in quotes[i] /\ quotes[i] # quotes[i + 1]
  THEN {across} ELSE {}
MCNormalized(quotes) ==
  IF \E i \in DOMAIN quotes : fact \in quotes[i] THEN {brief} ELSE {}

MCMentions == [s \in Passage |-> IF s = pointer THEN {<<d, one>>} ELSE {}]
=============================================================================
