----------------------------- MODULE MCTimeline -----------------------------
(***************************************************************************)
(* Instance of VersionTimeline: the first version alone; with a successor; *)
(* with the boundary moved to later and to earlier; with an inverted       *)
(* draft, then with that published third version; overlapping, empty and   *)
(* inverted periods.                                                       *)
(***************************************************************************)
EXTENDS VersionTimeline
CONSTANTS v1, v2, v3

R(v, from, to) == [id |-> v, from |-> from, to |-> to, status |-> "published"]

MCContents ==
  << <<R(v1, 1, Open)>>,
     <<R(v1, 1, 3), R(v2, 3, Open)>>,
     <<R(v1, 1, 4), R(v2, 4, Open)>>,
     <<R(v1, 1, 2), R(v2, 3, Open)>>,
     <<R(v1, 1, 3), R(v2, 3, 5), [R(v3, 5, 4) EXCEPT !.status = "draft"]>>,
     <<R(v1, 1, 3), R(v2, 3, 5), R(v3, 5, Open)>>,
     <<R(v1, 1, 3), R(v2, 2, Open)>>,
     <<R(v1, 1, 2), R(v3, 2, 2), R(v2, 3, Open)>>,
     <<R(v1, 1, 3), R(v3, 3, 2), R(v2, 4, Open)>> >>

MCPub == 1 .. Len(MCContents)
MCContent == [p \in MCPub |-> MCContents[p]]
=============================================================================
