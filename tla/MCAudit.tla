------------------------------ MODULE MCAudit ------------------------------
(***************************************************************************)
(* Instance of PgAuditLog: four requests on two instances, whose clocks    *)
(* agree or not.                                                           *)
(***************************************************************************)
EXTENDS PgAuditLog
CONSTANTS q1, q2, q3, q4, i1, i2
MCInstanceOf == [q \in Request |-> IF q \in {q1, q2} THEN i1 ELSE i2]
Agreeing == [i \in Instance |-> 0]
Ahead == [i \in Instance |-> IF i = i1 THEN 2 ELSE 0]
=============================================================================
