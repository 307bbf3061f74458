----------------------------- MODULE MCOperator -----------------------------
(* Operator with one linked host and two messages of one customer, more than *)
(* an hour's limit allows.                                                   *)
EXTENDS Operator

MCAuthor == [m \in Messages |-> "chat"]
=============================================================================
