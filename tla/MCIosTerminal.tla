---------------------------- MODULE MCIosTerminal ----------------------------
(* Instances of IosTerminal for TLC. *)
EXTENDS IosTerminal

\* Two pages for the one query, one row for the other.
FewRows == [q \in Query |-> IF q \in Qualified THEN 3 ELSE 2]
=============================================================================
