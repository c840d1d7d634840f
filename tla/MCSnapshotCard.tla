--------------------------- MODULE MCSnapshotCard ---------------------------
(* An instance of SnapshotCard: one body per view, and eligible ones whose *)
(* first row is restricted, dangling or open.                              *)
EXTENDS SnapshotCard, TLC

CONSTANTS e1, e2

Eligible(seq, marks) ==
    [state |-> "eligible", flags |-> {}, refs |-> [q \in Persons |-> seq], evidence |-> marks]

MCBodies ==
    LET plain == [row \in Rows |-> "open"]
        some == Eligible(<<e1, e2>>, plain)
    IN  {[some EXCEPT !.state = "unconfigured"],
         [some EXCEPT !.flags = {"ineligible", "empty"}],
         [some EXCEPT !.flags = {"restricted"}],
         [some EXCEPT !.refs = [q \in Persons |-> <<>>], !.flags = {"empty"}],
         some,
         [some EXCEPT !.evidence[e1] = "hidden"],
         [some EXCEPT !.evidence = [row \in Rows |-> IF row = e1 THEN "absent" ELSE "hidden"]]}

=============================================================================
