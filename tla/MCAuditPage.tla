---------------------------- MODULE MCAuditPage ----------------------------
(* AuditPage for TLC: calls 1 and 2 are old decisions of one transaction,  *)
(* call 3 is mediated, call 4 is observed.                                 *)
EXTENDS AuditPage

Request(n, v, r) == [limit |-> n, verify |-> v, reserve |-> r]

\* An empty page, a page of one, a page past what one scan serves; a control
\* plane whose reserve is not the writers'.
AnyPage == {Request(0, FALSE, 1), Request(1, TRUE, 1), Request(4, FALSE, 1), Request(0, FALSE, 2)}
PageOfOne == {Request(1, FALSE, 1)}
=============================================================================
