--------------------------- MODULE MCSourceUpload ---------------------------
(* SourceUpload: two uploads of the same bytes and two backup workers.    *)
EXTENDS SourceUpload, TLC

CONSTANTS u1, u2, w1, w2, sha

TwoUploads == {u1, u2}
MCWorkers == {w1, w2}
MCContent == [u \in Objects |-> sha]
=============================================================================
