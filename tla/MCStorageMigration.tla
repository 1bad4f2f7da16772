------------------------- MODULE MCStorageMigration -------------------------
(* StorageMigration on a document that can be copied and a second one with *)
(* the same bytes whose legacy object is lost, so that it can only borrow  *)
(* the copy of the first.                                                  *)
EXTENDS StorageMigration, TLC

CONSTANTS d1, d2, w1, w2, sha

OneDocument == {d1}
TwoDocuments == {d1, d2}
MCWorkers == {w1, w2}
MCDigest == [d \in Documents |-> sha]
MCLegacyObject == [d \in Documents |-> IF d = d1 THEN sha ELSE None]
=============================================================================
