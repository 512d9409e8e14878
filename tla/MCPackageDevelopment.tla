------------------------ MODULE MCPackageDevelopment ------------------------
(* Every task but docs works on the path src.                              *)
EXTENDS PackageDevelopment
CONSTANTS driver, fix, docs, src, doc
MCOwned == [t \in Task |-> IF t = docs THEN doc ELSE src]
MCMaxAttempts == [t \in Task |-> IF t = driver THEN 2 ELSE 1]
=============================================================================
