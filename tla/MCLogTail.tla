------------------------------ MODULE MCLogTail ------------------------------
(* A body that is short, and one that is longer than a whole short record  *)
(* and holds the frame of a record.                                        *)
EXTENDS LogTail

CONSTANTS one, two, short, quoting

Lens == [b \in Bodies |-> IF b = short THEN 1 ELSE 5]

HeldDelete == [b \in {quoting} |-> Delete(one)]
=============================================================================
