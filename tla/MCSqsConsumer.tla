--------------------------- MODULE MCSqsConsumer ---------------------------
(* SqsConsumer for TLC: three messages of one wallet and one of another.
   Message 2 repeats message 1 after the queue forgot it; message 4 has the
   messageId of message 1 with another body.                               *)
EXTENDS SqsConsumer, TLC

OneGroup == [m \in 1 .. N |-> "alice"]
TwoGroups == [m \in 1 .. N |-> IF m = 4 THEN "bob" ELSE "alice"]
Resent == [m \in 1 .. N |-> IF m \in {2, 4} THEN 1 ELSE m]
Bodied == [m \in 1 .. N |-> IF m = 2 THEN 1 ELSE m]
Distinct == [m \in 1 .. N |-> m]

Symmetry == Permutations(Consumers)
=============================================================================
