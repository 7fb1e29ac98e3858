-------------------------- MODULE MCSignatureCache --------------------------
(* The images of MCDispatch, with messages between their loads.              *)
EXTENDS MCDispatch, SignatureCache

MCArguments == [n \in SelName |-> CASE n = "m" -> 4 [] n = "forward" -> 1 [] OTHER -> 0]
=============================================================================
