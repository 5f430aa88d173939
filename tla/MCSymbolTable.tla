--------------------------- MODULE MCSymbolTable ---------------------------
(* Instances of SymbolTable for TLC.                                          *)
EXTENDS SymbolTable, HashEq

CONSTANTS a, b

MCBytes == (a :> <<3>>) @@ (b :> <<5>>)
=============================================================================
