---------------------------- MODULE MCPriceChase ----------------------------
(***************************************************************************)
(* Small instances of PriceChase: one tenth of the buffer, step and offset *)
(* of the code, quotes below, between and above everything the chase can   *)
(* reach on its own.                                                       *)
(***************************************************************************)
EXTENDS PriceChase

SomePrices == {50}
SomeQuotes == {5, 48, 62, 90}
=============================================================================
