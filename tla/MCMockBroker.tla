---------------------------- MODULE MCMockBroker ----------------------------
(* Instances of MockBroker for TLC. *)
EXTENDS MockBroker

(* A falling and a rising market around the limit prices, with a spread. *)
MCQuotes == {[bid |-> 2, ask |-> 3, price |-> 2], [bid |-> 3, ask |-> 4, price |-> 4]}
=============================================================================
