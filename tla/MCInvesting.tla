---------------------------- MODULE MCInvesting -----------------------------
(* Instance of Investing for TLC: the orders of MCOrderExecution; two      *)
(* customers, the id of one the beginning of the other's, and one request  *)
(* for a portfolio at a time; one cat, and two requests for its page.      *)
EXTENDS MCOrderExecution, Investing

CONSTANTS cust1, cust10

MCCustomers == {cust1, cust10}
MCExtends(c, d) == c = cust1 /\ d = cust10
=============================================================================
