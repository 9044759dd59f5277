---------------------------- MODULE MCWorkforce -----------------------------
(* Instance of Workforce for TLC: the reviews of MCReviewCycles; three     *)
(* keepers, interchangeable as the requests are, have the page of one cat  *)
(* open and its row is written twice; two timesheets of one employee and   *)
(* two reviewers.                                                          *)
EXTENDS MCReviewCycles, Workforce

(* Two overlapping shifts, one with the date of the day before, and one    *)
(* that ends before it begins.                                             *)
Shift(date, from, to) == [date |-> date, from |-> from, to |-> to]
MCShifts == {Shift(1, 2, 4), Shift(1, 3, 5), Shift(2, 4, 6), Shift(1, 3, 2)}
=============================================================================
