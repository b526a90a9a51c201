----------------------------- MODULE MCInvoice -----------------------------
(* Instances of InvoiceService for TLC. *)
EXTENDS InvoiceService

OneTry == [r \in Calls |-> 1]

NinePercent == [t \in Taxes |-> 9]
NoRate      == [t \in Taxes |-> 0]
ToCompute   == [t \in Taxes |-> 0]

Plain == [taxable |-> 5, unitPrice |-> 0, quantity |-> 0, rate |-> NoRate, tax |-> ToCompute]

(* A line of one amount, and lines computed in every way an item allows,   *)
(* some of them at half a paisa or below zero, or taxed by the caller.     *)
SomeOrders ==
  { [taxable |-> 50, rate |-> NinePercent, items |-> <<>>],
    [taxable |-> 0, rate |-> NinePercent, items |-> <<Plain, Plain>>],
    [taxable |-> 0, rate |-> NinePercent,
     items |-> << [Plain EXCEPT !.taxable = 0, !.unitPrice = 25, !.quantity = 2],
                  [Plain EXCEPT !.taxable = -50, !.rate = [t \in Taxes |-> 14]] >>],
    [taxable |-> 0, rate |-> NoRate,
     items |-> << Plain, [Plain EXCEPT !.tax = [t \in Taxes |-> 1]] >>] }

=============================================================================
