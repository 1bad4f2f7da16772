-------------------------- MODULE MCInvoiceEditing --------------------------
(* InvoiceEditing on one invoice: saves of different invoices only share   *)
(* the indicator.                                                          *)
EXTENDS InvoiceEditing, TLC

CONSTANT a

OneInvoice == {a}
=============================================================================
