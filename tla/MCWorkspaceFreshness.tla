------------------------ MODULE MCWorkspaceFreshness ------------------------
(* WorkspaceFreshness on one group: groups share nothing but the refreshes *)
(* that load them together.                                                *)
EXTENDS WorkspaceFreshness, TLC

CONSTANT invoices

OneGroup == {invoices}
=============================================================================
