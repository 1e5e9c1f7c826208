----------------------------- MODULE MCBillParser -----------------------------
(* The eight layouts on small documents.                                   *)
EXTENDS BillParser

AllLayouts == {"vat_home", "nonvat_home", "vat_enterprise", "nonvat_enterprise",
               "subscription_ref_grouping", "product_label_grouping",
               "usd_open_item", "invoice_of_summary"}

\* One of the five that keep one usage section per family of items.
OnlyNonvatHome == {"nonvat_home"}
=============================================================================
