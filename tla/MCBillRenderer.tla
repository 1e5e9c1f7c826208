---------------------------- MODULE MCBillRenderer ----------------------------
(* Bills whose charges end at every height of the first two pages, and     *)
(* bills one list or table of which does.                                  *)
EXTENDS BillRenderer

CONSTANTS MaxCharges, MaxRows, MaxLines

AllLayouts == {"vat_home", "nonvat_home", "vat_enterprise", "nonvat_enterprise",
               "subscription_ref_grouping", "product_label_grouping",
               "usd_open_item", "invoice_of_summary", "nonvat_print",
               "summary_statement"}

Single(n) == <<[own |-> n, kids |-> <<>>]>>
Nested(n) == <<[own |-> n, kids |-> <<1, 2>>], [own |-> 1, kids |-> <<>>]>>
Table(n, labelled) == [rows |-> n, label |-> labelled]

ShortBills ==
  {[groups |-> g, subs |-> k, adj |-> k, disc |-> k, tax |-> 1,
    pay |-> k, cancel |-> k, sections |-> s, msgs |-> k,
    susp |-> k > 0, alt |-> k > 0, red |-> red,
    names |-> [i \in 1..g[1].own |-> 1 + (i % 2)]] :
     g \in UNION {{Single(n), Nested(n)} : n \in 0..MaxCharges}, k \in {0, 1, 3},
     s \in {<<>>, <<<<Table(3, TRUE), Table(0, TRUE), Table(1, FALSE)>>,
                    <<Table(1, TRUE)>>>>}
           \cup {<<<<Table(n, FALSE)>>>> : n \in 1..MaxRows},
     red \in BOOLEAN}

Lists == {"subs", "adj", "disc", "tax", "pay", "cancel", "msgs"}
Uneven(n) == <<<<Table(n, TRUE), Table(0, FALSE)>>, <<Table(0, TRUE), Table(1, FALSE)>>>>
SmallBill ==
  [groups |-> Single(1), subs |-> 0, adj |-> 0, disc |-> 0, tax |-> 1, pay |-> 0,
   cancel |-> 0, sections |-> Uneven(0), msgs |-> 0, susp |-> FALSE, alt |-> FALSE,
   red |-> FALSE, names |-> <<1>>]
LongBills ==
  UNION {{[SmallBill EXCEPT ![list] = n] : list \in Lists}
           \cup {[SmallBill EXCEPT !.sections = Uneven(n), !.pay = k] : k \in {0, 1}}
         : n \in 1..MaxLines}

AllBills == ShortBills \cup LongBills
=============================================================================
