----------------------------- MODULE BillRenderer -----------------------------
(***************************************************************************)
(* A renderer draws one bill: part by part, and in each part command by    *)
(* command.  The state keeps the cursor, the line drawn last and the       *)
(* number of usage rows drawn.                                             *)
(***************************************************************************)
EXTENDS PageLayouts

CONSTANTS Layouts,  \* the layouts that are drawn
          Bills     \* the bills that are drawn

UsageTable == [rows : Nat, label : BOOLEAN]
Bill == [groups : Seq([own : Nat, kids : Seq(Nat)]),
         subs : Nat, adj : Nat, disc : Nat, tax : Nat, pay : Nat, cancel : Nat,
         sections : Seq(Seq(UsageTable) \ {<<>>}), msgs : Nat,
         susp : BOOLEAN, alt : BOOLEAN, red : BOOLEAN, names : Seq(Nat \ {0})]

ASSUME RenderAssumption ==
  /\ Layouts \subseteq {"vat_home", "nonvat_home", "vat_enterprise",
                        "nonvat_enterprise", "subscription_ref_grouping",
                        "product_label_grouping", "usd_open_item",
                        "invoice_of_summary", "nonvat_print", "summary_statement"}
  /\ Bills \subseteq Bill

VARIABLES layout, bill,
          part,     \* the part being drawn, its commands those still to come
          done,     \* the number of parts started
          cursor,   \* where the flow is
          line,     \* the line drawn last
          rows      \* usage rows drawn so far

vars == <<layout, bill, part, done, cursor, line, rows>>

Start(l, b) ==
  CASE l = "vat_home" -> -39500
    [] l = "nonvat_home" -> 46700
    [] l = "vat_enterprise" -> 45540
    [] l = "nonvat_enterprise" -> 46400
    [] l = "subscription_ref_grouping" -> 47200
    [] l = "product_label_grouping" -> 46700
    [] l = "usd_open_item" -> 52000
    [] l = "invoice_of_summary" -> 45900
    [] l = "nonvat_print" -> 54800
    [] l = "summary_statement" -> 56000

(* The parts of a bill, as render() calls them; a part that looks at the   *)
(* height it starts at is laid out from the cursor c.  `line` is the last  *)
(* line of the flow: the lines at fixed heights are no part of it.         *)
Page(l, b, c) ==
  CASE l = "vat_home" -> VatHomePage(b)
    [] l = "nonvat_home" -> NonvatHomePage(b, c)
    [] l = "vat_enterprise" -> VatEnterprisePage(b)
    [] l = "nonvat_enterprise" -> NonvatEnterprisePage(b)
    [] l = "subscription_ref_grouping" -> SubscriptionRefPage(b)
    [] l = "product_label_grouping" -> ProductLabelPage(b, c)
    [] l = "usd_open_item" -> UsdPage(b)
    [] l = "invoice_of_summary" -> SummaryPage(b)
    [] l = "nonvat_print" -> NonvatPrintPage(b)
    [] l = "summary_statement" -> SummaryStatementPage(b)

Nowhere == [page |-> 0, col |-> 1, y |-> 0, part |-> 0, over |-> 0,
            heads |-> FALSE, found |-> FALSE]

Init == /\ layout \in Layouts
        /\ bill \in Bills
        /\ part = Part(0, 0, 0, <<>>)
        /\ done = 0
        /\ cursor = Top(Start(layout, bill))
        /\ line = Nowhere
        /\ rows = 0

Finished == part.ops = <<>> /\ done = Len(Page(layout, bill, cursor))

StartPart ==
  /\ part.ops = <<>>
  /\ done < Len(Page(layout, bill, cursor))
  /\ part' = Page(layout, bill, cursor)[done + 1]
  /\ done' = done + 1
  /\ UNCHANGED <<layout, bill, cursor, line, rows>>

(* The line a command draws, and how far below the floor it is.  A heading *)
(* has found its room when what it asked for is there, which the second    *)
(* column, where the flow does not ask again, need not give.               *)
LineOf(op) ==
  LET c == Placed(cursor, part, op)
  IN [page |-> c.page, col |-> c.col, y |-> c.y, part |-> done,
      over |-> Low(c, part) - c.y, heads |-> op.heads,
      found |-> c.y + op.drop - op.need >= Low(c, part)]

Draw ==
  /\ part.ops # <<>>
  /\ Draws(Head(part.ops))
  /\ cursor' = After(cursor, part, Head(part.ops))
  /\ line' = IF Head(part.ops).act = "fixed" THEN line
             ELSE LineOf(Head(part.ops))
  /\ rows' = IF Head(part.ops).row THEN rows + 1 ELSE rows
  /\ part' = [part EXCEPT !.ops = Tail(@)]
  /\ UNCHANGED <<layout, bill, done>>

Move ==
  /\ part.ops # <<>>
  /\ ~Draws(Head(part.ops))
  /\ cursor' = After(cursor, part, Head(part.ops))
  /\ part' = [part EXCEPT !.ops = Tail(@)]
  /\ UNCHANGED <<layout, bill, done, line, rows>>

Next == StartPart \/ Draw \/ Move

Spec == Init /\ [][Next]_vars

-----------------------------------------------------------------------------
Flows == part.ops # <<>> /\ Head(part.ops).act \in {"text", "plain"}
Drawn == Flows /\ part' # part /\ line.page > 0

Follows(a, b) ==
  \/ b.page > a.page
  \/ b.page = a.page /\ b.col > a.col
  \/ b.page = a.page /\ b.col = a.col /\ b.y < a.y

(* Every line of the flow comes after the line drawn before it: below it,  *)
(* in a later column, or on a later page.  Nothing is drawn over what the  *)
(* flow has drawn.                                                         *)
ReadingOrder == [][Drawn => Follows(line, line')]_vars

(* A heading that found the room it asked for is followed in its column    *)
(* by the line it heads: what the code asks for is enough.                 *)
HeadingKept ==
  [][Drawn /\ line.heads /\ line.found
       => line'.page = line.page /\ line'.col = line.col]_vars

(* The same, whether the room was found or not.                            *)
NoStrandedHeading ==
  [][Drawn /\ line.heads => line'.page = line.page /\ line'.col = line.col]_vars

(* What is drawn without asking: the first line of a second column, the    *)
(* heading of the charges in detail of invoice_of_summary, and, after the  *)
(* first page, the headings and totals of the usage tables of the grouping *)
(* layouts and of the first table of nonvat_home.  The total of            *)
(* product_label_grouping asks for a point less than it moves down.        *)
Grouping == {"subscription_ref_grouping", "product_label_grouping"}
Overhang(l, at) ==
  \/ at.over <= 0
  \/ at.over <= 100 /\ l = "product_label_grouping"
  \/ at.over <= 1200 /\ (l = "invoice_of_summary" \/ at.col = 2)
  \/ at.over <= 3420 /\ l = "nonvat_home" /\ at.page > 1
  \/ at.over <= 4410 /\ l \in Grouping /\ at.page > 1

(* What a page holds: the payments a layout keeps in one piece, and the    *)
(* lines of one account's name.                                            *)
PagePayments == 68
PageName == 36

(* The parts drawn as long as their lists are, asking nothing: adjustments *)
(* and discounts in product_label_grouping, cancelled payments and         *)
(* messages in subscription_ref_grouping.                                  *)
Unasked(l, b, n) ==
  \/ l = "product_label_grouping" /\ (n = 2 \/ (n = 5 /\ b.pay > PagePayments))
  \/ l = "subscription_ref_grouping" /\ (n = 5 \/ (n = 4 /\ b.pay > PagePayments))
  \/ l = "summary_statement" /\ \E i \in DOMAIN b.names : b.names[i] > PageName

(* No line is drawn below the floor of its page, where the payment slip    *)
(* begins, by more than what is drawn without asking.                      *)
FloorKept == Unasked(layout, bill, line.part) \/ Overhang(layout, line)

(* Every row of every usage table is drawn, and drawn once, and so is      *)
(* every account of a statement; nonvat_print draws no usage.              *)
RowsDrawnOnce ==
  Finished =>
    rows = CASE layout = "nonvat_print" -> 0
             [] layout = "summary_statement" -> Len(bill.names)
             [] OTHER -> Added([i \in DOMAIN bill.sections |-> Rows(bill.sections[i])])
=============================================================================
