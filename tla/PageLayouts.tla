----------------------------- MODULE PageLayouts -----------------------------
(***************************************************************************)
(* What each of the ten layouts draws of a bill, in the order its         *)
(* render() draws it.  A bill here is the number of lines of each kind:    *)
(*   groups    the references, each with `own` charges and its products    *)
(*             `kids` (a number of charges each)                           *)
(*   subs      subtotal lines of a group or product                        *)
(*   adj, disc, tax, pay, cancel, msgs   lines of the other lists          *)
(*   sections  the usage sections, each a sequence of tables [rows, label] *)
(*   susp, alt the suspension notice, the total in a second currency       *)
(*   red       the page carries the arrears notice                         *)
(*   names     the accounts of a statement, the lines each name takes      *)
(***************************************************************************)
EXTENDS PageFlow

(* What several layouts share. *)

Products(b) == Join([i \in 1..Len(b.groups) |->
                       <<b.groups[i].own>> \o b.groups[i].kids])
Each(s, Ops(_)) == Join([i \in 1..Len(s) |-> Ops(s[i])])
Rows(tables) == Added([i \in 1..Len(tables) |-> tables[i].rows])
Printed(tables) == \E i \in 1..Len(tables) : tables[i].rows > 0

LabelledProduct(n, gap, h) ==
  <<Room(gap + n * h), IF n = 0 THEN Plain(gap) ELSE PlainHeading(gap)>>
    \o Times(n, Text(0, h))

(* A heading that asks for itself and one line, and its lines. *)
HeadedList(n, h) == When(n > 0, <<Heading(2 * h, h)>> \o Times(n, Text(h, h)))

SummedTax(b, h) == When(b.tax > 0, <<Heading(2 * h, h), Plain(h)>>)

TotalThenColumns(h) == <<Lowered(2 * h, 600, 2 * h), Gap(600), Columns>>

(* The references with their products: a blank line after a reference and  *)
(* between its products.                                                   *)
ReferenceGroups(groups, blank, Group(_)) ==
  Join([i \in 1..Len(groups) |->
    When(i > 1 /\ groups[i-1].kids # <<>> /\ groups[i].kids = <<>>, blank)
      \o Group(groups[i].own)
      \o Join([k \in 1..Len(groups[i].kids) |->
                 When(k > 1, blank) \o Group(groups[i].kids[k])])])

(* The two-column flow of the enterprise layouts and of nonvat_home.       *)
ColumnPayments(n, h) ==
  When(n > 0, <<Heading(h * n + (13 * h) \div 5, (6 * h) \div 5)>>
                \o Times(n, Text(h, h)) \o <<Text((7 * h) \div 5, (8 * h) \div 5)>>)
ColumnCancelled(n) ==
  When(n > 0, <<Heading(900 * n + 1260, 1080)>> \o Times(n, Text(900, 900))
                \o <<Gap(1080)>>)
ColumnTable(t) ==
  When(t.rows > 0,
       When(t.label, <<Heading(2430, 1080)>>) \o <<Text(1350, 1350)>>
         \o Times(t.rows, TableRow(900, 900)) \o <<Text(1350, 1350)>>)

\* (mutant) the heading asks for room for itself and one line
ColumnSectionShort(tables) ==
  <<Heading(1800, 1260)>> \o Each(tables, ColumnTable) \o <<Text(2250, 2250)>>

ColumnSection(tables) ==
  <<Heading(4050, 1260)>> \o Each(tables, ColumnTable) \o <<Text(2250, 2250)>>
ColumnMessages(b, h) ==
  When(b.msgs > 0, <<Text((6 * h) \div 5, (6 * h) \div 5)>>
                     \o Times(b.msgs, Text(h, h)))
    \o When(b.susp, <<Text(h, h)>>)

-----------------------------------------------------------------------------
(* nonvat_enterprise. *)

NonvatEnterpriseFloor(b) == IF b.red THEN 22000 ELSE 16500
NonvatEnterpriseTop(ops, b) == Part(NonvatEnterpriseFloor(b), 8000, 74000, ops)

NonvatEnterpriseCharges(b) ==
  Each(Products(b), LAMBDA n : LabelledProduct(n, 1500, 900))
NonvatEnterpriseAdjustments(b) == HeadedList(b.adj, 900)
NonvatEnterpriseDiscounts(b) == HeadedList(b.disc, 900)
NonvatEnterpriseTaxes(b) == SummedTax(b, 900)
NonvatEnterpriseTotal == TotalThenColumns(900)
NonvatEnterprisePayments(b) == ColumnPayments(b.pay, 900) \o ColumnCancelled(b.cancel)
NonvatEnterpriseUsage(b) == Each(b.sections, ColumnSection)
NonvatEnterpriseMessages(b) == ColumnMessages(b, 900)

NonvatEnterprisePage(b) ==
  <<NonvatEnterpriseTop(
      NonvatEnterpriseCharges(b) \o NonvatEnterpriseAdjustments(b)
        \o NonvatEnterpriseDiscounts(b) \o NonvatEnterpriseTaxes(b)
        \o NonvatEnterpriseTotal \o NonvatEnterprisePayments(b)
        \o NonvatEnterpriseUsage(b) \o NonvatEnterpriseMessages(b), b)>>

-----------------------------------------------------------------------------
(* nonvat_print: the printed form of the two nonvat bills, without usage.  *)

NonvatPrintTop(ops, b) ==
  Part(IF b.red THEN 22000 ELSE 15000, 8000, 75000, ops)

NonvatPrintCharges(b) ==
  Each(Products(b), LAMBDA n : LabelledProduct(n, 1200, 900))
NonvatPrintAdjustments(b) == HeadedList(b.adj, 900)
NonvatPrintDiscounts(b) == HeadedList(b.disc, 900)
NonvatPrintTaxes(b) == SummedTax(b, 900)
NonvatPrintTotal == TotalThenColumns(900)
NonvatPrintFlow(b) == ColumnPayments(b.pay, 800) \o ColumnMessages(b, 800)

NonvatPrintPage(b) ==
  <<NonvatPrintTop(
      NonvatPrintCharges(b) \o NonvatPrintAdjustments(b)
        \o NonvatPrintDiscounts(b) \o NonvatPrintTaxes(b)
        \o NonvatPrintTotal \o NonvatPrintFlow(b), b)>>

-----------------------------------------------------------------------------
(* vat_enterprise. *)

VatEnterpriseFloor(b) == IF b.red THEN 21225 ELSE 16500
VatEnterpriseTop(ops, b) == Part(VatEnterpriseFloor(b), 8000, 77000, ops)

VatEnterpriseGroup(n) == LabelledProduct(n, 1104, 1104)
VatEnterpriseCharges(b) ==
  ReferenceGroups(b.groups, <<Room(1104), Gap(1104)>>, VatEnterpriseGroup)
VatEnterpriseAdjustments(b) == HeadedList(b.adj, 1104)
VatEnterpriseDiscounts(b) == HeadedList(b.disc, 1104)
VatEnterpriseTaxes(b) == HeadedList(b.tax, 1104)
VatEnterpriseTotal == TotalThenColumns(1104)
VatEnterprisePayments(b) == ColumnPayments(b.pay, 900) \o ColumnCancelled(b.cancel)
VatEnterpriseUsage(b) == Each(b.sections, ColumnSection)
VatEnterpriseMessages(b) == ColumnMessages(b, 900)

VatEnterprisePage(b) ==
  <<VatEnterpriseTop(
      VatEnterpriseCharges(b) \o VatEnterpriseAdjustments(b)
        \o VatEnterpriseDiscounts(b) \o VatEnterpriseTaxes(b)
        \o VatEnterpriseTotal \o VatEnterprisePayments(b)
        \o VatEnterpriseUsage(b) \o VatEnterpriseMessages(b), b)>>

-----------------------------------------------------------------------------
(* nonvat_home: the first page shows a preview of the first usage table,   *)
(* in the second column when the first one holds payments.  The usage part *)
(* is laid out from the cursor c it starts at.                             *)

NonvatHomeTop(ops, b) ==
  Part(IF b.red THEN 22000 ELSE 16500, 8000, 74000, ops)
NonvatHomeFlow(ops, b) ==
  Part(IF b.red THEN 22000 ELSE 15000, 8000, 74000, ops)

NonvatHomeCharges(b) ==
  Each(Products(b), LAMBDA n : LabelledProduct(n, 1200, 800))
NonvatHomeAdjustments(b) == HeadedList(b.adj, 800)
NonvatHomeDiscounts(b) == HeadedList(b.disc, 800)
NonvatHomeTaxes(b) == SummedTax(b, 800)
NonvatHomeTotal == TotalThenColumns(800)
NonvatHomePayments(b) == ColumnPayments(b.pay, 900) \o ColumnCancelled(b.cancel)

PreviewRows == 2
Previewed(t) == IF t.rows > PreviewRows THEN PreviewRows ELSE t.rows
PreviewHeight(t) ==
  1260 + (IF t.label THEN 1080 ELSE 0) + 1350 + 900 * Previewed(t)

\* (mutant) the rows after the preview start one row early
FirstTableOverlapping(t, more) ==
  Times(Previewed(t), TableRow(900, 900)) \o When(more, <<OffFirstPage>>)
    \o When(t.rows > PreviewRows,
            Times(t.rows - PreviewRows + 1, TableRow(900, 900)))
    \o <<Text(1350, 1350)>>

FirstTable(t, more) ==
  Times(Previewed(t), TableRow(900, 900)) \o When(more, <<OffFirstPage>>)
    \o Times(t.rows - Previewed(t), TableRow(900, 900))
    \o <<Text(1350, 1350)>>

NonvatHomePreview(s) ==
  LET t == s[1][1]
      more == t.rows > PreviewRows \/ Len(s[1]) > 1 \/ Len(s) > 1
  IN <<Plain(1260)>> \o When(t.label, <<Plain(1080)>>) \o <<Plain(1350)>>
       \o FirstTable(t, more)
       \o Each(Tail(s[1]), ColumnTable) \o <<Text(2250, 2250)>>
       \o Each(Tail(s), ColumnSection)

NonvatHomeUsage(b, c) ==
  LET aside == (b.pay > 0 \/ b.cancel > 0) /\ c.col = 1 /\ c.page = c.first
      part == NonvatHomeFlow(<<>>, b)
      at == IF aside THEN NextColumn(c, part) ELSE c
      fits == at.page = at.first =>
                ~Short(at, part, PreviewHeight(b.sections[1][1]))
  IN When(b.sections # <<>>,
          When(aside, <<RightColumn>>)
            \o (IF fits THEN NonvatHomePreview(b.sections)
                ELSE <<FreshPage(74000)>> \o Each(b.sections, ColumnSection)))
NonvatHomeMessages(b) == ColumnMessages(b, 900)

NonvatHomePage(b, c) ==
  <<NonvatHomeTop(NonvatHomeCharges(b) \o NonvatHomeAdjustments(b)
                    \o NonvatHomeDiscounts(b) \o NonvatHomeTaxes(b)
                    \o NonvatHomeTotal, b),
    NonvatHomeFlow(NonvatHomePayments(b), b),
    NonvatHomeFlow(NonvatHomeUsage(b, c) \o NonvatHomeMessages(b), b)>>

-----------------------------------------------------------------------------
(* vat_home. *)

VatHomeTop(ops, b) ==
  Part(IF b.red THEN -62200 ELSE -68500, -80000, -7000, ops)

VatHomeGroup(n) ==
  <<IF n = 0 THEN Text(2000, 1000) ELSE Heading(2000, 1000)>>
    \o Times(n, Text(1000, 1000))
VatHomeCharges(b) ==
  ReferenceGroups(b.groups, <<Room(3000), Gap(1000)>>, VatHomeGroup)
VatHomeAdjustments(b) == HeadedList(b.adj, 1000)
VatHomeDiscounts(b) == HeadedList(b.disc, 1000)
VatHomeTaxes(b) == HeadedList(b.tax, 1000)
VatHomeTotal == <<Lowered(3000, 1000, 1500), Columns>>
VatHomePayments(b) == When(b.pay > 0, HeadedList(b.pay, 1000) \o <<Text(1000, 1000)>>)
VatHomeCancelled(b) == HeadedList(b.cancel, 1000)

VatHomeTable(t) ==
  When(t.label, <<Text(2000, 1000)>>)
    \o When(t.rows > 0,
            <<Heading(2000, 1000)>> \o Times(t.rows, TableRow(1000, 1000)))
    \o <<Text(1000, 1000)>>
VatHomeUsage(b) ==
  Each(b.sections, LAMBDA s : <<Text(2000, 1000)>> \o Each(s, VatHomeTable)
                                \o <<Text(1000, 1000)>>)
VatHomeMessages(b) ==
  HeadedList(b.msgs, 1000) \o When(b.susp, <<Text(1000, 1000)>>)

VatHomePage(b) ==
  <<VatHomeTop(VatHomeCharges(b) \o VatHomeAdjustments(b) \o VatHomeDiscounts(b)
                 \o VatHomeTaxes(b) \o VatHomeTotal \o VatHomePayments(b)
                 \o VatHomeCancelled(b) \o VatHomeUsage(b)
                 \o VatHomeMessages(b), b)>>

-----------------------------------------------------------------------------
(* subscription_ref_grouping: each block has a floor of its own. *)

SubscriptionRefGroup(b, g) ==
  LET products == <<g.own>> \o g.kids
  IN <<StartedRoom(1500 + b.subs * 1100
         + Added([i \in 1..Len(products) |-> (products[i] + 1) * 1100])),
       Text(0, 1500)>>
       \o Each(products, LAMBDA n : Times(n + 1, Text(0, 1100)))
       \o Times(b.subs, Text(0, 1100))
SubscriptionRefCharges(b) ==
  Part(33000, 8000, 78000,
       Each(b.groups, LAMBDA g : SubscriptionRefGroup(b, g)))
SubscriptionRefAdjustments(b) == When(b.adj > 0, Times(b.adj + 1, Text(0, 1100)))
SubscriptionRefDiscounts(b) == When(b.disc > 0, Times(b.disc + 1, Text(0, 1100)))
SubscriptionRefTotal(b) ==
  Part(14000, 8000, 78000,
       When(b.tax > 0, <<Heading(1100, 1100)>> \o Times(b.tax, Text(0, 1100)))
         \o <<Lowered(1100, 1000, 1100)>>)
SubscriptionRefPayments(b) ==
  Part(9000, 8000, 78000,
       When(b.pay > 0, <<Room(1000 * (b.pay + 2)), Gap(300)>>
                         \o Times(b.pay + 2, Plain(1000))))
SubscriptionRefCancelled(b) ==
  When(b.cancel > 0,
       IF b.pay > 0 THEN Times(b.cancel + 1, Plain(1000))
       ELSE [i \in 1..b.cancel + 1 |-> Fixed(21000 - 1000 * i)])
SubscriptionRefMessages(b) ==
  LET lines == (IF b.msgs > 0 THEN b.msgs + 1 ELSE 0) + (IF b.susp THEN 1 ELSE 0)
      above == IF b.cancel > 0 THEN b.cancel + 1 ELSE 0
  IN IF b.pay > 0 THEN Times(lines, Plain(1000))
     ELSE [i \in 1..lines |-> Fixed(21000 - 1000 * (above + i))]

(* The tables of both grouping layouts. *)
GroupingTable(s, k) ==
  <<Text(0, IF k = 1 THEN 1260 ELSE IF s[k].label THEN 1080 ELSE 900)>>
    \o When(k = 1 /\ s[k].label, <<Plain(1080)>>)
    \o When(k = 1 \/ s[k].label, <<Plain(900)>>)
    \o Times(s[k].rows, TableRow(0, 900)) \o <<Plain(1170)>>
GroupingSection(s) ==
  Join([k \in 1..Len(s) |-> GroupingTable(s, k)]) \o <<Plain(1800)>>
SubscriptionRefUsage(b) ==
  Part(6000, 6000, 78000,
       When(b.sections # <<>>,
            <<FreshPage(75000)>> \o Each(b.sections, GroupingSection)))

SubscriptionRefPage(b) ==
  <<SubscriptionRefCharges(b),
    Part(33000, 33000, 78000,
         SubscriptionRefAdjustments(b) \o SubscriptionRefDiscounts(b)),
    SubscriptionRefTotal(b), SubscriptionRefPayments(b),
    Part(9000, 8000, 78000,
         SubscriptionRefCancelled(b) \o SubscriptionRefMessages(b)),
    SubscriptionRefUsage(b)>>

-----------------------------------------------------------------------------
(* product_label_grouping: adjustments and discounts ask for no room, the  *)
(* cancelled payments and the messages stand at fixed heights on page 1.   *)

ProductLabelProduct(b, n) ==
  <<Room(1000 + (n + b.subs) * 900),
    IF n + b.subs = 0 THEN Plain(1000) ELSE PlainHeading(1000)>>
    \o Times(n + b.subs, Text(0, 900))
ProductLabelCharges(b) ==
  Part(26400, 8000, 78000,
       Each(Products(b), LAMBDA n : ProductLabelProduct(b, n)))
ProductLabelAdjustments(b) == When(b.adj > 0, Times(b.adj + 1, Plain(900)))
ProductLabelDiscounts(b) == When(b.disc > 0, Times(b.disc + 1, Plain(900)))
ProductLabelTaxes(b) ==
  Part(IF b.red THEN 22000 ELSE 26400, 8000, 78000, SummedTax(b, 900))
ProductLabelTotal == <<Lowered(900, 1000, 900)>>
ProductLabelPayments(b) ==
  Part(15000, 8000, 78000,
       When(b.pay > 0, <<Room(1000 * (b.pay + 2)), Gap(500)>>
                         \o Times(b.pay + 2, Plain(1000))))
ProductLabelCancelled(b) ==
  When(b.cancel > 0,
       [i \in 1..b.cancel + 1 |-> Fixed(23200 - 1000 * (b.pay + 1 + i))])
ProductLabelMessages(b) ==
  [i \in 1..(IF b.msgs > 0 THEN b.msgs + 1 ELSE 0) + (IF b.susp THEN 1 ELSE 0)
     |-> Fixed(23200 - 1000 * (b.pay + b.cancel + 2 + i))]

(* Usage starts on page 1 when its first table fits there; a later section *)
(* leaves page 1 when it does not fit.                                     *)
SectionHeight(s) == 1260 + 3150 * Len(s) + 1800 + 900 * Rows(s)
ProductLabelUsage(b, c) ==
  LET t == b.sections[1][1]
      height == 1260 + (IF t.label THEN 1080 ELSE 0) + 900 + 900 * t.rows + 2970
      stays == c.page = 1 /\ c.y - height >= 15000
  IN When(b.sections # <<>>,
          (IF stays THEN <<Gap(600)>> ELSE <<FreshPage(75000)>>)
            \o Each(b.sections, LAMBDA s :
                      <<LeavePageOne(SectionHeight(s), 75000)>>
                        \o GroupingSection(s)))

ProductLabelPage(b, c) ==
  <<ProductLabelCharges(b),
    Part(26400, 8000, 78000,
         ProductLabelAdjustments(b) \o ProductLabelDiscounts(b)),
    ProductLabelTaxes(b), Part(26400, 8000, 78000, ProductLabelTotal),
    ProductLabelPayments(b),
    Part(15000, 8000, 78000, ProductLabelCancelled(b) \o ProductLabelMessages(b)),
    Part(15000, 8000, 78000, ProductLabelUsage(b, c))>>

-----------------------------------------------------------------------------
(* usd_open_item: one column throughout. *)

UsdHeaded(n) ==
  <<IF n = 0 THEN Text(2000, 1000) ELSE Heading(2000, 1000)>>
    \o Times(n, Text(1000, 1000))
UsdBlock(g) ==
  IF g.kids = <<>> THEN UsdHeaded(g.own)
  ELSE <<Text(2000, 1000)>> \o Each(g.kids, UsdHeaded)
UsdCharges(b) == <<Text(2000, 1000)>> \o Each(b.groups, UsdBlock)
                   \o When(b.subs > 0, UsdHeaded(b.subs))
UsdTable(t) ==
  When(t.rows > 0,
       When(t.label, <<Text(2000, 1000)>>) \o <<Heading(2000, 1000)>>
         \o Times(t.rows, TableRow(1000, 1000)) \o <<Text(1000, 1000)>>)
UsdUsage(b) ==
  Each(b.sections, LAMBDA s : <<Text(2000, 1000)>> \o Each(s, UsdTable)
                                \o <<Text(1000, 1000)>>)
UsdDiscounts(b) == HeadedList(b.disc, 1000)
UsdAdjustments(b) == HeadedList(b.adj, 1000)
UsdTotal == <<Lowered(2000, 1250, 2000)>>
UsdAltCurrency(b) == When(b.alt, <<Heading(2000, 1000), Text(1000, 1000)>>)
UsdMessages(b) == Times(b.msgs, Text(1000, 1000))

UsdPage(b) ==
  <<Part(17500, 8000, 78000,
         UsdCharges(b) \o UsdUsage(b) \o UsdDiscounts(b) \o UsdAdjustments(b)
           \o UsdTotal \o UsdAltCurrency(b) \o UsdMessages(b))>>

-----------------------------------------------------------------------------
(* invoice_of_summary: a summary, the charges in detail, usage in columns. *)

SummaryTop(ops, b) == Part(IF b.red THEN 22000 ELSE 15000, 8000, 75000, ops)
SummaryLine == Text(1200, 1200)

SummaryOfInvoice(b) ==
  <<Plain(1500)>>
    \o Times((IF b.groups = <<>> THEN 0 ELSE 1) + (IF b.sections = <<>> THEN 0 ELSE 1)
               + (IF b.disc > 0 THEN b.disc + 1 ELSE 0)
               + (IF b.adj > 0 THEN 1 ELSE 0)
               + (IF b.tax > 0 THEN b.tax + 1 ELSE 0), Text(900, 900))
SummaryTotal == <<Lowered(2400, 1000, 1200)>>
SummaryCharges(b) ==
  <<Gap(1400), Plain(1800)>>
    \o (IF b.groups = <<>> THEN <<SummaryLine, Gap(600)>>
        ELSE Each(b.groups, LAMBDA g :
               <<SummaryLine>> \o Each(<<g.own>> \o g.kids,
                                       LAMBDA n : Times(n + 1, SummaryLine))))
SummaryAdjustments(b) == When(b.adj > 0, Times(b.adj + 2, SummaryLine))
SummaryDiscounts(b) == When(b.disc > 0, Times(b.disc + 1, SummaryLine))
SummaryTaxes(b) == When(b.tax > 0, Times(b.tax + 1, SummaryLine))
                     \o <<Gap(360), Text(1800, 1200), Gap(600)>>
SummaryPayments(b) ==
  When(b.pay > 0, <<Heading(1200 * (b.pay + 3), 1200)>>
                    \o Times(b.pay, SummaryLine) \o <<Text(1200, 1800)>>)
SummaryCancelled(b) ==
  When(b.cancel > 0, Times(b.cancel + 1, SummaryLine) \o <<Gap(600)>>)
SummaryMessages(b) ==
  When(b.msgs > 0, Times(b.msgs + 1, SummaryLine))
    \o When(b.susp, <<SummaryLine>>)

SummaryTable(s, k) ==
  LET t == s[k]
      headings == (IF k = 1 THEN 1 ELSE 0) + (IF t.rows > 0 THEN 1 ELSE 0)
                    + (IF t.rows > 0 /\ t.label THEN 1 ELSE 0)
  IN <<Room(900 * (headings + 2))>> \o When(k = 1, <<PlainHeading(1260)>>)
       \o When(t.rows > 0, When(t.label, <<PlainHeading(1080)>>)
                             \o <<Plain(900)>>)
       \o Times(t.rows, TableRow(900, 900)) \o <<Text(900, 1170)>>
SummarySection(s) ==
  Join([k \in 1..Len(s) |-> SummaryTable(s, k)]) \o <<Text(900, 1800)>>
SummaryUsage(b) ==
  Part(5000, 5000, 77000,
       When(\E i \in 1..Len(b.sections) : Printed(b.sections[i]),
            <<Columns>> \o Each(b.sections, LAMBDA s :
                               When(Printed(s), SummarySection(s)))))

SummaryPage(b) ==
  <<SummaryTop(SummaryOfInvoice(b) \o SummaryTotal \o SummaryCharges(b)
                 \o SummaryAdjustments(b) \o SummaryDiscounts(b)
                 \o SummaryTaxes(b) \o SummaryPayments(b)
                 \o SummaryCancelled(b) \o SummaryMessages(b), b),
    SummaryUsage(b)>>
-----------------------------------------------------------------------------
(* summary_statement: the accounts are split into pages before any is      *)
(* drawn, and an empty page is added when the last one has no room for the *)
(* totals.                                                                 *)

StatementPages(names) ==
  LET Space(acc) == IF Len(acc.pages) = 1 THEN 50000 ELSE 65000
      Place(acc, n) ==
        IF acc.used + 1800 * n <= Space(acc)
        THEN [pages |-> Append(Front(acc.pages), Append(Last(acc.pages), n)),
              used |-> acc.used + 1800 * n]
        ELSE [pages |-> Append(acc.pages, <<n>>), used |-> 1800 * n]
      split[i \in 0..Len(names)] ==
        IF i = 0 THEN [pages |-> <<<<>>>>, used |-> 0]
        ELSE Place(split[i - 1], names[i])
      all == split[Len(names)]
  IN all.pages \o When(all.used + 4400 > Space(all), <<<<>>>>)

StatementRow(n) == <<[Plain(1800) EXCEPT !.row = TRUE]>> \o Times(n - 1, Plain(1800))
StatementTotals == <<Gap(3000), Plain(0)>>

SummaryStatementPage(b) ==
  LET pages == StatementPages(b.names)
  IN <<Part(6000, 10000, 75000,
            Join([i \in 1..Len(pages) |->
                    When(i > 1, <<FreshPage(75000)>>)
                      \o Each(pages[i], StatementRow)])
              \o StatementTotals)>>
=============================================================================
