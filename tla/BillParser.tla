------------------------------ MODULE BillParser ------------------------------
(***************************************************************************)
(* A bill parser reads the document of one account line by line, for each  *)
(* of the eight layouts.  The document is written by the billing system:   *)
(* the actions below append one line each, in the orders that system       *)
(* writes them, and the parser takes the line.  A document may end at any  *)
(* point where no block is open.                                           *)
(*                                                                         *)
(* The three parts of a document (charges, detailed usage, the rest) use   *)
(* different variables of the parser; a behaviour writes one of them.      *)
(***************************************************************************)
EXTENDS BillLayouts

CONSTANTS Layouts,
          Plain,       \* a label text that is no telephone number
          MaxOpened,   \* tables, blocks and promotion groups in a document
          MaxLabels,   \* labels in a document
          MaxCharges,  \* charge lines in a document
          MaxItems,    \* item blocks in a document
          MaxGroups,   \* groups of events in an item block
          MaxRows,     \* events in a table
          MaxClosing   \* lines of the rest of the document

VARIABLES layout,  \* the layout of the document
          doc,     \* the lines read so far
          ps,      \* the data and the loop variables of the parser
          w        \* where the writer is

vars == <<layout, doc, ps, w>>

-----------------------------------------------------------------------------
(* The parser's loop: which of a layout's operators takes a line.          *)

BoundaryTags ==
  {"TSTARTSLTSUBSCRIPTIONREF", "TENDSLTSUBSCRIPTIONREF",
   "BSTARTSLTSUBSCRIPTIONREF", "BENDSLTSUBSCRIPTIONREF",
   "BSTARTSLTNOSUBSCRIPTIONREF", "BENDSLTNOSUBSCRIPTIONREF",
   "BSTARTGROUPPROMO", "BENDGROUPPROMO", "BENDSLTPRODUCTLABEL"}
UsageTags == ItemTags \cup GroupTags
LabelTags == {"SLTPRODUCTLABEL", "SLTPRODGROUPLABEL", "SLTPROMOSUBLABEL",
              "SLTSUBSCRIPTIONREF"}

Boundary(s, l) ==
  CASE layout = "vat_home" -> VatHomeBoundary(s, l)
    [] layout = "nonvat_home" -> NonvatHomeBoundary(s, l)
    [] layout = "vat_enterprise" -> VatEnterpriseBoundary(s, l)
    [] layout = "nonvat_enterprise" -> NonvatEnterpriseBoundary(s, l)
    [] layout = "subscription_ref_grouping" -> SubscriptionRefBoundary(s, l)
    [] layout = "product_label_grouping" -> ProductLabelBoundary(s, l)
    [] layout = "usd_open_item" -> UsdBoundary(s, l)
    [] layout = "invoice_of_summary" -> SummaryBoundary(s, l)

Usage(s, l) ==
  CASE layout = "vat_home" -> VatHomeUsage(s, l)
    [] layout = "nonvat_home" -> NonvatHomeUsage(s, l)
    [] layout = "vat_enterprise" -> VatEnterpriseUsage(s, l)
    [] layout = "nonvat_enterprise" -> NonvatEnterpriseUsage(s, l)
    [] layout = "subscription_ref_grouping" -> SubscriptionRefUsage(s, l)
    [] layout = "product_label_grouping" -> ProductLabelUsage(s, l)
    [] layout = "usd_open_item" -> UsdUsage(s, l)
    [] layout = "invoice_of_summary" -> SummaryUsage(s, l)

Promo(s, l) ==
  CASE layout = "vat_home" -> VatHomePromo(s, l)
    [] layout = "nonvat_home" -> NonvatHomePromo(s, l)
    [] layout = "vat_enterprise" -> VatEnterprisePromo(s, l)
    [] layout = "nonvat_enterprise" -> NonvatEnterprisePromo(s, l)
    [] layout = "subscription_ref_grouping" -> SubscriptionRefPromo(s, l)
    [] layout = "product_label_grouping" -> ProductLabelPromo(s, l)
    [] layout = "invoice_of_summary" -> SummaryPromo(s, l)

\* Does a promotion group take the line, or does it go to the rest of the loop?
PromoTakes(s, l) ==
  /\ s.inPromo
  /\ layout = "subscription_ref_grouping" =>
       l.tag \in {"SLTPRODGROUPLABEL", "SLTPROMOSUBLABEL"}

Fields(s, l) ==
  CASE layout = "vat_home" -> VatHomeFields(s, l)
    [] layout = "nonvat_home" -> NonvatHomeFields(s, l)
    [] layout = "vat_enterprise" -> VatEnterpriseFields(s, l)
    [] layout = "nonvat_enterprise" -> NonvatEnterpriseFields(s, l)
    [] layout = "subscription_ref_grouping" -> SubscriptionRefFields(s, l)
    [] layout = "product_label_grouping" -> ProductLabelFields(s, l)
    [] layout = "usd_open_item" -> UsdFields(s, l)
    [] layout = "invoice_of_summary" -> SummaryFields(s, l)

Charges(s, l) ==
  CASE layout = "vat_home" -> VatHomeCharge(s, l)
    [] layout = "nonvat_home" -> NonvatHomeCharge(s, l)
    [] layout = "vat_enterprise" -> VatEnterpriseCharge(s, l)
    [] layout = "nonvat_enterprise" -> NonvatEnterpriseCharge(s, l)
    [] layout = "subscription_ref_grouping" -> SubscriptionRefCharge(s, l)
    [] layout = "product_label_grouping" -> ProductLabelCharge(s, l)
    [] layout = "usd_open_item" -> UsdCharge(s, l)
    [] layout = "invoice_of_summary" -> SummaryCharge(s, l)

Lists(s, l) ==
  CASE layout = "vat_home" -> VatHomeLists(s, l)
    [] layout = "nonvat_home" -> NonvatHomeLists(s, l)
    [] layout = "vat_enterprise" -> VatEnterpriseLists(s, l)
    [] layout = "nonvat_enterprise" -> NonvatEnterpriseLists(s, l)
    [] layout = "subscription_ref_grouping" -> SubscriptionRefLists(s, l)
    [] layout = "product_label_grouping" -> ProductLabelLists(s, l)
    [] layout = "usd_open_item" -> UsdLists(s, l)
    [] layout = "invoice_of_summary" -> SummaryLists(s, l)

Printed(s) ==
  CASE layout = "vat_home" -> VatHomeBill(s)
    [] layout = "nonvat_home" -> NonvatHomeBill(s)
    [] layout = "vat_enterprise" -> VatEnterpriseBill(s)
    [] layout = "nonvat_enterprise" -> NonvatEnterpriseBill(s)
    [] layout = "subscription_ref_grouping" -> SubscriptionRefBill(s)
    [] layout = "product_label_grouping" -> ProductLabelBill(s)
    [] layout = "usd_open_item" -> UsdBill(s)
    [] layout = "invoice_of_summary" -> SummaryBill(s)

ParseLine(s, l) ==
  CASE l.tag \in BoundaryTags -> Boundary(s, l)
    [] l.tag \in UsageTags -> Usage(s, l)
    [] l.tag \notin BoundaryTags \cup UsageTags /\ PromoTakes(s, l) -> Promo(s, l)
    [] OTHER -> IF l.tag = "ACCDISCTOTAL" THEN Handle(s, l)
                ELSE Lists(Charges(Fields(s, l), l), l)

-----------------------------------------------------------------------------
(* The writer.  Its place, the line of the last label, the line of the     *)
(* open item block, and what it has written of each kind.                  *)

Line == [tag |-> "", n |-> Len(doc) + 1, amt |-> "zero", name |-> Plain,
         fam |-> CHOOSE f \in Families : TRUE, parts |-> 0, of |-> 0]

Write(l, w2) ==
  /\ doc' = Append(doc, l)
  /\ ps' = ParseLine(ps, l)
  /\ w' = w2
  /\ UNCHANGED layout

Here == Len(doc) + 1
Tag(t) == [Line EXCEPT !.tag = t]
Go(place) == [w EXCEPT !.place = place]

\* usd_open_item documents hold no promotion groups, and close a product
\* before anything else.
WithPromo == Layouts \ {"usd_open_item"}
ProductClosed == layout = "usd_open_item" => w.label = 0

\* The table of the references, a reference in it, its end and theirs.
Opened(place) == [Go(place) EXCEPT !.opened = @ + 1, !.outer = w.place, !.label = 0]

OpenTable == /\ w.place = "top" /\ w.opened < MaxOpened
             /\ Write(Tag("TSTARTSLTSUBSCRIPTIONREF"), Opened("table"))
CloseRefTable == /\ w.place = "table"
                 /\ Write(Tag("TENDSLTSUBSCRIPTIONREF"), Go("top"))
OpenReference == /\ w.place = "table" /\ w.labels < MaxLabels
                 /\ Write(Tag("BSTARTSLTSUBSCRIPTIONREF"), Go("naming"))
NameReference ==
  /\ w.place = "naming"
  /\ Write(Tag("SLTSUBSCRIPTIONREF"),
           [Go("ref") EXCEPT !.label = IF layout \in {"vat_home", "vat_enterprise"}
                                         THEN Here ELSE 0,
                             !.labels = @ + 1])
ReferenceDetail(amt) ==
  /\ w.place = "ref" /\ w.charges < MaxCharges
  /\ w.label # 0 /\ doc[w.label].tag = "SLTSUBSCRIPTIONREF"
  /\ Write([Tag("SLTSUBSDETAIL") EXCEPT !.amt = amt, !.of = w.label],
           [w EXCEPT !.charges = @ + 1])
CloseReference == /\ w.place = "ref" /\ ProductClosed
                  /\ Write(Tag("BENDSLTSUBSCRIPTIONREF"), [Go("table") EXCEPT !.label = 0])

\* The block of the products without a reference.
OpenNoRef == /\ w.place = "top" /\ w.opened < MaxOpened
             /\ Write(Tag("BSTARTSLTNOSUBSCRIPTIONREF"), Opened("noref"))
CloseNoRef == /\ w.place = "noref" /\ ProductClosed
              /\ Write(Tag("BENDSLTNOSUBSCRIPTIONREF"), [Go("top") EXCEPT !.label = 0])

\* A promotion group, inside either.
OpenPromo == /\ w.place \in {"ref", "noref"} /\ layout \in WithPromo
             /\ w.opened < MaxOpened
             /\ Write(Tag("BSTARTGROUPPROMO"), Opened("promo"))
GroupLabel(name, amt) ==
  /\ w.place = "promo" /\ w.labels < MaxLabels
  /\ Write([Tag("SLTPRODGROUPLABEL") EXCEPT !.name = name, !.amt = amt, !.of = Here],
           [w EXCEPT !.label = Here, !.labels = @ + 1])
SubLabel(name) ==
  /\ w.place = "promo" /\ w.labels < MaxLabels /\ w.label # 0
  /\ Write([Tag("SLTPROMOSUBLABEL") EXCEPT !.name = name], [w EXCEPT !.labels = @ + 1])
ClosePromo == /\ w.place = "promo"
              /\ Write(Tag("BENDGROUPPROMO"), [Go(w.outer) EXCEPT !.label = 0])

\* A product, its charges, and the line that ends it where one does.
ProductLabel(name) ==
  /\ w.place \in {"ref", "noref"} /\ w.labels < MaxLabels /\ ProductClosed
  /\ Write([Tag("SLTPRODUCTLABEL") EXCEPT !.name = name],
           [w EXCEPT !.label = Here, !.labels = @ + 1])
EndProduct ==
  /\ layout = "usd_open_item" /\ w.place \in {"ref", "noref"} /\ w.label # 0
  /\ Write(Tag("BENDSLTPRODUCTLABEL"), [w EXCEPT !.label = 0])
ChargeOf(tag, amt) ==
  /\ w.place \in {"ref", "noref", "promo"} /\ w.charges < MaxCharges
  /\ amt = "rollup" => tag = "SLTPRODLABELDET"
  /\ w.place = "promo" => tag # "SLTPRODLABELUSAGEDET"
  /\ w.label = 0 => layout = "usd_open_item" /\ tag = "SLTPRODLABELDET"
  /\ Write([Tag(tag) EXCEPT !.amt = amt, !.of = w.label], [w EXCEPT !.charges = @ + 1])

\* An item block: its head, its groups (with a table of events, or only a
\* subtotal), its total, its end.
OpenItem(f) ==
  /\ w.place = "usage" /\ w.items < MaxItems
  /\ Write([Tag("BSTARTITEM") EXCEPT !.fam = f],
           [Go("source") EXCEPT !.item = Here, !.items = @ + 1, !.groups = 0])
InItem(t) == [Tag(t) EXCEPT !.fam = doc[w.item].fam, !.of = w.item]
EventSource == /\ w.place = "source"
               /\ Write(InItem("EVSOURCE"), Go("text"))
EventsText == /\ w.place = "text"
              /\ Write(InItem("EVENTSTEXT"), Go("item"))
NameGroup ==
  /\ w.place = "item" /\ w.groups < MaxGroups
  /\ Write(InItem("ITEMGROUPNAME"), [Go("group") EXCEPT !.groups = @ + 1, !.rows = 0,
                                                        !.label = Here])
EventHeading == /\ w.place = "group"
                /\ Write(InItem("EVENTHEADING"), Go("events"))
Event == /\ w.place = "events" /\ w.rows < MaxRows
         /\ Write(InItem("EVENT"), [w EXCEPT !.rows = @ + 1])
EndEvents == /\ w.place = "events"
             /\ Write(InItem("TENDEVENT"), Go("subtotal"))
GroupSubtotal(parts) ==
  /\ w.place \in {"group", "subtotal"}
  /\ Write([InItem("ITEMGROUPSUBTOTAL") EXCEPT !.parts = parts, !.of = w.label],
           [Go("item") EXCEPT !.label = 0])
ItemTotal == /\ w.place = "item"
             /\ Write(InItem("SLTITEMGRANDTOTAL"), Go("itemend"))
CloseItem == /\ w.place = "itemend"
             /\ Write(InItem("BENDITEM"), Go("usage"))

\* The rest: one field of the head, totals, and the lists.
ClosingTags ==
  {"ACCOUNTNO", "CHARGES", "SLT_BCR_SUBTOTAL", "INVTOTALTAX", "ACCDISCTOTAL",
   "SLTDISCDETAIL", "SLTTAXCODE", "ADJ", "ACCBALPAYDET", "ACCBALFPAYDET"}
Closing(t, amt) ==
  /\ w.place = "rest" /\ Len(doc) < MaxClosing
  /\ Write([Tag(t) EXCEPT !.amt = amt], w)
PaymentLocation ==
  /\ w.place = "rest" /\ Len(doc) < MaxClosing
  /\ doc # <<>> /\ doc[Len(doc)].tag = "ACCBALPAYDET"
  /\ Write([Tag("SLT_PAYMENT_LOCATION") EXCEPT !.of = Len(doc)], w)

Init ==
  /\ layout \in Layouts
  /\ doc = <<>>
  /\ ps = Fresh
  /\ w \in [place : {"top", "usage", "rest"}, outer : {"top"}, label : {0}, item : {0},
            opened : {0}, labels : {0}, charges : {0}, items : {0}, groups : {0},
            rows : {0}]

Next ==
  \/ OpenTable \/ CloseRefTable \/ OpenReference \/ NameReference \/ CloseReference
  \/ OpenNoRef \/ CloseNoRef \/ OpenPromo \/ ClosePromo \/ EndProduct
  \/ \E amt \in {"zero", "some"} : ReferenceDetail(amt)
  \/ \E name \in Phones \cup {Plain}, amt \in {"zero", "some"} : GroupLabel(name, amt)
  \/ \E name \in Phones \cup {Plain} : SubLabel(name) \/ ProductLabel(name)
  \/ \E tag \in ChargeTags, amt \in {"zero", "some", "rollup"} : ChargeOf(tag, amt)
  \/ \E f \in Families : OpenItem(f)
  \/ EventSource \/ EventsText \/ NameGroup \/ EventHeading \/ Event \/ EndEvents
  \/ \E parts \in {2, 3} : GroupSubtotal(parts)
  \/ ItemTotal \/ CloseItem
  \/ \E t \in ClosingTags, amt \in {"zero", "some"} : Closing(t, amt)
  \/ PaymentLocation

Spec == Init /\ [][Next]_vars

-----------------------------------------------------------------------------
(* Properties.                                                             *)

Complete == w.place \in {"top", "usage", "rest"}

Occurs(n, seq) == Cardinality({k \in DOMAIN seq : seq[k] = n})

\* The charge lines a layout prints.
MoneyTags ==
  ChargeTags
    \cup (IF layout \in {"vat_home", "vat_enterprise"} THEN {"SLTSUBSDETAIL"} ELSE {})
    \cup (IF layout \in {"product_label_grouping", "invoice_of_summary"}
            THEN {} ELSE {"SLTPRODGROUPLABEL"})

\* Every charge that is not zero is printed once, in the block of the label
\* it stands under, whatever references, promotion groups and blocks without
\* a reference were opened and closed before it; a charge that stands under
\* no label is printed apart.
ChargesKept ==
  Complete =>
    LET kept == Printed(ps).blocks IN
    \A n \in DOMAIN doc :
      (doc[n].tag \in MoneyTags /\ doc[n].amt = "some") =>
        LET in == {b \in DOMAIN ps.blocks : Occurs(n, ps.blocks[b].charges) > 0}
        IN  IF doc[n].of = 0
              THEN in = {} /\ Occurs(n, ps.lists["loose"]) = 1
              ELSE \E b \in kept : /\ in = {b}
                                   /\ ps.blocks[b].line = doc[n].of
                                   /\ Occurs(n, ps.blocks[b].charges) = 1

KeyedByFamily == {"nonvat_home", "vat_enterprise", "nonvat_enterprise",
                  "subscription_ref_grouping", "product_label_grouping"}

Lines(tag, item) == {n \in DOMAIN doc : doc[n].tag = tag /\ doc[n].of = item}
Superseded(item) ==
  \E n \in DOMAIN doc : n > item /\ doc[n].tag = "BSTARTITEM" /\ doc[n].fam = doc[item].fam

\* Where the row n of the item block stands in the bill.
Places(n, sections) ==
  {<<k, t>> \in UNION {{k} \X DOMAIN sections[k].tables : k \in DOMAIN sections} :
     Occurs(n, sections[k].tables[t].rows) > 0}

\* Every event is printed once, in the section of its own item block, under
\* that block's telephone number and (except where a family shares them) its
\* own title and total.  In the layouts that key their sections by family an
\* item block may be superseded by a later one of its family; its events are
\* then nowhere.
RowsKept ==
  Complete =>
    LET sections == Printed(ps).sections IN
    \A n \in DOMAIN doc :
      doc[n].tag = "EVENT" =>
        LET at == Places(n, sections)
            item == doc[n].of
        IN  IF layout \in KeyedByFamily /\ Superseded(item) THEN at = {}
            ELSE /\ Cardinality(at) = 1
                 /\ \A p \in at :
                      LET sec == sections[p[1]] IN
                      /\ sec.line = item
                      /\ sec.phone \in Lines("EVSOURCE", item)
                      /\ layout # "usd_open_item" =>
                           /\ sec.label \in Lines("EVENTSTEXT", item)
                           /\ sec.total \in Lines("SLTITEMGRANDTOTAL", item)

\* No event of the document is missing from the bill, whatever blocks follow
\* its own: what vat_home's parser keeps one section per block for ("silently
\* drops all but the last <ref> when a family appears more than once",
\* vat_home/parser.py:6-11), and five other layouts do not do.
EveryRowPrinted ==
  Complete =>
    LET sections == Printed(ps).sections IN
    \A n \in DOMAIN doc : doc[n].tag = "EVENT" => Places(n, sections) # {}

\* The subtotal printed under a table is the one of the table's own group,
\* also after a group that has a subtotal and no table.
SubtotalsBelong ==
  Complete =>
    LET sections == Printed(ps).sections IN
    \A k \in DOMAIN sections : \A t \in DOMAIN sections[k].tables :
      LET table == sections[k].tables[t] IN
      table.subtotal # 0 => doc[table.subtotal].of = table.label

FindsPhone == {"vat_home", "vat_enterprise", "nonvat_home", "nonvat_enterprise",
               "subscription_ref_grouping"}
InsideNoRef(n) ==
  \E b \in 1..n : /\ doc[b].tag = "BSTARTSLTNOSUBSCRIPTIONREF"
                  /\ \A c \in b..n : doc[c].tag # "BENDSLTNOSUBSCRIPTIONREF"

\* A telephone number with a charge: no other label stands between them.
ChargedPhone(n) ==
  /\ doc[n].tag \in LabelTags /\ doc[n].name \in Phones
  /\ layout \in {"vat_home", "vat_enterprise"} \/ InsideNoRef(n)
  /\ \E c \in n..Len(doc) : /\ doc[c].tag \in MoneyTags /\ doc[c].amt = "some"
                            /\ \A m \in (n + 1)..c : doc[m].tag \notin LabelTags

\* The telephone number of the bill is the first one that has a charge, and
\* in the layouts that ask for it, in the block without references.  "Must be a
\* 10-digit SLTPRODUCTLABEL" (bill_common.py:187) is not what the loops do: they
\* offer the finder every label of LabelTags, so the number of a group, of a
\* promotion or of a reference counts as well, here as in the code.
PhoneHasCharge ==
  layout \in FindsPhone =>
    LET charged == {n \in DOMAIN doc : ChargedPhone(n)}
    IN  Printed(ps).phone =
          IF charged = {} THEN 0 ELSE CHOOSE n \in charged : \A m \in charged : n <= m

\* "Must be a 10-digit SLTPRODUCTLABEL" (bill_common.py:187): what the finder's
\* docstring says of its result, and the loops do not do.
PhoneIsProductLabel ==
  LET n == Printed(ps).phone
  IN  n # 0 => doc[n].tag = "SLTPRODUCTLABEL"
=============================================================================
