------------------------------ MODULE BillLayouts ------------------------------
(***************************************************************************)
(* The eight bill parsers, templates/<layout>/parser.py: for each layout   *)
(* what its loop does with a line of each kind, in the order in which the  *)
(* loop tries the kinds, and the bill it returns at the end.               *)
(*                                                                         *)
(*   <L>Boundary  the lines without a field, that open and close a part    *)
(*   <L>Usage     item tags, group names and group subtotals               *)
(*   <L>Promo     what a line does inside a promotion group                *)
(*   <L>Fields    the head of the bill                                     *)
(*   <L>Charge    labels, references and charges                           *)
(*   <L>Lists     taxes, adjustments, payments                             *)
(*   <L>Bill      the bill returned                                        *)
(***************************************************************************)
EXTENDS GmfParsing, FiniteSets, SequencesExt

\* data['product_labels'].append(current_product), and the same under a
\* block that is open.
Product(s, l, kind, parent) ==
  LET t == OpenBlock(s, l, kind, parent) IN [t EXCEPT !.product = Newest(t)]

\* SLTPRODGROUPLABEL with its rental and initiation amounts, the other lines
\* of a promotion group; every other line is passed over until it ends.
PromoLine(s, l, anywhere) ==
  CASE l.tag = "SLTPRODGROUPLABEL" ->
         LET t == OpenBlock(s, l, "promo", 0)
         IN  ChargeAmount(Candidate([t EXCEPT !.promo = Newest(t)], l, anywhere), Newest(t), l)
    [] l.tag = "SLTPROMOSUBLABEL" -> Candidate(s, l, anywhere)
    [] l.tag \in {"SLTPRODLABELDET", "SLTPRODLABELDISCDET"} -> ChargeLine(s, s.promo, l)
    [] OTHER -> s

\* SLT_BCR_SUBTOTAL stands in for CHARGES that are missing or zero.
BcrSubtotal(s, l) ==
  IF "CHARGES" \in DOMAIN s.header /\ s.header["CHARGES"].amt = "some" THEN s
  ELSE Field(s, [l EXCEPT !.tag = "CHARGES"])

HeadField(s, l) == IF l.tag \in HeadTags THEN Field(s, l) ELSE s
ListField(s, l) == IF l.tag \in ListTags THEN ListLine(s, l) ELSE s

\* The usage tags on sections keyed by family: a tag acts on the section
\* stored last under its own suffix.
\* (mutant) A block of a known family continues the section of that family.
KeyedUsageMerged(s, l) ==
  IF l.tag = "BSTARTITEM" /\ s.slot[l.fam] # 0 THEN s
  ELSE IF l.tag \in ItemTags THEN UsageLine(s, l, s.slot[l.fam]) ELSE GroupLine(s, l, 3)
KeyedUsage(s, l) ==
  IF l.tag \in ItemTags THEN UsageLine(s, l, s.slot[l.fam]) ELSE GroupLine(s, l, 3)

\* Sections with what is left of their tables, and the sections left.
FilteredSections(s) ==
  SelectSeq(Sections(s, ByFamily(s), HasRowsOrTotal), HasTables)

Bill(s, sections, phone, discounts) ==
  [blocks |-> KeptBlocks(s), sections |-> sections, phone |-> phone,
   discounts |-> discounts]

-----------------------------------------------------------------------------
(* vat_home                                                                *)

VatHomeBoundary(s, l) == PromoBoundary(RefTable(PhoneBoundary(s, l), l), l)

VatHomeUsage(s, l) ==
  IF l.tag \in ItemTags THEN UsageLine(s, l, s.item) ELSE GroupLine(s, l, 2)

VatHomePromo(s, l) == PromoLine(s, l, TRUE)

VatHomeFields(s, l) == HeadField(s, l)

\* A product inside the table of references goes under the reference.
SubscriptionCharge(s, l) ==
  CASE l.tag = "SLTPRODUCTLABEL" ->
         Candidate(Product(s, l, "product", IF s.inRef THEN s.group ELSE 0), l, TRUE)
    [] l.tag = "SLTSUBSCRIPTIONREF" ->
         LET t == Product(s, l, "ref", 0)
         IN  Candidate([t EXCEPT !.group = t.product], l, TRUE)
    [] l.tag = "SLTSUBSDETAIL" -> ChargeAmount(s, s.product, l)
    [] l.tag \in ChargeTags -> ChargeLine(s, s.product, l)
    [] OTHER -> s
VatHomeCharge(s, l) == SubscriptionCharge(s, l)

VatHomeLists(s, l) == ListField(s, l)

\* All tables of a block with a row in any of them; no other block.
VatHomeBill(s) ==
  LET secs == SelectSeq(s.sections,
                LAMBDA sec : \E k \in DOMAIN sec.subs : HasRows(s.subs[sec.subs[k]]))
  IN  Bill(s, Sections(s, secs, Anything), s.phone, s.lists["discounts"])

-----------------------------------------------------------------------------
(* nonvat_home                                                             *)

NonvatHomeBoundary(s, l) == PromoBoundary(PhoneBoundary(s, l), l)
NonvatHomeUsage(s, l) == KeyedUsage(s, l)
NonvatHomePromo(s, l) == PromoLine(s, l, FALSE)
NonvatHomeFields(s, l) ==
  IF l.tag \in HeadTags \cup {"INVTOTALTAX"} THEN Field(s, l) ELSE s

\* No references: every product stands at the top.
ProductCharge(s, l) ==
  CASE l.tag = "SLTPRODUCTLABEL" -> Candidate(Product(s, l, "product", 0), l, FALSE)
    [] l.tag \in ChargeTags -> ChargeLine(s, s.product, l)
    [] OTHER -> s
NonvatHomeCharge(s, l) == ProductCharge(s, l)
NonvatHomeLists(s, l) == ListField(s, l)
NonvatHomeBill(s) == Bill(s, FilteredSections(s), s.phone, s.lists["discounts"])

-----------------------------------------------------------------------------
(* vat_enterprise                                                          *)

VatEnterpriseBoundary(s, l) == PromoBoundary(RefTable(PhoneBoundary(s, l), l), l)
VatEnterpriseUsage(s, l) == KeyedUsage(s, l)
VatEnterprisePromo(s, l) == PromoLine(s, l, TRUE)
VatEnterpriseFields(s, l) ==
  IF l.tag = "SLT_BCR_SUBTOTAL" THEN BcrSubtotal(s, l) ELSE HeadField(s, l)
VatEnterpriseCharge(s, l) == SubscriptionCharge(s, l)
VatEnterpriseLists(s, l) == ListField(s, l)
VatEnterpriseBill(s) == Bill(s, FilteredSections(s), s.phone, s.lists["discounts"])

-----------------------------------------------------------------------------
(* nonvat_enterprise                                                       *)

NonvatEnterpriseBoundary(s, l) == PromoBoundary(PhoneBoundary(s, l), l)
NonvatEnterpriseUsage(s, l) == KeyedUsage(s, l)
NonvatEnterprisePromo(s, l) == PromoLine(s, l, FALSE)
NonvatEnterpriseFields(s, l) ==
  CASE l.tag = "SLT_BCR_SUBTOTAL" -> BcrSubtotal(s, l)
    [] l.tag = "INVTOTALTAX" -> Field(s, l)
    [] OTHER -> HeadField(s, l)
NonvatEnterpriseCharge(s, l) == ProductCharge(s, l)
NonvatEnterpriseLists(s, l) == ListField(s, l)
NonvatEnterpriseBill(s) == Bill(s, FilteredSections(s), s.phone, s.lists["discounts"])

-----------------------------------------------------------------------------
(* subscription_ref_grouping                                               *)

\* A reference that groups products, and one that no line names.
OpenRef(s, l) ==
  LET t == OpenBlock(s, l, "group", 0) IN [t EXCEPT !.group = Newest(t)]
UnnamedRef(s) == OpenBlock(s, [n |-> 0, name |-> "none"], "group", 0)

\* A product under the open reference, or under a new one without a name
\* that stays open.
Grouped(s, l) ==
  IF s.group # 0 THEN Product(s, l, "product", s.group)
  ELSE LET t == UnnamedRef(s)
       IN  Product([t EXCEPT !.group = Newest(t)], l, "product", Newest(t))

SubscriptionRefBoundary(s, l) ==
  CASE l.tag = "BSTARTSLTSUBSCRIPTIONREF" -> [s EXCEPT !.noRef = FALSE, !.product = 0]
    [] l.tag = "BENDSLTSUBSCRIPTIONREF" ->
         [s EXCEPT !.noRef = FALSE, !.product = 0, !.group = 0]
    [] l.tag = "BSTARTSLTNOSUBSCRIPTIONREF" ->
         EnterBlock([s EXCEPT !.noRef = TRUE, !.product = 0, !.group = 0])
    [] l.tag = "BENDSLTNOSUBSCRIPTIONREF" ->
         ExitBlock([s EXCEPT !.noRef = FALSE, !.product = 0])
    [] l.tag = "BSTARTGROUPPROMO" -> [s EXCEPT !.inPromo = TRUE]
    [] l.tag = "BENDGROUPPROMO" -> [s EXCEPT !.inPromo = FALSE]
    [] OTHER -> s

SubscriptionRefUsage(s, l) == KeyedUsage(s, l)

\* Only the two labels are special in a promotion group.
SubscriptionRefPromo(s, l) ==
  IF l.tag = "SLTPROMOSUBLABEL" THEN Candidate(s, l, FALSE)
  ELSE LET t == Candidate(Grouped(s, l), l, FALSE) IN ChargeAmount(t, t.product, l)

SubscriptionRefFields(s, l) == HeadField(s, l)

\* In the block without references a product gets a reference of its own,
\* which is not left open.
SubscriptionRefCharge(s, l) ==
  CASE l.tag = "SLTSUBSCRIPTIONREF" -> OpenRef(s, l)
    [] l.tag = "SLTPRODUCTLABEL" ->
         Candidate(IF s.noRef
                     THEN LET t == UnnamedRef(s) IN Product(t, l, "product", Newest(t))
                     ELSE Grouped(s, l), l, FALSE)
    [] l.tag \in ChargeTags -> ChargeLine(s, s.product, l)
    [] OTHER -> s
SubscriptionRefLists(s, l) == ListField(s, l)
SubscriptionRefBill(s) ==
  Bill(s, Sections(s, ByFamily(s), Anything), s.phone, s.lists["discounts"])

-----------------------------------------------------------------------------
(* product_label_grouping                                                  *)

ProductLabelBoundary(s, l) == PromoBoundary(s, l)
ProductLabelUsage(s, l) == KeyedUsage(s, l)

\* The amounts of the group label are not charged.
GroupPromo(s, l) ==
  CASE l.tag = "SLTPRODGROUPLABEL" ->
         LET t == OpenBlock(s, l, "promo", 0) IN [t EXCEPT !.promo = Newest(t)]
    [] l.tag \in {"SLTPRODLABELDET", "SLTPRODLABELDISCDET"} -> ChargeLine(s, s.promo, l)
    [] OTHER -> s
ProductLabelPromo(s, l) == GroupPromo(s, l)
ProductLabelFields(s, l) == HeadField(s, l)
ProductLabelCharge(s, l) ==
  CASE l.tag = "SLTPRODUCTLABEL" -> Product(s, l, "product", 0)
    [] l.tag \in ChargeTags -> ChargeLine(s, s.product, l)
    [] OTHER -> s
ProductLabelLists(s, l) == ListField(s, l)

\* The label of the first block printed that is a telephone number.
FirstPhone(s) ==
  LET named == {i \in DOMAIN s.blocks : /\ s.blocks[i].charges # <<>>
                                        /\ s.blocks[i].kind \in {"product", "promo"}
                                        /\ s.blocks[i].name \in Phones}
  IN  IF named = {} THEN 0 ELSE s.blocks[CHOOSE i \in named : \A j \in named : i <= j].line

ProductLabelBill(s) ==
  Bill(s, Sections(s, ByFamily(s), Anything), FirstPhone(s), s.lists["discounts"])

-----------------------------------------------------------------------------
(* usd_open_item                                                           *)

\* start_product_block.
StartProductBlock(s, l) == Product(s, l, "product", IF s.inRef THEN s.group ELSE 0)

UsdBoundary(s, l) ==
  CASE l.tag = "BSTARTSLTSUBSCRIPTIONREF" -> [s EXCEPT !.inRef = TRUE, !.group = 0]
    [] l.tag = "BENDSLTSUBSCRIPTIONREF" -> [s EXCEPT !.inRef = FALSE, !.group = 0]
    [] l.tag = "BENDSLTPRODUCTLABEL" -> [s EXCEPT !.product = 0]
    [] OTHER -> s

\* The label and the total belong to the family, the rest to the block.
UsdUsage(s, l) ==
  CASE l.tag = "EVENTSTEXT" ->
         IF s.item = 0 THEN s ELSE [s EXCEPT !.family[l.fam].label = l.n]
    [] l.tag = "SLTITEMGRANDTOTAL" ->
         IF s.item = 0 THEN s ELSE [s EXCEPT !.family[l.fam].total = l.n]
    [] l.tag \in ItemTags \ {"EVENTSTEXT", "SLTITEMGRANDTOTAL"} -> UsageLine(s, l, s.item)
    [] OTHER -> GroupLine(s, l, 2)

UsdFields(s, l) ==
  IF l.tag \in HeadTags \cup {"INVTOTALROUNDED", "ACCCURRCODE", "INFOCURRCODE", "ACCRATE",
                              "INFOINVTOTALROUNDED"}
    THEN Field(s, l) ELSE s

\* A charge under no label is kept apart.
UsdCharge(s, l) ==
  CASE l.tag = "SLTSUBSCRIPTIONREF" -> OpenRef(s, l)
    [] l.tag = "SLTPRODUCTLABEL" -> StartProductBlock(s, l)
    [] l.tag = "SLTPRODLABELDET" /\ s.product = 0 -> Note(s, "loose", l)
    [] l.tag \in ChargeTags -> ChargeLine(s, s.product, l)
    [] OTHER -> s
UsdLists(s, l) == IF l.tag = "ADJ" THEN ListLine(s, l) ELSE s

\* The blocks of a family together, under the label and total of the family.
UsdBill(s) ==
  LET fams == ByFamily(s)
      Titled(sec) == [sec EXCEPT !.label = s.family[sec.fam].label,
                                 !.total = s.family[sec.fam].total]
      Of(f) == SelectSeq(s.sections, LAMBDA sec : sec.fam = f)
      secs == FlattenSeq([k \in DOMAIN fams |-> Of(fams[k].fam)])
  IN  Bill(s, SelectSeq(Sections(s, [k \in DOMAIN secs |-> Titled(secs[k])], HasRowsOrTotal),
                        HasTables), 0, s.lists["discounts"])

-----------------------------------------------------------------------------
(* invoice_of_summary                                                      *)

SummaryBoundary(s, l) ==
  CASE l.tag = "BSTARTSLTSUBSCRIPTIONREF" -> [s EXCEPT !.inRef = TRUE, !.noRef = FALSE]
    [] l.tag = "BENDSLTSUBSCRIPTIONREF" -> [s EXCEPT !.inRef = FALSE, !.group = 0]
    [] l.tag = "BSTARTSLTNOSUBSCRIPTIONREF" ->
         [s EXCEPT !.inRef = FALSE, !.noRef = TRUE, !.group = 0]
    [] l.tag = "BENDSLTNOSUBSCRIPTIONREF" -> [s EXCEPT !.noRef = FALSE]
    [] OTHER -> PromoBoundary(s, l)

\* A subtotal after no table is a summary under the last group name.
SummaryUsage(s, l) ==
  CASE l.tag = "ITEMGROUPSUBTOTAL" /\ s.closed = 0 ->
         IF s.item # 0 /\ s.pending # 0
           THEN [Note(s, "summary", l) EXCEPT !.pending = 0] ELSE s
    [] l.tag \in ItemTags -> UsageLine(s, l, s.item)
    [] OTHER -> GroupLine(s, l, 3)

\* The telephone number is the first such label of the block without
\* references, charged or not.
SummaryPhone(s, l) ==
  IF s.noRef /\ s.phone = 0 /\ l.name \in Phones THEN [s EXCEPT !.phone = l.n] ELSE s

\* Charges of nothing are passed over, ROLLUP among them.
SummaryPromo(s, l) ==
  CASE l.tag = "SLTPRODGROUPLABEL" ->
         LET t == IF s.group # 0 THEN s
                  ELSE LET u == UnnamedRef(s) IN [u EXCEPT !.group = Newest(u)]
             v == OpenBlock(t, l, "promo", t.group)
         IN  SummaryPhone([v EXCEPT !.promo = Newest(v)], l)
    [] l.tag \in {"SLTPRODLABELDET", "SLTPRODLABELDISCDET"} -> ChargeAmount(s, s.promo, l)
    [] OTHER -> s

SummaryFields(s, l) == HeadField(s, l)

SummaryCharge(s, l) ==
  CASE l.tag = "SLTSUBSCRIPTIONREF" -> OpenRef(s, l)
    [] l.tag = "SLTPRODUCTLABEL" ->
         LET t == IF s.group # 0 THEN s ELSE UnnamedRef(s)
             parent == IF s.group # 0 THEN s.group ELSE Newest(t)
         IN  SummaryPhone(Product(t, l, "product", parent), l)
    [] l.tag \in ChargeTags -> ChargeAmount(s, s.product, l)
    [] OTHER -> s

SummaryLists(s, l) ==
  IF l.tag = "SLTDISCDETAIL"
    THEN IF l.amt = "some" THEN Note(s, "itemdiscounts", l) ELSE s
    ELSE ListField(s, l)

\* The discounts item by item, where there are any, replace the totals.
SummaryBill(s) ==
  Bill(s, Sections(s, s.sections, Anything),
       IF s.phone # 0 THEN s.phone ELSE FirstPhone(s),
       IF s.lists["itemdiscounts"] # <<>> THEN s.lists["itemdiscounts"]
       ELSE s.lists["discounts"])
=============================================================================
