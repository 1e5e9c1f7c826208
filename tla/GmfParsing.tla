------------------------------ MODULE GmfParsing ------------------------------
(***************************************************************************)
(* What the bill parsers of Models/SmartAI_Bill have in common: the data   *)
(* they collect from the lines of one document, the variables of their     *)
(* loops, and the helpers they share or copy from one another.             *)
(*                                                                         *)
(* A line of a document is a record: n, its number; tag, its key without   *)
(* the family suffix; amt, what to_float makes of its amount ("zero",      *)
(* "some", or "rollup" for the word ROLLUP); fam, the family of an item    *)
(* tag; name, its text; parts, the fields of a subtotal line.  What a line *)
(* says beyond that (descriptions, dates, digits) is left out: the parsed  *)
(* bill refers to a line by its number.                                    *)
(*                                                                         *)
(* The parsers build lists of dicts and keep references into them         *)
(* (current_product is data['product_labels'][-1], and so on).  Here a     *)
(* dict is an entry of blocks, sections or subs, and a reference is its    *)
(* index, 0 for None.                                                      *)
(***************************************************************************)
EXTENDS Naturals, Sequences, TLC

CONSTANTS Families,  \* suffixes of the item tags, e.g. 33 in BSTARTITEM_33
          Phones     \* the label texts that are ten digits

ListKinds == {"discounts", "itemdiscounts", "taxes",
              "adjustments", "cancelled", "summary", "loose"}

Fresh ==
  [blocks |-> <<>>, product |-> 0, promo |-> 0, group |-> 0,
   inRef |-> FALSE, noRef |-> FALSE, inPromo |-> FALSE,
   sections |-> <<>>, subs |-> <<>>, item |-> 0, sub |-> 0, closed |-> 0,
   pending |-> 0, slot |-> [f \in Families |-> 0],
   family |-> [f \in Families |-> [label |-> 0, total |-> 0]],
   phone |-> 0, phoneIn |-> FALSE, phonePending |-> 0,
   lists |-> [k \in ListKinds |-> <<>>], payments |-> <<>>,
   header |-> <<>>]

-----------------------------------------------------------------------------
(* Charge blocks.                                                          *)

\* A new dict of charges, under the block parent (0: at the top level).
OpenBlock(s, l, kind, parent) ==
  [s EXCEPT !.blocks = Append(@, [line |-> l.n, kind |-> kind, name |-> l.name,
                                  parent |-> parent, charges |-> <<>>])]

Newest(s) == Len(s.blocks)

\* current_product['charges'].append(...), when there is a current product.
Charge(s, b, l) ==
  IF b = 0 THEN s ELSE [s EXCEPT !.blocks[b].charges = Append(@, l.n)]

Note(s, kind, l) == [s EXCEPT !.lists[kind] = Append(@, l.n)]

\* The blocks with a charge of their own, and those around them.
KeptBlocks(s) ==
  {i \in DOMAIN s.blocks :
     \/ s.blocks[i].charges # <<>>
     \/ \E c \in DOMAIN s.blocks : s.blocks[c].parent = i /\ s.blocks[c].charges # <<>>}

-----------------------------------------------------------------------------
(* PhoneNumberFromNoSubRefBlock.                                           *)

EnterBlock(s) == [s EXCEPT !.phoneIn = TRUE, !.phonePending = 0]
ExitBlock(s) == [s EXCEPT !.phoneIn = FALSE, !.phonePending = 0]

\* (mutant) A label that is no phone number leaves the last candidate alone.
CandidateKept(s, l, anywhere) ==
  IF s.phone # 0 \/ ~ ((s.phoneIn \/ anywhere) /\ l.name \in Phones) THEN s
  ELSE [s EXCEPT !.phonePending = l.n]

Candidate(s, l, anywhere) ==
  IF s.phone # 0 THEN s
  ELSE [s EXCEPT !.phonePending =
          IF (s.phoneIn \/ anywhere) /\ l.name \in Phones THEN l.n ELSE 0]

ConfirmCharge(s) ==
  IF s.phone = 0 /\ s.phonePending # 0
    THEN [s EXCEPT !.phone = s.phonePending] ELSE s

\* A charge that is kept only when its amount is not zero, and one that is
\* kept whatever its amount; a real amount confirms the phone candidate.
ChargeAmount(s, b, l) ==
  IF b # 0 /\ l.amt = "some" THEN ConfirmCharge(Charge(s, b, l)) ELSE s
ChargeDetail(s, b, l) ==
  IF b # 0 /\ l.amt = "some" THEN ConfirmCharge(Charge(s, b, l))
  ELSE Charge(s, b, l)

\* The lines of a charge under the block b.
ChargeLine(s, b, l) ==
  IF l.tag = "SLTPRODLABELDET" THEN ChargeDetail(s, b, l) ELSE ChargeAmount(s, b, l)

ChargeTags == {"SLTPRODLABELDET", "SLTPRODLABELUSAGEDET", "SLTPRODLABELDISCDET"}

-----------------------------------------------------------------------------
(* TopLevelDiscountCollector.handle: a total that is not zero becomes a    *)
(* line of the discounts.                                                  *)
Handle(s, l) == IF l.amt = "some" THEN Note(s, "discounts", l) ELSE s

-----------------------------------------------------------------------------
(* The lines that open and close a part of the document.                   *)

PhoneBoundary(s, l) ==
  CASE l.tag = "BSTARTSLTNOSUBSCRIPTIONREF" -> EnterBlock(s)
    [] l.tag \in {"BSTARTSLTSUBSCRIPTIONREF", "BENDSLTSUBSCRIPTIONREF"} -> ExitBlock(s)
    [] OTHER -> s

RefTable(s, l) ==
  CASE l.tag = "TSTARTSLTSUBSCRIPTIONREF" -> [s EXCEPT !.inRef = TRUE]
    [] l.tag = "TENDSLTSUBSCRIPTIONREF" -> [s EXCEPT !.inRef = FALSE, !.group = 0]
    [] OTHER -> s

\* (mutant) The end of a promotion group is not noticed.
PromoUnended(s, l) ==
  IF l.tag = "BSTARTGROUPPROMO" THEN [s EXCEPT !.inPromo = TRUE] ELSE s
PromoBoundary(s, l) ==
  CASE l.tag = "BSTARTGROUPPROMO" -> [s EXCEPT !.inPromo = TRUE]
    [] l.tag = "BENDGROUPPROMO" -> [s EXCEPT !.inPromo = FALSE, !.promo = 0]
    [] OTHER -> s

-----------------------------------------------------------------------------
(* Detailed usage: a section per item block, in it the tables.             *)

StartSection(s, l) ==
  LET new == Len(s.sections) + 1 IN
  [s EXCEPT !.sections = Append(@, [line |-> l.n, fam |-> l.fam, phone |-> 0,
                                    label |-> 0, total |-> 0, subs |-> <<>>]),
            !.item = new, !.slot[l.fam] = new]

StartTable(s, l) ==
  [s EXCEPT !.subs = Append(@, [label |-> s.pending, rows |-> <<>>, subtotal |-> 0]),
            !.sub = Len(s.subs) + 1, !.pending = 0]

AddRow(s, l) ==
  IF s.sub = 0 THEN s ELSE [s EXCEPT !.subs[s.sub].rows = Append(@, l.n)]

\* TENDEVENT attaches the open table to the section sec, if there is one.
CloseTable(s, sec) ==
  IF s.sub # 0 /\ sec # 0
    THEN [s EXCEPT !.sections[sec].subs = Append(@, s.sub), !.closed = s.sub, !.sub = 0]
    ELSE [s EXCEPT !.sub = 0]

\* (mutant) The table closed last stays open for the next subtotal.
TakeSubtotalAgain(s, l, least) ==
  IF s.closed = 0 THEN s
  ELSE [s EXCEPT !.subs[s.closed].subtotal = IF l.parts >= least THEN l.n ELSE @]

\* ITEMGROUPSUBTOTAL goes to the table closed last, once.
TakeSubtotal(s, l, least) ==
  IF s.closed = 0 THEN s
  ELSE [s EXCEPT !.subs[s.closed].subtotal = IF l.parts >= least THEN l.n ELSE @,
                 !.closed = 0]

InSection(s, sec, field, l) ==
  IF sec = 0 THEN s ELSE [s EXCEPT !.sections[sec][field] = l.n]

\* The item tags, for a parser whose tags act on the section sec.
UsageLine(s, l, sec) ==
  CASE l.tag = "BSTARTITEM" -> StartSection(s, l)
    [] l.tag = "BENDITEM" -> [s EXCEPT !.item = 0]
    [] l.tag = "EVSOURCE" -> InSection(s, sec, "phone", l)
    [] l.tag = "EVENTSTEXT" -> InSection(s, sec, "label", l)
    [] l.tag = "EVENTHEADING" -> StartTable(s, l)
    [] l.tag = "EVENT" -> AddRow(s, l)
    [] l.tag = "TENDEVENT" -> CloseTable(s, sec)
    [] l.tag = "SLTITEMGRANDTOTAL" -> InSection(s, sec, "total", l)

\* The two lines around a table.
GroupLine(s, l, least) ==
  IF l.tag = "ITEMGROUPNAME" THEN [s EXCEPT !.pending = l.n]
  ELSE TakeSubtotal(s, l, least)

ItemTags == {"BSTARTITEM", "BENDITEM", "EVSOURCE", "EVENTSTEXT", "EVENTHEADING",
             "EVENT", "TENDEVENT", "SLTITEMGRANDTOTAL"}
GroupTags == {"ITEMGROUPNAME", "ITEMGROUPSUBTOTAL"}

\* What a section prints: its tables that satisfy Keeps.
Tables(s, sec, Keeps(_)) ==
  SelectSeq([k \in DOMAIN sec.subs |-> s.subs[sec.subs[k]]], Keeps)

HasRows(t) == t.rows # <<>>
HasRowsOrTotal(t) == t.rows # <<>> \/ t.subtotal # 0
Anything(t) == TRUE
HasTables(sec) == sec.tables # <<>>

Sections(s, secs, Keeps(_)) ==
  [k \in DOMAIN secs |->
     [line |-> secs[k].line, phone |-> secs[k].phone,
      label |-> secs[k].label, total |-> secs[k].total,
      tables |-> Tables(s, secs[k], Keeps)]]

\* dict.values() of a dict keyed by family: one section per family, the one
\* stored last, at the place of the first.
ByFamily(s) ==
  LET firsts == SelectSeq([i \in DOMAIN s.sections |-> i],
                          LAMBDA i : \A j \in 1..(i - 1) :
                                       s.sections[j].fam # s.sections[i].fam)
  IN  [k \in DOMAIN firsts |-> s.sections[s.slot[s.sections[firsts[k]].fam]]]

-----------------------------------------------------------------------------
(* The lists of a bill and the fields of its head.                         *)

\* SLT_PAYMENT_LOCATION belongs to the payment listed last.
Locate(s, l) ==
  IF s.payments = <<>> THEN s
  ELSE [s EXCEPT !.payments[Len(s.payments)].place = l.n]

ListLine(s, l) ==
  CASE l.tag = "SLTTAXCODE" -> Note(s, "taxes", l)
    [] l.tag = "ADJ" -> Note(s, "adjustments", l)
    [] l.tag = "ACCBALPAYDET" -> [s EXCEPT !.payments = Append(@, [line |-> l.n, place |-> 0])]
    [] l.tag = "ACCBALFPAYDET" -> Note(s, "cancelled", l)
    [] l.tag = "SLT_PAYMENT_LOCATION" -> Locate(s, l)

ListTags == {"SLTTAXCODE", "ADJ", "ACCBALPAYDET", "ACCBALFPAYDET", "SLT_PAYMENT_LOCATION"}

\* A field of the head: the last line of a tag wins.
Field(s, l) == [s EXCEPT !.header = (l.tag :> [line |-> l.n, amt |-> l.amt]) @@ @]

HeadTags ==
  {"ACCOUNTNO", "BILLREF", "INVOICEACTUALDATE", "INVOICESTART", "INVOICEEND",
   "PAYMENTDUEDATE", "CUSTOMERTYPE", "ACCTAXSTATUS", "ACC_ADDRESS_NAME_N_REQIURED",
   "ADDRESSNAME", "POSITION", "DEPARTMENT", "BUSINESSNAME", "ADDRESS1", "ADDRESS2",
   "ADDRESS3", "ADDRESS4", "ADDRESS5", "ZIPCODE", "COUNTRY", "BALFWD",
   "ACCBALPAYTOT", "CHARGES", "NEWBAL", "ACCCURRENCYCODE", "ACC_CUSTOMER_SEGMENT",
   "INVOICINGCOVATREG", "CUSTOMERVATREF"}
=============================================================================
