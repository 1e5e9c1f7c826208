--------------------------- MODULE DocumentSlicing ---------------------------
(***************************************************************************)
(* How one billing file (a GMF upload) is cut into the documents a worker   *)
(* renders.  Models/SmartAI_Bill/core/gmf_splitter.py keeps the blocks of   *)
(* the approved templates, then slices by offset and limit;                 *)
(* processing/batch_processor.py renders what is left, one PDF a document.  *)
(*                                                                         *)
(* A file is a sequence  docs  of template names, one for each document in  *)
(* file order.  A slice is the SET of the document indices it holds: the    *)
(* order inside a slice is the order of the indices, so nothing is lost,    *)
(* and counting documents is a cardinality.                                *)
(***************************************************************************)
EXTENDS Integers, FiniteSets, Sequences

\* limit=None, and float('inf') where the worker computes with it.
\* MCDocumentSlicing and the proofs only need it to exceed every file.
CONSTANT Unlimited

ASSUME UnlimitedAssumption == Unlimited \in Nat \ {0}

SmallerOf(a, b) == IF a <= b THEN a ELSE b

LargerOf(a, b) == IF a >= b THEN a ELSE b

(***************************************************************************)
(* The documents of the approved templates: the filter that runs BEFORE the *)
(* slice.                                                                  *)
(***************************************************************************)
ApprovedDocs(docs, approved) == {d \in DOMAIN docs : docs[d] \in approved}

\* The first k elements of a set of document indices: pdf_files[:max_allowed].
FirstOf(S, k) == {d \in S : Cardinality({e \in S : e <= d}) <= k}

\* (mutant) the slice taken before the filter
SliceBeforeFilter(docs, approved, offset, limit) ==
  {d \in ApprovedDocs(docs, approved) : offset < d /\ d <= offset + limit}

\* doc_blocks[offset:][:limit] over the approved documents.
Slice(docs, approved, offset, limit) ==
  LET blocks == ApprovedDocs(docs, approved)
  IN  FirstOf(blocks \ FirstOf(blocks, offset), limit)

(***************************************************************************)
(* The PDFs of one call of process_single_file.  In a GMF text file every   *)
(* document of the slice is rendered on its own and a document that raises  *)
(* yields a failed result and no PDF.  A spreadsheet is ONE document: the   *)
(* parser takes the rows offset+1 .. offset+limit and one row that raises   *)
(* loses the whole call.                                                   *)
(***************************************************************************)
RenderText(docs, bad, approved, offset, limit) ==
  Slice(docs, approved, offset, limit) \ bad

SheetRows(docs, offset, limit) ==
  {d \in DOMAIN docs : offset < d /\ d <= offset + limit}

RenderSheet(docs, bad, approved, offset, limit) ==
  LET rows == SheetRows(docs, offset, limit)
  IN  IF rows \cap bad = {} /\ \A d \in rows : docs[d] \in approved
      THEN rows
      ELSE {}

(***************************************************************************)
(* _calculate_upload_approved_counts: the approved documents that the       *)
(* counters say are still to be generated.  With a template breakdown the   *)
(* count of each template is compared with that template's count in         *)
(* processed_breakdown; without one (spreadsheets) the total is compared    *)
(* with processed_records_count.                                           *)
(***************************************************************************)
RankInTemplate(docs, d) == Cardinality({e \in 1..d : docs[e] = docs[d]})

\* (mutant) the pending count of each template off by one
PendingOffByOne(docs, approved, doneBy) ==
  {d \in ApprovedDocs(docs, approved) : RankInTemplate(docs, d) >= doneBy[docs[d]]}

RemainingByTemplate(docs, approved, doneBy) ==
  {d \in ApprovedDocs(docs, approved) : RankInTemplate(docs, d) > doneBy[docs[d]]}

RemainingRows(docs, approved, done) ==
  {d \in ApprovedDocs(docs, approved) : d > done}
=============================================================================
