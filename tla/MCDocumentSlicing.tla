-------------------------- MODULE MCDocumentSlicing --------------------------
(***************************************************************************)
(* Checks the set-based slicing against the list code of gmf_splitter.py    *)
(* written with sequences, on every file of at most MaxDocs documents, and  *)
(* follows a file through a series of partial generations: what the offset  *)
(* arithmetic of the worker promises while the approved templates stand     *)
(* still.                                                                  *)
(***************************************************************************)
EXTENDS DocumentSlicing, SequencesExt

CONSTANTS Templates, MaxDocs

VARIABLES docs, approved, bad,   \* the file: its documents, what is approved, what fails to render
          offset,                \* processed_records_count
          doneBy,                \* processed_breakdown
          out                    \* out[d]: PDFs of document d in the output folders

vars == <<docs, approved, bad, offset, doneBy, out>>

Init ==
  /\ docs \in UNION {[1..n -> Templates] : n \in 1..MaxDocs}
  /\ approved \in SUBSET Templates
  /\ bad \in SUBSET (DOMAIN docs)
  /\ offset = 0
  /\ doneBy = [t \in Templates |-> 0]
  /\ out = [d \in DOMAIN docs |-> 0]

\* One generate request with a limit, generated to its end by one worker.
GeneratePart(limit) ==
  LET pdfs == RenderText(docs, bad, approved, offset, limit)
  IN  /\ limit <= Cardinality(RemainingByTemplate(docs, approved, doneBy))
      /\ offset' = offset + Cardinality(pdfs)
      /\ doneBy' = [t \in Templates |-> doneBy[t] + Cardinality({d \in pdfs : docs[d] = t})]
      /\ out' = [d \in DOMAIN docs |-> IF d \in pdfs THEN out[d] + 1 ELSE out[d]]
      /\ UNCHANGED <<docs, approved, bad>>

Next == \E limit \in 1..MaxDocs : GeneratePart(limit)

Spec == Init /\ [][Next]_vars
-----------------------------------------------------------------------------
\* The list code: filter, doc_blocks[offset:], doc_blocks[:limit].
Indices(n) == [i \in 1..n |-> i]

ListSlice(ds, app, off, lim) ==
  LET kept == SelectSeq(Indices(Len(ds)), LAMBDA i : ds[i] \in app)
  IN  SubSeq(kept, off + 1, SmallerOf(Len(kept), off + lim))

\* The set-based slice holds exactly the documents that filtering and then
\* slicing the list of blocks keeps (gmf_splitter.split_gmf_documents), for
\* every offset and limit.
SliceIsListSlice ==
  \A off \in 0..MaxDocs, lim \in 1..MaxDocs :
    Slice(docs, approved, off, lim) = ToSet(ListSlice(docs, approved, off, lim))

\* While every document renders and the approved templates do not change, a
\* series of partial generations never renders a document twice, and the
\* documents it has rendered are the first processed_records_count approved
\* ones: resuming at the offset neither repeats nor skips a customer.
ResumeIsExact ==
  bad = {} =>
    /\ \A d \in DOMAIN docs : out[d] <= 1
    /\ {d \in DOMAIN docs : out[d] = 1} = FirstOf(ApprovedDocs(docs, approved), offset)
=============================================================================
