--------------------------- MODULE AdminPortalProofs ---------------------------
(***************************************************************************)
(* Proofs about AdminPortal, for any artworks, administrators, test runs    *)
(* and number of requests: which seal a printed bill carries.              *)
(***************************************************************************)
EXTENDS AdminPortal, FiniteSetTheorems, TLAPS

Fresh == {"none", "uploading"}
Statuses == Fresh \cup {"DRAFT", "SUBMITTED", "APPROVED", "REJECTED", "deleted"}
Ops == {"none", "submit", "approve", "reject", "delete"}

Types ==
  /\ status \in [Artworks -> Statuses]
  /\ composed \subseteq Artworks
  /\ disk \subseteq Artworks
  /\ session \in [Admins -> [op : Ops, arts : SUBSET Artworks, read : Statuses]]

Approved == {a \in composed : status[a] = "APPROVED"}

\* The bill and the seals in force while it was printed.  What the worker asked
\* for was in force if its file is there, whatever happened since; and a seal
\* that was in force throughout is the answer.
Printing ==
  /\ bill \in [at : {"idle", "drawn", "asked"}, pass : {1, 2}, answer : Artworks \cup {None},
               pages : {1, 2}, seals : {<<>>} \cup {<<a>> : a \in Artworks}]
  /\ seen \subseteq Artworks \cup {None} /\ IsFiniteSet(seen)
  /\ bill.at # "idle" => SealInForce \in seen
  /\ bill.at = "asked" =>
       /\ bill.answer \in disk => bill.answer \in seen
       /\ bill.answer # None => status[bill.answer] \notin Fresh
       /\ \A x \in Artworks : seen = {x} => bill.answer = x
  /\ bill.at = "idle" => bill.pass = 2
  /\ seen # {} =>
       /\ bill.pass = 1 => bill.seals = <<>>
       /\ bill.seals # <<>> => bill.pages = 2 /\ \E a \in Artworks \cap seen : bill.seals = <<a>>
       /\ \A x \in Artworks : bill.pass = 2 /\ seen = {x} => bill.seals = <<x>> \/ (bill.pages = 2 /\ bill.seals = <<>>)

PortalInv == Types /\ Printing
-----------------------------------------------------------------------------
(* The newest approved artwork. *)

\* The query's ORDER BY created_at and the seal in force are the same artwork.
LEMMA NewestIsMax ==
  ASSUME ArtworkAssumption, Types
  PROVE  /\ GetApprovedSelfSeal \in Artworks \cup {None}
         /\ GetApprovedSelfSeal # None => status[GetApprovedSelfSeal] = "APPROVED"
         /\ SealInForce \in Artworks \cup {None}
         /\ SealInForce # None => SealInForce = GetApprovedSelfSeal /\ SealInForce \in disk
         /\ GetApprovedSelfSeal \in disk => SealInForce = GetApprovedSelfSeal
<1>1. CASE Approved = {}
  <2>1. GetApprovedSelfSeal = None /\ SealInForce = None
    BY <1>1 DEF GetApprovedSelfSeal, SealInForce, Approved
  <2>2. None \notin disk
    BY DEF Types, ArtworkAssumption, None
  <2> QED BY <2>1, <2>2
<1>2. CASE Approved # {}
  <2> DEFINE m == CHOOSE x \in Approved : \A y \in Approved : x >= y
             n == CHOOSE a \in Approved : \A b \in Approved : b <= a
  <2>1. Approved \subseteq Artworks /\ Approved \subseteq Nat \ {0}
    BY DEF Approved, Types, ArtworkAssumption
  <2>2. PICK a \in Approved : \A b \in Approved : b <= a
    BY <1>2, <2>1 DEF ArtworkAssumption
  <2>3. m \in Approved /\ \A y \in Approved : m >= y
    BY <2>1, <2>2
  <2>4. n \in Approved /\ \A b \in Approved : b <= n
    BY <2>2
  <2> HIDE DEF m, n
  <2>5. m = n
    BY <2>1, <2>3, <2>4
  <2>6. GetApprovedSelfSeal = m
    BY <1>2 DEF GetApprovedSelfSeal, Approved, Max, m
  <2>7. SealInForce = IF n \in disk THEN n ELSE None
    BY <1>2 DEF SealInForce, Approved, n
  <2>8. m \in Artworks /\ status[m] = "APPROVED" /\ m # None
    BY <2>1, <2>3 DEF Approved, None
  <2> QED BY <2>5, <2>6, <2>7, <2>8
<1> QED BY <1>1, <1>2
-----------------------------------------------------------------------------
LEMMA TypesNone ==
  ASSUME ArtworkAssumption, Types
  PROVE  None \notin Artworks /\ None \notin disk
BY DEF Types, ArtworkAssumption, None

\* The seal in force after a step that keeps the types.
LEMMA SealInRange ==
  ASSUME ArtworkAssumption, Types'
  PROVE  SealInForce' \in Artworks \cup {None}
<1> DEFINE P == {a \in composed' : status'[a] = "APPROVED"}
           n == CHOOSE a \in P : \A b \in P : b <= a
<1>1. CASE P = {}
  BY <1>1 DEF SealInForce
<1>2. CASE P # {}
  <2>1. \E a \in P : \A b \in P : b <= a
    <3>1. P \in SUBSET Artworks
      BY DEF Types
    <3> QED BY <1>2, <3>1 DEF ArtworkAssumption
  <2>2. n \in Artworks
    BY <2>1 DEF Types
  <2>3. SealInForce' = IF n \in disk' THEN n ELSE None
    BY <1>2 DEF SealInForce
  <2> QED BY <2>2, <2>3
<1> QED BY <1>1, <1>2

\* While the bill waits, artworks and files come and go.
LEMMA OtherPrinting ==
  ASSUME ArtworkAssumption, Types, Printing, Types', Observe, bill' = bill,
         \A a \in Artworks : status[a] \notin Fresh => status'[a] \notin Fresh,
         \A a \in disk' : a \in disk \/ status[a] \in Fresh
  PROVE  Printing'
<1>1. CASE bill.at = "idle"
  <2>1. seen' = seen
    BY <1>1 DEF Observe
  <2> QED BY <1>1, <2>1 DEF Printing
<1>2. CASE bill.at # "idle"
  <2>1. seen' = seen \cup {SealInForce'}
    BY <1>2 DEF Observe
  <2>2. SealInForce' \in Artworks \cup {None}
    BY SealInRange
  <2>3. seen' \subseteq Artworks \cup {None} /\ IsFiniteSet(seen')
    BY <2>1, <2>2, FS_AddElement DEF Printing
  <2>4. seen # {} /\ \A x : seen' = {x} => seen = {x}
    BY <1>2, <2>1 DEF Printing
  <2>5. ASSUME bill.at = "asked"
        PROVE  /\ bill.answer \in disk' => bill.answer \in seen'
               /\ bill.answer # None => status'[bill.answer] \notin Fresh
    <3>1. bill.answer # None => status[bill.answer] \notin Fresh /\ bill.answer \in Artworks
      BY <2>5 DEF Printing
    <3>2. None \notin disk'
      BY TypesNone DEF Types
    <3> QED BY <2>1, <2>5, <3>1, <3>2 DEF Printing
  <2>6. bill'.at # "idle" => SealInForce' \in seen'
    BY <2>1
  <2> QED BY <1>2, <2>1, <2>3, <2>4, <2>5, <2>6 DEF Printing
<1> QED BY <1>1, <1>2

\* What is in force does not change while the worker draws, asks or appends.
LEMMA PrintKeeps ==
  ASSUME ArtworkAssumption, Types, PrintStep
  PROVE  Types' /\ SealInForce' = SealInForce /\ UNCHANGED <<status, composed, disk, session>>
<1>1. UNCHANGED <<status, composed, disk, session>>
  BY DEF PrintStep, artVars
<1> QED BY <1>1 DEF Types, SealInForce

LEMMA DrawPrinting ==
  ASSUME ArtworkAssumption, Types, Printing, PrintStep, DrawBill, Observe
  PROVE  Printing'
<1>1. PICK n \in 1..2 :
        bill' = [at |-> "drawn", pass |-> 1, answer |-> None, pages |-> n, seals |-> <<>>]
  BY DEF DrawBill
<1>2. seen' = {SealInForce'}
  BY <1>1 DEF Observe, DrawBill
<1>3. SealInForce' \in Artworks \cup {None}
  BY NewestIsMax, PrintKeeps
<1>4. IsFiniteSet(seen')
  BY <1>2, FS_Singleton
<1> QED BY <1>1, <1>2, <1>3, <1>4 DEF Printing

LEMMA AskPrinting ==
  ASSUME ArtworkAssumption, Types, Printing, PrintStep, AskSeal, Observe
  PROVE  Printing'
<1>1. PICK b : b = bill
  OBVIOUS
<1>2. b.at = "drawn" /\ bill' = [b EXCEPT !.at = "asked", !.answer = GetApprovedSelfSeal]
  BY <1>1 DEF AskSeal
<1>3. SealInForce \in seen
  BY <1>1, <1>2 DEF Printing
<1>4. /\ bill'.at = "asked" /\ bill'.answer = GetApprovedSelfSeal /\ bill'.pass = b.pass
      /\ bill'.pages = b.pages /\ bill'.seals = b.seals
      /\ bill' \in [at : {"idle", "drawn", "asked"}, pass : {1, 2}, answer : Artworks \cup {None},
                    pages : {1, 2}, seals : {<<>>} \cup {<<a>> : a \in Artworks}]
  BY <1>1, <1>2, NewestIsMax DEF Printing
<1>5. seen' = seen
  BY <1>1, <1>2, <1>3, <1>4, PrintKeeps DEF Observe
<1>6. /\ GetApprovedSelfSeal \in disk => GetApprovedSelfSeal \in seen
      /\ GetApprovedSelfSeal # None => status[GetApprovedSelfSeal] \notin Fresh
      /\ \A x \in Artworks : seen = {x} => GetApprovedSelfSeal = x
  BY <1>3, NewestIsMax, TypesNone DEF Fresh
<1>7. UNCHANGED <<status, composed, disk>> /\ SealInForce' = SealInForce
  BY PrintKeeps
<1> QED BY <1>1, <1>2, <1>3, <1>4, <1>5, <1>6, <1>7 DEF Printing

LEMMA AppendPrinting ==
  ASSUME ArtworkAssumption, Types, Printing, PrintStep, AppendSeal, Observe
  PROVE  Printing'
<1>1. PICK b, fits : b = bill /\ fits = (b.answer \in disk /\ b.pages = 1)
  OBVIOUS
<1>2. /\ b.at = "asked"
      /\ bill' = [b EXCEPT !.at = IF b.pass = 1 THEN "drawn" ELSE "idle",
                           !.pass = 2,
                           !.pages = IF fits THEN 2 ELSE b.pages,
                           !.seals = IF fits THEN Append(b.seals, b.answer) ELSE b.seals]
  BY <1>1 DEF AppendSeal
<1>3. /\ SealInForce \in seen
      /\ b.answer \in disk => b.answer \in seen
      /\ \A x \in Artworks : seen = {x} => b.answer = x
      /\ b.pass = 1 => b.seals = <<>>
      /\ b.seals # <<>> => b.pages = 2 /\ \E a \in Artworks \cap seen : b.seals = <<a>>
      /\ \A x \in Artworks : b.pass = 2 /\ seen = {x} => b.seals = <<x>> \/ (b.pages = 2 /\ b.seals = <<>>)
  BY <1>1, <1>2 DEF Printing
<1>4. fits => b.seals = <<>> /\ b.answer \in Artworks \cap seen
  <2>1. SUFFICES ASSUME b.answer \in disk, b.pages = 1
        PROVE  b.seals = <<>> /\ b.answer \in Artworks \cap seen
    BY <1>1
  <2>2. b.answer \in Artworks
    BY <2>1 DEF Types
  <2> QED BY <1>3, <2>1, <2>2
<1>5. PICK seals : seals = IF fits THEN <<b.answer>> ELSE b.seals
  OBVIOUS
<1>6. /\ bill'.at = (IF b.pass = 1 THEN "drawn" ELSE "idle") /\ bill'.pass = 2
      /\ bill'.answer = b.answer /\ bill'.pages = (IF fits THEN 2 ELSE b.pages)
      /\ bill'.seals = seals
      /\ bill' \in [at : {"idle", "drawn", "asked"}, pass : {1, 2}, answer : Artworks \cup {None},
                    pages : {1, 2}, seals : {<<>>} \cup {<<a>> : a \in Artworks}]
  <2>1. bill' = [b EXCEPT !.at = IF b.pass = 1 THEN "drawn" ELSE "idle", !.pass = 2,
                          !.pages = IF fits THEN 2 ELSE b.pages, !.seals = seals]
    <3>1. Append(<<>>, b.answer) = <<b.answer>>
      OBVIOUS
    <3>2. CASE fits
      BY <1>2, <1>4, <1>5, <3>1, <3>2
    <3>3. CASE ~fits
      BY <1>2, <1>5, <3>3
    <3> QED BY <3>2, <3>3
  <2>2. seals \in {<<>>} \cup {<<a>> : a \in Artworks}
    BY <1>1, <1>4, <1>5 DEF Printing
  <2> QED BY <1>1, <2>1, <2>2 DEF Printing
<1>7. seen' = seen /\ SealInForce' = SealInForce
  BY <1>1, <1>2, <1>3, PrintKeeps DEF Observe
<1>8. bill'.seals # <<>> => bill'.pages = 2 /\ \E a \in Artworks \cap seen : bill'.seals = <<a>>
  BY <1>3, <1>4, <1>5, <1>6
<1>9. ASSUME NEW x \in Artworks, seen = {x}
      PROVE  bill'.seals = <<x>> \/ (bill'.pages = 2 /\ bill'.seals = <<>>)
  <2>1. b.answer = x /\ b.answer \in disk
    <3>1. SealInForce = x /\ x # None
      BY <1>3, <1>9, TypesNone
    <3> QED BY <1>3, <1>9, <3>1, NewestIsMax
  <2>2. CASE b.pages = 1
    BY <1>1, <1>5, <1>6, <2>1, <2>2
  <2>3. CASE b.pages = 2
    BY <1>1, <1>3, <1>5, <1>6, <1>9, <2>3 DEF Printing
  <2> QED BY <1>1, <2>2, <2>3 DEF Printing
<1> QED BY <1>1, <1>3, <1>6, <1>7, <1>8, <1>9 DEF Printing
-----------------------------------------------------------------------------
(* The artworks. *)

\* Assigning a status keeps the others.
LEMMA WrittenTyped ==
  ASSUME Types, NEW h \in Admins, NEW a \in Artworks,
         NEW s \in Statuses \ Fresh, Written(h, a, s)
  PROVE  /\ status' \in [Artworks -> Statuses]
         /\ \A b \in Artworks : status[b] \notin Fresh => status'[b] \notin Fresh
         /\ \A b \in Artworks : b # a => status'[b] = status[b]
         /\ status'[a] \in {status[a], s}
BY DEF Types, Written

LEMMA CloseTyped ==
  ASSUME Types, NEW h \in Admins, Close(h)
  PROVE  session' \in [Admins -> [op : Ops, arts : SUBSET Artworks, read : Statuses]]
<1>1. Idle \in [op : Ops, arts : SUBSET Artworks, read : Statuses]
  BY DEF Idle, Ops, Statuses, Fresh
<1> QED BY <1>1 DEF Close, Types

\* What every step of the portal does to the artworks.
ArtworksKept ==
  /\ Types'
  /\ \A a \in Artworks : status[a] \notin Fresh => status'[a] \notin Fresh
  /\ \A a \in disk' : a \in disk \/ status[a] \in Fresh

LEMMA BeginUploadKept ==
  ASSUME Types, NEW a \in Artworks, BeginUpload(a)
  PROVE  ArtworksKept
BY DEF BeginUpload, ArtworksKept, Types, Statuses, Fresh

LEMMA UploadKept ==
  ASSUME Types, NEW a \in Artworks, UploadArtwork(a)
  PROVE  ArtworksKept
<1>1. PICK s \in {"DRAFT", "SUBMITTED"} : status' = [status EXCEPT ![a] = s]
  BY DEF UploadArtwork
<1>2. /\ status[a] = "uploading" /\ UNCHANGED session
      /\ composed' \subseteq Artworks /\ disk' \subseteq disk \cup {a}
  BY DEF UploadArtwork, Types
<1> QED BY <1>1, <1>2 DEF ArtworksKept, Types, Statuses, Fresh

LEMMA OpenKept ==
  ASSUME Types, NEW h \in Admins, NEW a \in Artworks,
         NEW op \in {"submit", "approve", "reject"}, OpenArtwork(h, a, op)
  PROVE  ArtworksKept
<1> DEFINE new == [op |-> op, arts |-> {a}, read |-> status[a]]
<1>1. new \in [op : Ops, arts : SUBSET Artworks, read : Statuses]
  BY DEF Types, Ops
<1>2. session' = [session EXCEPT ![h] = new] /\ UNCHANGED <<status, composed, disk>>
  BY DEF OpenArtwork
<1> QED BY <1>1, <1>2 DEF ArtworksKept, Types

LEMMA SubmitKept ==
  ASSUME Types, NEW h \in Admins, SubmitForApproval(h)
  PROVE  ArtworksKept
<1>1. PICK a \in session[h].arts :
        /\ IF Committed(h, a, "SUBMITTED") THEN Written(h, a, "SUBMITTED") ELSE UNCHANGED status
        /\ Close(h) /\ UNCHANGED <<composed, disk>>
  BY DEF SubmitForApproval
<1>2. a \in Artworks
  BY DEF Types
<1>3. CASE UNCHANGED status
  BY <1>1, <1>3, CloseTyped DEF ArtworksKept, Types
<1>4. CASE Written(h, a, "SUBMITTED")
  <2>1. "SUBMITTED" \in Statuses \ Fresh
    BY DEF Statuses, Fresh
  <2> QED BY <1>1, <1>2, <1>4, <2>1, CloseTyped, WrittenTyped DEF ArtworksKept, Types
<1> QED BY <1>1, <1>3, <1>4

LEMMA ApproveKept ==
  ASSUME Types, NEW h \in Admins, ApproveArtwork(h)
  PROVE  ArtworksKept
<1>1. PICK a \in session[h].arts :
        /\ IF Committed(h, a, "APPROVED")
           THEN Written(h, a, "APPROVED")
           ELSE UNCHANGED status
        /\ Close(h) /\ UNCHANGED <<composed, disk>>
  BY DEF ApproveArtwork
<1>2. a \in Artworks
  BY DEF Types
<1>3. CASE UNCHANGED status
  BY <1>1, <1>3, CloseTyped DEF ArtworksKept, Types
<1>4. CASE Written(h, a, "APPROVED")
  <2>1. "APPROVED" \in Statuses \ Fresh
    BY DEF Statuses, Fresh
  <2> QED BY <1>1, <1>2, <1>4, <2>1, CloseTyped, WrittenTyped DEF ArtworksKept, Types
<1> QED BY <1>1, <1>3, <1>4

LEMMA RejectKept ==
  ASSUME Types, NEW h \in Admins, RejectArtwork(h)
  PROVE  ArtworksKept
<1>1. PICK a \in session[h].arts :
        /\ IF Stored(a)
           THEN Written(h, a, "REJECTED")
           ELSE UNCHANGED status
        /\ Close(h) /\ UNCHANGED <<composed, disk>>
  BY DEF RejectArtwork
<1>2. a \in Artworks
  BY DEF Types
<1>3. CASE UNCHANGED status
  BY <1>1, <1>3, CloseTyped DEF ArtworksKept, Types
<1>4. CASE Written(h, a, "REJECTED")
  <2>1. "REJECTED" \in Statuses \ Fresh
    BY DEF Statuses, Fresh
  <2> QED BY <1>1, <1>2, <1>4, <2>1, CloseTyped, WrittenTyped DEF ArtworksKept, Types
<1> QED BY <1>1, <1>3, <1>4

LEMMA RemoveKept ==
  ASSUME Types, NEW h \in Admins, NEW arts \in SUBSET Artworks,
         RemoveFiles(h, arts)
  PROVE  ArtworksKept
<1> DEFINE new == [op |-> "delete", arts |-> arts, read |-> "none"]
<1>1. new \in [op : Ops, arts : SUBSET Artworks, read : Statuses]
  BY DEF Ops, Statuses, Fresh
<1>2. /\ session' = [session EXCEPT ![h] = new] /\ disk' \subseteq disk
      /\ UNCHANGED <<status, composed>>
  BY DEF RemoveFiles
<1> QED BY <1>1, <1>2 DEF ArtworksKept, Types

LEMMA CommitDeleteKept ==
  ASSUME Types, NEW h \in Admins, CommitDelete(h)
  PROVE  ArtworksKept
<1>1. /\ status' = [a \in Artworks |-> IF a \in session[h].arts THEN "deleted" ELSE status[a]]
      /\ composed' \subseteq composed /\ Close(h) /\ UNCHANGED <<disk>>
  BY DEF CommitDelete
<1>2. status' \in [Artworks -> Statuses]
  BY <1>1 DEF Types, Statuses
<1> QED BY <1>1, <1>2, CloseTyped DEF ArtworksKept, Types, Fresh

LEMMA ArtworkStepKept ==
  ASSUME Types, ArtworkStep
  PROVE  ArtworksKept
<1>1. ASSUME NEW h \in Admins, NEW a \in Artworks, RemoveArtwork(h, a)
      PROVE  ArtworksKept
  BY <1>1, RemoveKept DEF RemoveArtwork
<1>2. ASSUME NEW h \in Admins, DeleteAllArtworks(h)
      PROVE  ArtworksKept
  BY <1>2, RemoveKept DEF DeleteAllArtworks
<1> QED BY <1>1, <1>2, BeginUploadKept, UploadKept, OpenKept, SubmitKept, ApproveKept, RejectKept,
           CommitDeleteKept DEF ArtworkStep

LEMMA ResetKept ==
  ASSUME Types, ResetRows
  PROVE  ArtworksKept
<1>1. /\ status' = [a \in Artworks |-> IF Stored(a) THEN "deleted" ELSE status[a]]
      /\ composed' = {} /\ UNCHANGED <<disk, session>>
  BY DEF ResetRows
<1>2. status' \in [Artworks -> Statuses] /\ \A a \in Artworks : status'[a] # "APPROVED"
  BY <1>1 DEF Types, Statuses, Stored
<1> QED BY <1>1, <1>2 DEF ArtworksKept, Types, Fresh
-----------------------------------------------------------------------------
LEMMA InitInv ==
  ASSUME ArtworkAssumption, Init
  PROVE  PortalInv
<1> USE DEF Init
<1>1. Types
  BY DEF Types, Statuses, Fresh, Ops, Idle
<1>2. Printing
  BY FS_EmptySet DEF Printing
<1> QED BY <1>1, <1>2 DEF PortalInv

LEMMA NextInv ==
  ASSUME ArtworkAssumption, PortalInv, [Next]_vars
  PROVE  PortalInv'
<1>1. CASE UNCHANGED vars
  BY <1>1 DEF PortalInv, Types, Printing, SealInForce, vars, artVars,
              printVars
<1>2. CASE PrintStep /\ Observe
  <2>1. Printing'
    BY <1>2, DrawPrinting, AskPrinting, AppendPrinting DEF PortalInv, PrintStep
  <2> QED BY <1>2, <2>1, PrintKeeps DEF PortalInv
<1>3. CASE (ArtworkStep \/ ResetRows) /\ Observe
  <2>1. ArtworksKept /\ bill' = bill
    BY <1>3, ArtworkStepKept, ResetKept DEF PortalInv, ArtworkStep, ResetRows
  <2>2. Printing'
    BY <1>3, <2>1, OtherPrinting DEF PortalInv, ArtworksKept
  <2> QED BY <2>1, <2>2 DEF PortalInv, ArtworksKept
<1>4. CASE (TestStep \/ ResetFiles \/ \E r \in Runs : ThreadStep(r)) /\ Observe
  <2>1. UNCHANGED <<status, composed, disk, session, bill>>
    BY <1>4 DEF TestStep, ResetFiles, ThreadStep, artVars
  <2>2. Types'
    BY <2>1 DEF PortalInv, Types
  <2>3. Printing'
    BY <1>4, <2>1, <2>2, OtherPrinting DEF PortalInv
  <2> QED BY <2>2, <2>3 DEF PortalInv
<1> QED BY <1>1, <1>2, <1>3, <1>4 DEF Next, Portal

THEOREM Invariance == Spec => []PortalInv
<1>1. Init => PortalInv
  BY ArtworkAssumption, InitInv
<1>2. PortalInv /\ [Next]_vars => PortalInv'
  BY ArtworkAssumption, NextInv
<1> QED BY <1>1, <1>2, PTL DEF Spec

\* A printed bill carries at most one seal, one that was in force while it was
\* printed, and exactly the one in force if that did not change, in any order of
\* uploads, decisions, deletions and resets.
THEOREM SealIsApproved == Spec => []SealFollowsApproval
<1>1. PortalInv => SealFollowsApproval
  <2> SUFFICES ASSUME PortalInv, bill.at = "idle", seen # {}
               PROVE  LET drawn == bill.pages - Len(bill.seals)
                      IN  /\ bill.seals \in {<<>>} \union {<<a>> : a \in seen \ {None}}
                          /\ drawn = 2 => bill.seals = <<>>
                          /\ drawn = 1 /\ Cardinality(seen) = 1 =>
                               bill.seals = IF seen = {None} THEN <<>>
                                            ELSE <<CHOOSE a \in seen : TRUE>>
    BY DEF SealFollowsApproval
  <2>1. bill.seals # <<>> => bill.pages = 2 /\ \E a \in Artworks \cap seen : bill.seals = <<a>>
    BY DEF PortalInv, Printing
  <2>2. None \notin Artworks
    BY ArtworkAssumption DEF ArtworkAssumption, None
  <2>3. bill.seals \in {<<>>} \union {<<a>> : a \in seen \ {None}}
    BY <2>1, <2>2
  <2>4. bill.pages - Len(bill.seals) = 2 => bill.seals = <<>>
    BY <2>1
  <2>5. ASSUME bill.pages - Len(bill.seals) = 1, Cardinality(seen) = 1
        PROVE  bill.seals = IF seen = {None} THEN <<>> ELSE <<CHOOSE a \in seen : TRUE>>
    <3>1. PICK x : seen = {x}
      BY <2>5, FS_Singleton DEF PortalInv, Printing
    <3>2. CASE x = None
      BY <2>1, <2>2, <3>1, <3>2
    <3>3. CASE x # None
      <4>1. x \in Artworks /\ bill.pass = 2
        BY <3>1, <3>3 DEF PortalInv, Printing
      <4>2. bill.seals = <<x>> \/ (bill.pages = 2 /\ bill.seals = <<>>)
        BY <3>1, <4>1 DEF PortalInv, Printing
      <4>3. bill.seals = <<x>>
        BY <2>5, <4>2
      <4>4. (CHOOSE a \in seen : TRUE) = x
        BY <3>1
      <4> QED BY <3>1, <3>3, <4>3, <4>4
    <3> QED BY <3>2, <3>3
  <2> QED BY <2>3, <2>4, <2>5
<1> QED BY <1>1, Invariance, PTL
=============================================================================
