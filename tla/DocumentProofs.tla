--------------------------- MODULE DocumentProofs ---------------------------
(***************************************************************************)
(* Files, documents and their counters in the generation queue, for any set *)
(* of files, workers and requests:                                         *)
(*   - a file has one holder, and its source is not lost;                   *)
(*   - the counter of a file stands for its first documents, and whoever    *)
(*     holds the file, its sidecar or a place in a request knows it;        *)
(*   - so no document of a file that was not taken stale or in hand is     *)
(*     printed twice, a COMPLETED file is whole and only a stale request    *)
(*     drags it back, no sidecar outlives its file, and an accounted run    *)
(*     is closed;                                                          *)
(*   - no run prints more documents than it was opened for, and the         *)
(*     counters of a file at rest tell what is in the output.               *)
(***************************************************************************)
EXTENDS GenerationQueueProofs

(***************************************************************************)
(* Initial segments: a part of a set of documents that leaves out nothing   *)
(* before what it holds.  What is rendered, copied and counted are such     *)
(* parts, and the operators of DocumentSlicing take nothing else.           *)
(***************************************************************************)

Initial(T, S) == T \subseteq S /\ \A d \in T : \A e \in S : e < d => e \in T

\* The first n elements of a set are its initial segment of n elements.
LEMMA InitialIsFirst ==
  ASSUME NEW S \in SUBSET Nat, IsFiniteSet(S), NEW T, Initial(T, S)
  PROVE  FirstOf(S, Cardinality(T)) = T
<1>0. T \subseteq S /\ IsFiniteSet(T) /\ Cardinality(T) \in Nat
  BY FS_Subset, FS_CardinalityType DEF Initial
<1>1. ASSUME NEW d \in T PROVE Cardinality({e \in S : e <= d}) <= Cardinality(T)
  <2>1. {e \in S : e <= d} \in SUBSET T
    <3> SUFFICES ASSUME NEW e \in S, e <= d PROVE e \in T
      OBVIOUS
    <3>1. e \in Nat /\ d \in Nat
      BY <1>0
    <3>2. e < d \/ e = d
      BY <3>1
    <3> QED BY <3>2 DEF Initial
  <2> QED BY <1>0, <2>1, FS_Subset
<1>2. ASSUME NEW d \in S, d \notin T
      PROVE  ~(Cardinality({e \in S : e <= d}) <= Cardinality(T))
  <2> DEFINE below == {e \in S : e <= d}
  <2>1. T \cup {d} \in SUBSET below
    BY <1>0, <1>2 DEF Initial
  <2>2. IsFiniteSet(below) /\ Cardinality(below) \in Nat
    BY FS_Subset, FS_CardinalityType
  <2> HIDE DEF below
  <2>3. Cardinality(T \cup {d}) = Cardinality(T) + 1
    BY <1>0, <1>2, FS_AddElement
  <2>4. Cardinality(T \cup {d}) <= Cardinality(below)
    BY <2>1, <2>2, FS_Subset
  <2>5. ~(Cardinality(below) <= Cardinality(T))
    BY <1>0, <2>2, <2>3, <2>4
  <2> QED BY <2>5 DEF below
<1> QED BY <1>0, <1>1, <1>2 DEF FirstOf

LEMMA FirstIsInitial ==
  ASSUME NEW S \in SUBSET Nat, IsFiniteSet(S), NEW k \in Int
  PROVE  Initial(FirstOf(S, k), S)
<1> SUFFICES ASSUME NEW d \in S, Cardinality({x \in S : x <= d}) <= k,
                    NEW e \in S, e < d
             PROVE  Cardinality({x \in S : x <= e}) <= k
  BY DEF Initial, FirstOf
<1> DEFINE A == {x \in S : x <= e}
           B == {x \in S : x <= d}
<1>1. A \in SUBSET B /\ IsFiniteSet(B)
  <2>1. B \in SUBSET S
    OBVIOUS
  <2>2. IsFiniteSet(B)
    BY <2>1, FS_Subset
  <2>3. \A x \in S : x <= e => x <= d
    OBVIOUS
  <2> QED BY <2>2, <2>3
<1> HIDE DEF A, B
<1>2. Cardinality(A) <= Cardinality(B) /\ Cardinality(A) \in Nat /\ Cardinality(B) \in Nat
  BY <1>1, FS_Subset, FS_CardinalityType
<1>3. Cardinality(B) <= k
  BY DEF B
<1> QED BY <1>2, <1>3 DEF A

\* The number of elements fixes an initial segment.
LEMMA InitialUnique ==
  ASSUME NEW S \in SUBSET Nat, IsFiniteSet(S), NEW T, Initial(T, S),
         NEW U, Initial(U, S), Cardinality(T) = Cardinality(U)
  PROVE  T = U
BY InitialIsFirst

LEMMA InitialOfInitial ==
  ASSUME NEW S, NEW T, Initial(T, S), NEW U, Initial(U, T)
  PROVE  Initial(U, S)
BY DEF Initial

\* What comes next is put behind what there is.
LEMMA InitialNext ==
  ASSUME NEW S \in SUBSET Nat, NEW T, Initial(T, S), NEW U, Initial(U, S \ T)
  PROVE  Initial(T \cup U, S) /\ T \cap U = {}
BY DEF Initial

LEMMA InitialWhole ==
  ASSUME NEW S
  PROVE  Initial(S, S) /\ Initial({}, S)
BY DEF Initial
-----------------------------------------------------------------------------
(***************************************************************************)
(* The documents of a file that are to be printed, and those its counter    *)
(* stands for                                                              *)
(***************************************************************************)

\* The templates that are approved, when they never change.
Approved == CHOOSE A \in ApprovedChoices : TRUE

\* A spreadsheet is rendered by rows, whatever their template.
Wanted(u) == IF u \in Sheets THEN DOMAIN Docs[u] ELSE ApprovedDocs(Docs[u], Approved)

Done(u) == FirstOf(Wanted(u), processed[u])

\* The documents the worker has rendered and is to count.
Chunk(w) == FirstOf(job[w].rend, job[w].gen)

OfTemplate(u, S, t) == {d \in S : Docs[u][d] = t}

\* What the properties of single documents rest on: the approved templates do
\* not change and every document renders.  (The offset of a slice counts
\* documents of the approved templates, and only those that rendered.)
SteadyFiles ==
  /\ \A A, B \in ApprovedChoices : A = B
  /\ \A u \in Uploads : Bad[u] \cap DOMAIN Docs[u] = {}

LEMMA WantedType ==
  ASSUME NEW u \in Uploads
  PROVE  /\ Wanted(u) \in SUBSET (DOMAIN Docs[u]) /\ Wanted(u) \in SUBSET Nat
         /\ IsFiniteSet(Wanted(u)) /\ Cardinality(Wanted(u)) \in Nat
         /\ Cardinality(Wanted(u)) <= Len(Docs[u])
         /\ Cardinality(DOMAIN Docs[u]) = Len(Docs[u])
<1>1. Wanted(u) \in SUBSET (DOMAIN Docs[u])
  BY DEF Wanted, ApprovedDocs
<1>2. /\ IsFiniteSet(DOMAIN Docs[u]) /\ DOMAIN Docs[u] = 1..Len(Docs[u])
      /\ Len(Docs[u]) \in Nat
  BY DocsFinite, QueueAssumption
<1>3. Cardinality(DOMAIN Docs[u]) = Len(Docs[u])
  BY <1>2, FS_Interval
<1>4. Cardinality(Wanted(u)) <= Cardinality(DOMAIN Docs[u])
  BY <1>1, <1>2, FS_Subset
<1> QED BY <1>1, <1>3, <1>4, SubsetCount

\* Before anything is counted.
LEMMA DoneNone ==
  ASSUME NEW u \in Uploads
  PROVE  FirstOf(Wanted(u), 0) = {}
<1> SUFFICES ASSUME NEW d \in Wanted(u), Cardinality({e \in Wanted(u) : e <= d}) <= 0
             PROVE  FALSE
  BY DEF FirstOf
<1> DEFINE A == {e \in Wanted(u) : e <= d}
<1>1. d \in A /\ A \in SUBSET (DOMAIN Docs[u])
  BY WantedType
<1>2. IsFiniteSet(A) /\ Cardinality(A) \in Nat
  BY <1>1, SubsetCount
<1>3. Cardinality(A) <= 0
  OBVIOUS
<1> HIDE DEF A
<1>4. Cardinality(A) # 0
  BY <1>1, <1>2, FS_EmptySet
<1> QED BY <1>2, <1>3, <1>4

\* The slice behind the first k documents is what comes next.
LEMMA RenderNext ==
  ASSUME SteadyFiles, NEW u \in Uploads, NEW k \in Nat, NEW limit \in Int,
         Cardinality(FirstOf(Wanted(u), k)) = k
  PROVE  Initial(Render(u, Approved, k, limit), Wanted(u) \ FirstOf(Wanted(u), k))
<1> DEFINE S == Wanted(u)
           D == FirstOf(S, k)
<1>1. S \in SUBSET Nat /\ IsFiniteSet(S) /\ S \in SUBSET (DOMAIN Docs[u])
  BY WantedType
<1>2. S \ D \in SUBSET Nat /\ IsFiniteSet(S \ D)
  BY <1>1, FS_Subset
<1>3. CASE u \notin Sheets
  <2>1. Render(u, Approved, k, limit) = FirstOf(S \ D, limit) \ Bad[u]
    BY <1>3 DEF Render, RenderText, Slice, Wanted
  <2>2. Initial(FirstOf(S \ D, limit), S \ D)
    BY <1>2, FirstIsInitial
  <2>3. FirstOf(S \ D, limit) \ Bad[u] = FirstOf(S \ D, limit)
    BY <1>1 DEF SteadyFiles, FirstOf
  <2> QED BY <2>1, <2>2, <2>3
<1>4. CASE u \in Sheets
  <2>1. S = 1..Len(Docs[u]) /\ Len(Docs[u]) \in Nat
    BY <1>4, DocsFinite, QueueAssumption DEF Wanted
  <2>2. ASSUME NEW d \in S PROVE Cardinality({e \in S : e <= d}) = d
    <3>1. {e \in S : e <= d} = 1..d /\ d \in Nat /\ d >= 1
      BY <2>1
    <3>2. Cardinality(1..d) = d
      BY <3>1, FS_Interval
    <3> QED BY <3>1, <3>2
  <2>3. D = {d \in S : d <= k}
    BY <2>2 DEF FirstOf
  <2> DEFINE rows == SheetRows(Docs[u], k, limit)
  <2>4. Initial(rows, S \ D)
    <3>1. rows = {d \in S : k < d /\ d <= k + limit}
      BY <1>4 DEF SheetRows, Wanted
    <3>2. S \ D = {d \in S : k < d}
      BY <1>1, <2>3
    <3> HIDE DEF rows, D, S
    <3> QED BY <1>1, <3>1, <3>2 DEF Initial
  <2>5. Render(u, Approved, k, limit) \in {rows, {}}
    BY <1>4 DEF Render, RenderSheet
  <2> QED BY <2>4, <2>5, InitialWhole
<1> QED BY <1>3, <1>4

\* Counting a chunk moves the counter over the documents of the chunk.
LEMMA DoneGrows ==
  ASSUME NEW u \in Uploads, NEW k \in Nat, Cardinality(FirstOf(Wanted(u), k)) = k,
         NEW C, Initial(C, Wanted(u) \ FirstOf(Wanted(u), k))
  PROVE  LET n == k + Cardinality(C)
         IN  /\ FirstOf(Wanted(u), n) = FirstOf(Wanted(u), k) \cup C
             /\ Cardinality(FirstOf(Wanted(u), n)) = n
             /\ FirstOf(Wanted(u), k) \cap C = {}
             /\ Cardinality(C) \in Nat /\ n \in Nat
<1> DEFINE S == Wanted(u)
           D == FirstOf(S, k)
<1>1. S \in SUBSET Nat /\ IsFiniteSet(S)
  BY WantedType
<1>2. Initial(D, S)
  BY <1>1, FirstIsInitial
<1>0. Initial(C, S \ D) /\ Cardinality(D) = k
  OBVIOUS
<1> HIDE DEF S, D
<1>3. Initial(D \cup C, S) /\ D \cap C = {}
  BY <1>0, <1>1, <1>2, InitialNext
<1>4. IsFiniteSet(D) /\ IsFiniteSet(C)
  BY <1>1, <1>3, FS_Subset DEF Initial
<1>5. Cardinality(D \cup C) = Cardinality(D) + Cardinality(C) /\ Cardinality(C) \in Nat
  BY <1>3, <1>4, DisjointCount, FS_CardinalityType
<1>6. FirstOf(S, Cardinality(D \cup C)) = D \cup C
  BY <1>1, <1>3, InitialIsFirst
<1>7. k + Cardinality(C) = Cardinality(D \cup C) /\ k + Cardinality(C) \in Nat
  BY <1>0, <1>5
<1>8. /\ FirstOf(S, k + Cardinality(C)) = D \cup C
      /\ Cardinality(FirstOf(S, k + Cardinality(C))) = k + Cardinality(C)
  BY <1>6, <1>7
<1> QED BY <1>3, <1>5, <1>7, <1>8 DEF S, D

\* When the counter has reached the end of the file, all of it is done.
LEMMA DoneWhole ==
  ASSUME NEW u \in Uploads, NEW k \in Nat, Cardinality(FirstOf(Wanted(u), k)) = k,
         k >= Len(Docs[u])
  PROVE  FirstOf(Wanted(u), k) = DOMAIN Docs[u] /\ Wanted(u) = DOMAIN Docs[u]
<1> DEFINE D == FirstOf(Wanted(u), k)
<1>1. D \in SUBSET Wanted(u) /\ Wanted(u) \in SUBSET (DOMAIN Docs[u])
  BY WantedType DEF FirstOf
<1>2. D \in SUBSET (DOMAIN Docs[u]) /\ IsFiniteSet(DOMAIN Docs[u])
  BY <1>1, DocsFinite
<1>3. Cardinality(D) <= Cardinality(DOMAIN Docs[u])
  BY <1>2, FS_Subset
<1>4. Cardinality(D) = Cardinality(DOMAIN Docs[u])
  BY <1>3, WantedType, DocsFinite
<1>5. D = DOMAIN Docs[u]
  BY <1>2, <1>4, FS_Subset
<1> QED BY <1>1, <1>5
-----------------------------------------------------------------------------
(***************************************************************************)
(* What each step does to the record of its request                        *)
(***************************************************************************)

\* The step of q leaves the other requests alone.
OnlyRequest(q) == \A p \in Requests \ {q} : req'[p] = req[p]

LEMMA ReqIs ==
  ASSUME ReqOK, NEW q \in Requests, NEW j, req' = [req EXCEPT ![q] = j]
  PROVE  req'[q] = j /\ OnlyRequest(q)
BY DEF ReqOK, OnlyRequest

\* A request that ends, or breaks off.
LEMMA EndEffect ==
  ASSUME ReqOK, NEW q \in Requests, Close(q) \/ BreakOff(q)
  PROVE  OnlyRequest(q) /\ req'[q].pc \in {"done", "dead"} /\ req'[q].bad = {}
<1>1. CASE Close(q)
  <2>1. DoneRequest.pc = "done" /\ DoneRequest.bad = {}
    BY DEF DoneRequest, NewRequest
  <2> QED BY <1>1, <2>1, ReqIs DEF Close
<1>2. CASE BreakOff(q)
  <2> DEFINE j == DeadRequest(req[q].run)
  <2>1. j.pc = "dead" /\ j.bad = {}
    BY DEF DeadRequest, NewRequest
  <2>2. req' = [req EXCEPT ![q] = j]
    BY <1>2 DEF BreakOff
  <2> HIDE DEF j
  <2> QED BY <2>1, <2>2, ReqIs
<1> QED BY <1>1, <1>2

LEMMA FilterEffect ==
  ASSUME TypeInv, NEW q \in Requests, FilterBatch(q)
  PROVE  \E ids \in SUBSET Uploads, limit \in Limits, approved \in ApprovedChoices :
           /\ OnlyRequest(q) /\ req'[q].pc = "commit" /\ req'[q].bad = {}
           /\ req'[q].todo = Chosen(ids, limit, approved)
           /\ req'[q].off = processed /\ req'[q].appr = approved
           /\ req'[q].src = [u \in Uploads |->
                               IF Resolvable(u) THEN Resolved(u) ELSE path[u]]
           /\ req'[q].total =
                LargerOf(1, SmallerOf(limit, Cardinality(Pool(ids, approved))))
           /\ \A u \in req'[q].todo :
                req'[q].lim[u] = FileLimit(Pool(ids, approved), u, limit)
<1>1. PICK ids \in SUBSET Uploads, limit \in Limits, approved \in ApprovedChoices :
        req' = [req EXCEPT ![q] = BatchRequest(ids, limit, approved)]
  BY DEF FilterBatch
<1> DEFINE pool == Pool(ids, approved)
           chosen == Chosen(ids, limit, approved)
           reached == Reached(ids, limit, approved)
           total == LargerOf(1, SmallerOf(limit, Cardinality(pool)))
           lim == [u \in Uploads |-> IF u \in chosen
                                     THEN FileLimit(pool, u, limit) ELSE 0]
           clear == {u \in reached : upRun[u] # NoRun}
           repath == {u \in reached : status[u] \in Ready /\ Resolvable(u)
                                         /\ Resolved(u) # path[u]}
           src == [u \in Uploads |->
                     IF Resolvable(u) THEN Resolved(u) ELSE path[u]]
           done == processed
           j == [NewRequest EXCEPT !.pc = "commit", !.todo = chosen,
                   !.total = total, !.off = done, !.lim = lim,
                   !.appr = approved, !.clear = clear, !.repath = repath,
                   !.src = src]
<1>2. BatchRequest(ids, limit, approved) = j
  BY DEF BatchRequest
<1>3. /\ j.pc = "commit" /\ j.todo = chosen /\ j.off = done /\ j.appr = approved
      /\ j.src = src /\ j.bad = {} /\ j.total = total /\ j.lim = lim
  <2>1. NewRequest.bad = {}
    BY DEF NewRequest
  <2> HIDE DEF pool, chosen, reached, total, lim, clear, repath, src, done
  <2> QED BY <2>1, NewRequestType DEF RequestType
<1> HIDE DEF j
<1>4. req'[q] = j /\ OnlyRequest(q)
  BY <1>1, <1>2, ReqIs, TypeSplit DEF TypeInv
<1>5. \A u \in chosen : lim[u] = FileLimit(pool, u, limit)
  BY DEF Chosen
<1> QED BY <1>1, <1>3, <1>4, <1>5

LEMMA CommitEffect ==
  ASSUME TypeInv, NEW q \in Requests, CommitBatch(q)
  PROVE  /\ OnlyRequest(q) /\ req[q].pc = "commit" /\ req'[q].pc = "meta"
         /\ req'[q].todo = req[q].todo /\ req'[q].off = req[q].off
         /\ req'[q].src = req[q].src /\ req'[q].appr = req[q].appr
         /\ req'[q].bad = req[q].bad /\ req'[q].lim = req[q].lim
         /\ req'[q].run \in Runs /\ NextRun(req'[q].run)
         /\ InsertRun(req'[q].run, req[q].total)
         /\ upRun' = [u \in Uploads |-> IF u \in req[q].todo THEN req'[q].run
                                        ELSE IF u \in req[q].clear THEN NoRun
                                        ELSE upRun[u]]
         /\ raced' = raced \cup {u \in req[q].todo :
                                   InHand(u) \/ processed[u] # req[q].off[u]}
<1>0. ReqOK /\ req[q] \in RequestType
  BY TypeSplit DEF TypeInv, ReqOK
<1>1. PICK r \in Runs :
        /\ req' = [req EXCEPT ![q] = [@ EXCEPT !.pc = "meta", !.run = r]]
        /\ NextRun(r) /\ InsertRun(r, req[q].total)
        /\ upRun' = [u \in Uploads |-> IF u \in req[q].todo THEN r
                                       ELSE IF u \in req[q].clear THEN NoRun
                                       ELSE upRun[u]]
  BY DEF CommitBatch
<1> DEFINE j == [req[q] EXCEPT !.pc = "meta", !.run = r]
<1>2. req'[q] = j /\ OnlyRequest(q)
  BY <1>0, <1>1, ReqIs
<1>3. /\ j.pc = "meta" /\ j.todo = req[q].todo /\ j.off = req[q].off
      /\ j.src = req[q].src /\ j.appr = req[q].appr /\ j.bad = req[q].bad
      /\ j.lim = req[q].lim /\ j.run = r
  BY <1>0 DEF RequestType
<1> HIDE DEF j
<1>4. req[q].pc = "commit"
      /\ raced' = raced \cup {u \in req[q].todo :
                                InHand(u) \/ processed[u] # req[q].off[u]}
  BY DEF CommitBatch, At
<1>5. req'[q].run = r
  BY <1>2, <1>3
<1> QED BY <1>1, <1>2, <1>3, <1>4, <1>5

LEMMA StageMetaEffect ==
  ASSUME TypeInv, NEW q \in Requests, StageMeta(q)
  PROVE  \E u \in Uploads :
           /\ Staging(q, u) /\ meta' = [meta EXCEPT ![u] = {Sidecar(q, u)}]
           /\ OnlyRequest(q) /\ req[q].pc = "meta" /\ req'[q].pc = "data"
           /\ req'[q].todo = req[q].todo /\ req'[q].off = req[q].off
           /\ req'[q].src = req[q].src /\ req'[q].appr = req[q].appr
           /\ req'[q].bad = req[q].bad /\ req'[q].run = req[q].run
           /\ req'[q].lim = req[q].lim
<1>0. ReqOK /\ req[q] \in RequestType
  BY TypeSplit DEF TypeInv, ReqOK
<1> DEFINE j == [req[q] EXCEPT !.pc = "data"]
<1>2. req'[q] = j /\ OnlyRequest(q)
  BY <1>0, ReqIs DEF StageMeta
<1>3. /\ j.pc = "data" /\ j.todo = req[q].todo /\ j.off = req[q].off
      /\ j.src = req[q].src /\ j.appr = req[q].appr /\ j.bad = req[q].bad
      /\ j.run = req[q].run /\ j.lim = req[q].lim
  BY <1>0 DEF RequestType
<1> HIDE DEF j
<1> QED BY <1>2, <1>3 DEF StageMeta, At

LEMMA StagedEffect ==
  ASSUME TypeInv, NEW q \in Requests, NEW u \in Uploads, NEW bad \in SUBSET Uploads,
         Staged(q, u, bad)
  PROVE  /\ OnlyRequest(q) /\ req'[q].pc \in {"finish", "meta"}
         /\ req'[q].todo = req[q].todo \ {u} /\ req'[q].off = req[q].off
         /\ req'[q].src = req[q].src /\ req'[q].appr = req[q].appr
         /\ req'[q].bad = req[q].bad \cup bad
         /\ req'[q].run = req[q].run /\ req'[q].lim = req[q].lim
<1>0. ReqOK /\ req[q] \in RequestType
  BY TypeSplit DEF TypeInv, ReqOK
<1> DEFINE rest == req[q].todo \ {u}
           worse == req[q].bad \cup bad
           next == IF rest = {} THEN "finish" ELSE "meta"
           j == [req[q] EXCEPT !.todo = rest, !.bad = worse, !.pc = next]
<1>2. req'[q] = j /\ OnlyRequest(q)
  BY <1>0, ReqIs DEF Staged
<1>3. /\ j.pc = next /\ j.todo = rest /\ j.off = req[q].off
      /\ j.src = req[q].src /\ j.appr = req[q].appr /\ j.bad = worse
      /\ j.run = req[q].run /\ j.lim = req[q].lim
  <2> HIDE DEF rest, worse, next
  <2> QED BY <1>0 DEF RequestType
<1> HIDE DEF j
<1> QED BY <1>2, <1>3

LEMMA SingleEffect ==
  ASSUME TypeInv, NEW q \in Requests, GenerateSingle(q)
  PROVE  \E u \in Uploads :
           /\ OnlyRequest(q) /\ req'[q].pc = "move" /\ req'[q].todo = {u}
           /\ raced' = (IF InHand(u) THEN raced \cup {u} ELSE raced)
<1>0. ReqOK /\ req[q] \in RequestType
  BY TypeSplit DEF TypeInv, ReqOK
<1>1. PICK u \in Uploads :
        /\ req' = [req EXCEPT ![q] = [@ EXCEPT !.pc = "move", !.todo = {u}, !.src = path]]
        /\ raced' = (IF InHand(u) THEN raced \cup {u} ELSE raced)
  BY DEF GenerateSingle
<1> DEFINE at == path
           j == [req[q] EXCEPT !.pc = "move", !.todo = {u}, !.src = at]
<1>2. req'[q] = j /\ OnlyRequest(q)
  BY <1>0, <1>1, ReqIs
<1>3. j.pc = "move" /\ j.todo = {u}
  <2> HIDE DEF at
  <2> QED BY <1>0 DEF RequestType
<1> HIDE DEF j
<1> QED BY <1>1, <1>2, <1>3

RetryStep(q) ==
  \/ RetryFailedRun(q) \/ CommitRetry(q) \/ LoadFailures(q) \/ SaveRetry(q)
  \/ UploadsGone(q) \/ RetryLoadFails(q) \/ RetryFails(q) \/ RetrySaveFails(q)

\* A retry leaves the queue alone.
LEMMA RetryEffect ==
  ASSUME TypeInv, NEW q \in Requests, RetryStep(q)
  PROVE  /\ OnlyRequest(q)
         /\ req'[q].pc \in {"retrycommit", "retryload", "retrysave", "done", "dead"}
         /\ UNCHANGED <<disk, meta, raced, job, processed, procBy>>
<1> USE DEF RetryStep
<1>0. /\ RowOK /\ RunOK /\ ReqOK /\ Running /\ req[q] \in RequestType
  BY TypeSplit DEF TypeInv, ReqOK
<1>1. CASE RetryFailedRun(q)
  <2>1. PICK r \in Runs :
          req' = [req EXCEPT ![q] = [@ EXCEPT !.pc = "retrycommit", !.run = r,
                    !.seenR = rstatus[r]]]
    BY <1>1 DEF RetryFailedRun
  <2> DEFINE j == [req[q] EXCEPT !.pc = "retrycommit", !.run = r, !.seenR = rstatus[r]]
  <2>2. req'[q] = j /\ OnlyRequest(q)
    BY <1>0, <2>1, ReqIs
  <2>3. j.pc = "retrycommit"
    BY <1>0 DEF RequestType
  <2> HIDE DEF j
  <2> QED BY <1>1, <2>2, <2>3 DEF RetryFailedRun, row, files
<1>2. CASE CommitRetry(q)
  <2> DEFINE j == [req[q] EXCEPT !.pc = "retryload"]
  <2>1. req' = [req EXCEPT ![q] = j] /\ j.pc = "retryload"
    BY <1>0, <1>2 DEF CommitRetry, RequestType
  <2> HIDE DEF j
  <2>2. req'[q] = j /\ OnlyRequest(q)
    BY <1>0, <2>1, ReqIs
  <2> QED BY <1>2, <2>1, <2>2 DEF CommitRetry, row, files, history
<1>3. CASE LoadFailures(q) \/ UploadsGone(q) \/ RetryLoadFails(q)
  <2>1. PICK j \in RequestType : /\ req' = [req EXCEPT ![q] = j]
                                 /\ j.pc \in {"dead", "retrysave"}
    BY <1>0, <1>3, LoadRecord
  <2>2. req'[q] = j /\ OnlyRequest(q)
    BY <1>0, <2>1, ReqIs
  <2> QED BY <1>3, <2>1, <2>2
          DEF LoadFailures, UploadsGone, RetryLoadFails, row, files, history
<1>4. CASE SaveRetry(q) \/ RetryFails(q) \/ RetrySaveFails(q)
  <2>1. Close(q) \/ BreakOff(q)
    BY <1>4 DEF SaveRetry, RetryFails, RetrySaveFails
  <2> QED BY <1>0, <1>4, <2>1, EndEffect
          DEF SaveRetry, RetryFails, RetrySaveFails, row, files, history
<1> QED BY <1>1, <1>2, <1>3, <1>4
-----------------------------------------------------------------------------
(***************************************************************************)
(* One instance of every file: in the queue, in the hands of a worker, or   *)
(* with the request that is about to queue it                              *)
(***************************************************************************)

Queuing(q, u) == u \in req[q].todo /\ req[q].pc \in {"meta", "data", "move"}

OneInstance ==
  \A u \in Uploads \ raced :
    /\ \A w \in Workers : Holds(w, u) =>
         "incoming" \notin disk[u] /\ \A x \in Workers : Holds(x, u) => x = w
    /\ \A q \in Requests : Queuing(q, u) =>
         /\ "incoming" \notin disk[u]
         /\ \A w \in Workers : ~Holds(w, u)
         /\ \A p \in Requests : Queuing(p, u) => p = q

\* A worker holds what it held, or has claimed it; it puts nothing into the
\* queue.
LEMMA WorkerHolds ==
  ASSUME TypeInv, NEW w \in Workers, WorkerStep(w) \/ WorkerFault(w)
  PROVE  /\ OnlyWorker(w) /\ UNCHANGED <<req, raced>>
         /\ \A u \in Uploads : "incoming" \in disk'[u] => "incoming" \in disk[u]
         /\ \/ Claim(w)
            \/ job'[w].pc = "idle"
            \/ job[w].pc # "idle" /\ job'[w].up = job[w].up
<1> USE TypeSplit DEF TypeInv
<1>0. JobOK /\ job[w] \in JobType /\ disk \in [Uploads -> SUBSET Places]
  BY DEF JobOK, FilesOK
<1>1. UNCHANGED <<req, raced>>
  BY DEF WorkerStep, WorkerFault, Claim, ReadMetadata, LookupUpload, UnknownTemplate,
         CreateBillingRun, CheckRunFull, NextChunk, CapPdfs, CopyPdf, LockRun,
         CountChunk, Finish, HandleFailedUpload, CreateBillingRunFails, FinishFails,
         Raise, WorkerCrash, history
<1>2. \A u \in Uploads : "incoming" \in disk'[u] => "incoming" \in disk[u]
  <2>1. ASSUME NEW D, disk' = [disk EXCEPT ![job[w].up] = D], "incoming" \in D =>
                 "incoming" \in disk[job[w].up]
        PROVE  \A u \in Uploads : "incoming" \in disk'[u] => "incoming" \in disk[u]
    BY <1>0, <2>1
  <2>2. CASE Claim(w)
    BY <1>0, <2>2 DEF Claim
  <2>3. CASE Finish(w)
    BY <2>1, <2>3 DEF Finish, FileProcessed, FileKept
  <2>4. CASE FinishFails(w)
    BY <2>1, <2>4 DEF FinishFails, FileProcessed, FileKept
  <2>5. CASE HandleFailedUpload(w)
    BY <1>0, <2>1, <2>5 DEF HandleFailedUpload
  <2>6. CASE ~(Claim(w) \/ Finish(w) \/ FinishFails(w) \/ HandleFailedUpload(w))
    BY <2>6 DEF WorkerStep, WorkerFault, ReadMetadata, LookupUpload, UnknownTemplate,
         CreateBillingRun, CheckRunFull, NextChunk, CapPdfs, CopyPdf, LockRun,
         CountChunk, CreateBillingRunFails, Raise, WorkerCrash, files
  <2> QED BY <2>2, <2>3, <2>4, <2>5, <2>6
<1>3. ASSUME Release(w) PROVE OnlyWorker(w) /\ job'[w].pc = "idle"
  BY <1>0, <1>3, ReleaseEffect, IdleFields
<1>4. ASSUME NEW pc, Goto(w, pc), job[w].pc # "idle"
      PROVE  OnlyWorker(w) /\ job[w].pc # "idle" /\ job'[w].up = job[w].up
  BY <1>0, <1>4, GotoEffect
<1>5. CASE Claim(w)
  BY <1>1, <1>2, <1>5, ClaimEffect
<1>6. CASE \/ UnknownTemplate(w) \/ Finish(w) \/ HandleFailedUpload(w)
           \/ FinishFails(w) \/ WorkerCrash(w)
  BY <1>1, <1>2, <1>3, <1>6 DEF UnknownTemplate, Finish, HandleFailedUpload,
     FinishFails, WorkerCrash
<1>7. CASE CreateBillingRunFails(w) \/ Raise(w)
  BY <1>1, <1>2, <1>4, <1>7 DEF CreateBillingRunFails, Raise
<1>8. CASE CheckRunFull(w)
  <2>1. Release(w) \/ Goto(w, "loop")
    BY <1>8 DEF CheckRunFull
  <2>2. job[w].pc # "idle"
    BY <1>8 DEF CheckRunFull
  <2> QED BY <1>1, <1>2, <1>3, <1>4, <2>1, <2>2
<1>9. CASE \/ ReadMetadata(w) \/ LookupUpload(w) \/ CreateBillingRun(w)
           \/ NextChunk(w) \/ CapPdfs(w) \/ CopyPdf(w) \/ LockRun(w) \/ CountChunk(w)
  <2>1. job[w].pc # "idle"
    BY <1>9 DEF ReadMetadata, LookupUpload, CreateBillingRun, NextChunk, CapPdfs,
                CopyPdf, LockRun, CountChunk
  <2>2. OnlyWorker(w) /\ job'[w].up = job[w].up
    BY <1>9, MetadataEffect, LookupEffect, OpenEffect, ChunkEffect, CapEffect,
       CopyEffect, LockEffect, CountEffect
  <2> QED BY <1>1, <1>2, <2>1, <2>2
<1> QED BY <1>5, <1>6, <1>7, <1>8, <1>9 DEF WorkerStep, WorkerFault

\* A request queues what it was queuing, or a file it took: one that was not
\* in hand, or is marked as raced.
LEMMA RequestQueues ==
  ASSUME TypeInv, NEW q \in Requests,
         NewRequestStep(q) \/ RequestStep(q) \/ RequestFault(q)
  PROVE  /\ OnlyRequest(q) /\ job' = job /\ raced \subseteq raced'
         /\ \A u \in Uploads \ raced' :
              /\ Queuing(q, u)' => Queuing(q, u) \/ ~InHand(u)
              /\ "incoming" \in disk'[u] =>
                   "incoming" \in disk[u] \/ (Queuing(q, u) /\ ~Queuing(q, u)')
<1> USE TypeSplit DEF TypeInv
<1>0. ReqOK /\ req[q] \in RequestType /\ disk \in [Uploads -> SUBSET Places]
  BY DEF ReqOK, FilesOK
<1>1. job' = job
  BY DEF NewRequestStep, RequestStep, RequestFault, FilterBatch, CommitBatch,
         StageMeta, StageData, StageFails, FinishBatch, ApiCrash, GenerateSingle,
         MoveToQueue, MoveToQueueFails, RetryFailedRun, CommitRetry, LoadFailures,
         UploadsGone, RetryLoadFails, SaveRetry, RetryFails, RetrySaveFails
<1>2. CASE FilterBatch(q)
  <2>1. OnlyRequest(q) /\ req'[q].pc = "commit"
    BY <1>2, FilterEffect
  <2>2. UNCHANGED <<disk, raced>>
    BY <1>2 DEF FilterBatch, files, history
  <2> QED BY <1>1, <2>1, <2>2 DEF Queuing
<1>3. CASE CommitBatch(q)
  <2>1. disk' = disk
    BY <1>3 DEF CommitBatch, files
  <2> QED BY <1>1, <1>3, <2>1, CommitEffect DEF Queuing
<1>4. CASE StageMeta(q)
  <2>1. OnlyRequest(q) /\ req[q].pc = "meta" /\ req'[q].todo = req[q].todo
    BY <1>4, StageMetaEffect
  <2>2. UNCHANGED <<disk, raced>>
    BY <1>4 DEF StageMeta, history
  <2> QED BY <1>1, <2>1, <2>2 DEF Queuing
<1>5. CASE StageData(q)
  <2>1. PICK u \in Uploads :
          /\ Staging(q, u)
          /\ disk' = disk \/ disk' = [disk EXCEPT ![u] = @ \cup {"incoming"}]
          /\ \E bad \in SUBSET Uploads : Staged(q, u, bad)
    BY <1>5 DEF StageData
  <2>2. OnlyRequest(q) /\ req'[q].todo = req[q].todo \ {u}
    BY <2>1, StagedEffect
  <2>3. Queuing(q, u) /\ ~Queuing(q, u)' /\ req[q].pc = "data" /\ raced' = raced
    BY <1>5, <2>1, <2>2 DEF StageData, At, Staging, Queuing, history
  <2> QED BY <1>0, <1>1, <2>1, <2>2, <2>3 DEF Queuing
<1>6. CASE StageFails(q)
  <2>1. PICK u \in Uploads : Staging(q, u) /\ Staged(q, u, {u})
    BY <1>6 DEF StageFails
  <2>2. OnlyRequest(q) /\ req'[q].todo = req[q].todo \ {u}
    BY <2>1, StagedEffect
  <2>3. req[q].pc \in {"meta", "data"} /\ UNCHANGED <<disk, raced>>
    BY <1>6 DEF StageFails, At, files, history
  <2> QED BY <1>1, <2>2, <2>3 DEF Queuing
<1>7. CASE FinishBatch(q) \/ ApiCrash(q) \/ MoveToQueueFails(q)
  <2>1. OnlyRequest(q) /\ req'[q].pc \in {"done", "dead"}
    BY <1>0, <1>7, EndEffect DEF FinishBatch, ApiCrash, MoveToQueueFails
  <2>2. raced' = raced
    BY <1>7 DEF FinishBatch, ApiCrash, MoveToQueueFails, history
  <2>3. \A u \in Uploads : disk'[u] \subseteq disk[u]
    BY <1>0, <1>7 DEF FinishBatch, ApiCrash, MoveToQueueFails, files
  <2> QED BY <1>1, <2>1, <2>2, <2>3 DEF Queuing
<1>8. CASE GenerateSingle(q)
  <2>1. PICK u \in Uploads :
           /\ OnlyRequest(q) /\ req'[q].pc = "move" /\ req'[q].todo = {u}
           /\ raced' = (IF InHand(u) THEN raced \cup {u} ELSE raced)
    BY <1>8, SingleEffect
  <2>2. disk' = disk
    BY <1>8 DEF GenerateSingle, files
  <2> QED BY <1>1, <2>1, <2>2 DEF Queuing
<1>9. CASE MoveToQueue(q)
  <2>1. PICK u \in req[q].todo :
          disk' = disk \/ disk' = [disk EXCEPT ![u] = (@ \ {req[q].src[u]}) \cup {"incoming"}]
    BY <1>9 DEF MoveToQueue
  <2>2. OnlyRequest(q) /\ req'[q].pc \in {"done", "dead"}
    BY <1>0, <1>9, EndEffect DEF MoveToQueue
  <2>3. req[q].pc = "move" /\ raced' = raced
    BY <1>9 DEF MoveToQueue, At, history
  <2> QED BY <1>0, <1>1, <2>1, <2>2, <2>3 DEF Queuing
<1>10. CASE RetryStep(q)
  <2>1. OnlyRequest(q) /\ req'[q].pc \notin {"meta", "data", "move"}
    BY <1>10, RetryEffect
  <2>2. UNCHANGED <<disk, raced>>
    BY <1>10, RetryEffect
  <2> QED BY <1>1, <2>1, <2>2 DEF Queuing
<1> QED BY <1>2, <1>3, <1>4, <1>5, <1>6, <1>7, <1>8, <1>9, <1>10
        DEF NewRequestStep, RequestStep, RequestFault, RetryStep

LEMMA WorkerInstance ==
  ASSUME TypeInv, OneInstance, NEW w \in Workers, WorkerStep(w) \/ WorkerFault(w)
  PROVE  OneInstance'
<1> USE TypeSplit DEF TypeInv
<1>0. /\ OnlyWorker(w) /\ req' = req /\ raced' = raced
      /\ \A u \in Uploads : "incoming" \in disk'[u] => "incoming" \in disk[u]
      /\ \/ Claim(w) \/ job'[w].pc = "idle"
         \/ job[w].pc # "idle" /\ job'[w].up = job[w].up
  BY WorkerHolds
<1>1. \A u \in Uploads, x \in Workers : x # w => (Holds(x, u)' <=> Holds(x, u))
  BY <1>0 DEF OnlyWorker, Holds
<1>2. \A u \in Uploads, q \in Requests : Queuing(q, u)' <=> Queuing(q, u)
  BY <1>0 DEF Queuing
<1>3. CASE \A u \in Uploads : Holds(w, u)' => Holds(w, u)
  BY <1>0, <1>1, <1>2, <1>3 DEF OneInstance
<1>4. CASE Claim(w)
  <2>1. PICK v \in Uploads :
          /\ "incoming" \in disk[v] /\ disk' = [disk EXCEPT ![v] = @ \ {"incoming"}]
          /\ job'[w].up = v
    BY <1>4, ClaimEffect
  <2>2. "incoming" \notin disk'[v] /\ \A u \in Uploads \ {v} : ~Holds(w, u)'
    BY <2>1 DEF FilesOK, Holds
  <2>3. \A x \in Workers : ~Holds(x, v) \/ v \in raced
    BY <2>1 DEF OneInstance
  <2>4. \A q \in Requests : ~Queuing(q, v) \/ v \in raced
    BY <2>1 DEF OneInstance
  <2> QED BY <1>0, <1>1, <1>2, <2>2, <2>3, <2>4 DEF OneInstance
<1>5. CASE job'[w].pc = "idle" \/ (job[w].pc # "idle" /\ job'[w].up = job[w].up)
  BY <1>3, <1>5 DEF Holds
<1> QED BY <1>0, <1>4, <1>5

LEMMA RequestInstance ==
  ASSUME TypeInv, OneInstance, NEW q \in Requests,
         NewRequestStep(q) \/ RequestStep(q) \/ RequestFault(q)
  PROVE  OneInstance'
<1>0. /\ OnlyRequest(q) /\ job' = job /\ raced \subseteq raced'
      /\ \A u \in Uploads \ raced' :
           /\ Queuing(q, u)' => Queuing(q, u) \/ ~InHand(u)
           /\ "incoming" \in disk'[u] =>
                "incoming" \in disk[u] \/ (Queuing(q, u) /\ ~Queuing(q, u)')
  BY RequestQueues
<1>1. \A u \in Uploads, x \in Workers : Holds(x, u)' <=> Holds(x, u)
  BY <1>0 DEF Holds
<1>2. \A u \in Uploads, p \in Requests : p # q => (Queuing(p, u)' <=> Queuing(p, u))
  BY <1>0 DEF OnlyRequest, Queuing
<1> SUFFICES ASSUME NEW u \in Uploads, u \notin raced'
             PROVE  /\ \A w \in Workers : Holds(w, u)' =>
                         /\ "incoming" \notin disk'[u]
                         /\ \A x \in Workers : Holds(x, u)' => x = w
                    /\ \A p \in Requests : Queuing(p, u)' =>
                         /\ "incoming" \notin disk'[u]
                         /\ \A w \in Workers : ~Holds(w, u)'
                         /\ \A s \in Requests : Queuing(s, u)' => s = p
  BY DEF OneInstance
<1>3. u \notin raced
  BY <1>0
<1>4. CASE InHand(u)
  <2>1. Queuing(q, u)' => Queuing(q, u)
    BY <1>0, <1>4
  <2> QED BY <1>0, <1>1, <1>2, <1>3, <2>1 DEF OneInstance
<1>5. CASE ~InHand(u)
  <2>1. /\ "incoming" \notin disk[u] /\ \A w \in Workers : ~Holds(w, u)
        /\ \A p \in Requests : ~Queuing(p, u)
    BY <1>5 DEF InHand, Queuing
  <2>2. "incoming" \notin disk'[u]
    BY <1>0, <2>1
  <2> QED BY <1>1, <1>2, <2>1, <2>2
<1> QED BY <1>4, <1>5

LEMMA NextInstance == TypeInv /\ OneInstance /\ [Next]_vars => OneInstance'
<1> SUFFICES ASSUME TypeInv, OneInstance, [Next]_vars PROVE OneInstance'
  OBVIOUS
<1>1. ASSUME UNCHANGED <<disk, job, req, raced>> PROVE OneInstance'
  BY <1>1 DEF OneInstance, Holds, Queuing
<1>2. ASSUME NEW u \in Uploads, Approve(u) \/ Reject(u) PROVE OneInstance'
  BY <1>1, <1>2 DEF Approve, Reject, files, history
<1>3. CASE UNCHANGED vars
  BY <1>1, <1>3 DEF vars, files, history
<1> QED BY <1>2, <1>3, WorkerInstance, RequestInstance DEF Next

LEMMA InstanceInvariant == Spec => [](TypeInv /\ OneInstance)
<1>1. Init => OneInstance
  BY IdleFields DEF Init, OneInstance, Holds, Queuing, NewRequest
<1> QED BY <1>1, NextInstance, TypeInvariant, PTL DEF Spec

\* The rename that claims a file and the copy that queues it keep one instance
\* of it in the queue or in a worker's hands, whatever fails in between
\* (worker_queue.py:470-475, billing.py:1165-1190), until a request takes the
\* file while it is in hand or with a stale offset (raced).
THEOREM OneHolderAlways == Spec => []OneHolder
<1>1. TypeInv /\ OneInstance => OneHolder
  <2> SUFFICES ASSUME TypeInv, OneInstance, NEW u \in Uploads, u \notin raced
               PROVE  Cardinality({w \in Workers : Holds(w, u)})
                        + Cardinality(disk[u] \cap {"incoming"}) <= 1
    BY DEF OneHolder
  <2>0. Cardinality({}) = 0
    BY FS_EmptySet
  <2> DEFINE A == {w \in Workers : Holds(w, u)}
             B == disk[u] \cap {"incoming"}
  <2>1. CASE \E w \in Workers : Holds(w, u)
    <3>1. PICK w \in Workers : Holds(w, u)
      BY <2>1
    <3>2. A = {w} /\ B = {}
      BY <3>1 DEF OneInstance
    <3> HIDE DEF A, B
    <3>3. Cardinality(A) = 1 /\ Cardinality(B) = 0
      BY <2>0, <3>2, FS_Singleton
    <3>4. Cardinality(A) + Cardinality(B) <= 1
      BY <3>3
    <3> QED BY <3>4 DEF A, B
  <2>2. CASE \A w \in Workers : ~Holds(w, u)
    <3>1. A = {}
      BY <2>2
    <3>2. B = {} \/ B = {"incoming"}
      OBVIOUS
    <3> HIDE DEF A, B
    <3>3. Cardinality(A) = 0
      BY <2>0, <3>1
    <3>4. Cardinality(B) \in {0, 1}
      BY <2>0, <3>2, FS_Singleton
    <3>5. Cardinality(A) + Cardinality(B) <= 1
      BY <3>3, <3>4
    <3> QED BY <3>5 DEF A, B
  <2> QED BY <2>1, <2>2
<1> QED BY <1>1, InstanceInvariant, PTL
-----------------------------------------------------------------------------
(***************************************************************************)
(* The master copy                                                         *)
(***************************************************************************)

\* Without POST /generate/{upload_id}, which moves the master copy itself, one
\* of the places searched for it always holds it.
MasterKept == \A u \in Uploads : disk[u] \cap {"pending", "Processed"} # {}

NoMove == \A q \in Requests : req[q].pc # "move"

LEMMA WorkerKeepsMaster ==
  ASSUME TypeInv, MasterKept, NEW w \in Workers, WorkerStep(w) \/ WorkerFault(w)
  PROVE  MasterKept'
<1> USE TypeSplit DEF TypeInv
<1>0. disk \in [Uploads -> SUBSET Places]
  BY DEF FilesOK
<1>1. ASSUME NEW v \in Uploads, NEW D, disk' = [disk EXCEPT ![v] = D],
             D \cap {"pending", "Processed"} # {}
      PROVE  MasterKept'
  BY <1>0, <1>1 DEF MasterKept
<1>2. CASE Claim(w)
  <2>1. PICK v \in Uploads : disk' = [disk EXCEPT ![v] = disk[v] \ {"incoming"}]
    BY <1>2 DEF Claim
  <2> QED BY <1>1, <2>1 DEF MasterKept
<1>3. ASSUME job[w].up \in Uploads
      PROVE  /\ FileProcessed(job[w].up) \cap {"pending", "Processed"} # {}
             /\ FileKept(job[w].up) \cap {"pending", "Processed"} # {}
  BY <1>3 DEF FileProcessed, FileKept, MasterKept
<1>4. CASE Finish(w)
  <2>1. /\ job[w].up \in Uploads
        /\ \E D \in {FileProcessed(job[w].up), FileKept(job[w].up)} :
             disk' = [disk EXCEPT ![job[w].up] = D]
    BY <1>4 DEF Finish, Holding
  <2> QED BY <1>1, <1>3, <2>1
<1>5. CASE FinishFails(w)
  <2>1. /\ job[w].up \in Uploads
        /\ \E D \in {FileProcessed(job[w].up), FileKept(job[w].up), disk[job[w].up]} :
             disk' = [disk EXCEPT ![job[w].up] = D]
    BY <1>5 DEF FinishFails, Holding
  <2> QED BY <1>1, <1>3, <2>1 DEF MasterKept
<1>6. CASE HandleFailedUpload(w)
  <2>1. /\ job[w].up \in Uploads
        /\ disk' = disk \/ disk' = [disk EXCEPT ![job[w].up] = disk[job[w].up] \cup {"Failed"}]
    BY <1>6 DEF HandleFailedUpload, Holding
  <2> QED BY <1>1, <2>1 DEF MasterKept
<1>7. CASE ~(Claim(w) \/ Finish(w) \/ FinishFails(w) \/ HandleFailedUpload(w))
  <2>1. disk' = disk
    BY <1>7 DEF WorkerStep, WorkerFault, ReadMetadata, LookupUpload, UnknownTemplate,
       CreateBillingRun, CheckRunFull, NextChunk, CapPdfs, CopyPdf, LockRun,
       CountChunk, CreateBillingRunFails, Raise, WorkerCrash, files
  <2> QED BY <2>1 DEF MasterKept
<1> QED BY <1>2, <1>4, <1>5, <1>6, <1>7

\* A batch request copies into the queue, it does not move.
LEMMA RequestKeepsMaster ==
  ASSUME "single" \notin Endpoints, TypeInv, MasterKept, NoMove, NEW q \in Requests,
         NewRequestStep(q) \/ RequestStep(q) \/ RequestFault(q)
  PROVE  MasterKept' /\ NoMove' /\ \A u \in Uploads : disk[u] \subseteq disk'[u]
<1> USE TypeSplit DEF TypeInv
<1>0. ReqOK /\ disk \in [Uploads -> SUBSET Places]
  BY DEF FilesOK
<1>1. ASSUME \A u \in Uploads : disk[u] \subseteq disk'[u],
             OnlyRequest(q), req'[q].pc # "move"
      PROVE  MasterKept' /\ NoMove' /\ \A u \in Uploads : disk[u] \subseteq disk'[u]
  BY <1>1 DEF MasterKept, NoMove, OnlyRequest
<1>2. CASE FilterBatch(q) \/ CommitBatch(q) \/ StageMeta(q)
  <2>1. OnlyRequest(q) /\ req'[q].pc # "move"
    BY <1>2, FilterEffect, CommitEffect, StageMetaEffect
  <2>2. disk' = disk
    BY <1>2 DEF FilterBatch, CommitBatch, StageMeta, files
  <2> QED BY <1>1, <2>1, <2>2
<1>3. CASE StageData(q)
  <2>1. PICK u \in Uploads :
          /\ disk' = disk \/ disk' = [disk EXCEPT ![u] = @ \cup {"incoming"}]
          /\ \E bad \in SUBSET Uploads : Staged(q, u, bad)
    BY <1>3 DEF StageData
  <2>2. OnlyRequest(q) /\ req'[q].pc # "move"
    BY <2>1, StagedEffect
  <2>3. \A v \in Uploads : disk[v] \subseteq disk'[v]
    BY <1>0, <2>1
  <2> QED BY <1>1, <2>2, <2>3
<1>4. CASE StageFails(q)
  <2>1. PICK u \in Uploads : Staged(q, u, {u})
    BY <1>4 DEF StageFails
  <2>2. OnlyRequest(q) /\ req'[q].pc # "move"
    BY <2>1, StagedEffect
  <2>3. disk' = disk
    BY <1>4 DEF StageFails, files
  <2> QED BY <1>1, <2>2, <2>3
<1>5. CASE FinishBatch(q) \/ ApiCrash(q)
  <2>1. OnlyRequest(q) /\ req'[q].pc # "move"
    BY <1>0, <1>5, EndEffect DEF FinishBatch, ApiCrash
  <2>2. disk' = disk
    BY <1>5 DEF FinishBatch, ApiCrash, files
  <2> QED BY <1>1, <2>1, <2>2
<1>6. CASE RetryStep(q)
  BY <1>1, <1>6, RetryEffect
<1>7. ~(GenerateSingle(q) \/ MoveToQueue(q) \/ MoveToQueueFails(q))
  BY DEF GenerateSingle, MoveToQueue, MoveToQueueFails, At, NoMove
<1> QED BY <1>2, <1>3, <1>4, <1>5, <1>6, <1>7
        DEF NewRequestStep, RequestStep, RequestFault, RetryStep

LEMMA MasterInvariant ==
  ASSUME "single" \notin Endpoints
  PROVE  Spec => [](MasterKept /\ NoMove)
<1>1. Init => MasterKept /\ NoMove
  BY DEF Init, MasterKept, NoMove, NewRequest
<1>2. TypeInv /\ MasterKept /\ NoMove /\ [Next]_vars => MasterKept' /\ NoMove'
  <2> SUFFICES ASSUME TypeInv, MasterKept, NoMove, [Next]_vars
               PROVE  MasterKept' /\ NoMove'
    OBVIOUS
  <2>1. ASSUME NEW w \in Workers, WorkerStep(w) \/ WorkerFault(w)
        PROVE  MasterKept' /\ NoMove'
    <3>1. req' = req
      BY <2>1, WorkerHolds
    <3> QED BY <2>1, <3>1, WorkerKeepsMaster DEF NoMove
  <2>2. ASSUME UNCHANGED <<disk, req>> PROVE MasterKept' /\ NoMove'
    BY <2>2 DEF MasterKept, NoMove
  <2>3. ASSUME NEW u \in Uploads, Approve(u) \/ Reject(u) PROVE MasterKept' /\ NoMove'
    BY <2>2, <2>3 DEF Approve, Reject, files
  <2>4. CASE UNCHANGED vars
    BY <2>2, <2>4 DEF vars, files
  <2> QED BY <2>1, <2>3, <2>4, RequestKeepsMaster DEF Next
<1> QED BY <1>1, <1>2, TypeInvariant, PTL DEF Spec

\* As long as the files are queued by batch requests, which copy them, no crash
\* or exception loses a source file: its master copy stays where it was until
\* the finished file replaces it in Processed (worker_queue.py:836-933).
THEOREM FilesKept ==
  ASSUME "single" \notin Endpoints
  PROVE  Spec => []FileNotLost
<1>1. MasterKept => FileNotLost
  BY DEF MasterKept, FileNotLost
<1> QED BY <1>1, MasterInvariant, PTL
-----------------------------------------------------------------------------
(***************************************************************************)
(* The counters of a file and everybody's view of them                     *)
(***************************************************************************)

\* processed_records_count counts documents of the file, and
\* processed_breakdown misses none of them (it may count documents the cap cut
\* off).
CountersOK(u) ==
  /\ Cardinality(Done(u)) = processed[u]
  /\ u \notin Sheets =>
       \A t \in Templates : Cardinality(OfTemplate(u, Done(u), t)) <= procBy[u][t]

\* The worker that holds the file goes on behind the last document counted.
HeldOK(w, u) ==
  /\ job[w].pc # "meta" => job[w].off = processed[u] /\ job[w].appr = Approved
  /\ job[w].pc \in {"cap", "copy", "count", "write"} =>
       Initial(job[w].rend, Wanted(u) \ Done(u))
  /\ job[w].pc \in {"copy", "count", "write"} => Cardinality(Chunk(w)) = job[w].gen
  /\ job[w].pc = "write" => job[w].seenP = processed[u] /\ job[w].seenB = procBy[u]

\* A queued file has its sidecar, and the offset in it is still the right one.
SidecarOK(u) ==
  ("incoming" \in disk[u] \/ \E w \in Workers : Holds(w, u) /\ job[w].pc = "meta") =>
     /\ meta[u] # {}
     /\ \A m \in meta[u] : m.off = processed[u] /\ m.appr = Approved

\* A request that has chosen a file saw documents left, and finds its source.
ChosenOK(q, u) ==
  /\ req[q].appr = Approved
  /\ req[q].off[u] < Len(Docs[u]) /\ req[q].off[u] <= processed[u]
  /\ req[q].off[u] = processed[u] => req[q].src[u] \in disk[u] \ {"incoming"}
  /\ req[q].pc \in {"meta", "data"} => req[q].off[u] = processed[u]
  /\ req[q].pc = "data" /\ Staging(q, u) => meta[u] = {Sidecar(q, u)}

\* COMPLETED means that every document was counted, and no file in hand is.
StatusOK(u) ==
  /\ status[u] = "COMPLETED" => processed[u] >= Len(Docs[u])
  /\ InHand(u) => status[u] # "COMPLETED"

Chooses(q, u) == u \in req[q].todo /\ req[q].pc \in {"commit", "meta", "data"}

FileOK(u) ==
  /\ CountersOK(u)
  /\ \A w \in Workers : Holds(w, u) => HeldOK(w, u)
  /\ SidecarOK(u)
  /\ \A q \in Requests : Chooses(q, u) => ChosenOK(q, u)
  /\ StatusOK(u)

CountInv == \A u \in Uploads \ raced : FileOK(u)

SameFile(u) ==
  /\ processed'[u] = processed[u] /\ procBy'[u] = procBy[u]
  /\ meta'[u] = meta[u] /\ disk'[u] = disk[u] /\ status'[u] = status[u]

\* A file that is counted to its end has nothing left to choose.
LEMMA RemainingNone ==
  ASSUME TypeInv, SteadyFiles, NEW u \in Uploads, CountersOK(u),
         processed[u] >= Len(Docs[u]), NEW approved \in ApprovedChoices
  PROVE  Remaining(u, approved) = {}
<1>1. processed[u] \in Nat /\ procBy[u] \in [Templates -> Nat]
  BY TypeSplit DEF TypeInv, RowOK
<1>2. DOMAIN Docs[u] = 1..Len(Docs[u]) /\ Len(Docs[u]) \in Nat
  BY DocsFinite, QueueAssumption
<1>3. CASE u \in Undetected
  BY <1>3 DEF Remaining
<1>4. CASE u \notin Undetected /\ u \in Sheets
  BY <1>1, <1>2, <1>4 DEF Remaining, RemainingRows, ApprovedDocs
<1>5. CASE u \notin Undetected /\ u \notin Sheets
  <2>1. Done(u) = DOMAIN Docs[u]
    BY <1>1, DoneWhole DEF CountersOK, Done
  <2> SUFFICES ASSUME NEW d \in DOMAIN Docs[u],
                      RankInTemplate(Docs[u], d) > procBy[u][Docs[u][d]]
               PROVE  FALSE
    BY <1>5 DEF Remaining, RemainingByTemplate, ApprovedDocs
  <2> DEFINE t == Docs[u][d]
             A == {e \in 1..d : Docs[u][e] = t}
             B == OfTemplate(u, DOMAIN Docs[u], t)
  <2>2. t \in Templates /\ procBy[u][t] \in Nat
    BY <1>1, <1>2, QueueAssumption
  <2>3. A \in SUBSET B /\ B \in SUBSET (DOMAIN Docs[u])
    BY <1>2 DEF OfTemplate
  <2>4. Cardinality(B) <= procBy[u][t]
    BY <1>5, <2>1, <2>2 DEF CountersOK
  <2>5. RankInTemplate(Docs[u], d) = Cardinality(A)
    BY DEF RankInTemplate
  <2> HIDE DEF A, B, t
  <2>6. Cardinality(A) <= Cardinality(B) /\ Cardinality(A) \in Nat /\ Cardinality(B) \in Nat
    BY <2>3, SubsetCount, FS_Subset
  <2> QED BY <2>2, <2>4, <2>5, <2>6 DEF t
<1> QED BY <1>3, <1>4, <1>5

LEMMA ApprovedIs ==
  ASSUME SteadyFiles, NEW approved \in ApprovedChoices
  PROVE  approved = Approved
<1>1. Approved \in ApprovedChoices
  BY DEF Approved
<1> QED BY <1>1 DEF SteadyFiles

\* What concerns one file is not touched by a step that concerns others.
LEMMA FileUntouched ==
  ASSUME NEW u \in Uploads, FileOK(u), SameFile(u), req' = req,
         \A w \in Workers : (Holds(w, u)' <=> Holds(w, u))
                            /\ (Holds(w, u) => job'[w] = job[w])
  PROVE  FileOK(u)'
<1>1. Done(u)' = Done(u)
  BY DEF SameFile, Done, Wanted
<1>2. CountersOK(u)'
  BY <1>1 DEF SameFile, CountersOK, FileOK
<1>3. \A w \in Workers : Holds(w, u)' => HeldOK(w, u)'
  BY <1>1 DEF SameFile, FileOK, HeldOK, Wanted, Chunk
<1>4. SidecarOK(u)'
  BY DEF SameFile, FileOK, SidecarOK
<1>5. \A q \in Requests : Chooses(q, u)' => ChosenOK(q, u)'
  BY DEF SameFile, FileOK, Chooses, ChosenOK, Staging, Sidecar
<1>6. StatusOK(u)'
  BY DEF SameFile, FileOK, StatusOK, InHand
<1> QED BY <1>2, <1>3, <1>4, <1>5, <1>6 DEF FileOK

\* What the worker that holds a file may do to it.
LEMMA HolderKeeps ==
  ASSUME TypeInv, TypeInv', OneInstance, NEW u \in Uploads, u \notin raced, FileOK(u),
         NEW w \in Workers, Holds(w, u), OnlyWorker(w), req' = req,
         "incoming" \notin disk'[u],
         job'[w].pc = "idle" \/ (job'[w].pc # "meta" /\ job'[w].up = u /\ HeldOK(w, u)'),
         CountersOK(u)', processed'[u] >= processed[u],
         processed[u] >= Len(Docs[u]) \/ disk[u] \subseteq disk'[u],
         status'[u] = "COMPLETED" =>
           job'[w].pc = "idle" /\ processed'[u] >= Len(Docs[u])
  PROVE  FileOK(u)'
<1>0. /\ processed[u] \in Nat /\ processed'[u] \in Nat /\ Len(Docs[u]) \in Nat
      /\ \A q \in Requests : req[q].off[u] \in Nat
  <2>1. processed[u] \in Nat /\ processed'[u] \in Nat /\ Len(Docs[u]) \in Nat
    BY TypeSplit, TypeSplitPrime, DocsFinite DEF TypeInv, RowOK
  <2>2. ASSUME NEW q \in Requests PROVE req[q].off[u] \in Nat
    <3>1. req[q] \in RequestType
      BY TypeSplit DEF TypeInv, ReqOK
    <3> QED BY <3>1 DEF RequestType
  <2> QED BY <2>1, <2>2
<1>1. \A x \in Workers : x # w => ~Holds(x, u) /\ ~Holds(x, u)'
  BY DEF OneInstance, OnlyWorker, Holds
<1>2. \A q \in Requests : ~Queuing(q, u)
  BY DEF OneInstance
<1>3. \A x \in Workers : Holds(x, u)' => HeldOK(x, u)'
  BY <1>1 DEF Holds
<1>4. SidecarOK(u)'
  BY <1>1 DEF SidecarOK, Holds
<1>5. \A q \in Requests : Chooses(q, u)' => ChosenOK(q, u)'
  <2> SUFFICES ASSUME NEW q \in Requests, Chooses(q, u) PROVE ChosenOK(q, u)'
    BY DEF Chooses
  <2>1. req[q].pc = "commit"
    BY <1>2 DEF Chooses, Queuing
  <2>2. /\ req[q].appr = Approved
        /\ req[q].off[u] < Len(Docs[u]) /\ req[q].off[u] <= processed[u]
        /\ req[q].off[u] = processed[u] => req[q].src[u] \in disk[u] \ {"incoming"}
    BY DEF FileOK, ChosenOK
  <2>3. req[q].off[u] <= processed'[u]
    BY <1>0, <2>2
  <2>4. ASSUME req[q].off[u] = processed'[u]
        PROVE  req[q].src[u] \in disk'[u] \ {"incoming"}
    <3>1. req[q].off[u] = processed[u]
      BY <1>0, <2>2, <2>4
    <3>2. disk[u] \subseteq disk'[u]
      BY <1>0, <2>2, <3>1
    <3> QED BY <2>2, <3>1, <3>2
  <2> QED BY <2>1, <2>2, <2>3, <2>4 DEF ChosenOK
<1>6. StatusOK(u)'
  <2>1. ASSUME status'[u] = "COMPLETED" PROVE ~InHand(u)'
    BY <1>1, <1>2, <2>1 DEF InHand, Queuing, Holds
  <2> QED BY <2>1 DEF StatusOK
<1> QED BY <1>3, <1>4, <1>5, <1>6 DEF FileOK

\* A step of w concerns no file but its own.
LEMMA WorkerTouches ==
  ASSUME TypeInv, NEW w \in Workers, WorkerStep(w) \/ WorkerFault(w), ~Claim(w),
         NEW u \in Uploads, ~Holds(w, u)
  PROVE  SameFile(u)
<1> USE TypeSplit DEF TypeInv
<1>0. /\ processed \in [Uploads -> Nat] /\ procBy \in [Uploads -> [Templates -> Nat]]
      /\ status \in [Uploads -> UploadStatus] /\ disk \in [Uploads -> SUBSET Places]
      /\ meta \in [Uploads -> SUBSET SidecarType]
  BY DEF RowOK, FilesOK
<1>1. job[w].up # u
  BY DEF WorkerStep, WorkerFault, ReadMetadata, LookupUpload, UnknownTemplate,
         CreateBillingRun, CheckRunFull, NextChunk, CapPdfs, CopyPdf, LockRun,
         CountChunk, Finish, HandleFailedUpload, CreateBillingRunFails, FinishFails,
         Raise, WorkerCrash, Holds
<1>2. processed'[u] = processed[u] /\ procBy'[u] = procBy[u]
  BY <1>0, <1>1
     DEF WorkerStep, WorkerFault, ReadMetadata, LookupUpload, UnknownTemplate,
         CreateBillingRun, CheckRunFull, NextChunk, CapPdfs, CopyPdf, LockRun,
         CountChunk, Finish, HandleFailedUpload, CreateBillingRunFails, FinishFails,
         Raise, WorkerCrash, row
<1>3. meta'[u] = meta[u] /\ disk'[u] = disk[u]
  BY <1>0, <1>1
     DEF WorkerStep, WorkerFault, ReadMetadata, LookupUpload, UnknownTemplate,
         CreateBillingRun, CheckRunFull, NextChunk, CapPdfs, CopyPdf, LockRun,
         CountChunk, Finish, HandleFailedUpload, CreateBillingRunFails, FinishFails,
         Raise, WorkerCrash, files
<1>4. status'[u] = status[u]
  BY <1>0, <1>1
     DEF WorkerStep, WorkerFault, ReadMetadata, LookupUpload, UnknownTemplate,
         CreateBillingRun, CheckRunFull, NextChunk, CapPdfs, CopyPdf, LockRun,
         CountChunk, Finish, HandleFailedUpload, CreateBillingRunFails, FinishFails,
         Raise, WorkerCrash, row
<1> QED BY <1>2, <1>3, <1>4 DEF SameFile

\* A step that leaves the counters and the chunk of the file alone.
LEMMA HolderMoves ==
  ASSUME NEW u \in Uploads, FileOK(u), NEW w \in Workers, Holds(w, u),
         processed'[u] = processed[u], procBy'[u] = procBy[u],
         job'[w].up = u, job[w].pc # "meta", job'[w].off = job[w].off,
         job'[w].appr = job[w].appr,
         job'[w].pc \in {"lookup", "unknown", "open", "gate", "loop", "finish", "failed"}
  PROVE  CountersOK(u)' /\ HeldOK(w, u)'
<1>1. Done(u)' = Done(u)
  BY DEF Done, Wanted
<1>2. CountersOK(u)'
  BY <1>1 DEF CountersOK, FileOK
<1>3. job[w].off = processed[u] /\ job[w].appr = Approved
  BY DEF FileOK, HeldOK
<1>4. job'[w].off = processed'[u] /\ job'[w].appr = Approved
  BY <1>3
<1>5. job'[w].pc \notin {"cap", "copy", "count", "write"}
  OBVIOUS
<1> QED BY <1>2, <1>4, <1>5 DEF HeldOK

\* The chunk of a worker is what comes behind the documents counted.
LEMMA ChunkNext ==
  ASSUME TypeInv, NEW u \in Uploads, FileOK(u), NEW w \in Workers, Holds(w, u),
         job[w].pc \in {"copy", "count", "write"}
  PROVE  /\ Initial(Chunk(w), Wanted(u) \ Done(u)) /\ Initial(Chunk(w), job[w].rend)
         /\ Cardinality(Chunk(w)) = job[w].gen /\ job[w].gen \in Nat
         /\ job[w].rend \in SUBSET (DOMAIN Docs[u])
<1>1. /\ job[w] \in JobType /\ job[w].gen \in Nat
      /\ job[w].rend \in SUBSET (DOMAIN Docs[u])
  BY TypeSplit DEF TypeInv, JobOK, Holding, Holds, JobType
<1>2. Initial(job[w].rend, Wanted(u) \ Done(u)) /\ Cardinality(Chunk(w)) = job[w].gen
  BY DEF FileOK, HeldOK
<1>3. job[w].rend \in SUBSET Nat /\ IsFiniteSet(job[w].rend)
  BY <1>1, SubsetCount
<1>4. Initial(Chunk(w), job[w].rend)
  BY <1>1, <1>3, FirstIsInitial DEF Chunk
<1> QED BY <1>1, <1>2, <1>4, InitialOfInitial

\* Rendering, capping, copying and locking: the chunk is formed and kept.
LEMMA HolderRenders ==
  ASSUME TypeInv, SteadyFiles, NEW u \in Uploads, FileOK(u), NEW w \in Workers,
         Holds(w, u), NextChunk(w) \/ CapPdfs(w) \/ CopyPdf(w) \/ LockRun(w)
  PROVE  CountersOK(u)' /\ HeldOK(w, u)'
<1> USE TypeSplit DEF TypeInv
<1>0. /\ job[w] \in JobType /\ job[w].up = u /\ processed[u] \in Nat
      /\ job[w].rend \in SUBSET (DOMAIN Docs[u])
  BY DEF JobOK, Holding, Holds, RowOK
<1>1. UNCHANGED <<processed, procBy>>
  BY DEF NextChunk, CapPdfs, CopyPdf, LockRun, row
<1>2. Done(u)' = Done(u) /\ Wanted(u)' = Wanted(u)
  BY <1>1 DEF Done, Wanted
<1>3. CountersOK(u)' /\ Cardinality(Done(u)) = processed[u]
  BY <1>1, <1>2 DEF CountersOK, FileOK
<1>4. job[w].pc # "meta" /\ job[w].off = processed[u] /\ job[w].appr = Approved
  BY DEF FileOK, HeldOK, NextChunk, CapPdfs, CopyPdf, LockRun
<1>5. CASE NextChunk(w)
  <2>1. ChunkLimit(w) \in Int
    <3>1. job[w].rem \in Int /\ job[w].run \in RunId /\ ChunkSize \in Int
      BY <1>0, QueueAssumption DEF JobType
    <3>2. ChunkLeft(w) \in Int
      BY <3>1, RoomType DEF ChunkLeft, SmallerOf, RunId
    <3> QED BY <3>1, <3>2 DEF ChunkLimit, SmallerOf
  <2>2. Initial(Render(u, Approved, processed[u], ChunkLimit(w)), Wanted(u) \ Done(u))
    BY <1>0, <1>3, <2>1, RenderNext DEF Done
  <2>3. /\ job'[w].off = job[w].off /\ job'[w].appr = job[w].appr
        /\ \/ job'[w].pc = "finish"
           \/ job'[w].pc = "cap"
              /\ job'[w].rend = Render(u, Approved, processed[u], ChunkLimit(w))
    BY <1>0, <1>4, <1>5, ChunkEffect
  <2> QED BY <1>1, <1>2, <1>3, <1>4, <2>2, <2>3 DEF HeldOK
<1>6. CASE CapPdfs(w)
  <2> DEFINE pdfs == FirstOf(job[w].rend, ChunkLeft(w))
  <2>1. Initial(job[w].rend, Wanted(u) \ Done(u))
    BY <1>6 DEF FileOK, HeldOK, CapPdfs
  <2>2. /\ job'[w].off = job[w].off /\ job'[w].appr = job[w].appr
        /\ job'[w].rend = job[w].rend
        /\ \/ job'[w].pc = "finish"
           \/ job'[w].pc = "copy" /\ job'[w].gen = Cardinality(pdfs)
    BY <1>6, CapEffect
  <2>3. ChunkLeft(w) \in Int
    <3>1. job[w].rem \in Int /\ job[w].run \in RunId
      BY <1>0 DEF JobType
    <3> QED BY <3>1, RoomType DEF ChunkLeft, SmallerOf, RunId
  <2>4. job[w].rend \in SUBSET Nat /\ IsFiniteSet(job[w].rend)
    BY <1>0, SubsetCount
  <2>5. FirstOf(job[w].rend, Cardinality(pdfs)) = pdfs
    BY <2>3, <2>4, FirstIsInitial, InitialIsFirst
  <2> HIDE DEF pdfs
  <2>6. job'[w].pc = "copy" => Chunk(w)' = pdfs /\ job'[w].gen = Cardinality(pdfs)
    BY <2>2, <2>5 DEF Chunk
  <2> QED BY <1>1, <1>2, <1>3, <1>4, <2>1, <2>2, <2>6 DEF HeldOK
<1>7. CASE CopyPdf(w) \/ LockRun(w)
  <2>1. job[w].pc \in {"copy", "count"}
    BY <1>7 DEF CopyPdf, LockRun
  <2>2. /\ job'[w].off = job[w].off /\ job'[w].appr = job[w].appr
        /\ job'[w].rend = job[w].rend /\ job'[w].gen = job[w].gen
        /\ job'[w].pc \in {"copy", "count", "write"}
        /\ job'[w].pc = "write" => job'[w].seenP = processed[u] /\ job'[w].seenB = procBy[u]
    <3>1. CASE CopyPdf(w)
      <4>1. /\ job'[w].off = job[w].off /\ job'[w].appr = job[w].appr
            /\ job'[w].rend = job[w].rend /\ job'[w].gen = job[w].gen
            /\ job'[w].pc \in {"copy", "count"}
        BY <3>1, CopyEffect
      <4> QED BY <4>1
    <3>2. CASE LockRun(w)
      BY <1>0, <3>2, LockEffect
    <3> QED BY <1>7, <3>1, <3>2
  <2>3. Chunk(w)' = Chunk(w)
    BY <2>2 DEF Chunk
  <2>4. Initial(job[w].rend, Wanted(u) \ Done(u)) /\ Cardinality(Chunk(w)) = job[w].gen
    BY <2>1 DEF FileOK, HeldOK
  <2> QED BY <1>1, <1>2, <1>3, <1>4, <2>2, <2>3, <2>4 DEF HeldOK
<1> QED BY <1>5, <1>6, <1>7

\* The transaction that counts the chunk.
LEMMA HolderCounts ==
  ASSUME TypeInv, SteadyFiles, NEW u \in Uploads, FileOK(u), NEW w \in Workers,
         Holds(w, u), CountChunk(w)
  PROVE  /\ CountersOK(u)' /\ HeldOK(w, u)' /\ processed'[u] = processed[u] + job[w].gen
         /\ Done(u)' = Done(u) \cup Chunk(w) /\ job'[w].pc = "loop"
         /\ processed'[u] >= processed[u]
         /\ status'[u] = "COMPLETED" => status[u] = "COMPLETED"
<1> USE TypeSplit DEF TypeInv
<1>0. /\ JobOK /\ job[w] \in JobType /\ job[w].up = u /\ processed[u] \in Nat
      /\ processed \in [Uploads -> Nat] /\ procBy \in [Uploads -> [Templates -> Nat]]
      /\ status \in [Uploads -> UploadStatus]
  BY DEF JobOK, Holding, Holds, RowOK
<1>1. job[w].pc = "write"
  BY DEF CountChunk
<1>2. /\ Initial(Chunk(w), Wanted(u) \ Done(u)) /\ Initial(Chunk(w), job[w].rend)
      /\ Cardinality(Chunk(w)) = job[w].gen /\ job[w].gen \in Nat
      /\ job[w].rend \in SUBSET (DOMAIN Docs[u])
  BY <1>1, ChunkNext
<1>3. /\ job[w].off = processed[u] /\ job[w].appr = Approved
      /\ job[w].seenP = processed[u] /\ job[w].seenB = procBy[u]
  BY <1>1 DEF FileOK, HeldOK
<1>4. /\ processed'[u] = processed[u] + job[w].gen
      /\ procBy'[u] = [t \in Templates |->
           procBy[u][t] + ChunkCount(u, job[w].rend, job[w].gen, t)]
      /\ status'[u] = "COMPLETED" => status[u] = "COMPLETED"
  BY <1>0, <1>3 DEF CountChunk
<1>5. Cardinality(Done(u)) = processed[u]
  BY DEF FileOK, CountersOK
<1>6. Done(u)' = Done(u) \cup Chunk(w) /\ Cardinality(Done(u)') = processed'[u]
  <2>1. Done(u)' = FirstOf(Wanted(u), processed'[u])
    BY DEF Done, Wanted
  <2> DEFINE k == processed[u]
             C == Chunk(w)
  <2>2. /\ k \in Nat /\ Cardinality(FirstOf(Wanted(u), k)) = k
        /\ Initial(C, Wanted(u) \ FirstOf(Wanted(u), k))
    BY <1>0, <1>2, <1>5 DEF Done
  <2> HIDE DEF k, C
  <2>3. /\ FirstOf(Wanted(u), k + Cardinality(C)) = FirstOf(Wanted(u), k) \cup C
        /\ Cardinality(FirstOf(Wanted(u), k + Cardinality(C))) = k + Cardinality(C)
    BY <2>2, DoneGrows
  <2> QED BY <1>2, <1>4, <2>1, <2>3 DEF Done, k, C
<1>7. ASSUME u \notin Sheets, NEW t \in Templates
      PROVE  Cardinality(OfTemplate(u, Done(u)', t)) <= procBy'[u][t]
  <2> DEFINE A == OfTemplate(u, Done(u), t)
             B == OfTemplate(u, job[w].rend, t)
             C == OfTemplate(u, Done(u)', t)
  <2>1. Cardinality(A) <= procBy[u][t] /\ procBy[u][t] \in Nat
    BY <1>0, <1>7 DEF FileOK, CountersOK
  <2>2. procBy'[u][t] = procBy[u][t] + Cardinality(B)
    BY <1>4, <1>7 DEF ChunkCount, OfTemplate
  <2>3. A \in SUBSET (DOMAIN Docs[u]) /\ B \in SUBSET (DOMAIN Docs[u])
    BY <1>2, WantedType DEF OfTemplate, Done, FirstOf
  <2>4. C \in SUBSET (A \cup B)
    BY <1>2, <1>6 DEF OfTemplate, Initial
  <2>5. /\ IsFiniteSet(A) /\ IsFiniteSet(B) /\ Cardinality(A) \in Nat
        /\ Cardinality(B) \in Nat
    BY <2>3, SubsetCount
  <2> HIDE DEF A, B, C
  <2>6. /\ IsFiniteSet(A \cup B) /\ Cardinality(A \cap B) \in Nat
        /\ Cardinality(A \cup B) = Cardinality(A) + Cardinality(B) - Cardinality(A \cap B)
    BY <2>5, FS_Union, FS_Intersection, FS_CardinalityType
  <2>7. Cardinality(C) <= Cardinality(A \cup B) /\ Cardinality(C) \in Nat
        /\ Cardinality(A \cup B) \in Nat
    BY <2>4, <2>6, FS_Subset, FS_CardinalityType
  <2>8. Cardinality(C) <= procBy'[u][t]
    BY <2>1, <2>2, <2>5, <2>6, <2>7
  <2> QED BY <2>8 DEF C
<1>8. CountersOK(u)'
  BY <1>6, <1>7 DEF CountersOK
<1>9. /\ job'[w].pc = "loop" /\ job'[w].off = job[w].off + job[w].gen
      /\ job'[w].appr = job[w].appr
  BY CountEffect
<1>10. HeldOK(w, u)'
  BY <1>3, <1>4, <1>9 DEF HeldOK
<1>11. processed'[u] >= processed[u]
  BY <1>0, <1>2, <1>4
<1> QED BY <1>4, <1>6, <1>8, <1>9, <1>10, <1>11

\* The end of a file, and every other way to let go of it.
LEMMA HolderLeaves ==
  ASSUME TypeInv, TypeInv', NEW u \in Uploads, FileOK(u), NEW w \in Workers, Holds(w, u),
         \/ UnknownTemplate(w) \/ (CheckRunFull(w) /\ Release(w)) \/ Finish(w)
         \/ FinishFails(w) \/ HandleFailedUpload(w) \/ WorkerCrash(w)
  PROVE  /\ CountersOK(u)' /\ job'[w].pc = "idle" /\ processed'[u] = processed[u]
         /\ processed[u] >= Len(Docs[u]) \/ disk[u] \subseteq disk'[u]
         /\ status'[u] = "COMPLETED" =>
              status[u] = "COMPLETED" \/ processed[u] >= Len(Docs[u])
<1> USE TypeSplit DEF TypeInv
<1>0. /\ JobOK /\ job[w] \in JobType /\ job[w].up = u /\ processed[u] \in Nat
      /\ procBy \in [Uploads -> [Templates -> Nat]]
      /\ status \in [Uploads -> UploadStatus] /\ disk \in [Uploads -> SUBSET Places]
  BY DEF JobOK, Holding, Holds, RowOK, FilesOK
<1>1. job'[w].pc = "idle"
  <2>1. Release(w)
    BY DEF UnknownTemplate, Finish, FinishFails, HandleFailedUpload, WorkerCrash
  <2> QED BY <1>0, <2>1, ReleaseEffect, IdleFields
<1>2. processed' = processed
  BY DEF UnknownTemplate, CheckRunFull, Finish, FinishFails, HandleFailedUpload,
         WorkerCrash, row
<1>3. Done(u)' = Done(u)
  BY <1>2 DEF Done, Wanted
<1>4. \A t \in Templates : procBy[u][t] <= procBy'[u][t]
  <2>1. CASE Finish(w)
    <3>1. procBy'[u] = [t \in Templates |->
            IF procBy[u][t] = 0 THEN job[w].made[t] ELSE procBy[u][t]]
      BY <1>0, <2>1 DEF Finish
    <3>2. job[w].made \in [Templates -> Nat] /\ procBy[u] \in [Templates -> Nat]
      BY <1>0 DEF JobType
    <3> QED BY <3>1, <3>2
  <2>2. CASE ~Finish(w)
    <3>1. procBy' = procBy
      BY <2>2 DEF UnknownTemplate, CheckRunFull, FinishFails, HandleFailedUpload,
                  WorkerCrash, row
    <3> QED BY <1>0, <3>1
  <2> QED BY <2>1, <2>2
<1>5. CountersOK(u)'
  <2>1. Cardinality(Done(u)) = processed[u]
    BY DEF FileOK, CountersOK
  <2>2. ASSUME u \notin Sheets, NEW t \in Templates
        PROVE  Cardinality(OfTemplate(u, Done(u), t)) <= procBy'[u][t]
    <3>1. Cardinality(OfTemplate(u, Done(u), t)) <= procBy[u][t]
      BY <2>2 DEF FileOK, CountersOK
    <3>2. OfTemplate(u, Done(u), t) \in SUBSET (DOMAIN Docs[u])
      BY WantedType DEF OfTemplate, Done, FirstOf
    <3>3. Cardinality(OfTemplate(u, Done(u), t)) \in Nat
      BY <3>2, SubsetCount
    <3>4. procBy[u][t] \in Nat /\ procBy'[u][t] \in Nat
      BY <1>0, <2>2, TypeSplitPrime DEF RowOK
    <3> QED BY <1>4, <2>2, <3>1, <3>3, <3>4
  <2> QED BY <1>2, <1>3, <2>1, <2>2 DEF CountersOK
<1>6. processed[u] >= Len(Docs[u]) \/ disk[u] \subseteq disk'[u]
  <2>1. CASE Finish(w) \/ FinishFails(w)
    <3>1. \/ IsProcessed(u)
          \/ disk' = [disk EXCEPT ![u] = FileKept(u)]
          \/ disk' = [disk EXCEPT ![u] = @]
      BY <1>0, <2>1 DEF Finish, FinishFails
    <3> QED BY <1>0, <3>1 DEF IsProcessed, FileKept
  <2>2. CASE HandleFailedUpload(w)
    <3>1. disk' = disk \/ disk' = [disk EXCEPT ![u] = @ \cup {"Failed"}]
      BY <1>0, <2>2 DEF HandleFailedUpload
    <3> QED BY <1>0, <3>1
  <2>3. CASE UnknownTemplate(w) \/ CheckRunFull(w) \/ WorkerCrash(w)
    BY <2>3 DEF UnknownTemplate, CheckRunFull, WorkerCrash, files
  <2> QED BY <2>1, <2>2, <2>3
<1>7. status'[u] = "COMPLETED" => status[u] = "COMPLETED" \/ processed[u] >= Len(Docs[u])
  <2>1. CASE Finish(w)
    BY <1>0, <2>1 DEF Finish, IsProcessed
  <2>2. CASE ~Finish(w)
    BY <1>0, <2>2 DEF UnknownTemplate, CheckRunFull, FinishFails, HandleFailedUpload,
       WorkerCrash, row
  <2> QED BY <2>1, <2>2
<1> QED BY <1>1, <1>2, <1>5, <1>6, <1>7

LEMMA WorkerFileOK ==
  ASSUME TypeInv, TypeInv', SteadyFiles, OneInstance, CountInv, NEW w \in Workers,
         WorkerStep(w) \/ WorkerFault(w)
  PROVE  CountInv'
<1> USE TypeSplit DEF TypeInv
<1>0. /\ OnlyWorker(w) /\ UNCHANGED <<req, raced>>
      /\ \A u \in Uploads : "incoming" \in disk'[u] => "incoming" \in disk[u]
      /\ \/ Claim(w) \/ job'[w].pc = "idle"
         \/ job[w].pc # "idle" /\ job'[w].up = job[w].up
  BY WorkerHolds
<1> SUFFICES ASSUME NEW u \in Uploads, u \notin raced PROVE FileOK(u)'
  BY <1>0 DEF CountInv
<1>1. FileOK(u) /\ processed[u] \in Nat /\ disk \in [Uploads -> SUBSET Places]
  BY DEF CountInv, RowOK, FilesOK
<1>2. CASE ~Claim(w) /\ ~Holds(w, u)
  <2>1. SameFile(u)
    BY <1>2, WorkerTouches
  <2>2. ~Holds(w, u)'
    BY <1>0, <1>2 DEF Holds
  <2> QED BY <1>0, <1>1, <1>2, <2>1, <2>2, FileUntouched DEF OnlyWorker, Holds
<1>3. CASE Claim(w)
  <2>1. PICK v \in Uploads :
          /\ "incoming" \in disk[v] /\ disk' = [disk EXCEPT ![v] = @ \ {"incoming"}]
          /\ job'[w].pc = "meta" /\ job'[w].up = v
    BY <1>3, ClaimEffect
  <2>2. /\ UNCHANGED <<processed, procBy, status, meta>> /\ job[w].pc = "idle"
    BY <1>3 DEF Claim, row
  <2>3. CASE u # v
    <3>1. SameFile(u) /\ ~Holds(w, u) /\ ~Holds(w, u)'
      BY <1>1, <2>1, <2>2, <2>3 DEF SameFile, Holds
    <3> QED BY <1>0, <1>1, <3>1, FileUntouched DEF OnlyWorker, Holds
  <2>4. CASE u = v
    <3>1. \A x \in Workers : ~Holds(x, u)
      BY <2>1, <2>4 DEF OneInstance
    <3>2. \A x \in Workers : x # w => ~Holds(x, u)'
      BY <1>0, <3>1 DEF OnlyWorker, Holds
    <3>3. CountersOK(u)'
      <4>1. Done(u)' = Done(u)
        BY <2>2 DEF Done, Wanted
      <4> QED BY <1>1, <2>2, <4>1 DEF FileOK, CountersOK
    <3>4. \A x \in Workers : Holds(x, u)' => HeldOK(x, u)'
      BY <2>1, <3>2 DEF HeldOK
    <3>5. SidecarOK(u)'
      BY <1>1, <2>1, <2>2, <2>4 DEF FileOK, SidecarOK
    <3>6. \A q \in Requests : Chooses(q, u)' => ChosenOK(q, u)'
      <4>1. disk'[u] = disk[u] \ {"incoming"}
        BY <1>1, <2>1, <2>4
      <4> QED BY <1>0, <1>1, <2>2, <4>1 DEF FileOK, Chooses, ChosenOK, Staging, Sidecar
    <3>7. StatusOK(u)'
      <4>1. InHand(u)
        BY <2>1, <2>4 DEF InHand
      <4> QED BY <1>1, <2>2, <4>1 DEF FileOK, StatusOK
    <3> QED BY <3>3, <3>4, <3>5, <3>6, <3>7 DEF FileOK
  <2> QED BY <2>3, <2>4
<1>4. CASE ~Claim(w) /\ Holds(w, u)
  <2>0. /\ job[w].up = u /\ "incoming" \notin disk'[u] /\ JobOK
        /\ status[u] # "COMPLETED"
    BY <1>0, <1>1, <1>4 DEF Holds, OneInstance, InHand, FileOK, StatusOK
  <2>1. ASSUME \/ UnknownTemplate(w) \/ (CheckRunFull(w) /\ Release(w)) \/ Finish(w)
               \/ FinishFails(w) \/ HandleFailedUpload(w) \/ WorkerCrash(w)
        PROVE  FileOK(u)'
    <3>1. /\ CountersOK(u)' /\ job'[w].pc = "idle" /\ processed'[u] = processed[u]
          /\ processed[u] >= Len(Docs[u]) \/ disk[u] \subseteq disk'[u]
          /\ status'[u] = "COMPLETED" => processed[u] >= Len(Docs[u])
      BY <1>1, <1>4, <2>0, <2>1, HolderLeaves
    <3> QED BY <1>0, <1>1, <1>4, <2>0, <3>1, HolderKeeps
  <2>2. ASSUME CountersOK(u)', HeldOK(w, u)', job'[w].pc # "meta", job'[w].up = u,
               UNCHANGED <<processed, disk, status>>
        PROVE  FileOK(u)'
    BY <1>0, <1>1, <1>4, <2>0, <2>2, HolderKeeps
  <2>3. ASSUME UNCHANGED <<processed, procBy, disk, status>>, job'[w].up = u,
               job[w].pc # "meta", job'[w].off = job[w].off, job'[w].appr = job[w].appr,
               job'[w].pc \in {"lookup", "unknown", "open", "gate", "loop", "finish", "failed"}
        PROVE  FileOK(u)'
    BY <1>1, <1>4, <2>2, <2>3, HolderMoves
  <2>4. CASE ReadMetadata(w)
    <3>1. job[w].pc = "meta" /\ UNCHANGED <<processed, procBy, disk, status>>
      BY <2>4 DEF ReadMetadata, row
    <3>2. /\ meta[u] # {}
          /\ \A m \in meta[u] : m.off = processed[u] /\ m.appr = Approved
      BY <1>1, <1>4, <3>1 DEF FileOK, SidecarOK
    <3>3. /\ job'[w].pc = "lookup" /\ job'[w].up = u
          /\ job'[w].off = processed[u] /\ job'[w].appr = Approved
      BY <2>0, <2>4, <3>2, MetadataEffect
    <3>4. Done(u)' = Done(u)
      BY <3>1 DEF Done, Wanted
    <3>5. CountersOK(u)'
      BY <1>1, <3>1, <3>4 DEF FileOK, CountersOK
    <3>6. HeldOK(w, u)'
      BY <3>1, <3>3 DEF HeldOK
    <3> QED BY <2>2, <3>1, <3>3, <3>5, <3>6
  <2>5. CASE LookupUpload(w)
    <3>1. job[w].pc = "lookup" /\ UNCHANGED <<processed, procBy, disk, status>>
      BY <2>5 DEF LookupUpload, row, files
    <3>2. /\ job'[w].up = u /\ job'[w].off = job[w].off /\ job'[w].appr = job[w].appr
          /\ job'[w].pc \in {"unknown", "open", "gate"}
      BY <2>0, <2>5, LookupEffect
    <3> QED BY <2>3, <3>1, <3>2
  <2>6. CASE CreateBillingRun(w)
    <3>1. job[w].pc = "open" /\ UNCHANGED <<processed, procBy, disk, status>>
      BY <2>6 DEF CreateBillingRun, files
    <3> QED BY <2>0, <2>3, <2>6, <3>1, OpenEffect
  <2>7. CASE CreateBillingRunFails(w) \/ Raise(w) \/ (CheckRunFull(w) /\ ~Release(w))
    <3>1. job[w].pc # "meta" /\ UNCHANGED <<processed, procBy, disk, status>>
      BY <2>7 DEF CreateBillingRunFails, Raise, CheckRunFull, row, files
    <3>2. \E pc \in {"gate", "loop", "failed"} : Goto(w, pc)
      BY <2>7 DEF CreateBillingRunFails, Raise, CheckRunFull
    <3> QED BY <2>0, <2>3, <3>1, <3>2, GotoEffect
  <2>8. CASE NextChunk(w) \/ CapPdfs(w) \/ CopyPdf(w) \/ LockRun(w)
    <3>1. CountersOK(u)' /\ HeldOK(w, u)'
      BY <1>1, <1>4, <2>8, HolderRenders
    <3>2. UNCHANGED <<processed, disk, status>>
      BY <2>8 DEF NextChunk, CapPdfs, CopyPdf, LockRun, row, files
    <3>3. job'[w].up = u /\ job'[w].pc # "meta"
      BY <2>0, <2>8, ChunkEffect, CapEffect, CopyEffect, LockEffect
    <3> QED BY <2>2, <3>1, <3>2, <3>3
  <2>9. CASE CountChunk(w)
    <3>1. /\ CountersOK(u)' /\ HeldOK(w, u)' /\ processed'[u] >= processed[u]
          /\ job'[w].pc = "loop" /\ status'[u] # "COMPLETED"
      BY <1>1, <1>4, <2>0, <2>9, HolderCounts
    <3>2. disk' = disk /\ job'[w].up = u
      BY <2>0, <2>9, CountEffect DEF CountChunk, files
    <3> QED BY <1>0, <1>1, <1>4, <2>0, <3>1, <3>2, HolderKeeps
  <2> QED BY <1>4, <2>1, <2>4, <2>5, <2>6, <2>7, <2>8, <2>9 DEF WorkerStep, WorkerFault
<1> QED BY <1>2, <1>3, <1>4

\* The retries and the single requests are not in use: a retry prints a file
\* whole, a single request starts it at its first document.
BatchOnly == "single" \notin Endpoints /\ "retry" \notin Endpoints

RetryPC == {"retrycommit", "retryload", "retrysave"}

NoRetry == \A q \in Requests : req[q].pc \notin RetryPC

\* Without those endpoints a request takes the steps of a batch.
LEMMA BatchSteps ==
  ASSUME BatchOnly, NoMove, NoRetry, NEW q \in Requests,
         NewRequestStep(q) \/ RequestStep(q) \/ RequestFault(q)
  PROVE  \/ FilterBatch(q) \/ CommitBatch(q) \/ StageMeta(q) \/ StageData(q)
         \/ StageFails(q) \/ FinishBatch(q) \/ ApiCrash(q)
<1>1. ~(GenerateSingle(q) \/ MoveToQueue(q) \/ MoveToQueueFails(q) \/ RetryStep(q))
  BY DEF GenerateSingle, MoveToQueue, MoveToQueueFails, RetryStep, RetryFailedRun,
         CommitRetry, LoadFailures, UploadsGone, RetryLoadFails, SaveRetry, RetryFails,
         RetrySaveFails, At, NoMove, NoRetry, RetryPC, BatchOnly
<1> QED BY <1>1 DEF NewRequestStep, RequestStep, RequestFault, RetryStep

\* A file the request does not choose is out of its reach.
LEMMA RequestTouches ==
  ASSUME BatchOnly, TypeInv, MasterKept, NoMove, NoRetry, NEW q \in Requests,
         NewRequestStep(q) \/ RequestStep(q) \/ RequestFault(q)
  PROVE  /\ UNCHANGED <<processed, procBy>> /\ NoRetry'
         /\ MasterKept' /\ NoMove' /\ \A u \in Uploads : disk[u] \subseteq disk'[u]
         /\ \A u \in Uploads : status'[u] \in {status[u], "GENERATING", "FAILED"}
<1> USE TypeSplit DEF TypeInv
<1>0. ReqOK /\ "single" \notin Endpoints
  BY DEF BatchOnly
<1>1. UNCHANGED <<processed, procBy>>
  BY BatchSteps DEF FilterBatch, CommitBatch, StageMeta, StageData, StageFails,
                    FinishBatch, ApiCrash, row
<1>2. MasterKept' /\ NoMove' /\ \A u \in Uploads : disk[u] \subseteq disk'[u]
  BY <1>0, RequestKeepsMaster
<1>3. \/ FilterBatch(q) \/ CommitBatch(q) \/ StageMeta(q) \/ StageData(q)
      \/ StageFails(q) \/ FinishBatch(q) \/ ApiCrash(q)
  BY BatchSteps
<1>4. OnlyRequest(q) /\ req'[q].pc \notin RetryPC
  <2> USE DEF RetryPC
  <2>1. ASSUME NEW u \in Uploads, NEW bad \in SUBSET Uploads, Staged(q, u, bad)
        PROVE  OnlyRequest(q) /\ req'[q].pc \notin RetryPC
    BY <2>1, StagedEffect
  <2>2. CASE StageData(q) \/ StageFails(q)
    BY <2>1, <2>2 DEF StageData, StageFails
  <2>3. CASE FinishBatch(q) \/ ApiCrash(q)
    BY <1>0, <2>3, EndEffect DEF FinishBatch, ApiCrash
  <2>4. CASE FilterBatch(q) \/ CommitBatch(q) \/ StageMeta(q)
    BY <2>4, FilterEffect, CommitEffect, StageMetaEffect
  <2> QED BY <1>3, <2>2, <2>3, <2>4
<1>5. NoRetry'
  BY <1>4 DEF NoRetry, OnlyRequest
<1>6. \A u \in Uploads : status'[u] \in {status[u], "GENERATING", "FAILED"}
  BY <1>3 DEF FilterBatch, CommitBatch, StageMeta, StageData, StageFails, FinishBatch,
              ApiCrash, row
<1> QED BY <1>1, <1>2, <1>5, <1>6

\* What the filter of a batch request knows about a file it chooses.
LEMMA FilterChooses ==
  ASSUME TypeInv, SteadyFiles, MasterKept, NEW u \in Uploads, FileOK(u),
         NEW q \in Requests, FilterBatch(q), u \in req'[q].todo
  PROVE  ChosenOK(q, u)'
<1> USE TypeSplit DEF TypeInv
<1>1. PICK ids \in SUBSET Uploads, limit \in Limits, approved \in ApprovedChoices :
         /\ req'[q].pc = "commit"
         /\ req'[q].todo = Chosen(ids, limit, approved)
         /\ req'[q].off = processed /\ req'[q].appr = approved
         /\ req'[q].src = [v \in Uploads |->
                             IF Resolvable(v) THEN Resolved(v) ELSE path[v]]
  BY FilterEffect
<1>2. UNCHANGED <<processed, disk>>
  BY DEF FilterBatch, row, files
<1>3. processed[u] \in Nat /\ Len(Docs[u]) \in Nat
  BY DocsFinite DEF RowOK
<1>4. Eligible(u, approved)
  BY <1>1 DEF Chosen
<1>5. processed[u] < Len(Docs[u])
  <2>1. Remaining(u, approved) # {}
    BY <1>4 DEF Eligible
  <2> QED BY <1>3, <2>1, RemainingNone DEF FileOK
<1>6. req'[q].src[u] \in disk[u] \ {"incoming"}
  <2>1. req'[q].src[u] = Resolved(u)
    BY <1>1, <1>4 DEF Eligible
  <2>2. "pending" \in disk[u] \/ "Processed" \in disk[u]
    BY DEF MasterKept
  <2> QED BY <2>1, <2>2 DEF Resolved
<1>7. req'[q].off[u] = processed'[u] /\ req'[q].appr = Approved
  BY <1>1, <1>2, ApprovedIs
<1> QED BY <1>1, <1>2, <1>3, <1>5, <1>6, <1>7 DEF ChosenOK

\* A request that keeps a file among those it chose, and another that has
\* nothing to do with it.
LEMMA ChosenKept ==
  ASSUME NEW u \in Uploads, NEW q \in Requests, ChosenOK(q, u),
         processed'[u] = processed[u], disk[u] \subseteq disk'[u],
         req'[q].off = req[q].off, req'[q].src = req[q].src,
         req'[q].appr = req[q].appr,
         req'[q].pc \in {"commit", "meta", "data"},
         req'[q].pc # "commit" => req[q].off[u] = processed[u],
         req'[q].pc = "data" /\ Staging(q, u)' => meta'[u] = {Sidecar(q, u)'}
  PROVE  ChosenOK(q, u)'
<1>1. Sidecar(q, u)' = [off |-> req'[q].off[u], lim |-> req'[q].lim[u],
                        run |-> req'[q].run, appr |-> req'[q].appr]
  BY DEF Sidecar
<1> QED BY <1>1 DEF ChosenOK

LEMMA RequestChosen ==
  ASSUME BatchOnly, TypeInv, SteadyFiles, OneInstance, CountInv, MasterKept, NoMove,
         NoRetry, NEW q \in Requests,
         NewRequestStep(q) \/ RequestStep(q) \/ RequestFault(q),
         NEW u \in Uploads, u \notin raced', NEW p \in Requests, Chooses(p, u)'
  PROVE  ChosenOK(p, u)'
<1> USE TypeSplit DEF TypeInv
<1>0. /\ OnlyRequest(q) /\ raced \subseteq raced'
      /\ UNCHANGED <<processed, procBy>> /\ disk[u] \subseteq disk'[u]
      /\ ReqOK /\ meta \in [Uploads -> SUBSET SidecarType]
  BY RequestQueues, RequestTouches DEF FilesOK
<1>1. FileOK(u) /\ u \notin raced
  BY <1>0 DEF CountInv
<1>2. CASE p # q
  <2>1. /\ req'[p] = req[p] /\ Chooses(p, u) /\ ChosenOK(p, u)
        /\ Staging(p, u)' = Staging(p, u) /\ Sidecar(p, u)' = Sidecar(p, u)
    BY <1>0, <1>1, <1>2 DEF OnlyRequest, Chooses, FileOK, Staging, Sidecar
  <2>2. ASSUME req[p].pc = "data" PROVE meta'[u] = meta[u]
    <3>1. CASE StageMeta(q)
      <4>1. PICK v \in Uploads :
              /\ Staging(q, v) /\ req[q].pc = "meta"
              /\ meta' = [meta EXCEPT ![v] = {Sidecar(q, v)}]
        BY <3>1, StageMetaEffect
      <4>2. Queuing(p, u) /\ Queuing(q, v)
        BY <2>1, <2>2, <4>1 DEF Queuing, Chooses, Staging
      <4>3. u # v
        BY <1>1, <1>2, <4>2 DEF OneInstance
      <4> QED BY <1>0, <4>1, <4>3
    <3>2. CASE ~StageMeta(q)
      BY <3>2, BatchSteps DEF FilterBatch, CommitBatch, StageData, StageFails,
                              FinishBatch, ApiCrash, files
    <3> QED BY <3>1, <3>2
  <2> QED BY <1>0, <2>1, <2>2 DEF ChosenOK
<1>3. CASE p = q /\ FilterBatch(q)
  BY <1>1, <1>3, FilterChooses DEF Chooses
<1>4. CASE p = q /\ CommitBatch(q)
  <2>1. /\ req[q].pc = "commit" /\ req'[q].pc = "meta" /\ req'[q].todo = req[q].todo
        /\ req'[q].off = req[q].off /\ req'[q].src = req[q].src
        /\ req'[q].appr = req[q].appr
        /\ raced' = raced \cup {v \in req[q].todo :
                                   InHand(v) \/ processed[v] # req[q].off[v]}
    BY <1>4, CommitEffect
  <2>2. ChosenOK(q, u) /\ req[q].off[u] = processed[u]
    BY <1>1, <1>4, <2>1 DEF Chooses, FileOK
  <2> QED BY <1>0, <1>4, <2>1, <2>2, ChosenKept
<1>5. CASE p = q /\ StageMeta(q)
  <2>1. PICK v \in Uploads :
          /\ Staging(q, v) /\ meta' = [meta EXCEPT ![v] = {Sidecar(q, v)}]
          /\ req[q].pc = "meta" /\ req'[q].pc = "data"
          /\ req'[q].todo = req[q].todo /\ req'[q].off = req[q].off
          /\ req'[q].src = req[q].src /\ req'[q].appr = req[q].appr
          /\ req'[q].run = req[q].run /\ req'[q].lim = req[q].lim
    BY <1>5, StageMetaEffect
  <2>2. ChosenOK(q, u) /\ req[q].off[u] = processed[u]
    BY <1>1, <1>5, <2>1 DEF Chooses, FileOK, ChosenOK
  <2>3. ASSUME Staging(q, u)' PROVE meta'[u] = {Sidecar(q, u)'}
    <3>1. u <= v /\ v <= u
      BY <2>1, <2>3 DEF Staging
    <3>2. u = v
      BY <3>1, QueueAssumption
    <3> QED BY <1>0, <2>1, <3>2 DEF Sidecar
  <2> QED BY <1>0, <1>5, <2>1, <2>2, <2>3, ChosenKept
<1>6. CASE p = q /\ (StageData(q) \/ StageFails(q))
  <2>1. PICK v \in Uploads, bad \in SUBSET Uploads : Staged(q, v, bad)
    BY <1>6 DEF StageData, StageFails
  <2>2. /\ req'[q].pc \in {"finish", "meta"} /\ req'[q].todo = req[q].todo \ {v}
        /\ req'[q].off = req[q].off /\ req'[q].src = req[q].src
        /\ req'[q].appr = req[q].appr
    BY <2>1, StagedEffect
  <2>3. req[q].pc \in {"meta", "data"}
    BY <1>6 DEF StageData, StageFails, At
  <2>4. ChosenOK(q, u) /\ req[q].off[u] = processed[u]
    BY <1>1, <1>6, <2>2, <2>3 DEF Chooses, FileOK, ChosenOK
  <2>5. req'[q].pc = "meta"
    BY <1>6, <2>2 DEF Chooses
  <2> QED BY <1>0, <1>6, <2>2, <2>4, <2>5, ChosenKept
<1>7. CASE p = q /\ (FinishBatch(q) \/ ApiCrash(q))
  <2>1. req'[q].pc \in {"done", "dead"}
    BY <1>0, <1>7, EndEffect DEF FinishBatch, ApiCrash
  <2> QED BY <1>7, <2>1 DEF Chooses
<1> QED BY <1>2, <1>3, <1>4, <1>5, <1>6, <1>7, BatchSteps

\* The file in the queue has the sidecar that was put there for it.
LEMMA RequestSidecar ==
  ASSUME BatchOnly, TypeInv, SteadyFiles, OneInstance, CountInv, MasterKept, NoMove,
         NoRetry, NEW q \in Requests,
         NewRequestStep(q) \/ RequestStep(q) \/ RequestFault(q),
         NEW u \in Uploads, u \notin raced'
  PROVE  SidecarOK(u)'
<1> USE TypeSplit DEF TypeInv
<1>0. /\ job' = job /\ raced \subseteq raced' /\ UNCHANGED <<processed, procBy>>
      /\ disk \in [Uploads -> SUBSET Places] /\ meta \in [Uploads -> SUBSET SidecarType]
  BY RequestQueues, RequestTouches DEF FilesOK
<1>1. FileOK(u) /\ u \notin raced
  BY <1>0 DEF CountInv
<1>2. ASSUME meta'[u] = meta[u], "incoming" \in disk'[u] => "incoming" \in disk[u]
      PROVE  SidecarOK(u)'
  BY <1>0, <1>1, <1>2 DEF FileOK, SidecarOK, Holds
<1>3. CASE StageMeta(q)
  <2>1. PICK v \in Uploads :
          /\ Staging(q, v) /\ req[q].pc = "meta"
          /\ meta' = [meta EXCEPT ![v] = {Sidecar(q, v)}]
    BY <1>3, StageMetaEffect
  <2>2. disk' = disk
    BY <1>3 DEF StageMeta
  <2>3. CASE u = v
    <3>1. Queuing(q, u)
      BY <2>1, <2>3 DEF Queuing, Staging
    <3>2. "incoming" \notin disk[u] /\ \A w \in Workers : ~Holds(w, u)
      BY <1>1, <3>1 DEF OneInstance
    <3> QED BY <1>0, <2>2, <3>2 DEF SidecarOK, Holds
  <2>4. CASE u # v
    BY <1>0, <1>2, <2>1, <2>2, <2>4
  <2> QED BY <2>3, <2>4
<1>4. CASE StageData(q)
  <2>1. PICK v \in Uploads :
          /\ Staging(q, v)
          /\ disk' = disk \/ disk' = [disk EXCEPT ![v] = @ \cup {"incoming"}]
    BY <1>4 DEF StageData
  <2>2. meta' = meta /\ req[q].pc = "data"
    BY <1>4 DEF StageData, At
  <2>3. CASE u # v
    BY <1>0, <1>2, <2>1, <2>2, <2>3
  <2>4. CASE u = v
    <3>1. Queuing(q, u) /\ Chooses(q, u)
      BY <2>1, <2>2, <2>4 DEF Queuing, Chooses, Staging
    <3>2. /\ meta[u] = {Sidecar(q, u)} /\ req[q].off[u] = processed[u]
          /\ req[q].appr = Approved
      BY <1>1, <2>1, <2>2, <2>4, <3>1 DEF FileOK, ChosenOK
    <3>3. Sidecar(q, u).off = processed[u] /\ Sidecar(q, u).appr = Approved
      BY <3>2 DEF Sidecar
    <3> QED BY <1>0, <2>2, <3>2, <3>3 DEF SidecarOK
  <2> QED BY <2>3, <2>4
<1>5. CASE ~StageMeta(q) /\ ~StageData(q)
  <2>1. meta' = meta /\ disk' = disk
    BY <1>5, BatchSteps DEF FilterBatch, CommitBatch, StageFails, FinishBatch, ApiCrash,
                            files
  <2> QED BY <1>2, <2>1
<1> QED BY <1>3, <1>4, <1>5

\* A file that reads COMPLETED is neither in hand nor taken.
LEMMA RequestStatus ==
  ASSUME BatchOnly, TypeInv, SteadyFiles, OneInstance, CountInv, MasterKept, NoMove,
         NoRetry, NEW q \in Requests,
         NewRequestStep(q) \/ RequestStep(q) \/ RequestFault(q),
         NEW u \in Uploads, u \notin raced'
  PROVE  StatusOK(u)'
<1>0. /\ OnlyRequest(q) /\ job' = job /\ raced \subseteq raced' /\ processed' = processed
      /\ Queuing(q, u)' => Queuing(q, u) \/ ~InHand(u)
      /\ "incoming" \in disk'[u] =>
           "incoming" \in disk[u] \/ (Queuing(q, u) /\ ~Queuing(q, u)')
      /\ status'[u] \in {status[u], "GENERATING", "FAILED"}
  BY RequestQueues, RequestTouches
<1>1. FileOK(u) /\ u \notin raced
  BY <1>0 DEF CountInv
<1> SUFFICES ASSUME status'[u] = "COMPLETED"
             PROVE  processed'[u] >= Len(Docs[u]) /\ ~InHand(u)'
  BY DEF StatusOK
<1>2. /\ status[u] = "COMPLETED" /\ processed[u] >= Len(Docs[u]) /\ ~InHand(u)
  BY <1>0, <1>1 DEF FileOK, StatusOK
<1>3. /\ "incoming" \notin disk[u] /\ \A w \in Workers : ~Holds(w, u)
      /\ \A p \in Requests : ~Queuing(p, u)
  BY <1>2 DEF InHand, Queuing
<1>4. ~Queuing(q, u)'
  <2>1. CASE CommitBatch(q)
    <3>1. req[q].pc = "commit" /\ req'[q].todo = req[q].todo
          /\ raced' = raced \cup {v \in req[q].todo :
                                   InHand(v) \/ processed[v] # req[q].off[v]}
      BY <2>1, CommitEffect
    <3>2. ASSUME u \in req[q].todo PROVE FALSE
      <4>1. ChosenOK(q, u) /\ processed[u] = req[q].off[u]
        BY <1>1, <3>1, <3>2 DEF FileOK, Chooses
      <4>2. processed[u] \in Nat /\ Len(Docs[u]) \in Nat
        BY TypeSplit, DocsFinite DEF TypeInv, RowOK
      <4> QED BY <1>2, <4>1, <4>2 DEF ChosenOK
    <3> QED BY <3>1, <3>2 DEF Queuing
  <2>2. CASE FilterBatch(q)
    <3>1. req'[q].pc = "commit"
      BY <2>2, FilterEffect
    <3> QED BY <3>1 DEF Queuing
  <2>3. CASE StageMeta(q)
    <3>1. req[q].pc = "meta" /\ req'[q].todo = req[q].todo
      BY <2>3, StageMetaEffect
    <3> QED BY <1>3, <3>1 DEF Queuing
  <2>4. CASE StageData(q) \/ StageFails(q)
    <3>1. PICK v \in Uploads, bad \in SUBSET Uploads : Staged(q, v, bad)
      BY <2>4 DEF StageData, StageFails
    <3>2. req'[q].todo \subseteq req[q].todo /\ req[q].pc \in {"meta", "data"}
      BY <2>4, <3>1, StagedEffect DEF StageData, StageFails, At
    <3> QED BY <1>3, <3>2 DEF Queuing
  <2>5. CASE FinishBatch(q) \/ ApiCrash(q)
    <3>1. req'[q].pc \in {"done", "dead"}
      BY <2>5, TypeSplit, EndEffect DEF TypeInv, FinishBatch, ApiCrash
    <3> QED BY <3>1 DEF Queuing
  <2> QED BY <2>1, <2>2, <2>3, <2>4, <2>5, BatchSteps
<1>5. \A p \in Requests : ~Queuing(p, u)'
  BY <1>0, <1>3, <1>4 DEF OnlyRequest, Queuing
<1> QED BY <1>0, <1>2, <1>3, <1>4, <1>5 DEF InHand, Queuing, Holds

LEMMA RequestFileOK ==
  ASSUME BatchOnly, TypeInv, SteadyFiles, OneInstance, CountInv, MasterKept, NoMove,
         NoRetry, NEW q \in Requests,
         NewRequestStep(q) \/ RequestStep(q) \/ RequestFault(q)
  PROVE  CountInv'
<1>0. /\ job' = job /\ raced \subseteq raced' /\ UNCHANGED <<processed, procBy>>
  BY RequestQueues, RequestTouches
<1> SUFFICES ASSUME NEW u \in Uploads, u \notin raced' PROVE FileOK(u)'
  BY DEF CountInv
<1>1. FileOK(u)
  BY <1>0 DEF CountInv
<1>2. Done(u)' = Done(u)
  BY <1>0 DEF Done, Wanted
<1>3. CountersOK(u)'
  BY <1>0, <1>1, <1>2 DEF FileOK, CountersOK
<1>4. \A w \in Workers : Holds(w, u)' => HeldOK(w, u)'
  BY <1>0, <1>1, <1>2 DEF FileOK, HeldOK, Holds, Wanted, Chunk
<1> QED BY <1>3, <1>4, RequestChosen, RequestSidecar, RequestStatus DEF FileOK

CountsInv == TypeInv /\ OneInstance /\ MasterKept /\ NoMove /\ NoRetry /\ CountInv

LEMMA NextCounts ==
  ASSUME BatchOnly, SteadyFiles
  PROVE  CountsInv /\ TypeInv' /\ [Next]_vars => CountsInv'
<1> SUFFICES ASSUME CountsInv, TypeInv', [Next]_vars PROVE CountsInv'
  OBVIOUS
<1> USE DEF CountsInv
<1>0. OneInstance' /\ "single" \notin Endpoints
  BY NextInstance DEF BatchOnly
<1>1. ASSUME NEW w \in Workers, WorkerStep(w) \/ WorkerFault(w) PROVE CountsInv'
  <2>1. NoMove' /\ NoRetry'
    BY <1>1, WorkerHolds DEF NoMove, NoRetry
  <2> QED BY <1>0, <1>1, <2>1, WorkerFileOK, WorkerKeepsMaster
<1>2. ASSUME NEW q \in Requests, NewRequestStep(q) \/ RequestStep(q) \/ RequestFault(q)
      PROVE  CountsInv'
  BY <1>0, <1>2, RequestFileOK, RequestTouches
<1>3. ASSUME UNCHANGED <<processed, procBy, meta, disk, job, req, raced>>,
             \A u \in Uploads : status'[u] = status[u] \/ status'[u] # "COMPLETED"
      PROVE  CountsInv'
  <2>1. MasterKept' /\ NoMove' /\ NoRetry'
    BY <1>3 DEF MasterKept, NoMove, NoRetry
  <2> SUFFICES ASSUME NEW u \in Uploads, u \notin raced PROVE FileOK(u)'
    BY <1>0, <1>3, <2>1 DEF CountInv
  <2>2. FileOK(u)
    BY DEF CountInv
  <2>3. Done(u)' = Done(u)
    BY <1>3 DEF Done, Wanted
  <2>4. CountersOK(u)'
    BY <1>3, <2>2, <2>3 DEF FileOK, CountersOK
  <2>5. \A w \in Workers : Holds(w, u)' => HeldOK(w, u)'
    BY <1>3, <2>2, <2>3 DEF FileOK, HeldOK, Holds, Wanted, Chunk
  <2>6. SidecarOK(u)' /\ \A q \in Requests : Chooses(q, u)' => ChosenOK(q, u)'
    BY <1>3, <2>2 DEF FileOK, SidecarOK, Chooses, ChosenOK, Staging, Sidecar, Holds
  <2>7. StatusOK(u)'
    BY <1>3, <2>2 DEF FileOK, StatusOK, InHand, Holds
  <2> QED BY <2>4, <2>5, <2>6, <2>7 DEF FileOK
<1>4. ASSUME NEW u \in Uploads, Approve(u) \/ Reject(u) PROVE CountsInv'
  <2>1. UNCHANGED <<processed, procBy, meta, disk, job, req, raced>>
    BY <1>4 DEF Approve, Reject, files, history
  <2>2. \A v \in Uploads : status'[v] = status[v] \/ status'[v] # "COMPLETED"
    BY <1>4, TypeSplit DEF TypeInv, RowOK, Approve, Reject
  <2> QED BY <1>3, <2>1, <2>2
<1>5. CASE UNCHANGED vars
  BY <1>3, <1>5 DEF vars, row, files, history
<1> QED BY <1>1, <1>2, <1>4, <1>5 DEF Next

LEMMA CountsInvariant ==
  ASSUME BatchOnly, SteadyFiles
  PROVE  Spec => []CountsInv
<1>1. Init => CountsInv
  <2> SUFFICES ASSUME Init PROVE CountsInv
    OBVIOUS
  <2>1. TypeInv /\ OneInstance /\ MasterKept /\ NoMove /\ NoRetry
    BY InitType, IdleFields
       DEF Init, OneInstance, MasterKept, NoMove, NoRetry, RetryPC, Holds, Queuing,
           NewRequest
  <2>2. ASSUME NEW u \in Uploads PROVE FileOK(u)
    <3>1. /\ \A w \in Workers : ~Holds(w, u)
          /\ \A q \in Requests : ~Chooses(q, u) /\ ~Queuing(q, u)
      BY IdleFields DEF Init, Holds, Chooses, Queuing, NewRequest
    <3>2. processed[u] = 0 /\ Done(u) = {}
      <4>1. processed[u] = 0
        BY DEF Init
      <4> QED BY <4>1, DoneNone DEF Done
    <3>3. CountersOK(u)
      <4>1. \A t \in Templates : OfTemplate(u, Done(u), t) = {} /\ procBy[u][t] = 0
        BY <3>2 DEF OfTemplate, Init
      <4> QED BY <3>2, <4>1, FS_EmptySet DEF CountersOK
    <3>4. SidecarOK(u)
      BY <3>1 DEF Init, SidecarOK
    <3>5. StatusOK(u)
      BY DEF Init, StatusOK
    <3> QED BY <3>1, <3>3, <3>4, <3>5 DEF FileOK
  <2> QED BY <2>1, <2>2 DEF CountsInv, CountInv
<1> QED BY <1>1, NextCounts, TypeInvariant, PTL DEF Spec

\* A file whose staging failed is one that was taken while it was in hand, or
\* on a stale row, when nothing else can go wrong with staging.
BadRaced == \A q \in Requests : req[q].bad \subseteq raced

LEMMA NextBad ==
  ASSUME BatchOnly, SteadyFiles, "stage" \notin Faults
  PROVE  CountsInv /\ BadRaced /\ [Next]_vars => BadRaced' /\ raced \subseteq raced'
<1> SUFFICES ASSUME CountsInv, BadRaced, [Next]_vars
             PROVE  BadRaced' /\ raced \subseteq raced'
  OBVIOUS
<1> USE DEF CountsInv
<1>0. ReqOK
  BY TypeSplit DEF TypeInv
<1>1. ASSUME NEW w \in Workers, WorkerStep(w) \/ WorkerFault(w)
      PROVE  BadRaced' /\ raced \subseteq raced'
  BY <1>1, WorkerHolds DEF BadRaced
<1>2. ASSUME NEW q \in Requests, NewRequestStep(q) \/ RequestStep(q) \/ RequestFault(q)
      PROVE  BadRaced' /\ raced \subseteq raced'
  <2>1. OnlyRequest(q) /\ raced \subseteq raced'
    BY <1>2, RequestQueues
  <2>2. req'[q].bad \subseteq raced'
    <3>1. CASE FilterBatch(q)
      <4>1. req'[q].bad = {}
        BY <3>1, FilterEffect
      <4> QED BY <4>1
    <3>2. CASE CommitBatch(q)
      BY <2>1, <3>2, CommitEffect DEF BadRaced
    <3>3. CASE StageMeta(q)
      <4>1. req'[q].bad = req[q].bad
        BY <3>3, StageMetaEffect
      <4> QED BY <2>1, <4>1 DEF BadRaced
    <3>4. CASE StageData(q)
      <4>1. PICK u \in Uploads :
              /\ Staging(q, u)
              /\ Staged(q, u, IF req[q].src[u] = "incoming" \/ req[q].src[u] \in disk[u]
                              THEN {} ELSE {u})
        BY <3>4 DEF StageData
      <4>2. u \in raced \/ req[q].src[u] \in disk[u]
        <5>1. ASSUME u \notin raced PROVE req[q].src[u] \in disk[u]
          <6>1. Chooses(q, u) /\ req[q].pc = "data"
            BY <3>4, <4>1 DEF StageData, At, Staging, Chooses
          <6>2. ChosenOK(q, u)
            BY <5>1, <6>1 DEF CountInv, FileOK
          <6> QED BY <6>1, <6>2 DEF ChosenOK
        <5> QED BY <5>1
      <4> DEFINE bad == IF req[q].src[u] = "incoming" \/ req[q].src[u] \in disk[u]
                        THEN {} ELSE {u}
      <4>3. bad \in SUBSET Uploads /\ bad \subseteq raced
        BY <4>2
      <4> HIDE DEF bad
      <4>4. req'[q].bad = req[q].bad \cup bad
        BY <4>1, <4>3, StagedEffect DEF bad
      <4> QED BY <2>1, <4>3, <4>4 DEF BadRaced
    <3>5. CASE StageFails(q)
      BY <3>5 DEF StageFails, Fault
    <3>6. CASE FinishBatch(q) \/ ApiCrash(q)
      <4>1. req'[q].bad = {}
        BY <1>0, <3>6, EndEffect DEF FinishBatch, ApiCrash
      <4> QED BY <4>1
    <3> QED BY <1>2, <3>1, <3>2, <3>3, <3>4, <3>5, <3>6, BatchSteps
  <2> QED BY <2>1, <2>2 DEF OnlyRequest, BadRaced
<1>3. ASSUME NEW u \in Uploads, Approve(u) \/ Reject(u)
      PROVE  BadRaced' /\ raced \subseteq raced'
  BY <1>3 DEF Approve, Reject, history, BadRaced
<1>4. CASE UNCHANGED vars
  BY <1>4 DEF vars, history, BadRaced
<1> QED BY <1>1, <1>2, <1>3, <1>4 DEF Next

LEMMA BadInvariant ==
  ASSUME BatchOnly, SteadyFiles, "stage" \notin Faults
  PROVE  Spec => [](CountsInv /\ BadRaced)
<1>1. Init => BadRaced
  BY DEF Init, BadRaced, NewRequest
<1> QED BY <1>1, NextBad, CountsInvariant, PTL DEF Spec

\* A file that is finished is in nobody's hands; only a request that remembers it
\* from before writes over it.
LEMMA FinishedKept ==
  ASSUME BatchOnly, SteadyFiles, "approve" \notin Endpoints, "reject" \notin Endpoints,
         CountsInv, BadRaced, [Next]_vars,
         NEW u \in Uploads, u \notin raced, status[u] = "COMPLETED"
  PROVE  status'[u] = "COMPLETED" \/ TakenStale(u)
<1> USE TypeSplit DEF CountsInv, TypeInv
<1>0. /\ FileOK(u) /\ status \in [Uploads -> UploadStatus]
      /\ processed[u] \in Nat /\ Len(Docs[u]) \in Nat
  BY DocsFinite DEF CountInv, RowOK
<1>1. ~InHand(u) /\ processed[u] >= Len(Docs[u])
  BY <1>0 DEF FileOK, StatusOK
<1>2. ASSUME NEW w \in Workers, WorkerStep(w) \/ WorkerFault(w)
      PROVE  status'[u] = "COMPLETED"
  <2>1. CASE Claim(w)
    BY <2>1 DEF Claim, row
  <2>2. CASE ~Claim(w)
    <3>1. ~Holds(w, u)
      BY <1>1 DEF InHand
    <3> QED BY <1>2, <2>2, <3>1, WorkerTouches DEF SameFile
  <2> QED BY <2>1, <2>2
<1>3. ASSUME NEW q \in Requests, NewRequestStep(q) \/ RequestStep(q) \/ RequestFault(q)
      PROVE  status'[u] = "COMPLETED" \/ TakenStale(u)
  <2>1. CASE CommitBatch(q)
    <3>1. req[q].pc = "commit" /\ req'[q].pc = "meta"
      BY <2>1, CommitEffect
    <3>2. CASE u \notin req[q].todo
      BY <1>0, <2>1, <3>2 DEF CommitBatch
    <3>3. CASE u \in req[q].todo /\ processed[u] = req[q].off[u]
      <4>1. ChosenOK(q, u)
        BY <1>0, <3>1, <3>3 DEF FileOK, Chooses
      <4> QED BY <1>0, <1>1, <3>3, <4>1 DEF ChosenOK
    <3>4. CASE u \in req[q].todo /\ processed[u] # req[q].off[u]
      BY <3>1, <3>4 DEF TakenStale, At
    <3> QED BY <3>2, <3>3, <3>4
  <2>2. CASE FinishBatch(q)
    <3>1. u \notin req[q].bad
      BY <1>0 DEF BadRaced
    <3> QED BY <2>2, <3>1 DEF FinishBatch
  <2>3. CASE FilterBatch(q) \/ StageMeta(q) \/ StageData(q) \/ StageFails(q) \/ ApiCrash(q)
    BY <2>3 DEF FilterBatch, StageMeta, StageData, StageFails, ApiCrash, row
  <2> QED BY <1>3, <2>1, <2>2, <2>3, BatchSteps
<1>4. ASSUME NEW v \in Uploads, Approve(v) \/ Reject(v) PROVE status'[u] = "COMPLETED"
  BY <1>4 DEF Approve, Reject
<1>5. CASE UNCHANGED vars
  BY <1>5 DEF vars, row
<1> QED BY <1>2, <1>3, <1>4, <1>5 DEF Next

\* A finished file is dragged back by one step only, however batch requests and
\* workers interleave and whatever fails among the workers: the commit of a
\* request whose filter had passed the file before it was finished
\* (billing.py:1081 against 1149-1152).  No claim, chunk, staging step or second
\* commit writes back an older status (worker_queue.py:836-905,
\* billing.py:1191-1217).  The administrators' own decisions and a failure to
\* stage the file are out of it: both write FAILED or APPROVED over any status.
THEOREM CompletedStaysCompleted ==
  ASSUME BatchOnly, SteadyFiles, "stage" \notin Faults,
         "approve" \notin Endpoints, "reject" \notin Endpoints
  PROVE  Spec => CompletedIsFinal
<1>1. CountsInv /\ BadRaced /\ [Next]_vars =>
        [\A u \in Uploads \ raced :
           status[u] = "COMPLETED" => status'[u] = "COMPLETED" \/ TakenStale(u)]_vars
  <2> SUFFICES ASSUME CountsInv, BadRaced, [Next]_vars, NEW u \in Uploads, u \notin raced,
                      status[u] = "COMPLETED"
               PROVE  status'[u] = "COMPLETED" \/ TakenStale(u)
    OBVIOUS
  <2> QED BY FinishedKept
<1> QED BY <1>1, BadInvariant, PTL DEF Spec, CompletedIsFinal
-----------------------------------------------------------------------------
(***************************************************************************)
(* The run that is accounted for is closed                                 *)
(***************************************************************************)

\* A write that looks at the sum closes the run that reaches its total.
LEMMA TallySettles ==
  ASSUME RunOK, AccountedIsClosed, NEW r \in Runs, NEW succ \in Int, NEW fail \in Int,
         Tally(r, succ, fail)
  PROVE  AccountedIsClosed'
<1> SUFFICES ASSUME NEW s \in Runs, rstatus'[s] = "RUNNING" PROVE ~RL!Accounted(s)'
  BY DEF AccountedIsClosed
<1>1. CASE s # r
  BY <1>1 DEF Tally, RunOK, AccountedIsClosed, RL!Accounted
<1>2. CASE s = r
  <2>1. Verdict(fail) # "RUNNING"
    BY DEF Verdict
  <2>2. ~(succ + fail >= rtotal[r])
    BY <1>2, <2>1 DEF Tally, RunOK
  <2> QED BY <1>2, <2>2 DEF Tally, RunOK, RL!Accounted
<1> QED BY <1>1, <1>2

LEMMA UpdateSettles ==
  ASSUME RunOK, AccountedIsClosed, NEW r \in RunId, NEW n \in Nat, UpdateBillingRun(r, n)
  PROVE  AccountedIsClosed'
<1>1. CASE r = NoRun
  BY <1>1 DEF UpdateBillingRun, run, AccountedIsClosed, RL!Accounted
<1>2. CASE r # NoRun
  <2> DEFINE succ == IF n > 0 THEN SmallerOf(rtotal[r], rsucc[r] + n) ELSE rsucc[r]
  <2>1. r \in Runs /\ succ \in Int /\ rfail[r] \in Int
    BY <1>2 DEF RunId, RunOK, SmallerOf
  <2>2. Tally(r, succ, rfail[r])
    BY <1>2 DEF UpdateBillingRun
  <2> HIDE DEF succ
  <2> QED BY <2>1, <2>2, TallySettles
<1> QED BY <1>1, <1>2

LEMMA FailureSettles ==
  ASSUME RowOK, RunOK, AccountedIsClosed, NEW u \in Uploads, RecordFailure(u)
  PROVE  AccountedIsClosed'
<1>1. CASE upRun[u] = NoRun
  BY <1>1 DEF RecordFailure, run, AccountedIsClosed, RL!Accounted
<1>2. CASE upRun[u] # NoRun
  <2>1. upRun[u] \in Runs /\ rsucc[upRun[u]] \in Int /\ rfail[upRun[u]] + 1 \in Int
    BY <1>2 DEF RowOK, RunId, RunOK
  <2>2. Tally(upRun[u], rsucc[upRun[u]], rfail[upRun[u]] + 1)
    BY <1>2 DEF RecordFailure
  <2> QED BY <2>1, <2>2, TallySettles
<1> QED BY <1>1, <1>2

\* A run is opened for at least one account.
LEMMA InsertSettles ==
  ASSUME RunOK, Counted, AccountedIsClosed, NEW r \in Runs, NEW total \in Nat \ {0},
         NextRun(r), InsertRun(r, total)
  PROVE  AccountedIsClosed'
<1> SUFFICES ASSUME NEW s \in Runs, rstatus'[s] = "RUNNING" PROVE ~RL!Accounted(s)'
  BY DEF AccountedIsClosed
<1>1. rsucc[r] = 0 /\ rfail[r] = 0
  BY DEF Counted, NextRun
<1> QED BY <1>1 DEF InsertRun, RunOK, AccountedIsClosed, RL!Accounted

LEMMA WorkerSettles ==
  ASSUME TypeInv, LedgerInv, AccountedIsClosed, NEW w \in Workers,
         WorkerStep(w) \/ WorkerFault(w)
  PROVE  AccountedIsClosed'
<1> USE TypeSplit DEF TypeInv, LedgerInv
<1>0. job[w] \in JobType /\ (job[w].pc # "idle" => job[w].up \in Uploads)
  BY DEF JobOK, Holding
<1>1. ASSUME UNCHANGED run PROVE AccountedIsClosed'
  BY <1>1 DEF run, AccountedIsClosed, RL!Accounted
<1>2. CASE UnknownTemplate(w) \/ HandleFailedUpload(w)
  <2>1. job[w].up \in Uploads
    BY <1>0, <1>2 DEF UnknownTemplate, HandleFailedUpload
  <2>2. UNCHANGED run \/ RecordFailure(job[w].up)
    BY <1>2 DEF UnknownTemplate, HandleFailedUpload
  <2> QED BY <1>1, <2>1, <2>2, FailureSettles
<1>3. CASE CreateBillingRun(w)
  <2>1. PICK r \in Runs, total \in Nat \ {0} : NextRun(r) /\ InsertRun(r, total)
    <3> DEFINE rest == Len(Docs[job[w].up]) - job[w].off
               n == IF job[w].rem \in {0, Unlimited} THEN rest
                    ELSE SmallerOf(rest, job[w].rem)
    <3>1. PICK r \in Runs : NextRun(r) /\ InsertRun(r, LargerOf(1, n))
      BY <1>3 DEF CreateBillingRun
    <3>2. rest \in Int /\ job[w].rem \in Int
      BY <1>0, <1>3, DocsFinite DEF CreateBillingRun, JobType
    <3>3. LargerOf(1, n) \in Nat \ {0}
      BY <3>2 DEF LargerOf, SmallerOf
    <3> HIDE DEF n, rest
    <3> QED BY <3>1, <3>3
  <2> QED BY <2>1, InsertSettles
<1>4. CASE CountChunk(w)
  <2>1. job[w].tgt \in RunId /\ job[w].gen \in Nat
    BY <1>0 DEF JobType
  <2> QED BY <1>4, <2>1, UpdateSettles DEF CountChunk
<1>5. CASE Finish(w)
  <2>1. job[w].run \in RunId
    BY <1>0 DEF JobType
  <2> QED BY <1>5, <2>1, UpdateSettles DEF Finish
<1>6. CASE ~(\/ UnknownTemplate(w) \/ HandleFailedUpload(w) \/ CreateBillingRun(w)
             \/ CountChunk(w) \/ Finish(w))
  <2>1. UNCHANGED run
    BY <1>6 DEF WorkerStep, WorkerFault, Claim, ReadMetadata, LookupUpload, CheckRunFull,
       NextChunk, CapPdfs, CopyPdf, LockRun, CreateBillingRunFails, FinishFails, Raise,
       WorkerCrash
  <2> QED BY <1>1, <2>1
<1> QED BY <1>2, <1>3, <1>4, <1>5, <1>6

LEMMA RequestSettles ==
  ASSUME BatchOnly, TypeInv, LedgerInv, AccountedIsClosed, NoMove, NoRetry,
         BadRaced, raced = {}, NEW q \in Requests,
         NewRequestStep(q) \/ RequestStep(q) \/ RequestFault(q)
  PROVE  AccountedIsClosed'
<1> USE TypeSplit DEF TypeInv, LedgerInv
<1>0. req[q] \in RequestType
  BY DEF ReqOK
<1>1. ASSUME UNCHANGED run PROVE AccountedIsClosed'
  BY <1>1 DEF run, AccountedIsClosed, RL!Accounted
<1>2. CASE CommitBatch(q)
  <2>1. PICK r \in Runs : NextRun(r) /\ InsertRun(r, req[q].total)
    BY <1>2 DEF CommitBatch
  <2>2. req[q].total \in Nat \ {0}
    BY <1>0, <1>2 DEF RequestType, RequestsRefer, CommitBatch, At
  <2> QED BY <2>1, <2>2, InsertSettles
<1>3. CASE FinishBatch(q)
  <2>1. req[q].bad = {} /\ Cardinality({}) = 0
    BY FS_EmptySet DEF BadRaced
  <2>2. req[q].run \in Runs /\ rtotal[req[q].run] = req[q].total
    BY <1>3 DEF FinishBatch, At, RequestsRefer, Running
  <2>3. UNCHANGED <<rstatus, rsucc>> /\ rtotal' = rtotal /\ rfail' = rfail
    BY <1>3, <2>1, <2>2 DEF FinishBatch, RunOK
  <2> QED BY <1>1, <2>3 DEF run
<1>4. CASE FilterBatch(q) \/ StageMeta(q) \/ StageData(q) \/ StageFails(q) \/ ApiCrash(q)
  BY <1>1, <1>4 DEF FilterBatch, StageMeta, StageData, StageFails, ApiCrash
<1> QED BY <1>2, <1>3, <1>4, BatchSteps

\* A run whose accounts all have an outcome does not stay RUNNING, whoever
\* writes the last outcome: each of the writers looks at the sum in the
\* transaction that moves it (worker_queue.py:285-290, 402-405, 566-570), except
\* the end of a request, which adds the files it could not stage and looks at
\* nothing (billing.py:1198-1217).  So the theorem is about histories in which
\* no file is taken while in hand or with a stale offset and staging does not
\* fail.
THEOREM AccountedRunsClose ==
  ASSUME BatchOnly, SteadyFiles, "stage" \notin Faults
  PROVE  Spec => [](raced = {} => AccountedIsClosed)
<1> DEFINE Inv == raced = {} => AccountedIsClosed
<1>1. Init => Inv
  BY DEF Init, AccountedIsClosed
<1>2. CountsInv /\ BadRaced /\ LedgerInv /\ Inv /\ [Next]_vars => Inv'
  <2> SUFFICES ASSUME CountsInv, BadRaced, LedgerInv, Inv, [Next]_vars, raced' = {}
               PROVE  AccountedIsClosed'
    OBVIOUS
  <2>0. raced = {} /\ AccountedIsClosed
    BY NextBad
  <2>1. ASSUME NEW w \in Workers, WorkerStep(w) \/ WorkerFault(w)
        PROVE  AccountedIsClosed'
    BY <2>0, <2>1, WorkerSettles DEF CountsInv
  <2>2. ASSUME NEW q \in Requests,
               NewRequestStep(q) \/ RequestStep(q) \/ RequestFault(q)
        PROVE  AccountedIsClosed'
    BY <2>0, <2>2, RequestSettles DEF CountsInv
  <2>3. ASSUME NEW u \in Uploads, Approve(u) \/ Reject(u) PROVE AccountedIsClosed'
    BY <2>0, <2>3 DEF Approve, Reject, run, AccountedIsClosed, RL!Accounted
  <2>4. CASE UNCHANGED vars
    BY <2>0, <2>4 DEF vars, run, AccountedIsClosed, RL!Accounted
  <2> QED BY <2>1, <2>2, <2>3, <2>4 DEF Next
<1> QED BY <1>1, <1>2, BadInvariant, LedgerInvariant, PTL DEF Spec
-----------------------------------------------------------------------------
(***************************************************************************)
(* The sidecar                                                             *)
(***************************************************************************)

\* A sidecar waits beside its file, with the worker that has just claimed it, or
\* for the request that is about to put the file there.
Owned(u) ==
  \/ "incoming" \in disk[u]
  \/ \E w \in Workers : job[w].pc = "meta" /\ job[w].up = u
  \/ \E q \in Requests : req[q].pc = "data" /\ Staging(q, u)

OwnedInv == \A u \in Uploads \ raced : meta[u] # {} => Owned(u)

LEMMA WorkerOwns ==
  ASSUME "crash" \notin Faults, TypeInv, OneInstance, OwnedInv, NEW w \in Workers,
         WorkerStep(w) \/ WorkerFault(w)
  PROVE  OwnedInv'
<1> USE TypeSplit DEF TypeInv
<1>0. /\ OnlyWorker(w) /\ UNCHANGED <<req, raced>>
      /\ meta \in [Uploads -> SUBSET SidecarType] /\ disk \in [Uploads -> SUBSET Places]
  BY WorkerHolds DEF FilesOK
<1> SUFFICES ASSUME NEW u \in Uploads, u \notin raced, meta'[u] # {} PROVE Owned(u)'
  BY <1>0 DEF OwnedInv
<1>1. \A q \in Requests : Staging(q, u)' <=> Staging(q, u)
  BY <1>0 DEF Staging
<1>2. CASE Claim(w)
  <2>1. PICK v \in Uploads :
          /\ "incoming" \in disk[v] /\ disk' = [disk EXCEPT ![v] = @ \ {"incoming"}]
          /\ job'[w].pc = "meta" /\ job'[w].up = v
    BY <1>2, ClaimEffect
  <2>2. meta' = meta /\ job[w].pc = "idle"
    BY <1>2 DEF Claim
  <2>3. Owned(u)
    BY <2>2 DEF OwnedInv
  <2>4. CASE u = v
    BY <2>1, <2>4 DEF Owned
  <2>5. CASE u # v
    <3>1. disk'[u] = disk[u]
      BY <1>0, <2>1, <2>5
    <3>2. \A x \in Workers : job[x].pc = "meta" => job'[x] = job[x]
      BY <1>0, <2>2 DEF OnlyWorker
    <3> QED BY <1>0, <1>1, <2>3, <3>1, <3>2 DEF Owned
  <2> QED BY <2>4, <2>5
<1>3. CASE ReadMetadata(w)
  <2>1. /\ meta' = [meta EXCEPT ![job[w].up] = {}] /\ disk' = disk
        /\ job[w].pc = "meta" /\ job[w].up \in Uploads
    BY <1>3 DEF ReadMetadata, Holding
  <2>2. u # job[w].up /\ meta'[u] = meta[u]
    BY <1>0, <2>1
  <2>3. Owned(u)
    BY <2>2 DEF OwnedInv
  <2>4. \A x \in Workers : job[x].pc = "meta" /\ job[x].up = u => job'[x] = job[x]
    BY <1>0, <2>2 DEF OnlyWorker
  <2> QED BY <1>0, <1>1, <2>1, <2>3, <2>4 DEF Owned
<1>4. CASE ~Claim(w) /\ ~ReadMetadata(w)
  <2>1. meta' = meta
    BY <1>4 DEF WorkerStep, WorkerFault, LookupUpload, UnknownTemplate,
       CreateBillingRun, CheckRunFull, NextChunk, CapPdfs, CopyPdf, LockRun, CountChunk,
       Finish, HandleFailedUpload, CreateBillingRunFails, FinishFails, Raise,
       WorkerCrash, files
  <2>2. job[w].pc \notin {"idle", "meta"}
    BY <1>4 DEF WorkerStep, WorkerFault, LookupUpload, UnknownTemplate,
       CreateBillingRun, CheckRunFull, NextChunk, CapPdfs, CopyPdf, LockRun, CountChunk,
       Finish, HandleFailedUpload, CreateBillingRunFails, FinishFails, Raise,
       WorkerCrash, Fault
  <2>3. Owned(u)
    BY <2>1 DEF OwnedInv
  <2>4. ~Holds(w, u)
    <3>1. ASSUME Holds(w, u) PROVE FALSE
      <4>1. /\ "incoming" \notin disk[u] /\ \A x \in Workers : Holds(x, u) => x = w
            /\ \A q \in Requests : ~Queuing(q, u)
        BY <3>1 DEF OneInstance
      <4>2. \A x \in Workers : ~(job[x].pc = "meta" /\ job[x].up = u)
        BY <2>2, <4>1 DEF Holds
      <4>3. \A q \in Requests : ~(req[q].pc = "data" /\ Staging(q, u))
        BY <4>1 DEF Queuing, Staging
      <4> QED BY <2>3, <4>1, <4>2, <4>3 DEF Owned
    <3> QED BY <3>1
  <2>5. disk'[u] = disk[u]
    BY <1>4, <2>4, WorkerTouches DEF SameFile
  <2>6. \A x \in Workers : job[x].pc = "meta" => job'[x] = job[x]
    BY <1>0, <2>2 DEF OnlyWorker
  <2> QED BY <1>0, <1>1, <2>3, <2>5, <2>6 DEF Owned
<1> QED BY <1>2, <1>3, <1>4

LEMMA RequestOwns ==
  ASSUME BatchOnly, SteadyFiles, "stage" \notin Faults, "apicrash" \notin Faults,
         CountsInv, OwnedInv, NEW q \in Requests,
         NewRequestStep(q) \/ RequestStep(q) \/ RequestFault(q)
  PROVE  OwnedInv'
<1> USE TypeSplit DEF CountsInv, TypeInv
<1>0. /\ OnlyRequest(q) /\ job' = job /\ raced \subseteq raced'
      /\ \A u \in Uploads : disk[u] \subseteq disk'[u]
      /\ meta \in [Uploads -> SUBSET SidecarType] /\ disk \in [Uploads -> SUBSET Places]
      /\ ReqOK
  BY RequestQueues, RequestTouches DEF FilesOK
<1> SUFFICES ASSUME NEW u \in Uploads, u \notin raced', meta'[u] # {} PROVE Owned(u)'
  BY <1>0 DEF OwnedInv
<1>1. u \notin raced
  BY <1>0
<1>2. \A p \in Requests \ {q} : req[p].pc = "data" /\ Staging(p, u) =>
                                  req'[p].pc = "data" /\ Staging(p, u)'
  BY <1>0 DEF OnlyRequest, Staging
<1>3. ASSUME meta'[u] = meta[u], ~(req[q].pc = "data" /\ Staging(q, u))
      PROVE  Owned(u)'
  <2>1. Owned(u)
    BY <1>1, <1>3 DEF OwnedInv
  <2> QED BY <1>0, <1>2, <1>3, <2>1 DEF Owned
<1>4. CASE StageMeta(q)
  <2>1. PICK v \in Uploads :
          /\ Staging(q, v) /\ meta' = [meta EXCEPT ![v] = {Sidecar(q, v)}]
          /\ req[q].pc = "meta" /\ req'[q].pc = "data" /\ req'[q].todo = req[q].todo
    BY <1>4, StageMetaEffect
  <2>2. CASE u = v
    BY <2>1, <2>2 DEF Owned, Staging
  <2>3. CASE u # v
    BY <1>0, <1>3, <2>1, <2>3
  <2> QED BY <2>2, <2>3
<1>5. CASE StageData(q)
  <2>1. PICK v \in Uploads :
          /\ Staging(q, v)
          /\ IF req[q].src[v] = "incoming" \/ req[q].src[v] \notin disk[v]
             THEN UNCHANGED disk
             ELSE disk' = [disk EXCEPT ![v] = @ \cup {"incoming"}]
    BY <1>5 DEF StageData
  <2>2. meta' = meta /\ req[q].pc = "data"
    BY <1>5 DEF StageData, At
  <2>3. CASE Staging(q, u)
    <3>1. u <= v /\ v <= u
      BY <2>1, <2>3 DEF Staging
    <3>2. u = v
      BY <3>1, QueueAssumption
    <3>3. ChosenOK(q, u)
      BY <1>1, <2>2, <2>3 DEF CountInv, FileOK, Chooses, Staging
    <3>4. req[q].src[u] \in disk[u] \ {"incoming"}
      BY <2>2, <3>3 DEF ChosenOK
    <3>5. "incoming" \in disk'[u]
      BY <1>0, <2>1, <3>2, <3>4
    <3> QED BY <3>5 DEF Owned
  <2>4. CASE ~Staging(q, u)
    BY <1>3, <2>2, <2>4
  <2> QED BY <2>3, <2>4
<1>6. CASE FilterBatch(q) \/ CommitBatch(q) \/ FinishBatch(q)
  <2>1. meta' = meta /\ req[q].pc # "data"
    BY <1>6 DEF FilterBatch, CommitBatch, FinishBatch, At, files
  <2> QED BY <1>3, <2>1
<1>7. ~StageFails(q) /\ ~ApiCrash(q)
  BY DEF StageFails, ApiCrash, Fault
<1> QED BY <1>4, <1>5, <1>6, <1>7, BatchSteps

\* As long as no process dies and staging does not fail, no sidecar outlives its
\* file: none is left for a later claim to take for its own, with an offset and
\* a run that are not its own (billing.py:1165-1196, worker_queue.py:474-503).
\* Files taken while in hand or with a stale offset are exempt (raced).
THEOREM SidecarsOwned ==
  ASSUME BatchOnly, SteadyFiles, "stage" \notin Faults, "apicrash" \notin Faults,
         "crash" \notin Faults
  PROVE  Spec => []SidecarOwned
<1>1. Init => OwnedInv
  BY DEF Init, OwnedInv
<1>2. CountsInv /\ OwnedInv /\ [Next]_vars => OwnedInv'
  <2> SUFFICES ASSUME CountsInv, OwnedInv, [Next]_vars PROVE OwnedInv'
    OBVIOUS
  <2>1. ASSUME NEW w \in Workers, WorkerStep(w) \/ WorkerFault(w) PROVE OwnedInv'
    BY <2>1, WorkerOwns DEF CountsInv
  <2>2. ASSUME NEW u \in Uploads, Approve(u) \/ Reject(u) PROVE OwnedInv'
    BY <2>2 DEF Approve, Reject, files, history, OwnedInv, Owned, Staging
  <2>3. CASE UNCHANGED vars
    BY <2>3 DEF vars, files, history, OwnedInv, Owned, Staging
  <2> QED BY <2>1, <2>2, <2>3, RequestOwns DEF Next
<1>3. OwnedInv => SidecarOwned
  BY DEF OwnedInv, Owned, Staging, SidecarOwned
<1> QED BY <1>1, <1>2, <1>3, CountsInvariant, PTL DEF Spec
-----------------------------------------------------------------------------
(***************************************************************************)
(* What was printed of a file                                              *)
(***************************************************************************)

Copying == {"copy", "count", "write"}

\* The documents of its chunk that the worker has copied so far.
CopiedBy(w) == IF job[w].pc \in Copying THEN Chunk(w) \ job[w].pdfs ELSE {}

Once(u) == \A d \in DOMAIN Docs[u] : printed[<<u, d>>] <= 1

\* The worker that holds the file has printed what its chunk has lost to the
\* output, and nobody has printed anything else beyond what was counted.
HeldPrints(w, u) ==
  /\ job[w].pc # "failed"
  /\ Printed(u) = Done(u) \cup CopiedBy(w)
  /\ job[w].pc \in Copying => job[w].pdfs \subseteq Chunk(w)
  /\ job[w].pc \in {"count", "write"} => job[w].pdfs = {}

PrintsOK(u) ==
  /\ Once(u)
  /\ Idle(u) => Printed(u) = Done(u)
  /\ \A w \in Workers : Holds(w, u) => HeldPrints(w, u)

PrintInv == \A u \in Uploads \ raced : PrintsOK(u)

SamePrints(u) ==
  /\ processed'[u] = processed[u]
  /\ \A d \in DOMAIN Docs[u] : printed'[<<u, d>>] = printed[<<u, d>>]

LEMMA SamePrinted ==
  ASSUME NEW u \in Uploads, SamePrints(u), PrintsOK(u)
  PROVE  Printed(u)' = Printed(u) /\ Done(u)' = Done(u) /\ Once(u)'
BY DEF SamePrints, PrintsOK, Printed, Done, Wanted, Once

\* The file is held by the same workers, which do nothing to it.
LEMMA PrintsKept ==
  ASSUME NEW u \in Uploads, SamePrints(u), PrintsOK(u),
         \A w \in Workers : (Holds(w, u)' <=> Holds(w, u))
                            /\ (Holds(w, u) => job'[w] = job[w])
  PROVE  PrintsOK(u)'
<1>1. Printed(u)' = Printed(u) /\ Done(u)' = Done(u) /\ Once(u)'
  BY SamePrinted
<1>2. Idle(u)' => Printed(u)' = Done(u)'
  BY <1>1 DEF PrintsOK, Idle
<1>3. \A w \in Workers : Holds(w, u)' => HeldPrints(w, u)'
  BY <1>1 DEF PrintsOK, HeldPrints, CopiedBy, Chunk
<1> QED BY <1>1, <1>2, <1>3 DEF PrintsOK

\* The one worker that holds the file goes on, and lets go only when it has
\* copied nothing it has not counted.
LEMMA HolderPrints ==
  ASSUME OneInstance, NEW u \in Uploads, u \notin raced, NEW w \in Workers, Holds(w, u),
         OnlyWorker(w), Once(u)',
         \/ job'[w].pc = "idle" /\ Printed(u)' = Done(u)'
         \/ job'[w].up = u /\ HeldPrints(w, u)'
  PROVE  PrintsOK(u)'
<1>1. \A x \in Workers : x # w => ~Holds(x, u)'
  BY DEF OneInstance, OnlyWorker, Holds
<1>2. Idle(u)' => Printed(u)' = Done(u)'
  BY DEF Idle, Holds, HeldPrints, CopiedBy, Copying
<1>3. \A x \in Workers : Holds(x, u)' => HeldPrints(x, u)'
  BY <1>1 DEF Holds
<1> QED BY <1>2, <1>3 DEF PrintsOK

\* A step of w prints no document but one of its own file.
LEMMA WorkerPrintsOwn ==
  ASSUME TypeInv, NEW w \in Workers, WorkerStep(w) \/ WorkerFault(w),
         NEW u \in Uploads, ~Holds(w, u)
  PROVE  \A d \in DOMAIN Docs[u] : printed'[<<u, d>>] = printed[<<u, d>>]
<1> USE TypeSplit DEF TypeInv
<1>1. CASE CopyPdf(w)
  <2>1. PICK e \in job[w].pdfs : printed' = [printed EXCEPT ![<<job[w].up, e>>] = @ + 1]
    BY <1>1, CopyEffect
  <2>2. job[w].up # u
    BY <1>1 DEF CopyPdf, Holds
  <2>3. \A d \in DOMAIN Docs[u] : <<u, d>> \in DocIds
    BY DEF DocIds
  <2> QED BY <2>1, <2>2, <2>3 DEF HistoryOK
<1>2. CASE ~CopyPdf(w)
  <2>1. printed' = printed
    BY <1>2 DEF WorkerStep, WorkerFault, Claim, ReadMetadata, LookupUpload,
       UnknownTemplate, CreateBillingRun, CheckRunFull, NextChunk, CapPdfs, LockRun,
       CountChunk, Finish, HandleFailedUpload, CreateBillingRunFails, FinishFails, Raise,
       WorkerCrash, history
  <2> QED BY <2>1
<1> QED BY <1>1, <1>2

\* The next document of the chunk: it was neither counted nor copied yet.
LEMMA CopyPrints ==
  ASSUME TypeInv, NEW u \in Uploads, FileOK(u), PrintsOK(u), NEW w \in Workers,
         Holds(w, u), CopyPdf(w)
  PROVE  Once(u)' /\ HeldPrints(w, u)' /\ job'[w].up = u
<1> USE TypeSplit DEF TypeInv
<1>0. job[w].up = u /\ job[w].pc = "copy" /\ printed \in [DocIds -> Nat]
  BY DEF Holds, CopyPdf, HistoryOK
<1>1. PICK d \in job[w].pdfs :
        /\ printed' = [printed EXCEPT ![<<u, d>>] = @ + 1]
        /\ job'[w].up = u /\ job'[w].rend = job[w].rend /\ job'[w].gen = job[w].gen
        /\ job'[w].pdfs = job[w].pdfs \ {d}
        /\ job'[w].pc = (IF job[w].pdfs \ {d} = {} THEN "count" ELSE "copy")
  BY <1>0, CopyEffect
<1>2. /\ Initial(Chunk(w), Wanted(u) \ Done(u)) /\ job[w].pdfs \subseteq Chunk(w)
      /\ Wanted(u) \subseteq DOMAIN Docs[u]
      /\ Printed(u) = Done(u) \cup (Chunk(w) \ job[w].pdfs) /\ Once(u)
  BY <1>0, ChunkNext, WantedType DEF PrintsOK, HeldPrints, CopiedBy, Copying
<1>3. d \in DOMAIN Docs[u] /\ d \notin Printed(u) /\ d \in Chunk(w)
  BY <1>2 DEF Initial
<1>4. \A e \in DOMAIN Docs[u] :
        /\ <<u, e>> \in DocIds /\ printed[<<u, e>>] \in Nat
        /\ printed'[<<u, e>>] = IF e = d THEN printed[<<u, e>>] + 1 ELSE printed[<<u, e>>]
  <2>1. \A e \in DOMAIN Docs[u] : <<u, e>> \in DocIds
    BY DEF DocIds
  <2> QED BY <1>0, <1>1, <2>1
<1>5. Printed(u)' = Printed(u) \cup {d}
  BY <1>3, <1>4 DEF Printed
<1>6. Once(u)'
  <2>1. printed[<<u, d>>] = 0
    BY <1>3, <1>4 DEF Printed
  <2> QED BY <1>2, <1>4, <2>1 DEF Once
<1>7. Chunk(w)' = Chunk(w)
  BY <1>1 DEF Chunk
<1>8. Done(u)' = Done(u)
  BY DEF CopyPdf, row, Done, Wanted
<1>9. CopiedBy(w)' = CopiedBy(w) \cup {d}
  BY <1>0, <1>1, <1>3, <1>7 DEF CopiedBy, Copying
<1>10. Printed(u)' = Done(u)' \cup CopiedBy(w)'
  BY <1>2, <1>5, <1>8, <1>9, <1>0 DEF CopiedBy, Copying
<1>11. job'[w].pc \in {"copy", "count"} /\ (job'[w].pc = "count" => job'[w].pdfs = {})
  BY <1>1
<1> QED BY <1>1, <1>2, <1>6, <1>7, <1>10, <1>11 DEF HeldPrints

\* Every other step of the worker on its file.
LEMMA HolderPrintsRest ==
  ASSUME "raise" \notin Faults, "crash" \notin Faults, TypeInv, SteadyFiles,
         NEW u \in Uploads, FileOK(u), PrintsOK(u), NEW w \in Workers, Holds(w, u),
         WorkerStep(w) \/ WorkerFault(w), ~CopyPdf(w),
         Once(u)', Printed(u)' = Printed(u),
         ~CountChunk(w) => Done(u)' = Done(u)
  PROVE  \/ job'[w].pc = "idle" /\ Printed(u)' = Done(u)'
         \/ job'[w].up = u /\ HeldPrints(w, u)'
<1> USE TypeSplit DEF TypeInv
<1>0. /\ job[w].up = u /\ job[w] \in JobType /\ JobOK
      /\ HeldPrints(w, u) /\ job[w].pc # "failed"
  BY DEF Holds, JobOK, PrintsOK, HeldPrints
<1>1. ASSUME ~CountChunk(w), job[w].pc \notin Copying, job'[w].up = u,
             job'[w].pc \notin Copying, job'[w].pc # "failed"
      PROVE  HeldPrints(w, u)'
  BY <1>0, <1>1 DEF HeldPrints, CopiedBy, Copying
<1>2. CASE \/ UnknownTemplate(w) \/ Finish(w) \/ FinishFails(w)
           \/ (CheckRunFull(w) /\ Release(w))
  <2>1. job'[w].pc = "idle"
    BY <1>0, <1>2, ReleaseEffect, IdleFields DEF UnknownTemplate, Finish, FinishFails
  <2>2. job[w].pc \notin Copying /\ ~CountChunk(w)
    BY <1>2 DEF UnknownTemplate, Finish, FinishFails, CheckRunFull, CountChunk, Copying
  <2> QED BY <1>0, <2>1, <2>2 DEF HeldPrints, CopiedBy
<1>3. CASE ReadMetadata(w) \/ LookupUpload(w) \/ CreateBillingRun(w) \/ NextChunk(w)
  <2>1. /\ job'[w].up = u /\ job'[w].pc \in {"lookup", "unknown", "open", "gate", "finish", "cap"}
    BY <1>0, <1>3, MetadataEffect, LookupEffect, OpenEffect, ChunkEffect
  <2>2. job[w].pc \notin Copying /\ ~CountChunk(w)
    BY <1>3 DEF ReadMetadata, LookupUpload, CreateBillingRun, NextChunk, CountChunk, Copying
  <2>3. job'[w].pc \notin Copying /\ job'[w].pc # "failed"
    BY <2>1 DEF Copying
  <2> QED BY <1>1, <2>1, <2>2, <2>3
<1>4. CASE CreateBillingRunFails(w) \/ (CheckRunFull(w) /\ ~Release(w))
  <2>1. \E pc \in {"gate", "loop"} : Goto(w, pc)
    BY <1>4 DEF CreateBillingRunFails, CheckRunFull
  <2>2. /\ job'[w].up = u /\ job'[w].pc \in {"gate", "loop"}
    BY <1>0, <2>1, GotoEffect
  <2>3. job[w].pc \notin Copying /\ ~CountChunk(w)
    BY <1>4 DEF CreateBillingRunFails, CheckRunFull, CountChunk, Copying
  <2>4. job'[w].pc \notin Copying /\ job'[w].pc # "failed"
    BY <2>2 DEF Copying
  <2> QED BY <1>1, <2>2, <2>3, <2>4
<1>5. CASE CapPdfs(w)
  <2> DEFINE pdfs == FirstOf(job[w].rend, ChunkLeft(w))
  <2>1. job[w].pc = "cap" /\ ~CountChunk(w)
    BY <1>5 DEF CapPdfs, CountChunk
  <2>2. /\ job'[w].up = u /\ job'[w].rend = job[w].rend
        /\ \/ job'[w].pc = "finish"
           \/ /\ job'[w].pc = "copy" /\ job'[w].pdfs = pdfs
              /\ job'[w].gen = Cardinality(pdfs)
    BY <1>0, <1>5, CapEffect
  <2>3. ChunkLeft(w) \in Int
    <3>1. job[w].rem \in Int /\ job[w].run \in RunId
      BY <1>0 DEF JobType
    <3> QED BY <3>1, RoomType DEF ChunkLeft, SmallerOf, RunId
  <2>4. job[w].rend \in SUBSET Nat /\ IsFiniteSet(job[w].rend)
    BY <1>0, <2>1, SubsetCount DEF Holding
  <2>5. FirstOf(job[w].rend, Cardinality(pdfs)) = pdfs
    BY <2>3, <2>4, FirstIsInitial, InitialIsFirst
  <2> HIDE DEF pdfs
  <2>6. CASE job'[w].pc = "finish"
    BY <1>1, <2>1, <2>2, <2>6 DEF Copying
  <2>7. CASE job'[w].pc = "copy"
    <3>1. Chunk(w)' = job'[w].pdfs
      BY <2>2, <2>5, <2>7 DEF Chunk
    <3>2. CopiedBy(w)' = {} /\ CopiedBy(w) = {}
      BY <2>1, <3>1 DEF CopiedBy, Copying
    <3> QED BY <1>0, <2>1, <2>2, <2>7, <3>1, <3>2 DEF HeldPrints
  <2> QED BY <2>2, <2>6, <2>7
<1>6. CASE LockRun(w)
  <2>1. /\ job[w].pc = "count" /\ ~CountChunk(w) /\ job'[w].pc = "write"
        /\ job'[w].up = u /\ job'[w].rend = job[w].rend /\ job'[w].gen = job[w].gen
        /\ job'[w].pdfs = job[w].pdfs
    BY <1>0, <1>6, LockEffect DEF LockRun, CountChunk
  <2>2. CopiedBy(w)' = CopiedBy(w) /\ Chunk(w)' = Chunk(w)
    BY <2>1 DEF CopiedBy, Copying, Chunk
  <2> QED BY <1>0, <2>1, <2>2 DEF HeldPrints, Copying
<1>7. CASE CountChunk(w)
  <2>1. Done(u)' = Done(u) \cup Chunk(w) /\ job'[w].pc = "loop"
    BY <1>7, HolderCounts
  <2>2. job'[w].up = u /\ job[w].pc = "write"
    BY <1>0, <1>7, CountEffect DEF CountChunk
  <2>3. CopiedBy(w) = Chunk(w)
    BY <1>0, <2>2 DEF HeldPrints, CopiedBy, Copying
  <2>4. CopiedBy(w)' = {} /\ job'[w].pc \notin Copying
    BY <2>1 DEF CopiedBy, Copying
  <2> QED BY <1>0, <2>1, <2>2, <2>3, <2>4 DEF HeldPrints, Copying
<1>8. ~(Claim(w) \/ HandleFailedUpload(w) \/ Raise(w) \/ WorkerCrash(w))
  BY <1>0 DEF Claim, HandleFailedUpload, Raise, WorkerCrash, Fault, Holds
<1> QED BY <1>2, <1>3, <1>4, <1>5, <1>6, <1>7, <1>8 DEF WorkerStep, WorkerFault

LEMMA WorkerPrints ==
  ASSUME "raise" \notin Faults, "crash" \notin Faults, SteadyFiles, CountsInv, PrintInv,
         NEW w \in Workers, WorkerStep(w) \/ WorkerFault(w)
  PROVE  PrintInv'
<1> USE DEF CountsInv
<1>0. /\ OnlyWorker(w) /\ UNCHANGED <<req, raced>>
      /\ \/ Claim(w) \/ job'[w].pc = "idle"
         \/ job[w].pc # "idle" /\ job'[w].up = job[w].up
  BY WorkerHolds
<1> SUFFICES ASSUME NEW u \in Uploads, u \notin raced PROVE PrintsOK(u)'
  BY <1>0 DEF PrintInv
<1>1. PrintsOK(u) /\ FileOK(u)
  BY DEF PrintInv, CountInv
<1>2. CASE ~Holds(w, u)
  <2>1. \A d \in DOMAIN Docs[u] : printed'[<<u, d>>] = printed[<<u, d>>]
    BY <1>2, WorkerPrintsOwn
  <2>2. processed'[u] = processed[u]
    <3>1. CASE Claim(w)
      BY <3>1 DEF Claim, row
    <3>2. CASE ~Claim(w)
      BY <1>2, <3>2, WorkerTouches DEF SameFile
    <3> QED BY <3>1, <3>2
  <2>3. CASE ~Holds(w, u)'
    BY <1>0, <1>1, <1>2, <2>1, <2>2, <2>3, PrintsKept DEF SamePrints, OnlyWorker, Holds
  <2>4. CASE Holds(w, u)'
    <3>1. Claim(w) /\ job'[w].pc = "meta" /\ job'[w].up = u
      BY <1>0, <1>2, <2>4, ClaimEffect DEF Holds
    <3>2. "incoming" \in disk[u]
      BY <3>1, ClaimEffect
    <3>3. Idle(u)
      BY <3>2 DEF OneInstance, Idle
    <3>4. Printed(u)' = Printed(u) /\ Done(u)' = Done(u) /\ Once(u)'
      BY <1>1, <2>1, <2>2, SamePrinted DEF SamePrints
    <3>5. HeldPrints(w, u)'
      BY <1>1, <3>1, <3>3, <3>4 DEF HeldPrints, PrintsOK, CopiedBy, Copying
    <3>6. \A x \in Workers : Holds(x, u)' => x = w
      BY <1>0, <3>3 DEF Idle, OnlyWorker, Holds
    <3> QED BY <2>4, <3>4, <3>5, <3>6 DEF PrintsOK, Idle
  <2> QED BY <2>3, <2>4
<1>3. CASE Holds(w, u) /\ CopyPdf(w)
  BY <1>0, <1>1, <1>3, CopyPrints, HolderPrints
<1>4. CASE Holds(w, u) /\ ~CopyPdf(w)
  <2>1. printed' = printed
    BY <1>4 DEF WorkerStep, WorkerFault, Claim, ReadMetadata, LookupUpload,
       UnknownTemplate, CreateBillingRun, CheckRunFull, NextChunk, CapPdfs, LockRun,
       CountChunk, Finish, HandleFailedUpload, CreateBillingRunFails, FinishFails, Raise,
       WorkerCrash, history
  <2>2. Printed(u)' = Printed(u) /\ Once(u)'
    BY <1>1, <2>1 DEF Printed, Once, PrintsOK
  <2>3. ASSUME ~CountChunk(w) PROVE Done(u)' = Done(u)
    <3>1. processed' = processed
      BY <1>4, <2>3 DEF WorkerStep, WorkerFault, Claim, ReadMetadata, LookupUpload,
       UnknownTemplate, CreateBillingRun, CheckRunFull, NextChunk, CapPdfs, LockRun,
       Finish, HandleFailedUpload, CreateBillingRunFails, FinishFails, Raise,
       WorkerCrash, row
    <3> QED BY <3>1 DEF Done, Wanted
  <2>4. \/ job'[w].pc = "idle" /\ Printed(u)' = Done(u)'
        \/ job'[w].up = u /\ HeldPrints(w, u)'
    BY <1>1, <1>4, <2>2, <2>3, HolderPrintsRest
  <2> QED BY <1>0, <1>4, <2>2, <2>4, HolderPrints
<1> QED BY <1>2, <1>3, <1>4

PrintsInv == CountsInv /\ PrintInv

LEMMA PrintsInvariant ==
  ASSUME BatchOnly, SteadyFiles, "raise" \notin Faults, "crash" \notin Faults
  PROVE  Spec => []PrintsInv
<1>1. Init => PrintInv
  <2> SUFFICES ASSUME Init, NEW u \in Uploads PROVE PrintsOK(u)
    BY DEF PrintInv
  <2>1. Done(u) = {}
    <3>1. processed[u] = 0
      BY DEF Init
    <3> QED BY <3>1, DoneNone DEF Done
  <2>2. \A d \in DOMAIN Docs[u] : printed[<<u, d>>] = 0
    <3>1. \A d \in DOMAIN Docs[u] : <<u, d>> \in DocIds
      BY DEF DocIds
    <3> QED BY <3>1 DEF Init
  <2>3. Printed(u) = {} /\ Once(u)
    BY <2>2 DEF Printed, Once
  <2>4. \A w \in Workers : ~Holds(w, u)
    BY IdleFields DEF Init, Holds
  <2> QED BY <2>1, <2>3, <2>4 DEF PrintsOK
<1>2. CountsInv /\ PrintInv /\ [Next]_vars => PrintInv'
  <2> SUFFICES ASSUME CountsInv, PrintInv, [Next]_vars PROVE PrintInv'
    OBVIOUS
  <2>1. ASSUME UNCHANGED <<processed, printed, job>>, raced \subseteq raced'
        PROVE  PrintInv'
    <3> SUFFICES ASSUME NEW u \in Uploads, u \notin raced PROVE PrintsOK(u)'
      BY <2>1 DEF PrintInv
    <3>1. PrintsOK(u) /\ SamePrints(u)
      BY <2>1 DEF PrintInv, SamePrints
    <3> QED BY <2>1, <3>1, PrintsKept DEF Holds
  <2>2. ASSUME NEW w \in Workers, WorkerStep(w) \/ WorkerFault(w) PROVE PrintInv'
    BY <2>2, WorkerPrints
  <2>3. ASSUME NEW q \in Requests,
               NewRequestStep(q) \/ RequestStep(q) \/ RequestFault(q)
        PROVE  PrintInv'
    <3>1. job' = job /\ raced \subseteq raced' /\ processed' = processed
      BY <2>3, RequestQueues, RequestTouches DEF CountsInv
    <3>2. printed' = printed
      BY <2>3, BatchSteps DEF CountsInv, FilterBatch, CommitBatch, StageMeta, StageData,
         StageFails, FinishBatch, ApiCrash, history
    <3> QED BY <2>1, <3>1, <3>2
  <2>4. ASSUME NEW u \in Uploads, Approve(u) \/ Reject(u) PROVE PrintInv'
    BY <2>1, <2>4 DEF Approve, Reject, history
  <2>5. CASE UNCHANGED vars
    BY <2>1, <2>5 DEF vars, row, history
  <2> QED BY <2>2, <2>3, <2>4, <2>5 DEF Next
<1> QED BY <1>1, <1>2, CountsInvariant, PTL DEF Spec, PrintsInv

\* No document of a file is printed twice, over any number of limits, chunks,
\* runs and workers, as long as no request takes the file while it is in hand or
\* with an offset that is stale at the commit (billing.py:1169; the code does
\* print twice then): the offset each of them starts from stands behind
\* everything that was printed (billing.py:315-470, worker_queue.py:474-503,
\* 640-791).  Between the copy of a chunk and its count nothing may fail: a
\* worker that dies or raises there leaves documents in the output that no
\* counter knows of.
THEOREM PrintedOnce ==
  ASSUME BatchOnly, SteadyFiles, "raise" \notin Faults, "crash" \notin Faults
  PROVE  Spec => []NoDocumentTwice
<1>1. PrintsInv => NoDocumentTwice
  BY DEF PrintsInv, PrintInv, PrintsOK, Once, NoDocumentTwice
<1> QED BY <1>1, PrintsInvariant, PTL
-----------------------------------------------------------------------------
(***************************************************************************)
(* What is counted was printed, whatever fails                             *)
(***************************************************************************)

\* What the worker has copied of its chunk is in the output, and it goes to the
\* count only when all of it is.
HeldWhole(w, u) ==
  /\ CopiedBy(w) \subseteq Printed(u)
  /\ job[w].pc \in {"count", "write"} => job[w].pdfs = {}

WholeOK(u) ==
  /\ Done(u) \subseteq Printed(u)
  /\ \A w \in Workers : Holds(w, u) => HeldWhole(w, u)

WholeInv == \A u \in Uploads \ raced : WholeOK(u)

\* A document that is in the output stays there.
LEMMA WorkerKeepsPrints ==
  ASSUME TypeInv, NEW w \in Workers, WorkerStep(w) \/ WorkerFault(w), NEW u \in Uploads
  PROVE  Printed(u) \subseteq Printed(u)'
<1> USE TypeSplit DEF TypeInv
<1>1. CASE CopyPdf(w)
  <2>1. PICK e \in job[w].pdfs : printed' = [printed EXCEPT ![<<job[w].up, e>>] = @ + 1]
    BY <1>1, CopyEffect
  <2>2. printed \in [DocIds -> Nat] /\ \A d \in DOMAIN Docs[u] : <<u, d>> \in DocIds
    BY DEF HistoryOK, DocIds
  <2>3. \A d \in DOMAIN Docs[u] : printed[<<u, d>>] > 0 => printed'[<<u, d>>] > 0
    BY <2>1, <2>2
  <2> QED BY <2>3 DEF Printed
<1>2. CASE ~CopyPdf(w)
  <2>1. printed' = printed
    BY <1>2 DEF WorkerStep, WorkerFault, Claim, ReadMetadata, LookupUpload,
       UnknownTemplate, CreateBillingRun, CheckRunFull, NextChunk, CapPdfs, LockRun,
       CountChunk, Finish, HandleFailedUpload, CreateBillingRunFails, FinishFails, Raise,
       WorkerCrash, history
  <2> QED BY <2>1 DEF Printed
<1> QED BY <1>1, <1>2

\* Only the transaction that counts a chunk moves the counter.
LEMMA OnlyCountMoves ==
  ASSUME NEW w \in Workers, WorkerStep(w) \/ WorkerFault(w), ~CountChunk(w)
  PROVE  processed' = processed
BY DEF WorkerStep, WorkerFault, Claim, ReadMetadata, LookupUpload, UnknownTemplate,
       CreateBillingRun, CheckRunFull, NextChunk, CapPdfs, CopyPdf, LockRun, Finish,
       HandleFailedUpload, CreateBillingRunFails, FinishFails, Raise, WorkerCrash, row

\* What the worker's own step makes of the chunk it holds.
LEMMA HolderWhole ==
  ASSUME TypeInv, SteadyFiles, NEW u \in Uploads, FileOK(u), WholeOK(u),
         NEW w \in Workers, Holds(w, u), WorkerStep(w) \/ WorkerFault(w)
  PROVE  Done(u)' \subseteq Printed(u)' /\ (job'[w].pc \notin Copying \/ HeldWhole(w, u)')
<1> USE TypeSplit DEF TypeInv
<1>0. /\ job[w].up = u /\ job[w] \in JobType /\ JobOK /\ HeldWhole(w, u)
      /\ Printed(u) \subseteq Printed(u)' /\ Done(u) \subseteq Printed(u)
  BY WorkerKeepsPrints DEF Holds, JobOK, WholeOK
<1>1. ASSUME ~CountChunk(w) PROVE Done(u)' \subseteq Printed(u)'
  BY <1>0, <1>1, OnlyCountMoves DEF Done, Wanted
<1>2. CASE CopyPdf(w)
  <2>1. job[w].pc = "copy" /\ ~CountChunk(w) /\ printed \in [DocIds -> Nat]
    BY <1>2 DEF CopyPdf, CountChunk, HistoryOK
  <2>2. PICK d \in job[w].pdfs :
          /\ printed' = [printed EXCEPT ![<<u, d>>] = @ + 1]
          /\ job'[w].rend = job[w].rend /\ job'[w].gen = job[w].gen
          /\ job'[w].pdfs = job[w].pdfs \ {d}
          /\ job'[w].pc = (IF job[w].pdfs \ {d} = {} THEN "count" ELSE "copy")
    BY <1>0, <1>2, CopyEffect
  <2>3. Chunk(w)' = Chunk(w) /\ Chunk(w) \in SUBSET (DOMAIN Docs[u])
    BY <1>0, <2>1, <2>2, ChunkNext, WantedType DEF Chunk, Initial
  <2>4. d \in DOMAIN Docs[u] => d \in Printed(u)'
    <3>1. ASSUME d \in DOMAIN Docs[u] PROVE printed'[<<u, d>>] > 0
      <4>1. <<u, d>> \in DocIds
        BY <3>1 DEF DocIds
      <4> QED BY <2>1, <2>2, <4>1
    <3> QED BY <3>1 DEF Printed
  <2>5. CopiedBy(w)' \subseteq CopiedBy(w) \cup (Chunk(w) \cap {d})
    BY <2>1, <2>2, <2>3 DEF CopiedBy, Copying
  <2>6. CopiedBy(w)' \subseteq Printed(u)'
    BY <1>0, <2>3, <2>4, <2>5 DEF HeldWhole
  <2>7. job'[w].pc \in {"count", "write"} => job'[w].pdfs = {}
    BY <2>2
  <2> QED BY <1>1, <2>1, <2>6, <2>7 DEF HeldWhole
<1>3. CASE CapPdfs(w)
  <2> DEFINE pdfs == FirstOf(job[w].rend, ChunkLeft(w))
  <2>1. job[w].pc = "cap" /\ ~CountChunk(w)
    BY <1>3 DEF CapPdfs, CountChunk
  <2>2. /\ job'[w].rend = job[w].rend
        /\ \/ job'[w].pc = "finish"
           \/ /\ job'[w].pc = "copy" /\ job'[w].pdfs = pdfs
              /\ job'[w].gen = Cardinality(pdfs)
    BY <1>0, <1>3, CapEffect
  <2>3. ChunkLeft(w) \in Int
    <3>1. job[w].rem \in Int /\ job[w].run \in RunId
      BY <1>0 DEF JobType
    <3> QED BY <3>1, RoomType DEF ChunkLeft, SmallerOf, RunId
  <2>4. job[w].rend \in SUBSET Nat /\ IsFiniteSet(job[w].rend)
    BY <1>0, <2>1, SubsetCount DEF JobOK, Holding
  <2>5. FirstOf(job[w].rend, Cardinality(pdfs)) = pdfs
    BY <2>3, <2>4, FirstIsInitial, InitialIsFirst
  <2> HIDE DEF pdfs
  <2>6. job'[w].pc = "copy" => Chunk(w)' = job'[w].pdfs
    BY <2>2, <2>5 DEF Chunk
  <2>7. job'[w].pc = "copy" => CopiedBy(w)' = {}
    BY <2>6 DEF CopiedBy
  <2>8. job'[w].pc \notin Copying \/ HeldWhole(w, u)'
    BY <2>2, <2>7 DEF HeldWhole, Copying
  <2> QED BY <1>1, <2>1, <2>8
<1>4. CASE LockRun(w)
  <2>1. /\ job[w].pc = "count" /\ ~CountChunk(w) /\ job'[w].pc = "write"
        /\ job'[w].rend = job[w].rend /\ job'[w].gen = job[w].gen
        /\ job'[w].pdfs = job[w].pdfs
    BY <1>0, <1>4, LockEffect DEF LockRun, CountChunk
  <2>2. CopiedBy(w)' = CopiedBy(w)
    BY <2>1 DEF CopiedBy, Copying, Chunk
  <2>3. job'[w].pdfs = {}
    BY <1>0, <2>1 DEF HeldWhole
  <2> QED BY <1>0, <1>1, <2>1, <2>2, <2>3 DEF HeldWhole
<1>5. CASE CountChunk(w)
  <2>1. Done(u)' = Done(u) \cup Chunk(w) /\ job'[w].pc = "loop"
    BY <1>5, HolderCounts
  <2>2. job[w].pc = "write"
    BY <1>5 DEF CountChunk
  <2>3. Chunk(w) \subseteq Printed(u)
    BY <1>0, <2>2 DEF HeldWhole, CopiedBy, Copying
  <2> QED BY <1>0, <2>1, <2>3 DEF Copying
<1>6. CASE ~(CopyPdf(w) \/ CapPdfs(w) \/ LockRun(w) \/ CountChunk(w))
  <2>1. CASE \E pc \in {"failed", "gate", "loop", "finish"} : Goto(w, pc)
    <3>1. job'[w].pc \notin Copying
      BY <1>0, <2>1, GotoEffect DEF Copying
    <3> QED BY <1>1, <1>6, <3>1
  <2>2. CASE Release(w)
    <3>1. job'[w].pc \notin Copying
      BY <1>0, <2>2, ReleaseEffect, IdleFields DEF Copying
    <3> QED BY <1>1, <1>6, <3>1
  <2>3. CASE ReadMetadata(w) \/ LookupUpload(w) \/ CreateBillingRun(w) \/ NextChunk(w)
    <3>1. job'[w].pc \in {"lookup", "unknown", "open", "gate", "finish", "cap"}
      BY <1>0, <2>3, MetadataEffect, LookupEffect, OpenEffect, ChunkEffect
    <3> QED BY <1>1, <1>6, <3>1 DEF Copying
  <2>4. ~Claim(w)
    BY DEF Claim, Holds
  <2> QED BY <1>6, <2>1, <2>2, <2>3, <2>4
       DEF WorkerStep, WorkerFault, UnknownTemplate, CheckRunFull, Finish, FinishFails,
           HandleFailedUpload, CreateBillingRunFails, Raise, WorkerCrash
<1> QED BY <1>2, <1>3, <1>4, <1>5, <1>6

LEMMA WorkerWhole ==
  ASSUME SteadyFiles, CountsInv, WholeInv, NEW w \in Workers,
         WorkerStep(w) \/ WorkerFault(w)
  PROVE  WholeInv'
<1> USE DEF CountsInv
<1>0. /\ OnlyWorker(w) /\ UNCHANGED <<req, raced>>
      /\ \/ Claim(w) \/ job'[w].pc = "idle"
         \/ job[w].pc # "idle" /\ job'[w].up = job[w].up
  BY WorkerHolds
<1> SUFFICES ASSUME NEW u \in Uploads, u \notin raced PROVE WholeOK(u)'
  BY <1>0 DEF WholeInv
<1>1. WholeOK(u) /\ FileOK(u) /\ Printed(u) \subseteq Printed(u)'
  BY WorkerKeepsPrints DEF WholeInv, CountInv
<1>2. ASSUME NEW x \in Workers, x # w, Holds(x, u)' PROVE HeldWhole(x, u)'
  <2>1. Holds(x, u) /\ job'[x] = job[x]
    BY <1>0, <1>2 DEF OnlyWorker, Holds
  <2>2. CopiedBy(x)' = CopiedBy(x)
    BY <2>1 DEF CopiedBy, Chunk
  <2> QED BY <1>1, <2>1, <2>2 DEF WholeOK, HeldWhole
<1>3. CASE Holds(w, u)
  <2>1. Done(u)' \subseteq Printed(u)' /\ HeldWhole(w, u)'
    <3>1. ASSUME job'[w].pc \notin Copying PROVE HeldWhole(w, u)'
      BY <3>1 DEF HeldWhole, CopiedBy, Copying
    <3> QED BY <1>1, <1>3, <3>1, HolderWhole
  <2> QED BY <1>2, <2>1 DEF WholeOK
<1>4. CASE ~Holds(w, u)
  <2>1. Done(u)' = Done(u)
    <3>1. CASE Claim(w)
      BY <3>1 DEF Claim, row, Done, Wanted
    <3>2. CASE ~Claim(w)
      BY <1>4, <3>2, WorkerTouches DEF SameFile, Done, Wanted
    <3> QED BY <3>1, <3>2
  <2>2. Holds(w, u)' => HeldWhole(w, u)'
    <3> SUFFICES ASSUME Holds(w, u)' PROVE HeldWhole(w, u)'
      OBVIOUS
    <3>1. Claim(w) /\ job'[w].pc = "meta"
      BY <1>0, <1>4, ClaimEffect DEF Holds
    <3> QED BY <3>1 DEF HeldWhole, CopiedBy, Copying
  <2> QED BY <1>1, <1>2, <2>1, <2>2 DEF WholeOK
<1> QED BY <1>3, <1>4

WholesInv == CountsInv /\ WholeInv

LEMMA WholeInvariant ==
  ASSUME BatchOnly, SteadyFiles
  PROVE  Spec => []WholesInv
<1>1. Init => WholeInv
  <2> SUFFICES ASSUME Init, NEW u \in Uploads PROVE WholeOK(u)
    BY DEF WholeInv
  <2>1. processed[u] = 0 /\ \A w \in Workers : ~Holds(w, u)
    BY IdleFields DEF Init, Holds
  <2>2. Done(u) = {}
    BY <2>1, DoneNone DEF Done
  <2> QED BY <2>1, <2>2 DEF WholeOK
<1>2. CountsInv /\ WholeInv /\ [Next]_vars => WholeInv'
  <2> SUFFICES ASSUME CountsInv, WholeInv, [Next]_vars PROVE WholeInv'
    OBVIOUS
  <2>1. ASSUME UNCHANGED <<processed, printed, job>>, raced \subseteq raced'
        PROVE  WholeInv'
    <3> SUFFICES ASSUME NEW u \in Uploads, u \notin raced PROVE WholeOK(u)'
      BY <2>1 DEF WholeInv
    <3>1. WholeOK(u) /\ Done(u)' = Done(u) /\ Printed(u)' = Printed(u)
      BY <2>1 DEF WholeInv, Done, Wanted, Printed
    <3>2. \A w \in Workers : CopiedBy(w)' = CopiedBy(w) /\ (Holds(w, u)' => Holds(w, u))
      BY <2>1 DEF CopiedBy, Chunk, Holds
    <3> QED BY <2>1, <3>1, <3>2 DEF WholeOK, HeldWhole
  <2>2. ASSUME NEW w \in Workers, WorkerStep(w) \/ WorkerFault(w) PROVE WholeInv'
    BY <2>2, WorkerWhole
  <2>3. ASSUME NEW q \in Requests,
               NewRequestStep(q) \/ RequestStep(q) \/ RequestFault(q)
        PROVE  WholeInv'
    <3>1. job' = job /\ raced \subseteq raced' /\ processed' = processed
      BY <2>3, RequestQueues, RequestTouches DEF CountsInv
    <3>2. printed' = printed
      BY <2>3, BatchSteps DEF CountsInv, FilterBatch, CommitBatch, StageMeta, StageData,
         StageFails, FinishBatch, ApiCrash, history
    <3> QED BY <2>1, <3>1, <3>2
  <2>4. ASSUME NEW u \in Uploads, Approve(u) \/ Reject(u) PROVE WholeInv'
    BY <2>1, <2>4 DEF Approve, Reject, history
  <2>5. CASE UNCHANGED vars
    BY <2>1, <2>5 DEF vars, row, history
  <2> QED BY <2>2, <2>3, <2>4, <2>5 DEF Next
<1> QED BY <1>1, <1>2, CountsInvariant, PTL DEF Spec, WholesInv

\* A file reads COMPLETED only when all its documents are in the output: the
\* counter that is compared with total_records counts a chunk only after its
\* last document was copied, from the offset at which the chunk was cut, so no
\* crash, exception or second run can make it count a document nobody printed
\* (worker_queue.py:721-791, 818-822).  Files taken while in hand or with a stale
\* offset are exempt (raced).
THEOREM CompletedIsWhole ==
  ASSUME BatchOnly, SteadyFiles
  PROVE  Spec => []CompletedPrintedAll
<1>1. WholesInv => CompletedPrintedAll
  <2> SUFFICES ASSUME WholesInv, NEW u \in Uploads, u \notin raced,
                      status[u] = "COMPLETED"
               PROVE  Printed(u) = DOMAIN Docs[u]
    BY DEF CompletedPrintedAll
  <2>1. FileOK(u) /\ WholeOK(u) /\ processed[u] \in Nat
    BY TypeSplit DEF WholesInv, CountsInv, CountInv, WholeInv, TypeInv, RowOK
  <2>2. processed[u] >= Len(Docs[u])
    BY <2>1 DEF FileOK, StatusOK
  <2>3. Done(u) = DOMAIN Docs[u]
    BY <2>1, <2>2, DoneWhole DEF Done, FileOK, CountersOK
  <2> QED BY <2>1, <2>3 DEF WholeOK, Printed
<1> QED BY <1>1, WholeInvariant, PTL

-----------------------------------------------------------------------------
(***************************************************************************)
(* The budget of a run:                                                    *)
(*   - what requests, sidecars and workers have been given a limit for and  *)
(*     not yet printed fits in the accounts its run has left;               *)
(*   - so no run prints more documents than it was opened for, though       *)
(*     workers share its room and look at it without a lock;                *)
(*   - and the counters of a file at rest tell what is in the output.       *)
(***************************************************************************)

\* A set of pairs of one file is as large as the set of its documents.
LEMMA FileCount ==
  ASSUME NEW u, NEW S, IsFiniteSet(S)
  PROVE  IsFiniteSet({u} \X S) /\ Cardinality({u} \X S) = Cardinality(S)
<1>1. IsFiniteSet({u}) /\ Cardinality({u}) = 1
  BY FS_Singleton
<1>2. IsFiniteSet({u} \X S) /\ Cardinality({u} \X S) = 1 * Cardinality(S)
  BY <1>1, FS_Product
<1>3. Cardinality(S) \in Nat
  BY FS_CardinalityType
<1> QED BY <1>2, <1>3

\* The pairs of a pool up to p, in the order in which a request spends its
\* budget on them: by file, then by document.
Upto(pool, p) == {x \in pool : x[1] < p[1] \/ (x[1] = p[1] /\ x[2] <= p[2])}

\* Pairs that all stand among the first n of the pool are n at most.
LEMMA FirstPairs ==
  ASSUME NEW pool \in SUBSET (Nat \X Nat), IsFiniteSet(pool),
         NEW A \in SUBSET pool, NEW n \in Nat,
         \A p \in A : Cardinality(Upto(pool, p)) <= n
  PROVE  IsFiniteSet(A) /\ Cardinality(A) <= n
<1> DEFINE f == [p \in A |-> Cardinality(Upto(pool, p))]
<1>1. ASSUME NEW p \in A
      PROVE  /\ IsFiniteSet(Upto(pool, p)) /\ p \in Upto(pool, p)
             /\ Cardinality(Upto(pool, p)) \in 1..n
  <2>1. Upto(pool, p) \in SUBSET pool /\ p \in Upto(pool, p)
    BY DEF Upto
  <2>2. IsFiniteSet(Upto(pool, p)) /\ Cardinality(Upto(pool, p)) \in Nat
    BY <2>1, FS_Subset, FS_CardinalityType
  <2>3. Cardinality(Upto(pool, p)) # 0
    BY <2>1, <2>2, FS_EmptySet
  <2> QED BY <2>1, <2>2, <2>3
<1>2. ASSUME NEW p \in A, NEW q \in A,
             p[1] < q[1] \/ (p[1] = q[1] /\ p[2] < q[2])
      PROVE  Cardinality(Upto(pool, p)) < Cardinality(Upto(pool, q))
  <2>1. p[1] \in Nat /\ p[2] \in Nat /\ q[1] \in Nat /\ q[2] \in Nat
    OBVIOUS
  <2>2. Upto(pool, p) \in SUBSET Upto(pool, q)
    <3> SUFFICES ASSUME NEW x \in Upto(pool, p) PROVE x \in Upto(pool, q)
      OBVIOUS
    <3>1. x \in pool /\ x[1] \in Nat /\ x[2] \in Nat
      BY DEF Upto
    <3> QED BY <1>2, <2>1, <3>1 DEF Upto
  <2>3. q \notin Upto(pool, p)
    BY <1>2, <2>1 DEF Upto
  <2>4. Upto(pool, p) # Upto(pool, q)
    BY <1>1, <2>3
  <2>5. /\ Cardinality(Upto(pool, p)) <= Cardinality(Upto(pool, q))
        /\ Cardinality(Upto(pool, p)) # Cardinality(Upto(pool, q))
    BY <1>1, <2>2, <2>4, FS_Subset
  <2> QED BY <1>1, <2>5
<1>3. f \in Injection(A, 1..n)
  <2>1. f \in [A -> 1..n]
    BY <1>1
  <2>2. ASSUME NEW p \in A, NEW q \in A, p # q PROVE f[p] # f[q]
    <3>1. p = <<p[1], p[2]>> /\ q = <<q[1], q[2]>>
      OBVIOUS
    <3>2. p[1] \in Nat /\ p[2] \in Nat /\ q[1] \in Nat /\ q[2] \in Nat
      OBVIOUS
    <3>3. p[1] # q[1] \/ p[2] # q[2]
      BY <2>2, <3>1
    <3>4. \/ p[1] < q[1] \/ (p[1] = q[1] /\ p[2] < q[2])
          \/ q[1] < p[1] \/ (q[1] = p[1] /\ q[2] < p[2])
      BY <3>2, <3>3
    <3>5. f[p] < f[q] \/ f[q] < f[p]
      BY <1>2, <3>4
    <3> QED BY <1>1, <3>5
  <2> QED BY <2>1, <2>2 DEF Injection, IsInjective
<1>4. IsFiniteSet(1..n) /\ Cardinality(1..n) = n
  BY FS_Interval
<1> QED BY <1>3, <1>4, FS_Injection

(***************************************************************************)
(* The budget of a run                                                     *)
(***************************************************************************)

\* The approved documents that are not counted yet.
Ahead(u) == ApprovedDocs(Docs[u], Approved) \ Done(u)

\* What a limit lets through of them.
Grant(u, lim) == FirstOf(Ahead(u), lim)

\* The file waits for a worker, or a worker has not read its sidecar yet.
Waiting(u) ==
  "incoming" \in disk[u] \/ \E w \in Workers : Holds(w, u) /\ job[w].pc = "meta"

\* A worker that may still render documents of the file.
Working(w, u) == Holds(w, u) /\ job[w].pc \notin {"meta", "unknown", "finish", "failed"}

\* The documents of a file that run r may still print and count: those a
\* request, a sidecar or a worker has been given a limit for.
Granted(r, u) ==
  {d \in Ahead(u) :
    \/ \E q \in Requests :
         Queuing(q, u) /\ req[q].run = r /\ d \in Grant(u, req[q].lim[u])
    \/ Waiting(u) /\ \E m \in meta[u] : m.run = r /\ d \in Grant(u, m.lim)
    \/ \E w \in Workers :
         Working(w, u) /\ job[w].run = r /\ d \in Grant(u, job[w].rem)}

Owed(r) == {p \in DocIds : p[2] \in Granted(r, p[1])}

Unprinted(r) ==
  {p \in Owed(r) : \A w \in Workers : Holds(w, p[1]) => p[2] \notin CopiedBy(w)}

\* The run has room for all it has granted.
WithinBudget(r) ==
  /\ rsucc[r] + Cardinality(Owed(r)) <= rtotal[r]
  /\ copied[r] + Cardinality(Unprinted(r)) <= rtotal[r]

\* The breakdown by template counts the documents that are done, and no other.
Exact(u) ==
  u \notin Sheets =>
    \A t \in Templates : procBy[u][t] = Cardinality(OfTemplate(u, Done(u), t))

\* The chunk of a worker is within its limit, and the cap cuts nothing off.
HeldBudget(w, u) ==
  /\ job[w].run \in Runs /\ upRun[u] \in {NoRun, job[w].run}
  /\ job[w].pc # "open"
  /\ job[w].pc \in Copying \cup {"cap"} => job[w].rend \subseteq Grant(u, job[w].rem)
  /\ job[w].pc \in Copying =>
       job[w].gen = Cardinality(job[w].rend) /\ job[w].pdfs \subseteq Chunk(w)
  /\ job[w].pc = "write" => job[w].tgt = job[w].run

FileBudget(u) ==
  /\ Exact(u)
  /\ u \notin Sheets => \A w \in Workers : Holds(w, u) =>
                           \A t \in Templates : job[w].made[t] <= procBy[u][t]
  /\ \A q \in Requests : Queuing(q, u) =>
       req[q].run \in Runs /\ upRun[u] \in {NoRun, req[q].run}
  /\ Waiting(u) => \A m \in meta[u] : m.run \in Runs /\ upRun[u] \in {NoRun, m.run}
  /\ \A w \in Workers : Working(w, u) => HeldBudget(w, u)

\* What a request is about to grant, before its run is there.
Asked(q) ==
  {p \in DocIds :
    /\ p[1] \in req[q].todo
    /\ p[2] \in FirstOf(ApprovedDocs(Docs[p[1]], Approved)
                          \ FirstOf(Wanted(p[1]), req[q].off[p[1]]),
                        req[q].lim[p[1]])}

AskedWithin(q) == req[q].pc = "commit" => Cardinality(Asked(q)) <= req[q].total

Budgeted ==
  /\ \A u \in Uploads : FileBudget(u)
  /\ \A q \in Requests : AskedWithin(q)
  /\ \A r \in Runs : WithinBudget(r) /\ (rstatus[r] = "absent" => copied[r] = 0)

\* The room of a run is shared by its files, so this is about histories in which
\* no file was raced.
BudgetInv == raced = {} => Budgeted

\* What is rendered of a file, and what it lets a limit grant, are finite.
LEMMA AheadType ==
  ASSUME NEW u \in Uploads
  PROVE  /\ Ahead(u) \in SUBSET (DOMAIN Docs[u]) /\ Ahead(u) \in SUBSET Nat
         /\ IsFiniteSet(Ahead(u)) /\ Cardinality(Ahead(u)) \in Nat
         /\ Ahead(u) \subseteq Wanted(u) \ Done(u)
         /\ {u} \X Ahead(u) \in SUBSET DocIds
<1>1. Ahead(u) \in SUBSET (DOMAIN Docs[u])
  BY DEF Ahead, ApprovedDocs
<1>2. Ahead(u) \subseteq Wanted(u) \ Done(u)
  BY <1>1 DEF Ahead, Wanted
<1>3. {u} \X Ahead(u) \in SUBSET DocIds
  BY <1>1 DEF DocIds
<1> QED BY <1>1, <1>2, <1>3, SubsetCount

\* The first elements up to d, for a d of the set.
LEMMA GrantGrows ==
  ASSUME NEW u \in Uploads, NEW m \in Int, NEW n \in Int, m <= n
  PROVE  Grant(u, m) \subseteq Grant(u, n) /\ Grant(u, n) \subseteq Ahead(u)
<1>1. ASSUME NEW d PROVE Cardinality({e \in Ahead(u) : e <= d}) \in Nat
  <2>1. {e \in Ahead(u) : e <= d} \in SUBSET (DOMAIN Docs[u])
    BY AheadType
  <2> QED BY <2>1, SubsetCount
<1>2. ASSUME NEW d \in Grant(u, m) PROVE d \in Grant(u, n)
  <2>1. Cardinality({e \in Ahead(u) : e <= d}) <= m
    BY <1>2 DEF Grant, FirstOf
  <2>2. Cardinality({e \in Ahead(u) : e <= d}) <= n
    BY <1>1, <2>1
  <2> QED BY <1>2, <2>2 DEF Grant, FirstOf
<1> QED BY <1>2 DEF Grant, FirstOf

\* No limit, or room enough: everything that is left is granted.
LEMMA GrantAll ==
  ASSUME NEW u \in Uploads, NEW n \in Int, Cardinality(Ahead(u)) <= n
  PROVE  Grant(u, n) = Ahead(u)
<1>1. ASSUME NEW d \in Ahead(u) PROVE Cardinality({e \in Ahead(u) : e <= d}) <= n
  <2>1. {e \in Ahead(u) : e <= d} \in SUBSET Ahead(u)
    OBVIOUS
  <2>2. /\ Cardinality({e \in Ahead(u) : e <= d}) <= Cardinality(Ahead(u))
        /\ Cardinality({e \in Ahead(u) : e <= d}) \in Nat
    BY <2>1, AheadType, FS_Subset, FS_CardinalityType
  <2> QED BY <2>2, AheadType
<1> QED BY <1>1 DEF Grant, FirstOf

LEMMA GrantUnlimited ==
  ASSUME Cardinality(DocIds) < Unlimited, NEW u \in Uploads
  PROVE  Grant(u, Unlimited) = Ahead(u)
<1>1. Cardinality({u} \X Ahead(u)) = Cardinality(Ahead(u))
  BY AheadType, FileCount
<1>2. Cardinality({u} \X Ahead(u)) <= Cardinality(DocIds)
  BY AheadType, DocIdsFinite, FS_Subset
<1>3. Cardinality(DocIds) \in Nat /\ Unlimited \in Nat /\ Cardinality(Ahead(u)) \in Nat
  BY AheadType, DocIdsFinite, FS_CardinalityType, UnlimitedAssumption
<1>4. Cardinality(Ahead(u)) <= Unlimited
  BY <1>1, <1>2, <1>3
<1> QED BY <1>3, <1>4, GrantAll

\* A chunk that was rendered within a limit is within what the limit grants.
LEMMA RenderWithin ==
  ASSUME SteadyFiles, NEW u \in Uploads, NEW limit \in Int,
         processed[u] \in Nat, Cardinality(Done(u)) = processed[u]
  PROVE  Render(u, Approved, processed[u], limit) \subseteq Grant(u, limit)
<1> DEFINE k == processed[u]
           R == Render(u, Approved, k, limit)
<1>1. CASE u \notin Sheets
  <2>1. R = Slice(Docs[u], Approved, k, limit) \ Bad[u]
    BY <1>1 DEF Render, RenderText
  <2>2. Slice(Docs[u], Approved, k, limit) = Grant(u, limit)
    BY <1>1 DEF Slice, Grant, Ahead, Done, Wanted
  <2> QED BY <2>1, <2>2
<1>2. CASE u \in Sheets
  <2>1. SUFFICES ASSUME NEW d \in R PROVE d \in Grant(u, limit)
    OBVIOUS
  <2> DEFINE rows == SheetRows(Docs[u], k, limit)
  <2>2. R = rows /\ \A e \in rows : Docs[u][e] \in Approved
    BY <1>2, <2>1 DEF Render, RenderSheet
  <2>3. Initial(R, Wanted(u) \ Done(u))
    BY RenderNext DEF Done
  <2>4. d \in Ahead(u)
    BY <2>1, <2>2, <2>3 DEF Ahead, ApprovedDocs, Initial, SheetRows
  <2> DEFINE upto == {e \in Ahead(u) : e <= d}
  <2>5. upto \in SUBSET rows
    <3> SUFFICES ASSUME NEW e \in Ahead(u), e <= d PROVE e \in R
      BY <2>2
    <3>1. e \in Wanted(u) \ Done(u) /\ e \in Nat /\ d \in Nat
      BY <2>4, AheadType
    <3>2. e < d \/ e = d
      BY <3>1
    <3> QED BY <2>1, <2>3, <3>1, <3>2 DEF Initial
  <2>6. rows \in SUBSET ((k + 1)..(k + limit))
    BY DocsFinite DEF SheetRows
  <2>7. limit >= 1
    BY <2>1, <2>2, <2>6
  <2>8. IsFiniteSet((k + 1)..(k + limit)) /\ Cardinality((k + 1)..(k + limit)) = limit
    <3> DEFINE a == k + 1
               b == k + limit
    <3>1. a \in Int /\ b \in Int /\ ~(a > b) /\ b - a + 1 = limit
      BY <2>7
    <3> HIDE DEF a, b
    <3>2. IsFiniteSet(a..b) /\ Cardinality(a..b) = limit
      BY <3>1, FS_Interval
    <3> QED BY <3>2 DEF a, b
  <2>9. upto \in SUBSET ((k + 1)..(k + limit))
    BY <2>5, <2>6
  <2>10. Cardinality(upto) <= limit
    BY <2>8, <2>9, FS_Subset
  <2> QED BY <2>4, <2>10 DEF Grant, FirstOf
<1> QED BY <1>1, <1>2

\* The documents a request counts as pending are those that are ahead, in a file
\* whose template was recognised.
LEMMA RemainingIs ==
  ASSUME TypeInv, SteadyFiles, NEW u \in Uploads, CountersOK(u), Exact(u),
         NEW approved \in ApprovedChoices
  PROVE  Remaining(u, approved) = IF u \in Undetected THEN {} ELSE Ahead(u)
<1> DEFINE k == processed[u]
           A == ApprovedDocs(Docs[u], Approved)
<1>1. approved = Approved /\ k \in Nat /\ Cardinality(Done(u)) = k
  BY ApprovedIs, TypeSplit DEF TypeInv, RowOK, CountersOK
<1>2. Initial(Done(u), Wanted(u))
  BY <1>1, WantedType, FirstIsInitial DEF Done
<1>3. CASE u \in Undetected
  BY <1>3 DEF Remaining
<1>4. CASE u \notin Undetected /\ u \in Sheets
  <2>1. Remaining(u, approved) = {d \in A : d > k}
    BY <1>1, <1>4 DEF Remaining, RemainingRows
  <2>2. ASSUME NEW d \in A PROVE d > k <=> d \notin Done(u)
    <3>1. d \in DOMAIN Docs[u] /\ Wanted(u) = DOMAIN Docs[u] /\ d \in Nat /\ d >= 1
      BY <1>4, DocsFinite DEF ApprovedDocs, Wanted
    <3>2. {e \in DOMAIN Docs[u] : e <= d} = 1..d
      BY <3>1, DocsFinite
    <3>3. Cardinality(1..d) = d
      BY <3>1, FS_Interval
    <3>4. d \in Done(u) <=> d <= k
      BY <3>1, <3>2, <3>3 DEF Done, FirstOf
    <3> QED BY <1>1, <3>1, <3>4
  <2> QED BY <1>4, <2>1, <2>2 DEF Ahead
<1>5. CASE u \notin Undetected /\ u \notin Sheets
  <2>1. Remaining(u, approved) =
          {d \in A : RankInTemplate(Docs[u], d) > procBy[u][Docs[u][d]]}
    BY <1>1, <1>5 DEF Remaining, RemainingByTemplate
  <2>2. ASSUME NEW d \in A
        PROVE  RankInTemplate(Docs[u], d) > procBy[u][Docs[u][d]] <=> d \notin Done(u)
    <3> DEFINE t == Docs[u][d]
               rank == {e \in 1..d : Docs[u][e] = t}
               T == OfTemplate(u, Done(u), t)
    <3>1. d \in DOMAIN Docs[u] /\ Wanted(u) = A /\ d \in Nat /\ d >= 1 /\ t \in Templates
          /\ t \in Approved
      BY <1>5, DocsFinite, QueueAssumption DEF ApprovedDocs, Wanted
    <3>2. procBy[u][t] = Cardinality(T)
      BY <1>5, <3>1 DEF Exact
    <3>3. 1..d \subseteq DOMAIN Docs[u]
      BY <3>1, DocsFinite
    <3>4. rank \in SUBSET (DOMAIN Docs[u]) /\ T \in SUBSET (DOMAIN Docs[u])
      BY <1>2, <3>3, WantedType DEF OfTemplate, Initial
    <3>5. /\ IsFiniteSet(rank) /\ IsFiniteSet(T)
          /\ Cardinality(rank) \in Nat /\ Cardinality(T) \in Nat
      BY <3>4, SubsetCount
    <3>6. rank \in SUBSET A
      BY <3>1, <3>3 DEF ApprovedDocs
    <3>7. CASE d \in Done(u)
      <4>1. rank \in SUBSET T
        <5> SUFFICES ASSUME NEW e \in rank PROVE e \in Done(u)
          BY DEF OfTemplate
        <5>1. e \in A /\ e <= d /\ e \in Nat
          BY <3>1, <3>6
        <5>2. e < d \/ e = d
          BY <3>1, <5>1
        <5> QED BY <1>2, <3>1, <3>7, <5>1, <5>2 DEF Initial
      <4>2. Cardinality(rank) <= Cardinality(T)
        BY <3>5, <4>1, FS_Subset
      <4> QED BY <3>2, <3>5, <3>7, <4>2 DEF RankInTemplate
    <3>8. CASE d \notin Done(u)
      <4>1. T \in SUBSET rank
        <5> SUFFICES ASSUME NEW e \in T PROVE e \in 1..d
          BY DEF OfTemplate
        <5>1. e \in Done(u) /\ e \in A /\ e \in Nat /\ e >= 1
          BY <1>2, <3>1, <3>4, DocsFinite DEF OfTemplate, Initial
        <5>2. ~(d < e)
          BY <1>2, <3>1, <3>8, <5>1 DEF Initial
        <5> QED BY <3>1, <5>1, <5>2
      <4>2. d \in rank /\ d \notin T
        BY <3>1, <3>8 DEF OfTemplate
      <4>3. Cardinality(T) <= Cardinality(rank) /\ Cardinality(T) # Cardinality(rank)
        BY <3>5, <4>1, <4>2, FS_Subset
      <4> QED BY <3>2, <3>5, <3>8, <4>3 DEF RankInTemplate
    <3> QED BY <3>7, <3>8
  <2> QED BY <1>5, <2>1, <2>2 DEF Ahead
<1> QED BY <1>3, <1>4, <1>5

\* A request asks for no more documents than the total it opens its run with:
\* the limits of its files share one budget.
LEMMA FilterWithin ==
  ASSUME Cardinality(DocIds) < Unlimited, SteadyFiles, TypeInv,
         \A u \in Uploads : CountersOK(u) /\ Exact(u),
         NEW q \in Requests, FilterBatch(q)
  PROVE  Cardinality(Asked(q)') <= req'[q].total
<1> USE TypeSplit DEF TypeInv
<1>1. PICK ids \in SUBSET Uploads, limit \in Limits, approved \in ApprovedChoices :
         /\ req'[q].todo = Chosen(ids, limit, approved)
         /\ req'[q].off = processed
         /\ req'[q].total =
              LargerOf(1, SmallerOf(limit, Cardinality(Pool(ids, approved))))
         /\ \A u \in req'[q].todo :
              req'[q].lim[u] = FileLimit(Pool(ids, approved), u, limit)
  BY FilterEffect
<1> DEFINE pool == Pool(ids, approved)
           A == Asked(q)'
           Of(u) == {p \in pool : p[1] = u}
<1>2. /\ pool \in SUBSET DocIds /\ IsFiniteSet(pool) /\ Cardinality(pool) \in Nat
      /\ limit \in Nat \ {0} /\ Unlimited \in Nat
      /\ Cardinality(pool) <= Cardinality(DocIds) /\ Cardinality(DocIds) \in Nat
  BY PoolType, DocIdsCount, DocIdsFinite, FS_Subset, QueueAssumption, UnlimitedAssumption
<1>3. DocIds \subseteq Nat \X Nat
  BY QueueAssumption, DocsFinite DEF DocIds
<1>4. ASSUME NEW p \in A
      PROVE  /\ p \in pool /\ p[1] \in Uploads /\ p = <<p[1], p[2]>>
             /\ p[1] \in Chosen(ids, limit, approved)
             /\ Remaining(p[1], approved) = Ahead(p[1])
             /\ p[2] \in FirstOf(Ahead(p[1]), FileLimit(pool, p[1], limit))
  <2>1. p \in DocIds /\ p[1] \in req'[q].todo
        /\ p[2] \in FirstOf(ApprovedDocs(Docs[p[1]], Approved)
                              \ FirstOf(Wanted(p[1]), req'[q].off[p[1]]),
                            req'[q].lim[p[1]])
    BY DEF Asked, Wanted
  <2>2. p[1] \in Uploads /\ p = <<p[1], p[2]>>
    BY <2>1 DEF DocIds
  <2>3. p[2] \in FirstOf(Ahead(p[1]), FileLimit(pool, p[1], limit))
    BY <1>1, <2>1 DEF Ahead, Done
  <2>4. Eligible(p[1], approved) /\ p[1] \in ids
    BY <1>1, <2>1 DEF Chosen
  <2>5. Remaining(p[1], approved) # {}
    BY <2>4 DEF Eligible
  <2>6. Remaining(p[1], approved) = Ahead(p[1])
    BY <2>2, <2>5, RemainingIs
  <2>7. p[2] \in Remaining(p[1], approved)
    BY <2>3, <2>6 DEF FirstOf
  <2>8. p \in pool
    BY <2>2, <2>4, <2>7 DEF Pool
  <2> QED BY <1>1, <2>1, <2>2, <2>3, <2>6, <2>8
<1>5. A \in SUBSET pool /\ IsFiniteSet(A) /\ Cardinality(A) \in Nat
      /\ Cardinality(A) <= Cardinality(pool)
  BY <1>2, <1>4, FS_Subset, FS_CardinalityType
<1>6. CASE limit = Unlimited
  <2>1. Cardinality(A) <= limit
    BY <1>2, <1>5, <1>6
  <2> HIDE DEF A, pool
  <2> QED BY <1>1, <1>2, <1>5, <2>1 DEF LargerOf, SmallerOf, A, pool
<1>7. CASE limit # Unlimited
  <2>1. ASSUME NEW p \in A PROVE Cardinality(Upto(pool, p)) <= limit
    <3> DEFINE u == p[1]
               B == {x \in pool : x[1] < u}
               S == {e \in Ahead(u) : e <= p[2]}
    <3>1. Upto(pool, p) \in SUBSET (B \cup ({u} \X S))
      <4> SUFFICES ASSUME NEW x \in pool, x[1] = u, x[2] <= p[2] PROVE x \in {u} \X S
        BY DEF Upto
      <4>1. PICK v \in ids : x \in {v} \X Remaining(v, approved)
        BY DEF Pool
      <4>2. x = <<u, x[2]>> /\ x[2] \in Remaining(u, approved)
        BY <4>1
      <4> QED BY <1>4, <4>2
    <3>2. S \in SUBSET Ahead(u) /\ IsFiniteSet(S) /\ Cardinality(S) \in Nat
      BY <1>4, AheadType, FS_Subset, FS_CardinalityType
    <3>3. IsFiniteSet({u} \X S) /\ Cardinality({u} \X S) = Cardinality(S)
      BY <3>2, FileCount
    <3>4. B \in SUBSET pool /\ IsFiniteSet(B) /\ Cardinality(B) = Before(pool, u)
          /\ Before(pool, u) \in Nat
      BY <1>2, FS_Subset, BeforeType DEF Before
    <3>5. Cardinality(S) <= FileLimit(pool, u, limit)
      BY <1>4 DEF FirstOf
    <3>6. FileLimit(pool, u, limit) <= limit - Before(pool, u)
      <4>1. Cardinality(Of(u)) \in Nat
        BY <1>2, FS_Subset, FS_CardinalityType
      <4> QED BY <1>2, <1>7, <3>4, <4>1, SmallerType DEF FileLimit
    <3>7. FileLimit(pool, u, limit) \in Int
      <4>1. Cardinality(Of(u)) \in Nat
        BY <1>2, FS_Subset, FS_CardinalityType
      <4> QED BY <1>2, <1>7, <3>4, <4>1, SmallerType DEF FileLimit
    <3> DEFINE P == {u} \X S
    <3> HIDE DEF B, S, P
    <3>8. /\ IsFiniteSet(B \cup P) /\ Cardinality(B \cap P) \in Nat
          /\ Cardinality(B \cup P) = Cardinality(B) + Cardinality(P) - Cardinality(B \cap P)
      BY <3>3, <3>4, FS_Union, FS_Intersection, FS_CardinalityType DEF P
    <3>9. Cardinality(Upto(pool, p)) <= Cardinality(B \cup P)
          /\ Cardinality(Upto(pool, p)) \in Nat /\ Cardinality(B \cup P) \in Nat
      BY <3>1, <3>8, FS_Subset, FS_CardinalityType DEF P
    <3>10. Cardinality(P) = Cardinality(S)
      BY <3>3 DEF P
    <3> HIDE DEF u
    <3> QED BY <1>2, <3>2, <3>4, <3>5, <3>6, <3>7, <3>8, <3>9, <3>10
  <2>2. Cardinality(A) <= limit
    BY <1>2, <1>3, <1>5, <2>1, FirstPairs
  <2> HIDE DEF A, pool
  <2> QED BY <1>1, <1>2, <1>5, <2>2 DEF LargerOf, SmallerOf, A, pool
<1> QED BY <1>6, <1>7

-----------------------------------------------------------------------------
(* What a step does to the budget, file by file *)

\* No run is granted more of the file, and what was copied of the grants stays
\* copied.
GrantsKept(u) ==
  \A r \in Runs : \A d \in Granted(r, u)' :
    /\ d \in Granted(r, u)
    /\ \A x \in Workers :
         Holds(x, u) /\ d \in CopiedBy(x) => Holds(x, u)' /\ d \in CopiedBy(x)'

LEMMA OwedKept ==
  ASSUME \A u \in Uploads : GrantsKept(u), NEW r \in Runs
  PROVE  Owed(r)' \subseteq Owed(r) /\ Unprinted(r)' \subseteq Unprinted(r)
<1>1. \A p \in DocIds : p[1] \in Uploads
  BY DEF DocIds
<1>2. ASSUME NEW p \in Owed(r)' PROVE p \in Owed(r)
  BY <1>1, <1>2 DEF Owed, GrantsKept
<1>3. ASSUME NEW p \in Unprinted(r)' PROVE p \in Unprinted(r)
  <2>1. p \in Owed(r)' /\ p \in Owed(r) /\ p[1] \in Uploads /\ p[2] \in Granted(r, p[1])'
    BY <1>1, <1>2, <1>3 DEF Unprinted, Owed
  <2>2. \A w \in Workers : Holds(w, p[1])' => p[2] \notin CopiedBy(w)'
    BY <1>3 DEF Unprinted
  <2>3. \A w \in Workers : Holds(w, p[1]) => p[2] \notin CopiedBy(w)
    BY <2>1, <2>2 DEF GrantsKept
  <2> QED BY <2>1, <2>3 DEF Unprinted
<1> QED BY <1>2, <1>3

\* The budget of a run is kept when it grants no more and counts no more.
LEMMA WithinKept ==
  ASSUME RunOK, HistoryOK, NEW r \in Runs, WithinBudget(r),
         rsucc'[r] = rsucc[r], copied'[r] = copied[r], rtotal'[r] = rtotal[r],
         Owed(r)' \subseteq Owed(r), Unprinted(r)' \subseteq Unprinted(r)
  PROVE  WithinBudget(r)'
<1>1. rsucc[r] \in Int /\ copied[r] \in Nat /\ rtotal[r] \in Nat
  BY DEF RunOK, HistoryOK
<1>2. Owed(r) \in SUBSET DocIds /\ Unprinted(r) \in SUBSET DocIds
      /\ Owed(r)' \in SUBSET Owed(r) /\ Unprinted(r)' \in SUBSET Unprinted(r)
  BY DEF Owed, Unprinted
<1>3. /\ Cardinality(Owed(r)') <= Cardinality(Owed(r))
      /\ Cardinality(Unprinted(r)') <= Cardinality(Unprinted(r))
      /\ Cardinality(Owed(r)) \in Nat /\ Cardinality(Owed(r)') \in Nat
      /\ Cardinality(Unprinted(r)) \in Nat /\ Cardinality(Unprinted(r)') \in Nat
  BY <1>2, DocIdsCount, FS_Subset, FS_CardinalityType
<1> DEFINE a == Cardinality(Owed(r))
           b == Cardinality(Unprinted(r))
<1>4. rsucc[r] + a <= rtotal[r] /\ copied[r] + b <= rtotal[r]
  BY DEF WithinBudget
<1> QED BY <1>1, <1>3, <1>4 DEF WithinBudget

\* A step that does not concern the file.
LEMMA BudgetUntouched ==
  ASSUME NEW u \in Uploads, FileBudget(u), SameFile(u), upRun'[u] = upRun[u], req' = req,
         \A w \in Workers : (Holds(w, u)' <=> Holds(w, u))
                            /\ (Holds(w, u) => job'[w] = job[w])
  PROVE  FileBudget(u)' /\ GrantsKept(u)
<1>1. /\ Done(u)' = Done(u) /\ Ahead(u)' = Ahead(u) /\ (Waiting(u)' <=> Waiting(u))
      /\ \A lim : Grant(u, lim)' = Grant(u, lim)
  BY DEF SameFile, Done, Ahead, Wanted, Waiting, Grant
<1>2. \A w \in Workers : Holds(w, u) =>
        /\ Holds(w, u)' /\ CopiedBy(w)' = CopiedBy(w) /\ Chunk(w)' = Chunk(w)
        /\ Grant(u, job[w].rem)' = Grant(u, job[w].rem)
  BY <1>1 DEF CopiedBy, Chunk, Grant
<1>3. \A q \in Requests : (Queuing(q, u)' <=> Queuing(q, u))
                          /\ Grant(u, req[q].lim[u])' = Grant(u, req[q].lim[u])
  BY <1>1 DEF Queuing, Grant
<1>4. \A w \in Workers : Working(w, u)' <=> Working(w, u)
  BY <1>2 DEF Working, Holds
<1>5. \A r \in Runs : Granted(r, u)' = Granted(r, u)
  <2> SUFFICES ASSUME NEW r \in Runs, NEW d PROVE d \in Granted(r, u)' <=> d \in Granted(r, u)
    OBVIOUS
  <2>1. ASSUME NEW w \in Workers
        PROVE  (Working(w, u) /\ job[w].run = r /\ d \in Grant(u, job[w].rem))'
                 <=> (Working(w, u) /\ job[w].run = r /\ d \in Grant(u, job[w].rem))
    BY <1>2, <1>4 DEF Working
  <2>2. ASSUME NEW m PROVE d \in Grant(u, m.lim)' <=> d \in Grant(u, m.lim)
    BY <1>1 DEF Grant
  <2>3. meta'[u] = meta[u]
    BY DEF SameFile
  <2> QED BY <1>1, <1>3, <2>1, <2>2, <2>3 DEF Granted
<1>6. FileBudget(u)'
  <2>1. Exact(u)'
    BY <1>1 DEF FileBudget, Exact, SameFile, OfTemplate
  <2>2. \A w \in Workers : Working(w, u)' => HeldBudget(w, u)'
    BY <1>2, <1>4 DEF FileBudget, HeldBudget, Working
  <2>3. u \notin Sheets => \A w \in Workers : Holds(w, u)' =>
                             \A t \in Templates : job'[w].made[t] <= procBy'[u][t]
    BY DEF FileBudget, SameFile
  <2>4. \A q \in Requests : Queuing(q, u)' =>
          req'[q].run \in Runs /\ upRun'[u] \in {NoRun, req'[q].run}
    BY <1>3 DEF FileBudget
  <2>5. Waiting(u)' => \A m \in meta'[u] : m.run \in Runs /\ upRun'[u] \in {NoRun, m.run}
    BY <1>1 DEF FileBudget, SameFile
  <2> QED BY <2>1, <2>2, <2>3, <2>4, <2>5 DEF FileBudget
<1> QED BY <1>2, <1>5, <1>6 DEF GrantsKept

\* The worker that holds a file and has read its sidecar is the only one with a
\* grant for it.
LEMMA HolderFile ==
  ASSUME OneInstance, NEW u \in Uploads, u \notin raced, FileBudget(u),
         NEW w \in Workers, Holds(w, u), OnlyWorker(w), req' = req,
         "incoming" \notin disk'[u],
         job'[w].pc = "idle" \/ (job'[w].up = u /\ job'[w].pc # "meta"),
         Exact(u)',
         job'[w].pc # "idle" /\ u \notin Sheets =>
           \A t \in Templates : job'[w].made[t] <= procBy'[u][t],
         Working(w, u)' => HeldBudget(w, u)'
  PROVE  /\ FileBudget(u)'
         /\ \A r \in Runs : \A d \in Granted(r, u)' :
              Working(w, u)' /\ job'[w].run = r /\ d \in Grant(u, job[w].rem)'
<1>1. \A x \in Workers : x # w => ~Holds(x, u)'
  BY DEF OneInstance, OnlyWorker, Holds
<1>2. \A q \in Requests : ~Queuing(q, u)'
  BY DEF OneInstance, Queuing
<1>3. ~Waiting(u)'
  BY <1>1 DEF Waiting, Holds
<1>4. \A x \in Workers : Working(x, u)' => x = w
  BY <1>1 DEF Working
<1>5. FileBudget(u)'
  BY <1>1, <1>2, <1>3, <1>4 DEF FileBudget, Holds
<1> QED BY <1>2, <1>3, <1>4, <1>5 DEF Granted

\* Such a worker had its grant already.
LEMMA HolderHas ==
  ASSUME OneInstance, NEW u \in Uploads, u \notin raced, NEW w \in Workers,
         Working(w, u), NEW d \in Grant(u, job[w].rem), NEW r, job[w].run = r
  PROVE  d \in Granted(r, u)
BY DEF Granted, Grant, FirstOf

\* The step of the holder keeps the grants when its own does not grow.
LEMMA HolderKept ==
  ASSUME OneInstance, NEW u \in Uploads, u \notin raced,
         NEW w \in Workers, Holds(w, u),
         \A r \in Runs : \A d \in Granted(r, u)' :
              Working(w, u)' /\ job'[w].run = r /\ d \in Grant(u, job[w].rem)',
         Working(w, u)' =>
           /\ \A d \in Grant(u, job[w].rem)' : d \in Granted(job'[w].run, u)
           /\ CopiedBy(w) \subseteq CopiedBy(w)'
  PROVE  GrantsKept(u)
<1> SUFFICES ASSUME NEW r \in Runs, NEW d \in Granted(r, u)'
             PROVE  /\ d \in Granted(r, u)
                    /\ \A x \in Workers : Holds(x, u) /\ d \in CopiedBy(x) =>
                                            Holds(x, u)' /\ d \in CopiedBy(x)'
  BY DEF GrantsKept
<1>1. Working(w, u)' /\ job'[w].run = r /\ d \in Grant(u, job[w].rem)'
  OBVIOUS
<1>2. d \in Granted(r, u) /\ CopiedBy(w) \subseteq CopiedBy(w)' /\ Holds(w, u)'
  BY <1>1 DEF Working
<1>3. \A x \in Workers : Holds(x, u) => x = w
  BY DEF OneInstance
<1> QED BY <1>2, <1>3

\* A step of the holder that counts nothing leaves the file's documents and
\* their breakdown alone.
LEMMA HolderExact ==
  ASSUME TypeInv, SteadyFiles, NEW u \in Uploads, FileBudget(u),
         NEW w \in Workers, Holds(w, u), WorkerStep(w) \/ WorkerFault(w), ~CountChunk(w)
  PROVE  /\ processed' = processed /\ Ahead(u)' = Ahead(u) /\ Exact(u)'
         /\ u \notin Sheets => procBy'[u] = procBy[u]
<1> USE TypeSplit DEF TypeInv
<1>0. job[w].up = u /\ procBy \in [Uploads -> [Templates -> Nat]] /\ job[w] \in JobType
  BY DEF Holds, RowOK, JobOK
<1>1. processed' = processed
  BY OnlyCountMoves
<1>2. Done(u)' = Done(u) /\ Ahead(u)' = Ahead(u)
  BY <1>1 DEF Done, Wanted, Ahead
<1>3. ASSUME u \notin Sheets PROVE procBy'[u] = procBy[u]
  <2>1. CASE Finish(w)
    <3>1. procBy'[u] = [t \in Templates |->
             IF procBy[u][t] = 0 THEN job[w].made[t] ELSE procBy[u][t]]
      BY <1>0, <2>1 DEF Finish
    <3>2. ASSUME NEW t \in Templates, procBy[u][t] = 0 PROVE job[w].made[t] = 0
      <4>1. job[w].made[t] <= procBy[u][t] /\ job[w].made[t] \in Nat
        BY <1>0, <1>3 DEF FileBudget, JobType
      <4> QED BY <3>2, <4>1
    <3>3. \A t \in Templates : procBy'[u][t] = procBy[u][t]
      BY <3>1, <3>2
    <3>4. DOMAIN procBy'[u] = Templates /\ DOMAIN procBy[u] = Templates
      BY <1>0, <3>1
    <3> QED BY <1>0, <3>1, <3>3, <3>4
  <2>2. CASE ~Finish(w)
    BY <2>2 DEF WorkerStep, WorkerFault, Claim, ReadMetadata, LookupUpload,
         UnknownTemplate, CreateBillingRun, CheckRunFull, NextChunk, CapPdfs, CopyPdf,
         LockRun, HandleFailedUpload, CreateBillingRunFails, FinishFails,
         Raise, WorkerCrash, row
  <2> QED BY <2>1, <2>2
<1>4. Exact(u)'
  BY <1>2, <1>3 DEF FileBudget, Exact, OfTemplate
<1> QED BY <1>1, <1>2, <1>3, <1>4

\* Only the worker that finds its run full or ends its file lets go of the run
\* in the row.
LEMMA WorkerRow ==
  ASSUME TypeInv, NEW w \in Workers, WorkerStep(w) \/ WorkerFault(w), ~CreateBillingRun(w),
         NEW u \in Uploads
  PROVE  upRun'[u] \in {upRun[u], NoRun} /\ (~Holds(w, u) => upRun'[u] = upRun[u])
<1>0. upRun \in [Uploads -> RunId] /\ (job[w].pc # "idle" => job[w].up \in Uploads)
  BY TypeSplit DEF TypeInv, RowOK, Holding
<1>1. CASE upRun' = [upRun EXCEPT ![job[w].up] = NoRun] /\ job[w].pc # "idle"
  BY <1>0, <1>1 DEF Holds
<1>2. CASE upRun' = upRun
  BY <1>2
<1> QED BY <1>1, <1>2
     DEF WorkerStep, WorkerFault, Claim, ReadMetadata, LookupUpload,
         UnknownTemplate, CheckRunFull, NextChunk, CapPdfs, CopyPdf, LockRun,
         CountChunk, Finish, HandleFailedUpload, CreateBillingRunFails, FinishFails,
         Raise, WorkerCrash, row

\* The pairs of what a worker may print are owed by its run, which has room for
\* them.
LEMMA GrantHasRoom ==
  ASSUME TypeInv, OneInstance, NEW u \in Uploads, u \notin raced, NEW w \in Workers,
         Working(w, u), job[w].run \in Runs, WithinBudget(job[w].run),
         NEW C, C \subseteq Grant(u, job[w].rem)
  PROVE  /\ {u} \X C \subseteq Owed(job[w].run)
         /\ IsFiniteSet(C) /\ Cardinality(C) \in Nat
         /\ Cardinality(C) <= Room(job[w].run)
<1> DEFINE r == job[w].run
<1>1. C \in SUBSET Ahead(u) /\ C \in SUBSET (DOMAIN Docs[u])
  BY AheadType DEF Grant, FirstOf
<1>2. {u} \X C \in SUBSET DocIds
  BY <1>1 DEF DocIds
<1>3. ASSUME NEW p \in {u} \X C PROVE p \in Owed(r)
  <2>1. p[1] = u /\ p[2] \in C /\ p \in DocIds
    BY <1>2, <1>3
  <2>2. p[2] \in Granted(r, u)
    BY <2>1, HolderHas
  <2> QED BY <2>1, <2>2 DEF Owed
<1>4. IsFiniteSet(C) /\ Cardinality(C) \in Nat
  BY <1>1, SubsetCount
<1>5. Cardinality({u} \X C) = Cardinality(C)
  BY <1>4, FileCount
<1>6. Owed(r) \in SUBSET DocIds
  BY DEF Owed
<1>7. Cardinality({u} \X C) <= Cardinality(Owed(r)) /\ Cardinality(Owed(r)) \in Nat
  BY <1>3, <1>6, DocIdsCount, FS_Subset
<1>8. rsucc[r] \in Int /\ rtotal[r] \in Nat
  BY TypeSplit DEF TypeInv, RunOK
<1>9. rsucc[r] + Cardinality(Owed(r)) <= rtotal[r]
  BY DEF WithinBudget
<1>10. Cardinality(C) <= rtotal[r] - rsucc[r]
  <2> DEFINE a == Cardinality(Owed(r))
             b == Cardinality(C)
  <2> HIDE DEF r
  <2> QED BY <1>4, <1>5, <1>7, <1>8, <1>9
<1>11. rtotal[r] - rsucc[r] <= Room(r)
  BY <1>8 DEF Room, LargerOf
<1>12. Room(r) \in Int
  BY <1>8 DEF Room, LargerOf
<1> HIDE DEF r
<1> QED BY <1>3, <1>4, <1>8, <1>10, <1>11, <1>12 DEF r

\* The file of a worker that takes any step but the count of its chunk.
LEMMA HolderBudget ==
  ASSUME Cardinality(DocIds) < Unlimited, SteadyFiles, TypeInv, OneInstance,
         NEW u \in Uploads, u \notin raced, FileOK(u), FileBudget(u),
         \A r \in Runs : WithinBudget(r),
         NEW w \in Workers, Holds(w, u), WorkerStep(w) \/ WorkerFault(w), ~CountChunk(w)
  PROVE  FileBudget(u)' /\ GrantsKept(u) /\ ~CreateBillingRun(w)
<1> USE TypeSplit DEF TypeInv
<1>0. /\ job[w].up = u /\ job[w] \in JobType /\ JobOK /\ job[w].rem \in Int
      /\ OnlyWorker(w) /\ req' = req /\ "incoming" \notin disk'[u] /\ ~Claim(w)
      /\ NoRun \notin Runs
  <2>1. "incoming" \notin disk[u]
    BY DEF OneInstance
  <2> QED BY <2>1, WorkerHolds, QueueAssumption DEF JobOK, JobType, Holds, Claim
<1>1. /\ Ahead(u)' = Ahead(u) /\ Exact(u)' /\ (u \notin Sheets => procBy'[u] = procBy[u])
      /\ Grant(u, job[w].rem)' = Grant(u, job'[w].rem)
  BY HolderExact DEF Grant
<1>2. ~CreateBillingRun(w) /\ ~CreateBillingRunFails(w)
  <2>1. Working(w, u) => job[w].pc # "open"
    BY DEF FileBudget, HeldBudget
  <2> QED BY <2>1 DEF CreateBillingRun, CreateBillingRunFails, Working
<1> SUFFICES FileBudget(u)' /\ GrantsKept(u)
  BY <1>2
<1>3. upRun'[u] \in {upRun[u], NoRun}
  BY <1>2, WorkerRow
<1>4. u \notin Sheets => \A t \in Templates : job[w].made[t] <= procBy'[u][t]
  BY <1>1 DEF FileBudget
<1>5. ASSUME \/ job'[w].pc = "idle"
             \/ /\ job'[w].pc \in {"unknown", "finish", "failed"}
                /\ job'[w].up = u /\ job'[w].made = job[w].made
      PROVE  FileBudget(u)' /\ GrantsKept(u)
  <2>1. ~Working(w, u)'
    BY <1>5 DEF Working, Holds
  <2> QED BY <1>0, <1>1, <1>4, <1>5, <2>1, HolderFile, HolderKept
<1>6. ASSUME job'[w].up = u, job'[w].made = job[w].made,
             job'[w].pc \notin {"idle", "meta"},
             HeldBudget(w, u)', CopiedBy(w) \subseteq CopiedBy(w)',
             \A d \in Grant(u, job'[w].rem) : d \in Granted(job'[w].run, u)
      PROVE  FileBudget(u)' /\ GrantsKept(u)
  BY <1>0, <1>1, <1>4, <1>6, HolderFile, HolderKept
<1>7. ASSUME Working(w, u), job'[w].up = u, job'[w].made = job[w].made,
             job'[w].run = job[w].run, job'[w].rem \in Int, job'[w].rem <= job[w].rem,
             job'[w].pc \notin {"idle", "meta"},
             HeldBudget(w, u)', CopiedBy(w) \subseteq CopiedBy(w)'
      PROVE  FileBudget(u)' /\ GrantsKept(u)
  <2>1. \A d \in Grant(u, job'[w].rem) : d \in Granted(job'[w].run, u)
    BY <1>0, <1>7, GrantGrows, HolderHas
  <2> QED BY <1>6, <1>7, <2>1
<1>8. ASSUME Working(w, u)
      PROVE  /\ HeldBudget(w, u) /\ job[w].run \in Runs
             /\ upRun'[u] \in {NoRun, job[w].run}
  BY <1>3, <1>8 DEF FileBudget, HeldBudget
<1>9. CASE \E pc \in {"failed", "finish"} : Goto(w, pc)
  BY <1>0, <1>5, <1>9, GotoEffect
<1>10. CASE Release(w)
  BY <1>0, <1>5, <1>10, ReleaseEffect, IdleFields
<1>11. CASE ReadMetadata(w)
  <2>1. job[w].pc = "meta" /\ job'[w].pc = "lookup" /\ job'[w].up = u
        /\ job'[w].made = job[w].made
    BY <1>0, <1>11, MetadataEffect DEF ReadMetadata
  <2>2. Waiting(u) /\ meta[u] # {}
    BY <2>1 DEF Waiting, FileOK, SidecarOK
  <2>3. PICK m \in meta[u] : job'[w].run = m.run /\ job'[w].rem = m.lim
    BY <1>0, <1>11, <2>2, MetadataEffect
  <2>4. m.run \in Runs /\ upRun'[u] \in {NoRun, m.run}
    BY <1>3, <2>2 DEF FileBudget
  <2>5. HeldBudget(w, u)'
    BY <2>1, <2>3, <2>4 DEF HeldBudget, Copying
  <2>6. CopiedBy(w) = {}
    BY <2>1 DEF CopiedBy, Copying
  <2>7. \A d \in Grant(u, job'[w].rem) : d \in Granted(job'[w].run, u)
    BY <2>2, <2>3 DEF Granted, Grant, FirstOf
  <2> QED BY <1>6, <2>1, <2>5, <2>6, <2>7
<1>12. CASE LookupUpload(w)
  <2>1. job[w].pc = "lookup" /\ Working(w, u)
    BY <1>12 DEF LookupUpload, Working
  <2>2. job[w].run \in Runs /\ upRun[u] \in {NoRun, job[w].run}
    BY <2>1 DEF FileBudget, HeldBudget
  <2>3. /\ job'[w].up = u /\ job'[w].run = job[w].run /\ job'[w].made = job[w].made
        /\ job'[w].pc \in {"unknown", "gate"}
        /\ job'[w].rem = (IF job[w].rem = Unlimited THEN Room(job[w].run)
                          ELSE job[w].rem)
    BY <1>0, <1>12, <2>2, LookupEffect
  <2>4. HeldBudget(w, u)'
    BY <1>8, <2>1, <2>3 DEF HeldBudget, Copying
  <2>5. CopiedBy(w) = {}
    BY <2>1 DEF CopiedBy, Copying
  <2>6. Grant(u, job'[w].rem) \subseteq Grant(u, job[w].rem)
    <3>1. CASE job[w].rem # Unlimited
      BY <2>3, <3>1
    <3>2. CASE job[w].rem = Unlimited
      BY <3>2, GrantUnlimited DEF Grant, FirstOf
    <3> QED BY <3>1, <3>2
  <2>7. \A d \in Grant(u, job'[w].rem) : d \in Granted(job'[w].run, u)
    BY <2>1, <2>3, <2>6, HolderHas
  <2> QED BY <1>6, <2>3, <2>4, <2>5, <2>7
<1>13. CASE CheckRunFull(w) /\ Goto(w, "loop")
  <2>1. job[w].pc = "gate" /\ Working(w, u)
    BY <1>13 DEF CheckRunFull, Working
  <2>2. /\ job'[w].up = u /\ job'[w].run = job[w].run /\ job'[w].made = job[w].made
        /\ job'[w].pc = "loop" /\ job'[w].rem = job[w].rem
    BY <1>0, <1>13, GotoEffect
  <2>3. HeldBudget(w, u)'
    BY <1>8, <2>1, <2>2 DEF HeldBudget, Copying
  <2>4. CopiedBy(w) = {}
    BY <2>1 DEF CopiedBy, Copying
  <2> QED BY <1>0, <1>7, <2>1, <2>2, <2>3, <2>4
<1>14. CASE NextChunk(w) /\ ~Goto(w, "finish")
  <2>1. job[w].pc = "loop" /\ Working(w, u)
    BY <1>14 DEF NextChunk, Working
  <2>2. job[w].run \in Runs /\ job[w].off = processed[u] /\ job[w].appr = Approved
        /\ processed[u] \in Nat /\ Cardinality(Done(u)) = processed[u]
    BY <1>8, <2>1 DEF FileOK, HeldOK, CountersOK, RowOK
  <2>3. ChunkLeft(w) \in Int /\ ChunkLeft(w) <= job[w].rem
        /\ ChunkLimit(w) \in Int /\ ChunkLimit(w) <= ChunkLeft(w)
    <3>1. Room(job[w].run) \in Nat
      BY <2>2, RoomType
    <3>2. ChunkLeft(w) \in Int /\ ChunkLeft(w) <= job[w].rem
      BY <1>0, <2>2, <3>1, SmallerType DEF ChunkLeft
    <3>3. ChunkSize \in Nat
      BY QueueAssumption
    <3> QED BY <3>2, <3>3, SmallerType DEF ChunkLimit
  <2>4. /\ job'[w].up = u /\ job'[w].run = job[w].run /\ job'[w].made = job[w].made
        /\ job'[w].pc = "cap" /\ job'[w].rem = ChunkLeft(w)
        /\ job'[w].rend = Render(u, Approved, processed[u], ChunkLimit(w))
    <3>1. ~(ChunkLeft(w) <= 0)
      BY <1>14 DEF NextChunk, ChunkLeft
    <3> QED BY <1>0, <1>14, <2>2, <3>1, ChunkEffect
  <2>5. job'[w].rend \subseteq Grant(u, job'[w].rem)
    BY <2>2, <2>3, <2>4, RenderWithin, GrantGrows
  <2>6. HeldBudget(w, u)'
    BY <1>1, <1>8, <2>1, <2>4, <2>5 DEF HeldBudget, Copying
  <2>7. CopiedBy(w) = {}
    BY <2>1 DEF CopiedBy, Copying
  <2> QED BY <1>0, <1>7, <2>1, <2>3, <2>4, <2>6, <2>7
<1>15. CASE CapPdfs(w) /\ ~Goto(w, "finish")
  <2> DEFINE R == job[w].rend
             pdfs == FirstOf(R, ChunkLeft(w))
  <2>1. job[w].pc = "cap" /\ Working(w, u)
    BY <1>15 DEF CapPdfs, Working
  <2>2. /\ job[w].run \in Runs /\ R \subseteq Grant(u, job[w].rem)
        /\ R \in SUBSET Nat
    <3>1. R \in SUBSET Nat
      BY <1>0 DEF JobType
    <3> QED BY <1>8, <2>1, <3>1 DEF HeldBudget
  <2>3. IsFiniteSet(R) /\ Cardinality(R) \in Nat /\ Cardinality(R) <= Room(job[w].run)
    BY <2>1, <2>2, GrantHasRoom
  <2>4. pdfs = R
    <3> SUFFICES ASSUME NEW d \in R PROVE Cardinality({e \in R : e <= d}) <= ChunkLeft(w)
      BY DEF FirstOf
    <3> DEFINE S == {e \in R : e <= d}
               T == {e \in Ahead(u) : e <= d}
    <3>1. /\ S \in SUBSET R /\ S \in SUBSET T /\ T \in SUBSET Ahead(u)
          /\ Cardinality(T) <= job[w].rem
      BY <2>2 DEF Grant, FirstOf
    <3>2. IsFiniteSet(T) /\ Cardinality(T) \in Nat
      BY <3>1, AheadType, FS_Subset, FS_CardinalityType
    <3>3. Cardinality(S) <= Cardinality(T) /\ Cardinality(S) <= Cardinality(R)
          /\ Cardinality(S) \in Nat
      BY <2>3, <3>1, <3>2, FS_Subset, FS_CardinalityType
    <3>4. Room(job[w].run) \in Int
      BY <2>2, RoomType
    <3> HIDE DEF S, T, R
    <3>5. Cardinality(S) <= job[w].rem /\ Cardinality(S) <= Room(job[w].run)
      BY <1>0, <2>3, <3>1, <3>2, <3>3, <3>4
    <3>6. Cardinality(S) <= ChunkLeft(w)
      BY <3>5 DEF ChunkLeft, SmallerOf
    <3> QED BY <3>6 DEF S, R
  <2>5. /\ job'[w].up = u /\ job'[w].run = job[w].run /\ job'[w].made = job[w].made
        /\ job'[w].rend = R /\ job'[w].rem = job[w].rem
        /\ \/ job'[w].pc = "finish"
           \/ /\ job'[w].pc = "copy" /\ job'[w].pdfs = R
              /\ job'[w].gen = Cardinality(R)
    BY <1>0, <1>15, <2>4, CapEffect
  <2>6. CASE job'[w].pc = "finish"
    BY <1>5, <2>5, <2>6
  <2>7. CASE job'[w].pc # "finish"
    <3>1. FirstOf(R, Cardinality(R)) = R
      BY <2>2, <2>3, InitialWhole, InitialIsFirst
    <3>2. Chunk(w)' = R
      BY <2>5, <2>7, <3>1 DEF Chunk
    <3>3. HeldBudget(w, u)'
      BY <1>1, <1>8, <2>1, <2>2, <2>5, <2>7, <3>2 DEF HeldBudget, Copying
    <3>4. CopiedBy(w) = {}
      BY <2>1 DEF CopiedBy, Copying
    <3> QED BY <1>0, <1>7, <2>1, <2>5, <2>7, <3>3, <3>4
  <2> QED BY <2>6, <2>7
<1>16. CASE CopyPdf(w) \/ LockRun(w)
  <2>1. job[w].pc \in Copying /\ Working(w, u)
    BY <1>16 DEF CopyPdf, LockRun, Working, Copying
  <2>2. /\ job'[w].up = u /\ job'[w].run = job[w].run /\ job'[w].made = job[w].made
        /\ job'[w].rend = job[w].rend /\ job'[w].rem = job[w].rem
        /\ job'[w].gen = job[w].gen /\ job'[w].pdfs \subseteq job[w].pdfs
        /\ job'[w].pc \in Copying
        /\ job'[w].pc = "write" => LockRun(w)
    BY <1>0, <1>16, CopyEffect, LockEffect DEF Copying
  <2>3. Chunk(w)' = Chunk(w)
    BY <2>2 DEF Chunk
  <2>4. CopiedBy(w) \subseteq CopiedBy(w)'
    BY <2>1, <2>2, <2>3 DEF CopiedBy
  <2>5. job'[w].pc = "write" => job'[w].tgt = job[w].run
    BY <1>0, <1>8, <2>1, <2>2, LockEffect
  <2>6. HeldBudget(w, u)'
    BY <1>1, <1>8, <2>1, <2>2, <2>3, <2>5 DEF HeldBudget, Copying
  <2>7. job'[w].pc \notin {"idle", "meta"}
    BY <2>2 DEF Copying
  <2> QED BY <1>0, <1>7, <2>1, <2>2, <2>4, <2>6, <2>7
<1> QED BY <1>0, <1>2, <1>9, <1>10, <1>11, <1>12, <1>13, <1>14, <1>15, <1>16
     DEF WorkerStep, WorkerFault, UnknownTemplate, CheckRunFull, Finish,
         HandleFailedUpload, FinishFails, Raise, WorkerCrash

\* The file of the worker that counts its chunk: the documents counted are owed
\* no longer, and what is left of the limit grants none but those that were
\* granted before.
LEMMA CountBudget ==
  ASSUME Cardinality(DocIds) < Unlimited, SteadyFiles, TypeInv, OneInstance,
         NEW u \in Uploads, u \notin raced, FileOK(u), FileBudget(u),
         NEW w \in Workers, Holds(w, u), CountChunk(w)
  PROVE  /\ FileBudget(u)' /\ GrantsKept(u)
         /\ Chunk(w) \subseteq Grant(u, job[w].rem) /\ Cardinality(Chunk(w)) = job[w].gen
         /\ \A r \in Runs : \A d \in Granted(r, u)' : d \notin Chunk(w)
         /\ Working(w, u) /\ job[w].run \in Runs /\ job[w].tgt = job[w].run
<1> USE TypeSplit DEF TypeInv
<1> DEFINE C == Chunk(w)
<1>0. /\ job[w].up = u /\ job[w] \in JobType /\ JobOK /\ job[w].rem \in Int
      /\ OnlyWorker(w) /\ req' = req /\ "incoming" \notin disk'[u]
      /\ procBy \in [Uploads -> [Templates -> Nat]] /\ job[w].pc = "write"
  <2>1. "incoming" \notin disk[u] /\ (WorkerStep(w) \/ WorkerFault(w))
    BY DEF OneInstance, WorkerStep
  <2> QED BY <2>1, WorkerHolds DEF JobOK, JobType, Holds, CountChunk, RowOK
<1>1. Working(w, u) /\ HeldBudget(w, u)
  BY <1>0 DEF Working, FileBudget
<1>2. /\ Initial(C, Wanted(u) \ Done(u)) /\ Cardinality(C) = job[w].gen
      /\ job[w].gen \in Nat /\ job[w].rend \in SUBSET (DOMAIN Docs[u])
  BY <1>0, ChunkNext
<1>3. C = job[w].rend /\ C \subseteq Grant(u, job[w].rem)
  <2>1. job[w].gen = Cardinality(job[w].rend) /\ job[w].rend \subseteq Grant(u, job[w].rem)
    BY <1>0, <1>1 DEF HeldBudget, Copying
  <2>2. job[w].rend \in SUBSET Nat /\ IsFiniteSet(job[w].rend)
    BY <1>2, SubsetCount
  <2>3. FirstOf(job[w].rend, Cardinality(job[w].rend)) = job[w].rend
    BY <2>2, InitialWhole, InitialIsFirst
  <2> QED BY <2>1, <2>3 DEF Chunk
<1>4. Done(u)' = Done(u) \cup C /\ job'[w].pc = "loop"
  BY HolderCounts
<1>5. Ahead(u)' = Ahead(u) \ C
  BY <1>4 DEF Ahead
<1>6. /\ job'[w].up = u /\ job'[w].run = job[w].run
      /\ job'[w].rem = (IF job[w].rem = Unlimited THEN job[w].rem
                        ELSE job[w].rem - job[w].gen)
      /\ job'[w].made = [t \in Templates |->
            job[w].made[t] + ChunkCount(u, job[w].rend, job[w].gen, t)]
  BY <1>0, CountEffect
<1>7. procBy'[u] = [t \in Templates |->
                      procBy[u][t] + ChunkCount(u, job[w].rend, job[w].gen, t)]
  BY <1>0 DEF CountChunk, FileOK, HeldOK
<1>8. ASSUME NEW d \in Grant(u, job[w].rem)'
      PROVE  d \in Grant(u, job[w].rem) /\ d \notin C
  <2>1. d \in Ahead(u) \ C
        /\ Cardinality({e \in Ahead(u) \ C : e <= d}) <= job'[w].rem
    BY <1>5, <1>8 DEF Grant, FirstOf
  <2> DEFINE S == {e \in Ahead(u) \ C : e <= d}
             T == {e \in Ahead(u) : e <= d}
  <2>2. IsFiniteSet(C) /\ S \in SUBSET Ahead(u) /\ T \in SUBSET (S \cup C)
        /\ T \in SUBSET Ahead(u)
    BY <1>2, <1>3, SubsetCount
  <2>3. /\ IsFiniteSet(S) /\ Cardinality(S) \in Nat
        /\ IsFiniteSet(T) /\ Cardinality(T) \in Nat
    BY <2>2, AheadType, FS_Subset, FS_CardinalityType
  <2>4. /\ IsFiniteSet(S \cup C) /\ Cardinality(S \cap C) \in Nat
        /\ Cardinality(S \cup C) = Cardinality(S) + Cardinality(C) - Cardinality(S \cap C)
        /\ Cardinality(S \cup C) \in Nat
    BY <2>2, <2>3, FS_Union, FS_Intersection, FS_CardinalityType
  <2>5. Cardinality(T) <= Cardinality(S \cup C)
    BY <2>2, <2>4, FS_Subset
  <2>6. CASE job[w].rem # Unlimited
    <3>1. Cardinality(S) <= job[w].rem - job[w].gen
      BY <1>6, <2>1, <2>6
    <3> HIDE DEF S, T, C
    <3>2. Cardinality(T) <= job[w].rem
      BY <1>0, <1>2, <2>3, <2>4, <2>5, <3>1
    <3> QED BY <2>1, <3>2 DEF Grant, FirstOf, T, C
  <2>7. CASE job[w].rem = Unlimited
    BY <2>1, <2>7, GrantUnlimited
  <2> QED BY <2>6, <2>7
<1>9. CopiedBy(w) \subseteq C
  BY DEF CopiedBy
<1>10. Exact(u)'
  <2> SUFFICES ASSUME u \notin Sheets, NEW t \in Templates
               PROVE  procBy'[u][t] = Cardinality(OfTemplate(u, Done(u)', t))
    BY DEF Exact, OfTemplate
  <2> DEFINE A == OfTemplate(u, Done(u), t)
             B == OfTemplate(u, C, t)
  <2>1. procBy[u][t] = Cardinality(A)
    BY DEF FileBudget, Exact
  <2>2. procBy'[u][t] = procBy[u][t] + Cardinality(B)
    BY <1>3, <1>7 DEF ChunkCount, OfTemplate
  <2>3. A \in SUBSET (DOMAIN Docs[u]) /\ B \in SUBSET (DOMAIN Docs[u]) /\ A \cap B = {}
    BY <1>2, <1>3, WantedType DEF OfTemplate, Done, FirstOf, Initial
  <2>4. OfTemplate(u, Done(u)', t) = A \cup B
    BY <1>4 DEF OfTemplate
  <2>5. IsFiniteSet(A) /\ IsFiniteSet(B)
    BY <2>3, SubsetCount
  <2> HIDE DEF A, B
  <2>6. Cardinality(A \cup B) = Cardinality(A) + Cardinality(B)
    BY <2>3, <2>5, DisjointCount
  <2> QED BY <2>1, <2>2, <2>4, <2>6
<1>11. ASSUME u \notin Sheets, NEW t \in Templates
       PROVE  job'[w].made[t] <= procBy'[u][t]
  <2>1. /\ job[w].made[t] <= procBy[u][t] /\ job[w].made[t] \in Nat /\ procBy[u][t] \in Nat
        /\ ChunkCount(u, job[w].rend, job[w].gen, t) \in Nat
    BY <1>0, <1>2, <1>11, ChunkCountType DEF FileBudget, JobType
  <2> DEFINE c == ChunkCount(u, job[w].rend, job[w].gen, t)
  <2>2. job'[w].made[t] = job[w].made[t] + c /\ procBy'[u][t] = procBy[u][t] + c
    BY <1>6, <1>7
  <2> HIDE DEF c
  <2> QED BY <2>1, <2>2 DEF c
<1>12. job[w].run \in Runs /\ job[w].tgt = job[w].run /\ upRun'[u] \in {NoRun, job[w].run}
  BY <1>0, <1>1 DEF HeldBudget, CountChunk
<1>13. HeldBudget(w, u)'
  BY <1>4, <1>6, <1>12 DEF HeldBudget, Copying
<1>14. /\ FileBudget(u)'
       /\ \A r \in Runs : \A d \in Granted(r, u)' :
              Working(w, u)' /\ job'[w].run = r /\ d \in Grant(u, job[w].rem)'
  BY <1>0, <1>4, <1>6, <1>10, <1>11, <1>13, HolderFile
<1>15. \A x \in Workers : Holds(x, u) => x = w
  BY DEF OneInstance
<1>16. ASSUME NEW r \in Runs, NEW d \in Granted(r, u)'
       PROVE  d \in Granted(r, u) /\ d \notin C
  BY <1>1, <1>6, <1>8, <1>14, <1>16, HolderHas
<1>17. GrantsKept(u)
  BY <1>9, <1>15, <1>16 DEF GrantsKept
<1> QED BY <1>1, <1>2, <1>3, <1>12, <1>14, <1>16, <1>17

-----------------------------------------------------------------------------
(* A step of a worker keeps every run within its budget *)

\* What is spent of a set is missing from what is left.
LEMMA Spent ==
  ASSUME NEW S \in SUBSET DocIds, NEW T \in SUBSET S, NEW R \in SUBSET (S \ T)
  PROVE  /\ Cardinality(R) + Cardinality(T) <= Cardinality(S)
         /\ Cardinality(R) \in Nat /\ Cardinality(T) \in Nat /\ Cardinality(S) \in Nat
<1>1. IsFiniteSet(S) /\ IsFiniteSet(T) /\ IsFiniteSet(R)
  BY DocIdsCount, FS_Subset
<1>2. R \cup T \in SUBSET S /\ R \cap T = {}
  OBVIOUS
<1>3. Cardinality(R \cup T) = Cardinality(R) + Cardinality(T)
  BY <1>1, <1>2, DisjointCount
<1> QED BY <1>1, <1>2, <1>3, FS_Subset, FS_CardinalityType

\* Who writes what of the sums of a run.
LEMMA WorkerSums ==
  ASSUME TypeInv, NEW w \in Workers, WorkerStep(w) \/ WorkerFault(w), ~CreateBillingRun(w)
  PROVE  /\ rtotal' = rtotal
         /\ ~CountChunk(w) => rsucc' = rsucc
         /\ ~CopyPdf(w) => copied' = copied
<1>0. rsucc \in [Runs -> Int]
  BY TypeSplit DEF TypeInv, RunOK
<1>1. \A r : [rsucc EXCEPT ![r] = rsucc[r]] = rsucc
  BY <1>0
<1>2. ASSUME NEW u, RecordFailure(u)
      PROVE  rtotal' = rtotal /\ rsucc' = rsucc
  BY <1>1, <1>2 DEF RecordFailure, Tally, run
<1>3. ASSUME NEW r, NEW n, UpdateBillingRun(r, n)
      PROVE  rtotal' = rtotal /\ (n = 0 => rsucc' = rsucc)
  BY <1>1, <1>3 DEF UpdateBillingRun, Tally, run
<1>4. CASE UnknownTemplate(w) \/ HandleFailedUpload(w)
  BY <1>2, <1>4 DEF UnknownTemplate, HandleFailedUpload, run, history
<1>5. CASE CountChunk(w) \/ Finish(w)
  BY <1>3, <1>5 DEF CountChunk, Finish, history
<1> QED BY <1>4, <1>5
     DEF WorkerStep, WorkerFault, Claim, ReadMetadata, LookupUpload, CheckRunFull,
         NextChunk, CapPdfs, CopyPdf, LockRun, CreateBillingRunFails, FinishFails,
         Raise, WorkerCrash, run, history

\* The claim of a file leaves its sidecar waiting.
LEMMA ClaimBudget ==
  ASSUME TypeInv, OneInstance, NEW u \in Uploads, u \notin raced, FileBudget(u),
         NEW w \in Workers, Claim(w)
  PROVE  FileBudget(u)' /\ GrantsKept(u)
<1> USE TypeSplit DEF TypeInv
<1>0. PICK v \in Uploads :
        /\ "incoming" \in disk[v] /\ disk' = [disk EXCEPT ![v] = @ \ {"incoming"}]
        /\ OnlyWorker(w) /\ job'[w].pc = "meta" /\ job'[w].up = v
        /\ job'[w].made = [t \in Templates |-> 0]
  BY ClaimEffect
<1>1. /\ job[w].pc = "idle" /\ req' = req /\ UNCHANGED <<processed, procBy, meta, upRun>>
      /\ status' = status /\ disk \in [Uploads -> SUBSET Places]
      /\ procBy \in [Uploads -> [Templates -> Nat]]
  BY DEF Claim, row, FilesOK, RowOK
<1>2. CASE u # v
  <2>1. SameFile(u)
    BY <1>0, <1>1, <1>2 DEF SameFile
  <2>2. \A x \in Workers : (Holds(x, u)' <=> Holds(x, u))
                           /\ (Holds(x, u) => job'[x] = job[x])
    BY <1>0, <1>1, <1>2 DEF Holds, OnlyWorker
  <2> QED BY <1>1, <2>1, <2>2, BudgetUntouched
<1>3. CASE u = v
  <2>1. /\ \A x \in Workers : ~Holds(x, u)
        /\ \A q \in Requests : ~Queuing(q, u) /\ ~Queuing(q, u)'
    BY <1>0, <1>1, <1>3 DEF OneInstance, Queuing
  <2>2. \A x \in Workers : Holds(x, u)' => x = w
    BY <1>0, <2>1 DEF Holds, OnlyWorker
  <2>3. \A x \in Workers : ~Working(x, u)'
    BY <1>0, <2>2 DEF Working
  <2>4. Waiting(u)
    BY <1>0, <1>3 DEF Waiting
  <2>5. /\ Done(u)' = Done(u) /\ Ahead(u)' = Ahead(u)
        /\ \A lim : Grant(u, lim)' = Grant(u, lim)
    BY <1>1 DEF Done, Ahead, Wanted, Grant
  <2>6. ASSUME NEW r \in Runs, NEW d \in Granted(r, u)' PROVE d \in Granted(r, u)
    <3>1. d \in Ahead(u)' /\ \E m \in meta'[u] : m.run = r /\ d \in Grant(u, m.lim)'
      BY <2>1, <2>3, <2>6 DEF Granted
    <3>2. PICK m \in meta[u] : m.run = r /\ d \in Grant(u, m.lim)'
      BY <1>1, <3>1
    <3>3. d \in Grant(u, m.lim)
      BY <3>2, <2>5 DEF Grant
    <3> QED BY <2>4, <2>5, <3>1, <3>2, <3>3 DEF Granted
  <2>7. GrantsKept(u)
    BY <2>1, <2>6 DEF GrantsKept
  <2>8. Exact(u)'
    BY <1>1, <2>5 DEF FileBudget, Exact, OfTemplate
  <2>9. \A t \in Templates : job'[w].made[t] <= procBy'[u][t]
    BY <1>0, <1>1
  <2>10. \A m \in meta'[u] : m.run \in Runs /\ upRun'[u] \in {NoRun, m.run}
    BY <1>1, <2>4 DEF FileBudget
  <2> QED BY <2>1, <2>2, <2>3, <2>7, <2>8, <2>9, <2>10 DEF FileBudget
<1> QED BY <1>2, <1>3


\* A copy spends one document of what its run may still print.
LEMMA CopyWithin ==
  ASSUME TypeInv, OneInstance, NEW u \in Uploads, u \notin raced, FileOK(u), FileBudget(u),
         NEW w \in Workers, Holds(w, u), CopyPdf(w),
         \A v \in Uploads : GrantsKept(v), NEW r \in Runs, WithinBudget(r)
  PROVE  WithinBudget(r)'
<1> USE TypeSplit DEF TypeInv
<1>0. /\ job[w].up = u /\ job[w].pc = "copy" /\ NoRun \notin Runs
      /\ rsucc' = rsucc /\ rtotal' = rtotal
      /\ copied \in [Runs -> Nat] /\ rsucc \in [Runs -> Int] /\ rtotal \in [Runs -> Nat]
  BY QueueAssumption DEF Holds, CopyPdf, run, HistoryOK, RunOK
<1>1. Working(w, u) /\ HeldBudget(w, u)
  BY <1>0 DEF Working, FileBudget
<1>2. job[w].run \in Runs /\ job[w].rend \subseteq Grant(u, job[w].rem)
      /\ job[w].pdfs \subseteq Chunk(w)
  BY <1>0, <1>1 DEF HeldBudget, Copying
<1>3. copied' = [copied EXCEPT ![job[w].run] = @ + 1]
  BY <1>0, <1>2 DEF CopyPdf
<1>4. Owed(r)' \subseteq Owed(r) /\ Unprinted(r)' \subseteq Unprinted(r)
  BY OwedKept
<1>5. CASE r # job[w].run
  <2>1. copied'[r] = copied[r]
    BY <1>0, <1>3, <1>5
  <2> QED BY <1>0, <1>4, <2>1, WithinKept
<1>6. CASE r = job[w].run
  <2>1. PICK d \in job[w].pdfs :
          /\ job'[w].up = u /\ job'[w].rend = job[w].rend /\ job'[w].gen = job[w].gen
          /\ job'[w].pdfs = job[w].pdfs \ {d} /\ job'[w].pc \in {"copy", "count"}
    BY <1>0, CopyEffect
  <2>2. d \in Chunk(w) /\ d \in Grant(u, job[w].rem)
    BY <1>2, <2>1 DEF Chunk, FirstOf
  <2>3. d \in DOMAIN Docs[u] /\ <<u, d>> \in DocIds
    BY <2>2, AheadType DEF Grant, FirstOf, DocIds
  <2>4. d \in Granted(r, u)
    BY <1>1, <1>6, <2>2, HolderHas
  <2>5. \A x \in Workers : Holds(x, u) => d \notin CopiedBy(x)
    <3>1. \A x \in Workers : Holds(x, u) => x = w
      BY DEF OneInstance
    <3>2. d \notin CopiedBy(w)
      BY <2>1 DEF CopiedBy
    <3> QED BY <3>1, <3>2
  <2>6. <<u, d>> \in Unprinted(r)
    BY <2>3, <2>4, <2>5 DEF Unprinted, Owed
  <2>7. Holds(w, u)' /\ d \in CopiedBy(w)'
    <3>1. Chunk(w)' = Chunk(w)
      BY <2>1 DEF Chunk
    <3> QED BY <2>1, <2>2, <3>1 DEF Holds, CopiedBy, Copying
  <2>8. <<u, d>> \notin Unprinted(r)'
    BY <2>7 DEF Unprinted
  <2> DEFINE S == Unprinted(r)
             T == {<<u, d>>}
             O == Owed(r)
  <2>9. /\ S \in SUBSET DocIds /\ T \in SUBSET S /\ S' \in SUBSET (S \ T)
        /\ O \in SUBSET DocIds /\ {} \in SUBSET O /\ O' \in SUBSET (O \ {})
    BY <1>4, <2>6, <2>8 DEF Unprinted, Owed
  <2>10. Cardinality(T) = 1 /\ Cardinality({}) = 0
    BY FS_Singleton, FS_EmptySet
  <2>11. /\ Cardinality(S') + 1 <= Cardinality(S) /\ Cardinality(O') <= Cardinality(O)
         /\ Cardinality(S') \in Nat /\ Cardinality(S) \in Nat
         /\ Cardinality(O') \in Nat /\ Cardinality(O) \in Nat
    <3> HIDE DEF S, T, O
    <3>1. /\ Cardinality(S') + Cardinality(T) <= Cardinality(S)
          /\ Cardinality(S') \in Nat /\ Cardinality(S) \in Nat
      BY <2>9, Spent
    <3>2. /\ Cardinality(O') + Cardinality({}) <= Cardinality(O)
          /\ Cardinality(O') \in Nat /\ Cardinality(O) \in Nat
      BY <2>9, Spent
    <3> QED BY <2>10, <3>1, <3>2
  <2>12. copied'[r] = copied[r] + 1 /\ rsucc'[r] = rsucc[r] /\ rtotal'[r] = rtotal[r]
         /\ copied[r] \in Nat /\ rsucc[r] \in Int /\ rtotal[r] \in Nat
    BY <1>0, <1>3, <1>6
  <2>13. rsucc[r] + Cardinality(O) <= rtotal[r] /\ copied[r] + Cardinality(S) <= rtotal[r]
    BY DEF WithinBudget
  <2>14. /\ rsucc'[r] + Cardinality(O') <= rtotal'[r]
         /\ copied'[r] + Cardinality(S') <= rtotal'[r]
    <3> HIDE DEF S, T, O
    <3> QED BY <2>11, <2>12, <2>13
  <2> QED BY <2>14 DEF WithinBudget
<1> QED BY <1>5, <1>6

\* The count of a chunk spends what it adds to the run.
LEMMA CountWithin ==
  ASSUME Cardinality(DocIds) < Unlimited, SteadyFiles, TypeInv, OneInstance,
         NEW u \in Uploads, u \notin raced, FileOK(u), FileBudget(u),
         NEW w \in Workers, Holds(w, u), CountChunk(w),
         \A v \in Uploads : GrantsKept(v), \A r \in Runs : WithinBudget(r),
         NEW r \in Runs
  PROVE  WithinBudget(r)'
<1> USE TypeSplit DEF TypeInv
<1> DEFINE C == Chunk(w)
<1>1. /\ C \subseteq Grant(u, job[w].rem) /\ Cardinality(C) = job[w].gen
      /\ \A s \in Runs : \A d \in Granted(s, u)' : d \notin C
      /\ Working(w, u) /\ job[w].run \in Runs /\ job[w].tgt = job[w].run
  BY CountBudget
<1>2. /\ job[w].gen \in Nat /\ NoRun \notin Runs
      /\ copied \in [Runs -> Nat] /\ rsucc \in [Runs -> Int] /\ rtotal \in [Runs -> Nat]
  BY QueueAssumption DEF JobOK, JobType, HistoryOK, RunOK
<1>3. copied' = copied /\ rtotal' = rtotal
  <2>1. ~CreateBillingRun(w) /\ ~CopyPdf(w) /\ WorkerStep(w)
    BY DEF CountChunk, CreateBillingRun, CopyPdf, WorkerStep
  <2> QED BY <2>1, WorkerSums
<1>4. Owed(r)' \subseteq Owed(r) /\ Unprinted(r)' \subseteq Unprinted(r)
  BY OwedKept
<1>5. UpdateBillingRun(job[w].run, job[w].gen)
  BY <1>1 DEF CountChunk
<1>6. CASE r # job[w].run
  <2>1. rsucc'[r] = rsucc[r]
    BY <1>1, <1>2, <1>5, <1>6 DEF UpdateBillingRun, Tally
  <2> QED BY <1>3, <1>4, <2>1, WithinKept
<1>7. CASE r = job[w].run
  <2>1. rsucc'[r] \in Int /\ rsucc'[r] <= rsucc[r] + job[w].gen
    BY <1>1, <1>2, <1>5, <1>7 DEF UpdateBillingRun, Tally, SmallerOf
  <2>2. {u} \X C \subseteq Owed(r)
        /\ IsFiniteSet(C)
    BY <1>1, <1>7, GrantHasRoom
  <2>3. ASSUME NEW p \in Owed(r)' PROVE p \notin {u} \X C
    BY <1>1, <2>3 DEF Owed
  <2> DEFINE O == Owed(r)
             S == Unprinted(r)
             T == {u} \X C
  <2>4. /\ O \in SUBSET DocIds /\ T \in SUBSET O /\ O' \in SUBSET (O \ T)
        /\ S \in SUBSET DocIds /\ {} \in SUBSET S /\ S' \in SUBSET (S \ {})
    BY <1>4, <2>2, <2>3 DEF Unprinted, Owed
  <2>5. Cardinality(T) = job[w].gen /\ Cardinality({}) = 0
    BY <1>1, <2>2, FileCount, FS_EmptySet
  <2>6. /\ Cardinality(O') + job[w].gen <= Cardinality(O)
        /\ Cardinality(S') <= Cardinality(S)
        /\ Cardinality(S') \in Nat /\ Cardinality(S) \in Nat
        /\ Cardinality(O') \in Nat /\ Cardinality(O) \in Nat
    <3> HIDE DEF S, T, O, C
    <3>1. /\ Cardinality(O') + Cardinality(T) <= Cardinality(O)
          /\ Cardinality(O') \in Nat /\ Cardinality(O) \in Nat
      BY <2>4, Spent
    <3>2. /\ Cardinality(S') + Cardinality({}) <= Cardinality(S)
          /\ Cardinality(S') \in Nat /\ Cardinality(S) \in Nat
      BY <2>4, Spent
    <3> QED BY <2>5, <3>1, <3>2
  <2>7. /\ copied'[r] = copied[r] /\ rtotal'[r] = rtotal[r]
        /\ copied[r] \in Nat /\ rsucc[r] \in Int /\ rtotal[r] \in Nat
    BY <1>2, <1>3
  <2>8. rsucc[r] + Cardinality(O) <= rtotal[r] /\ copied[r] + Cardinality(S) <= rtotal[r]
    BY DEF WithinBudget
  <2>9. /\ rsucc'[r] + Cardinality(O') <= rtotal'[r]
        /\ copied'[r] + Cardinality(S') <= rtotal'[r]
    <3> HIDE DEF S, T, O
    <3> QED BY <1>2, <2>1, <2>6, <2>7, <2>8
  <2> QED BY <2>9 DEF WithinBudget
<1> QED BY <1>6, <1>7

LEMMA WorkerBudgeted ==
  ASSUME Cardinality(DocIds) < Unlimited, SteadyFiles, CountsInv, LedgerInv, Steady,
         raced = {}, Budgeted, NEW w \in Workers, WorkerStep(w) \/ WorkerFault(w)
  PROVE  Budgeted'
<1> USE DEF CountsInv
<1>0. /\ OnlyWorker(w) /\ UNCHANGED <<req, raced>> /\ RunOK /\ HistoryOK
      /\ \A u \in Uploads : u \notin raced /\ FileOK(u) /\ FileBudget(u)
      /\ \A r \in Runs : WithinBudget(r)
  BY WorkerHolds, TypeSplit DEF TypeInv, CountInv, Budgeted
<1>1. ~CreateBillingRun(w)
  <2> SUFFICES ASSUME CreateBillingRun(w) PROVE FALSE
    OBVIOUS
  <2>1. job[w].pc = "open" /\ ~CountChunk(w)
    BY DEF CreateBillingRun, CountChunk
  <2>2. PICK u \in Uploads : Holds(w, u)
    BY <2>1 DEF TypeInv, Holding, Holds
  <2> QED BY <1>0, <2>1, <2>2, HolderBudget
<1>2. ASSUME NEW u \in Uploads PROVE FileBudget(u)' /\ GrantsKept(u)
  <2>1. CASE Claim(w)
    BY <1>0, <2>1, ClaimBudget
  <2>2. CASE Holds(w, u) /\ CountChunk(w)
    BY <1>0, <2>2, CountBudget
  <2>3. CASE Holds(w, u) /\ ~CountChunk(w)
    BY <1>0, <2>3, HolderBudget
  <2>4. CASE ~Holds(w, u) /\ ~Claim(w)
    <3>1. SameFile(u) /\ upRun'[u] = upRun[u]
      BY <1>1, <2>4, WorkerTouches, WorkerRow
    <3>2. \A x \in Workers : (Holds(x, u)' <=> Holds(x, u))
                             /\ (Holds(x, u) => job'[x] = job[x])
      BY <1>0, <2>4, WorkerHolds DEF Holds, OnlyWorker
    <3> QED BY <1>0, <3>1, <3>2, BudgetUntouched
  <2> QED BY <2>1, <2>2, <2>3, <2>4
<1>3. ASSUME NEW q \in Requests PROVE AskedWithin(q)'
  <2>1. AskedWithin(q) /\ req' = req
    BY <1>0 DEF Budgeted
  <2> QED BY <2>1 DEF AskedWithin, Asked
<1>4. ASSUME NEW r \in Runs
      PROVE  WithinBudget(r)' /\ (rstatus'[r] = "absent" => copied'[r] = 0)
  <2>1. CASE CopyPdf(w)
    <3>1. job[w].pc = "copy" /\ ~CountChunk(w)
      BY <2>1 DEF CopyPdf, CountChunk
    <3>2. PICK u \in Uploads : Holds(w, u)
      BY <3>1 DEF TypeInv, Holding, Holds
    <3>3. WithinBudget(r)'
      BY <1>0, <1>2, <2>1, <3>2, CopyWithin
    <3>4. rstatus' = rstatus /\ copied \in [Runs -> Nat]
      BY <1>0, <2>1 DEF CopyPdf, run, HistoryOK
    <3>5. copied'[r] = copied[r] \/ r = job[w].run
      BY <2>1, <3>4 DEF CopyPdf
    <3>6. NoRun \notin Runs
      BY QueueAssumption
    <3>7. r = job[w].run => rstatus[r] # "absent"
      BY <3>6 DEF LedgerInv, JobsRefer, Opened
    <3> QED BY <3>3, <3>4, <3>5, <3>7 DEF Budgeted
  <2>2. CASE ~CopyPdf(w)
    <3>1. copied' = copied /\ rtotal' = rtotal
      BY <1>1, <2>2, WorkerSums
    <3>2. rstatus'[r] = "absent" => copied'[r] = 0
      BY <3>1 DEF Budgeted, Steady, Opened
    <3>3. CASE CountChunk(w)
      <4>1. PICK u \in Uploads : Holds(w, u)
        BY <3>3 DEF TypeInv, Holding, Holds, CountChunk
      <4> QED BY <1>0, <1>2, <3>2, <3>3, <4>1, CountWithin
    <3>4. CASE ~CountChunk(w)
      <4>1. rsucc' = rsucc
        BY <1>1, <3>4, WorkerSums
      <4> QED BY <1>0, <1>2, <3>1, <3>2, <4>1, OwedKept, WithinKept
    <3> QED BY <3>3, <3>4
  <2> QED BY <2>1, <2>2
<1> QED BY <1>2, <1>3, <1>4 DEF Budgeted

-----------------------------------------------------------------------------
(* A step of a request keeps every run within its budget *)

\* A file whose grants move from its request to its sidecar, or end.
LEMMA RequestFile ==
  ASSUME NEW u \in Uploads, FileBudget(u), UNCHANGED <<processed, procBy, job>>,
         upRun'[u] \in {upRun[u], NoRun},
         \A p \in Requests : Queuing(p, u)' =>
           Queuing(p, u) /\ req'[p].run = req[p].run /\ req'[p].lim = req[p].lim,
         Waiting(u)' =>
           \/ Waiting(u) /\ meta'[u] = meta[u]
           \/ \E p \in Requests : Queuing(p, u) /\ meta'[u] = {Sidecar(p, u)}
  PROVE  FileBudget(u)' /\ GrantsKept(u)
<1>1. /\ Done(u)' = Done(u) /\ Ahead(u)' = Ahead(u)
      /\ \A lim : Grant(u, lim)' = Grant(u, lim)
  BY DEF Done, Ahead, Wanted, Grant
<1>2. \A w \in Workers :
        /\ Holds(w, u)' <=> Holds(w, u)
        /\ Working(w, u)' <=> Working(w, u)
        /\ CopiedBy(w)' = CopiedBy(w) /\ Chunk(w)' = Chunk(w)
        /\ Grant(u, job[w].rem)' = Grant(u, job[w].rem)
  BY <1>1 DEF Holds, Working, CopiedBy, Chunk, Grant
<1>3. \A p \in Requests : Sidecar(p, u).run = req[p].run /\ Sidecar(p, u).lim = req[p].lim[u]
  BY DEF Sidecar
<1>4. ASSUME NEW r \in Runs, NEW d \in Granted(r, u)' PROVE d \in Granted(r, u)
  <2>1. d \in Ahead(u)
    BY <1>1, <1>4 DEF Granted
  <2>2. CASE \E p \in Requests :
               Queuing(p, u)' /\ req'[p].run = r /\ d \in Grant(u, req[p].lim[u])'
    <3>1. PICK p \in Requests :
            Queuing(p, u)' /\ req'[p].run = r /\ d \in Grant(u, req[p].lim[u])'
      BY <2>2
    <3>2. d \in Grant(u, req[p].lim[u])
      BY <1>1, <3>1 DEF Grant
    <3> QED BY <2>1, <3>1, <3>2 DEF Granted
  <2>3. CASE Waiting(u)' /\ \E m \in meta'[u] : m.run = r /\ d \in Grant(u, m.lim)'
    <3>1. PICK m \in meta'[u] : m.run = r /\ d \in Grant(u, m.lim)'
      BY <2>3
    <3>2. d \in Grant(u, m.lim)
      BY <1>1, <3>1 DEF Grant
    <3> QED BY <1>3, <2>1, <2>3, <3>1, <3>2 DEF Granted
  <2>4. CASE \E w \in Workers :
               Working(w, u)' /\ job'[w].run = r /\ d \in Grant(u, job[w].rem)'
    BY <1>2, <2>1, <2>4 DEF Granted
  <2> QED BY <1>4, <2>2, <2>3, <2>4 DEF Granted
<1>5. Exact(u)'
  BY <1>1 DEF FileBudget, Exact, OfTemplate
<1>6. \A w \in Workers : Working(w, u)' => HeldBudget(w, u)'
  BY <1>2 DEF FileBudget, HeldBudget
<1>7. u \notin Sheets => \A w \in Workers : Holds(w, u)' =>
                           \A t \in Templates : job'[w].made[t] <= procBy'[u][t]
  BY <1>2 DEF FileBudget
<1>8. \A p \in Requests : Queuing(p, u)' =>
        req'[p].run \in Runs /\ upRun'[u] \in {NoRun, req'[p].run}
  BY DEF FileBudget
<1>9. Waiting(u)' => \A m \in meta'[u] : m.run \in Runs /\ upRun'[u] \in {NoRun, m.run}
  BY <1>3 DEF FileBudget
<1>10. FileBudget(u)'
  BY <1>5, <1>6, <1>7, <1>8, <1>9 DEF FileBudget
<1>11. \A x \in Workers : Holds(x, u) => Holds(x, u)' /\ CopiedBy(x)' = CopiedBy(x)
  BY <1>2
<1> QED BY <1>4, <1>10, <1>11 DEF GrantsKept

\* What a request asks for is its own business until it commits.
LEMMA AskedKept ==
  ASSUME \A q \in Requests : AskedWithin(q), NEW q \in Requests, OnlyRequest(q),
         req'[q].pc # "commit"
  PROVE  \A p \in Requests : AskedWithin(p)'
<1> SUFFICES ASSUME NEW p \in Requests, p # q PROVE AskedWithin(p)'
  BY DEF AskedWithin
<1>1. req'[p] = req[p]
  BY DEF OnlyRequest
<1> QED BY <1>1 DEF AskedWithin, Asked

\* Staging and the end of a request: no file is granted anything new.
LEMMA StagingBudget ==
  ASSUME CountsInv, raced = {}, Budgeted, NEW q \in Requests,
         StageMeta(q) \/ StageData(q) \/ StageFails(q) \/ FinishBatch(q) \/ ApiCrash(q),
         NEW u \in Uploads
  PROVE  FileBudget(u)' /\ GrantsKept(u) /\ OnlyRequest(q) /\ req'[q].pc # "commit"
<1> USE TypeSplit DEF CountsInv, TypeInv
<1>0. /\ UNCHANGED <<processed, procBy, job, upRun>> /\ ReqOK
      /\ meta \in [Uploads -> SUBSET SidecarType] /\ disk \in [Uploads -> SUBSET Places]
  BY DEF StageMeta, StageData, StageFails, FinishBatch, ApiCrash, row, FilesOK
<1>1. /\ FileBudget(u) /\ FileOK(u)
      /\ \A w \in Workers : Holds(w, u)' <=> Holds(w, u)
  BY <1>0 DEF Budgeted, CountInv, Holds
<1>2. ASSUME Queuing(q, u) PROVE ~Waiting(u)
  BY <1>2 DEF OneInstance, Waiting
<1>3. CASE StageMeta(q)
  <2>1. PICK v \in Uploads :
          /\ Staging(q, v) /\ meta' = [meta EXCEPT ![v] = {Sidecar(q, v)}]
          /\ OnlyRequest(q) /\ req[q].pc = "meta" /\ req'[q].pc = "data"
          /\ req'[q].todo = req[q].todo /\ req'[q].run = req[q].run
          /\ req'[q].lim = req[q].lim
    BY <1>3, StageMetaEffect
  <2>2. disk' = disk
    BY <1>3 DEF StageMeta
  <2>3. Waiting(u)' => Waiting(u) /\ meta'[u] = meta[u]
    <3>1. Waiting(u)' <=> Waiting(u)
      BY <1>0, <2>2 DEF Waiting, Holds
    <3>2. u = v => ~Waiting(u)
      BY <1>2, <2>1 DEF Queuing, Staging
    <3> QED BY <1>0, <2>1, <3>1, <3>2
  <2>4. \A p \in Requests : Queuing(p, u)' =>
          Queuing(p, u) /\ req'[p].run = req[p].run /\ req'[p].lim = req[p].lim
    BY <2>1 DEF Queuing, OnlyRequest
  <2> QED BY <1>0, <1>1, <2>1, <2>3, <2>4, RequestFile
<1>4. ASSUME NEW v \in Uploads, Staging(q, v), req[q].pc \in {"meta", "data"},
             NEW bad \in SUBSET Uploads, Staged(q, v, bad), meta' = meta,
             \/ disk' = disk
             \/ req[q].pc = "data" /\ disk' = [disk EXCEPT ![v] = @ \cup {"incoming"}]
      PROVE  FileBudget(u)' /\ GrantsKept(u) /\ OnlyRequest(q) /\ req'[q].pc # "commit"
  <2>1. /\ OnlyRequest(q) /\ req'[q].pc \in {"finish", "meta"}
        /\ req'[q].todo = req[q].todo \ {v}
        /\ req'[q].run = req[q].run /\ req'[q].lim = req[q].lim
    BY <1>4, StagedEffect
  <2>2. \A p \in Requests : Queuing(p, u)' =>
          Queuing(p, u) /\ req'[p].run = req[p].run /\ req'[p].lim = req[p].lim
    BY <1>4, <2>1 DEF Queuing, OnlyRequest
  <2>3. \/ Waiting(u)' => Waiting(u)
        \/ u = v /\ req[q].pc = "data"
    BY <1>0, <1>4 DEF Waiting, Holds
  <2>4. ASSUME u = v, req[q].pc = "data"
        PROVE  Queuing(q, u) /\ meta'[u] = {Sidecar(q, u)}
    BY <1>1, <1>4, <2>4 DEF Queuing, Staging, FileOK, Chooses, ChosenOK
  <2>5. Waiting(u)' =>
          \/ Waiting(u) /\ meta'[u] = meta[u]
          \/ \E p \in Requests : Queuing(p, u) /\ meta'[u] = {Sidecar(p, u)}
    BY <1>4, <2>3, <2>4
  <2> QED BY <1>0, <1>1, <2>1, <2>2, <2>5, RequestFile
<1>5. CASE StageData(q)
  <2>1. PICK v \in Uploads :
          /\ Staging(q, v)
          /\ disk' = disk \/ disk' = [disk EXCEPT ![v] = @ \cup {"incoming"}]
          /\ \E bad \in SUBSET Uploads : Staged(q, v, bad)
    BY <1>5 DEF StageData
  <2> QED BY <1>4, <1>5, <2>1 DEF StageData, At
<1>6. CASE StageFails(q)
  BY <1>4, <1>6 DEF StageFails, At, files
<1>7. CASE FinishBatch(q) \/ ApiCrash(q)
  <2>1. /\ OnlyRequest(q) /\ req'[q].pc \in {"done", "dead"}
        /\ meta' = meta /\ disk' = disk
    BY <1>0, <1>7, EndEffect DEF FinishBatch, ApiCrash, files
  <2>2. \A p \in Requests : Queuing(p, u)' =>
          Queuing(p, u) /\ req'[p].run = req[p].run /\ req'[p].lim = req[p].lim
    BY <2>1 DEF Queuing, OnlyRequest
  <2>3. Waiting(u)' => Waiting(u) /\ meta'[u] = meta[u]
    BY <1>0, <2>1 DEF Waiting, Holds
  <2> QED BY <1>0, <1>1, <2>1, <2>2, <2>3, RequestFile
<1> QED BY <1>3, <1>5, <1>6, <1>7


\* The commit grants the files of the request to the run it opens, and to no
\* other.
LEMMA CommitFile ==
  ASSUME CountsInv, LedgerInv, raced' = {}, Budgeted, NEW q \in Requests, CommitBatch(q),
         NEW u \in Uploads
  PROVE  /\ FileBudget(u)'
         /\ \A r \in Runs : \A d \in Granted(r, u)' :
              \/ r # req'[q].run /\ d \in Granted(r, u)
              \/ r = req'[q].run /\ <<u, d>> \in Asked(q)
<1> USE TypeSplit DEF CountsInv, TypeInv
<1> DEFINE s == req'[q].run
<1>0. /\ UNCHANGED <<processed, procBy, job, meta, disk>>
      /\ raced = {} /\ (u \in req[q].todo => ~InHand(u) /\ processed[u] = req[q].off[u])
      /\ upRun \in [Uploads -> RunId] /\ NoRun \notin Runs
  BY CommitEffect, QueueAssumption DEF CommitBatch, files, RowOK
<1>1. /\ OnlyRequest(q) /\ req[q].pc = "commit" /\ req'[q].pc = "meta"
      /\ req'[q].todo = req[q].todo /\ req'[q].lim = req[q].lim
      /\ s \in Runs /\ rstatus[s] = "absent"
      /\ upRun'[u] = IF u \in req[q].todo THEN s
                     ELSE IF u \in req[q].clear THEN NoRun ELSE upRun[u]
  BY <1>0, CommitEffect DEF NextRun
<1>2. FileBudget(u)
  BY DEF Budgeted
<1>3. /\ \A p \in Requests : Queuing(p, u) => req[p].run # s
      /\ \A m \in meta[u] : m.run # s
      /\ \A w \in Workers : job[w].run # s
  <2>1. \A p \in Requests : Queuing(p, u) => req[p].run # s
    BY <1>1 DEF Queuing, LedgerInv, RequestsRefer, Opened, NoMove
  <2>2. \A m \in meta[u] : m.run # s
    BY <1>0, <1>1 DEF LedgerInv, SidecarsRefer, Opened
  <2>3. \A w \in Workers : job[w].run # s
    BY <1>0, <1>1 DEF LedgerInv, JobsRefer, Opened
  <2> QED BY <2>1, <2>2, <2>3
<1>4. (Waiting(u)' <=> Waiting(u)) /\ meta'[u] = meta[u]
  BY <1>0 DEF Waiting, Holds
<1>5. CASE u \notin req[q].todo
  <2>1. \A p \in Requests : Queuing(p, u)' =>
          Queuing(p, u) /\ req'[p].run = req[p].run /\ req'[p].lim = req[p].lim
    BY <1>1, <1>5 DEF Queuing, OnlyRequest
  <2>2. FileBudget(u)' /\ GrantsKept(u)
    BY <1>0, <1>1, <1>2, <1>4, <1>5, <2>1, RequestFile
  <2>3. Granted(s, u) = {}
    BY <1>3 DEF Granted
  <2> QED BY <2>2, <2>3 DEF GrantsKept
<1>6. CASE u \in req[q].todo
  <2>1. /\ \A w \in Workers : ~Holds(w, u)
        /\ "incoming" \notin disk[u]
        /\ \A p \in Requests : ~Queuing(p, u)
    BY <1>0, <1>6 DEF InHand, Queuing
  <2>2. /\ \A w \in Workers : ~Holds(w, u)'
        /\ \A p \in Requests : Queuing(p, u)' => p = q
        /\ ~Waiting(u)'
    BY <1>0, <1>1, <2>1 DEF Holds, Queuing, OnlyRequest, Waiting
  <2>3. Exact(u)'
    BY <1>0, <1>2 DEF FileBudget, Exact, OfTemplate, Done, Wanted
  <2>4. FileBudget(u)'
    BY <1>1, <1>6, <2>2, <2>3 DEF FileBudget, Working
  <2>5. \A r \in Runs : \A d \in Granted(r, u)' :
          r = s /\ d \in Ahead(u)' /\ d \in FirstOf(Ahead(u)', req[q].lim[u])
    <3>1. Grant(u, req[q].lim[u])' = FirstOf(Ahead(u)', req[q].lim[u])
      BY <1>1 DEF Grant, FirstOf
    <3> QED BY <2>2, <3>1 DEF Granted, Working
  <2>6. ASSUME NEW d \in Ahead(u)', d \in FirstOf(Ahead(u)', req[q].lim[u])
        PROVE  <<u, d>> \in Asked(q)
    <3>1. d \in Ahead(u)'
      OBVIOUS
    <3>2. Ahead(u)' = ApprovedDocs(Docs[u], Approved)
                        \ FirstOf(Wanted(u), req[q].off[u])
      BY <1>0, <1>6 DEF Ahead, Done, Wanted
    <3>3. Ahead(u)' = Ahead(u)
      BY <1>0 DEF Ahead, Done, Wanted
    <3>4. <<u, d>> \in DocIds
      BY <3>1, <3>3, AheadType
    <3> QED BY <1>6, <2>6, <3>2, <3>4 DEF Asked
  <2> QED BY <2>4, <2>5, <2>6
<1> QED BY <1>5, <1>6

LEMMA CommitBudgeted ==
  ASSUME CountsInv, LedgerInv, Steady, raced' = {}, Budgeted, NEW q \in Requests,
         CommitBatch(q)
  PROVE  Budgeted'
<1> USE TypeSplit DEF CountsInv, TypeInv
<1> DEFINE s == req'[q].run
<1>1. /\ OnlyRequest(q) /\ req[q].pc = "commit" /\ req'[q].pc = "meta"
      /\ s \in Runs /\ rstatus[s] = "absent"
      /\ rtotal' = [rtotal EXCEPT ![s] = req[q].total] /\ rsucc' = rsucc
  BY CommitEffect DEF NextRun, InsertRun
<1>2. /\ copied' = copied /\ job' = job /\ RunOK /\ HistoryOK
  BY DEF CommitBatch
<1>3. \A u \in Uploads :
        /\ FileBudget(u)'
        /\ \A r \in Runs : \A d \in Granted(r, u)' :
             \/ r # s /\ d \in Granted(r, u)
             \/ r = s /\ <<u, d>> \in Asked(q)
  BY CommitFile
<1>4. \A p \in Requests : AskedWithin(p)'
  BY <1>1, AskedKept DEF Budgeted
<1>5. ASSUME NEW r \in Runs PROVE rstatus'[r] = "absent" => copied'[r] = 0
  BY <1>2 DEF Budgeted, Steady, Opened
<1>6. \A p \in DocIds : p[1] \in Uploads /\ p = <<p[1], p[2]>>
  BY DEF DocIds
<1>7. ASSUME NEW r \in Runs \ {s} PROVE WithinBudget(r)'
  <2>1. Owed(r)' \subseteq Owed(r)
    BY <1>3, <1>6 DEF Owed
  <2>2. Unprinted(r)' \subseteq Unprinted(r)
    <3>1. \A w \in Workers : CopiedBy(w)' = CopiedBy(w)
      BY <1>2 DEF CopiedBy, Chunk
    <3>2. \A w \in Workers, v \in Uploads : Holds(w, v)' <=> Holds(w, v)
      BY <1>2 DEF Holds
    <3>3. ASSUME NEW p \in Unprinted(r)' PROVE p \in Unprinted(r)
      <4>1. p \in Owed(r)' /\ p \in DocIds
            /\ \A w \in Workers : Holds(w, p[1])' => p[2] \notin CopiedBy(w)'
        BY <3>3 DEF Unprinted, Owed
      <4> QED BY <1>6, <2>1, <3>1, <3>2, <4>1 DEF Unprinted
    <3> QED BY <3>3
  <2>3. WithinBudget(r) /\ rtotal'[r] = rtotal[r]
    BY <1>1, <1>2 DEF Budgeted, RunOK
  <2> QED BY <1>1, <1>2, <2>1, <2>2, <2>3, WithinKept
<1>8. ASSUME NEW r \in Runs, r = s PROVE WithinBudget(r)'
  <2>1. /\ rsucc'[r] = 0 /\ copied'[r] = 0 /\ rtotal'[r] = req[q].total
        /\ req[q].total \in Nat
    BY <1>1, <1>2, <1>8 DEF LedgerInv, Counted, Budgeted, RunOK, ReqOK, RequestType
  <2> DEFINE O == Owed(r)'
             U == Unprinted(r)'
  <2>2. O \in SUBSET Asked(q) /\ U \in SUBSET Asked(q)
    BY <1>3, <1>6, <1>8 DEF Owed, Unprinted
  <2>3. Asked(q) \in SUBSET DocIds
    BY DEF Asked
  <2>4. /\ Cardinality(O) <= Cardinality(Asked(q)) /\ Cardinality(O) \in Nat
        /\ Cardinality(U) <= Cardinality(Asked(q)) /\ Cardinality(U) \in Nat
        /\ Cardinality(Asked(q)) \in Nat
    BY <2>2, <2>3, DocIdsCount, FS_Subset, FS_CardinalityType
  <2>5. Cardinality(Asked(q)) <= req[q].total
    BY <1>1 DEF Budgeted, AskedWithin
  <2>6. /\ rsucc'[r] + Cardinality(O) <= rtotal'[r]
        /\ copied'[r] + Cardinality(U) <= rtotal'[r]
    <3> HIDE DEF O, U
    <3> QED BY <2>1, <2>4, <2>5
  <2> QED BY <2>6 DEF WithinBudget
<1> QED BY <1>3, <1>4, <1>5, <1>7, <1>8 DEF Budgeted

\* The filter grants nothing yet.
LEMMA FilterBudgeted ==
  ASSUME Cardinality(DocIds) < Unlimited, SteadyFiles, CountsInv, Steady, raced = {},
         Budgeted, NEW q \in Requests, FilterBatch(q)
  PROVE  Budgeted'
<1> USE TypeSplit DEF CountsInv, TypeInv
<1>1. /\ OnlyRequest(q) /\ req[q].pc = "idle" /\ req'[q].pc = "commit"
      /\ UNCHANGED <<processed, procBy, job, upRun, meta, disk, rsucc, rtotal, copied>>
      /\ RunOK /\ HistoryOK
  BY FilterEffect DEF FilterBatch, At, row, run, files, history
<1>2. ASSUME NEW u \in Uploads PROVE FileBudget(u)' /\ GrantsKept(u)
  <2>1. \A p \in Requests : Queuing(p, u)' =>
          Queuing(p, u) /\ req'[p].run = req[p].run /\ req'[p].lim = req[p].lim
    BY <1>1 DEF Queuing, OnlyRequest
  <2>2. Waiting(u)' => Waiting(u) /\ meta'[u] = meta[u]
    BY <1>1 DEF Waiting, Holds
  <2>3. FileBudget(u)
    BY DEF Budgeted
  <2> QED BY <1>1, <2>1, <2>2, <2>3, RequestFile
<1>3. AskedWithin(q)'
  <2>1. \A u \in Uploads : CountersOK(u) /\ Exact(u)
    BY DEF Budgeted, FileBudget, CountInv, FileOK
  <2>2. Cardinality(Asked(q)') <= req'[q].total
    BY <2>1, FilterWithin
  <2> QED BY <2>2 DEF AskedWithin
<1>4. ASSUME NEW p \in Requests \ {q} PROVE AskedWithin(p)'
  <2>1. req'[p] = req[p] /\ AskedWithin(p)
    BY <1>1 DEF OnlyRequest, Budgeted
  <2> QED BY <2>1 DEF AskedWithin, Asked
<1>5. ASSUME NEW r \in Runs
      PROVE  WithinBudget(r)' /\ (rstatus'[r] = "absent" => copied'[r] = 0)
  <2>1. WithinBudget(r)
    BY DEF Budgeted
  <2> QED BY <1>1, <1>2, <2>1, OwedKept, WithinKept DEF Budgeted, Steady, Opened
<1> QED BY <1>2, <1>3, <1>4, <1>5 DEF Budgeted

LEMMA RequestBudgeted ==
  ASSUME BatchOnly, Cardinality(DocIds) < Unlimited, SteadyFiles, CountsInv, LedgerInv,
         Steady, raced' = {}, Budgeted, NEW q \in Requests,
         NewRequestStep(q) \/ RequestStep(q) \/ RequestFault(q)
  PROVE  Budgeted'
<1> USE TypeSplit DEF CountsInv, TypeInv
<1>1. raced = {}
  BY RequestQueues
<1>2. CASE FilterBatch(q)
  BY <1>1, <1>2, FilterBudgeted
<1>3. CASE CommitBatch(q)
  BY <1>3, CommitBudgeted
<1>4. CASE StageMeta(q) \/ StageData(q) \/ StageFails(q) \/ FinishBatch(q) \/ ApiCrash(q)
  <2>1. \A u \in Uploads :
          FileBudget(u)' /\ GrantsKept(u)
    BY <1>1, <1>4, StagingBudget
  <2>2. \A p \in Requests : AskedWithin(p)'
    <3>1. OnlyRequest(q)
      BY RequestQueues
    <3>2. req'[q].pc # "commit"
      <4>1. CASE StageMeta(q)
        BY <4>1, StageMetaEffect
      <4>2. CASE FinishBatch(q) \/ ApiCrash(q)
        BY <4>2, EndEffect DEF FinishBatch, ApiCrash
      <4>3. ASSUME NEW v \in Uploads, NEW bad \in SUBSET Uploads, Staged(q, v, bad)
            PROVE  req'[q].pc # "commit"
        BY <4>3, StagedEffect
      <4>4. CASE StageData(q)
        BY <4>3, <4>4 DEF StageData
      <4>5. CASE StageFails(q)
        BY <4>3, <4>5 DEF StageFails
      <4> QED BY <1>4, <4>1, <4>2, <4>4, <4>5
    <3> QED BY <3>1, <3>2, AskedKept DEF Budgeted
  <2>3. rsucc' = rsucc /\ copied' = copied /\ rtotal' = rtotal /\ RunOK /\ HistoryOK
    <3>1. CASE FinishBatch(q)
      <4>1. rtotal[req[q].run] = req[q].total /\ rtotal \in [Runs -> Nat]
        BY <3>1 DEF FinishBatch, At, LedgerInv, RequestsRefer, RunOK
      <4> QED BY <3>1, <4>1 DEF FinishBatch, history
    <3>2. CASE ~FinishBatch(q)
      BY <1>4, <3>2 DEF StageMeta, StageData, StageFails, ApiCrash, run, history
    <3> QED BY <3>1, <3>2
  <2>4. ASSUME NEW r \in Runs
        PROVE  WithinBudget(r)' /\ (rstatus'[r] = "absent" => copied'[r] = 0)
    <3>1. WithinBudget(r)
      BY DEF Budgeted
    <3> QED BY <2>1, <2>3, <3>1, OwedKept, WithinKept DEF Budgeted, Steady, Opened
  <2> QED BY <2>1, <2>2, <2>4 DEF Budgeted
<1> QED BY <1>2, <1>3, <1>4, BatchSteps

-----------------------------------------------------------------------------
(* The invariant, and what it says of the output *)

\* Neither the rows of billing_runs nor the queue change.
LEMMA BudgetStutters ==
  ASSUME Budgeted, CountsInv,
         UNCHANGED <<upRun, processed, procBy, run, meta, disk, job, req, copied>>
  PROVE  Budgeted'
<1> USE TypeSplit DEF CountsInv, TypeInv
<1>1. ASSUME NEW u \in Uploads PROVE FileBudget(u)' /\ GrantsKept(u)
  <2>1. \A p \in Requests : Queuing(p, u)' =>
          Queuing(p, u) /\ req'[p].run = req[p].run /\ req'[p].lim = req[p].lim
    BY DEF Queuing
  <2>2. Waiting(u)' => Waiting(u) /\ meta'[u] = meta[u]
    BY DEF Waiting, Holds
  <2> QED BY <2>1, <2>2, RequestFile DEF Budgeted
<1>2. \A p \in Requests : AskedWithin(p)'
  BY DEF Budgeted, AskedWithin, Asked
<1>3. ASSUME NEW r \in Runs
      PROVE  WithinBudget(r)' /\ (rstatus'[r] = "absent" => copied'[r] = 0)
  <2>1. /\ WithinBudget(r) /\ RunOK /\ HistoryOK
        /\ rsucc' = rsucc /\ rtotal' = rtotal /\ rstatus' = rstatus
    BY DEF Budgeted, run
  <2> QED BY <1>1, <2>1, OwedKept, WithinKept DEF Budgeted
<1> QED BY <1>1, <1>2, <1>3 DEF Budgeted

LEMMA InitBudget == Init => Budgeted
<1> SUFFICES ASSUME Init PROVE Budgeted
  OBVIOUS
<1>1. ASSUME NEW u \in Uploads
      PROVE  FileBudget(u) /\ \A r \in Runs : Granted(r, u) = {}
  <2>1. /\ \A w \in Workers : ~Holds(w, u) /\ ~Working(w, u)
        /\ \A q \in Requests : ~Queuing(q, u)
        /\ ~Waiting(u)
    BY IdleFields DEF Init, Holds, Working, Queuing, NewRequest, Waiting
  <2>2. processed[u] = 0 /\ \A t \in Templates : procBy[u][t] = 0
    BY DEF Init
  <2>3. \A t \in Templates : OfTemplate(u, Done(u), t) = {}
    BY <2>2, DoneNone DEF Done, OfTemplate
  <2>4. Exact(u)
    BY <2>2, <2>3, FS_EmptySet DEF Exact
  <2> QED BY <2>1, <2>4 DEF FileBudget, Granted
<1>2. \A p \in DocIds : p[1] \in Uploads
  BY DEF DocIds
<1>3. ASSUME NEW r \in Runs PROVE WithinBudget(r) /\ copied[r] = 0
  <2>1. Owed(r) = {} /\ Unprinted(r) = {}
    BY <1>1, <1>2, <1>3 DEF Owed, Unprinted
  <2>2. rsucc[r] = 0 /\ copied[r] = 0 /\ rtotal[r] = 0
    BY DEF Init
  <2> QED BY <2>1, <2>2, FS_EmptySet DEF WithinBudget
<1>4. \A q \in Requests : AskedWithin(q)
  BY DEF Init, NewRequest, AskedWithin
<1> QED BY <1>1, <1>3, <1>4 DEF Budgeted

LEMMA BudgetInvariant ==
  ASSUME BatchOnly, SteadyFiles, Cardinality(DocIds) < Unlimited
  PROVE  Spec => [](CountsInv /\ BudgetInv)
<1>1. Init => BudgetInv
  BY InitBudget DEF BudgetInv
<1>2. CountsInv /\ CountsInv' /\ LedgerInv /\ BudgetInv /\ [Next]_vars => BudgetInv'
  <2> SUFFICES ASSUME CountsInv, CountsInv', LedgerInv, BudgetInv, [Next]_vars,
                      raced' = {}
               PROVE  Budgeted'
    BY DEF BudgetInv
  <2>0. raced = {} => Budgeted
    BY DEF BudgetInv
  <2>1. Steady
    BY NextLedger, LedgerKeeps DEF LedgerInv, CountsInv
  <2>2. ASSUME NEW w \in Workers, WorkerStep(w) \/ WorkerFault(w) PROVE Budgeted'
    <3>1. raced = {}
      BY <2>2, WorkerHolds DEF CountsInv
    <3> QED BY <2>0, <2>1, <2>2, <3>1, WorkerBudgeted
  <2>3. ASSUME NEW q \in Requests,
               NewRequestStep(q) \/ RequestStep(q) \/ RequestFault(q)
        PROVE  Budgeted'
    <3>1. raced = {}
      BY <2>3, RequestQueues DEF CountsInv
    <3> QED BY <2>0, <2>1, <2>3, <3>1, RequestBudgeted
  <2>4. ASSUME NEW u \in Uploads, Approve(u) \/ Reject(u) PROVE Budgeted'
    BY <2>0, <2>4, BudgetStutters DEF Approve, Reject, run, files, history
  <2>5. CASE UNCHANGED vars
    BY <2>0, <2>5, BudgetStutters DEF vars, row, files, history
  <2> QED BY <2>2, <2>3, <2>4, <2>5 DEF Next
<1> QED BY <1>1, <1>2, CountsInvariant, LedgerInvariant, PTL DEF Spec

\* No run prints more documents than the accounts it was opened for, however
\* many workers look at its room without a lock before they copy, and whatever
\* crashes or raises in between (worker_queue.py:721-740): the limits handed out
\* by the request add up to the total of its run (billing.py:1077-1137), and a
\* worker never goes beyond its own.  Said of histories in which no file is taken
\* while in hand or with a stale offset: its room would be shared.
THEOREM RunsPrintWithin ==
  ASSUME BatchOnly, SteadyFiles, Cardinality(DocIds) < Unlimited
  PROVE  Spec => [](raced = {} => PrintedWithinRun)
<1>1. CountsInv /\ BudgetInv => (raced = {} => PrintedWithinRun)
  <2> SUFFICES ASSUME CountsInv, Budgeted, NEW r \in Runs PROVE copied[r] <= rtotal[r]
    BY DEF BudgetInv, PrintedWithinRun
  <2>1. copied[r] \in Nat /\ rtotal[r] \in Nat
    BY TypeSplit DEF CountsInv, TypeInv, RunOK, HistoryOK
  <2>2. Unprinted(r) \in SUBSET DocIds
    BY DEF Unprinted, Owed
  <2>3. Cardinality(Unprinted(r)) \in Nat
    BY <2>2, DocIdsCount
  <2>4. copied[r] + Cardinality(Unprinted(r)) <= rtotal[r]
    BY DEF Budgeted, WithinBudget
  <2> QED BY <2>1, <2>3, <2>4
<1> QED BY <1>1, BudgetInvariant, PTL

\* While nobody holds a file, its counter is the number of its documents in the
\* output, and the pending count that the next batch request is limited by is
\* the number of approved documents that are not (billing.py:341-433,
\* worker_queue.py:742-791), as long as no file is taken while in hand or with a
\* stale offset and no worker fails between a copy and its count.
THEOREM CountersTellOutput ==
  ASSUME BatchOnly, SteadyFiles, Cardinality(DocIds) < Unlimited, Undetected = {},
         "raise" \notin Faults, "crash" \notin Faults
  PROVE  Spec => []CountsMatchOutput
<1>1. PrintsInv /\ BudgetInv => CountsMatchOutput
  <2> SUFFICES ASSUME PrintsInv, Budgeted, raced = {}, NEW u \in Uploads, Idle(u)
               PROVE  /\ processed[u] = Cardinality(Printed(u))
                      /\ \A approved \in ApprovedChoices :
                           Cardinality(Remaining(u, approved)) =
                             Cardinality(ApprovedDocs(Docs[u], approved) \ Printed(u))
    BY DEF BudgetInv, CountsMatchOutput
  <2>1. /\ Printed(u) = Done(u) /\ CountersOK(u) /\ Exact(u) /\ TypeInv
    BY DEF PrintsInv, PrintInv, PrintsOK, CountsInv, CountInv, FileOK, Budgeted, FileBudget
  <2>2. ASSUME NEW approved \in ApprovedChoices
        PROVE  Remaining(u, approved) = ApprovedDocs(Docs[u], approved) \ Printed(u)
    <3>1. approved = Approved
      BY ApprovedIs
    <3>2. Remaining(u, approved) = Ahead(u)
      BY <2>1, RemainingIs
    <3> QED BY <2>1, <3>1, <3>2 DEF Ahead
  <2> QED BY <2>1, <2>2 DEF CountersOK
<1>2. Spec => [](CountsInv /\ BudgetInv)
  BY BudgetInvariant
<1> QED BY <1>1, <1>2, PrintsInvariant, PTL
=============================================================================
