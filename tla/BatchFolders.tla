---------------------------- MODULE BatchFolders ----------------------------
(***************************************************************************)
(* _copy_pdf_to_batch of app/billing/worker_queue.py: how the workers fill  *)
(* Batch_1, Batch_2, ... of one output folder.  The folder is guarded by a  *)
(* lock on a file, which a worker gives up waiting for after 30 seconds and *)
(* then goes on WITHOUT; the folders are counted one after the other, then  *)
(* a name is chosen, then the PDF is copied.  GenerationQueue's CopyPdf is  *)
(* one passage through this module.                                        *)
(***************************************************************************)
EXTENDS Integers, FiniteSets

CONSTANTS
  Writers,           \* worker processes
  Names,             \* names of PDFs, subfolder included
  MaxPerBatch,       \* 10 in the code
  NoWriter,
  MaxCopies          \* how many PDFs are copied (bound of the model)

ASSUME BatchAssumption ==
  /\ IsFiniteSet(Writers)
  /\ MaxPerBatch \in Nat \ {0}
  /\ NoWriter \notin Writers
  /\ MaxCopies \in Nat

VARIABLES
  pdfs,              \* the files under the batch folders: <<folder, name, k>>,
                     \* k = 1 for <name>, k > 1 for <name>_dup<k>
  lock,              \* who holds .batch_alloc.lock
  pc,                \* where each worker is
  at,                \* the folder it looks at, then the one it has chosen
  target,            \* the file it is about to write
  copies,            \* copies begun so far
  replaced,          \* (history) files written over by another copy
  gaveUp             \* (history) some worker went on without the lock

vars == <<pdfs, lock, pc, at, target, copies, replaced, gaveUp>>

\* Folders and copies are numbered from 1.
Files == (Nat \ {0}) \X Names \X (Nat \ {0})

InFolder(n) == {f \in pdfs : f[1] = n}

TypeOK ==
  /\ pdfs \in SUBSET Files /\ IsFiniteSet(pdfs)
  /\ lock \in Writers \cup {NoWriter}
  /\ pc \in [Writers -> {"idle", "wait", "scan", "name", "copy"}]
  /\ at \in [Writers -> Nat \ {0}]
  /\ target \in [Writers -> Files]
  /\ copies \in Nat
  /\ replaced \in SUBSET Files
  /\ gaveUp \in BOOLEAN

Init ==
  /\ pdfs = {}
  /\ lock = NoWriter
  /\ pc = [w \in Writers |-> "idle"]
  /\ at = [w \in Writers |-> 1]
  /\ \E f \in {1} \X Names \X {1} : target = [w \in Writers |-> f]
  /\ copies = 0
  /\ replaced = {}
  /\ gaveUp = FALSE

\* The next PDF of a chunk.
Begin(w) ==
  /\ pc[w] = "idle"
  /\ copies < MaxCopies
  /\ \E name \in Names : target' = [target EXCEPT ![w] = <<1, name, 1>>]
  /\ at' = [at EXCEPT ![w] = 1]
  /\ pc' = [pc EXCEPT ![w] = "wait"]
  /\ copies' = copies + 1
  /\ UNCHANGED <<pdfs, lock, replaced, gaveUp>>

\* (mutant) the lock is not exclusive (LOCK_SH)
AcquireShared(w) ==
  /\ pc[w] = "wait"
  /\ lock' = w
  /\ pc' = [pc EXCEPT ![w] = "scan"]
  /\ UNCHANGED <<pdfs, at, target, copies, replaced, gaveUp>>

\* flock(LOCK_EX | LOCK_NB), tried every 10 ms.
Acquire(w) ==
  /\ pc[w] = "wait"
  /\ lock = NoWriter
  /\ lock' = w
  /\ pc' = [pc EXCEPT ![w] = "scan"]
  /\ UNCHANGED <<pdfs, at, target, copies, replaced, gaveUp>>

\* After 30 seconds of a busy lock the loop breaks, and the body runs anyway.
GiveUpWaiting(w) ==
  /\ pc[w] = "wait"
  /\ lock # NoWriter
  /\ pc' = [pc EXCEPT ![w] = "scan"]
  /\ gaveUp' = TRUE
  /\ UNCHANGED <<pdfs, lock, at, target, copies, replaced>>

\* (mutant) one PDF more than the cap
ScanFolderOver(w) ==
  /\ pc[w] = "scan"
  /\ IF Cardinality(InFolder(at[w])) <= MaxPerBatch
     THEN pc' = [pc EXCEPT ![w] = "name"] /\ UNCHANGED at
     ELSE at' = [at EXCEPT ![w] = @ + 1] /\ UNCHANGED pc
  /\ UNCHANGED <<pdfs, lock, target, copies, replaced, gaveUp>>

\* (mutant) batch_num is not incremented
ScanFolderAgain(w) ==
  /\ pc[w] = "scan"
  /\ IF Cardinality(InFolder(at[w])) < MaxPerBatch
     THEN pc' = [pc EXCEPT ![w] = "name"]
     ELSE UNCHANGED pc
  /\ UNCHANGED <<pdfs, lock, at, target, copies, replaced, gaveUp>>

\* Count one folder: the first one with room is taken (a missing folder has
\* room).
ScanFolder(w) ==
  /\ pc[w] = "scan"
  /\ IF Cardinality(InFolder(at[w])) < MaxPerBatch
     THEN pc' = [pc EXCEPT ![w] = "name"] /\ UNCHANGED at
     ELSE at' = [at EXCEPT ![w] = @ + 1] /\ UNCHANGED pc
  /\ UNCHANGED <<pdfs, lock, target, copies, replaced, gaveUp>>

\* (mutant) the name is taken without looking
ChooseNameBlindly(w) ==
  /\ pc[w] = "name"
  /\ target' = [target EXCEPT ![w] = <<at[w], @[2], 1>>]
  /\ pc' = [pc EXCEPT ![w] = "copy"]
  /\ UNCHANGED <<pdfs, lock, at, copies, replaced, gaveUp>>

\* The name itself, or the first _dup<k> that does not exist.
ChooseName(w) ==
  /\ pc[w] = "name"
  /\ \E k \in 1..(Cardinality(pdfs) + 1) :
       LET file(i) == <<at[w], target[w][2], i>>
       IN  /\ file(k) \notin pdfs
           /\ \A i \in 1..(k - 1) : file(i) \in pdfs
           /\ target' = [target EXCEPT ![w] = file(k)]
  /\ pc' = [pc EXCEPT ![w] = "copy"]
  /\ UNCHANGED <<pdfs, lock, at, copies, replaced, gaveUp>>

Unlock(w) == lock' = IF lock = w THEN NoWriter ELSE lock

\* shutil.copy2 writes over whatever is there.
Copy(w) ==
  /\ pc[w] = "copy"
  /\ pdfs' = pdfs \cup {target[w]}
  /\ replaced' = replaced \cup (pdfs \cap {target[w]})
  /\ Unlock(w)
  /\ pc' = [pc EXCEPT ![w] = "idle"]
  /\ UNCHANGED <<at, target, copies, gaveUp>>

\* An exception of the copy, or the death of the process: flock goes with the
\* file handle.
Abandon(w) ==
  /\ pc[w] # "idle"
  /\ Unlock(w)
  /\ pc' = [pc EXCEPT ![w] = "idle"]
  /\ UNCHANGED <<pdfs, at, target, copies, replaced, gaveUp>>

\* create_summary_groups moves PDFs out of the batch folders, without the lock.
MoveToSummary ==
  /\ \E f \in pdfs : pdfs' = pdfs \ {f}
  /\ UNCHANGED <<lock, pc, at, target, copies, replaced, gaveUp>>

Step(w) ==
  \/ Begin(w) \/ Acquire(w) \/ GiveUpWaiting(w) \/ ScanFolder(w)
  \/ ChooseName(w) \/ Copy(w) \/ Abandon(w)

Next == (\E w \in Writers : Step(w)) \/ MoveToSummary

Spec == Init /\ [][Next]_vars

\* A worker that has a PDF to copy goes on: it polls the lock until it is free
\* or the 30 seconds are over.
Fairness ==
  \A w \in Writers :
    WF_vars(Acquire(w) \/ GiveUpWaiting(w) \/ ScanFolder(w) \/ ChooseName(w)
              \/ Copy(w))

FairSpec == Spec /\ Fairness
-----------------------------------------------------------------------------
\* A worker that has chosen a folder and has not written to it yet.
Choosing(n) == {w \in Writers : pc[w] \in {"name", "copy"} /\ at[w] = n}

Inside == {w \in Writers : pc[w] \in {"scan", "name", "copy"}}

\* The lock does what it is there for as long as nobody gives up waiting: one
\* worker at a time counts the folders and writes (worker_queue.py:123-162).
OneInside == ~gaveUp => \A w \in Inside : lock = w

\* "strictly enforcing max_per_batch PDFs per batch folder across all concurrent
\* worker processes" (worker_queue.py:181-182), when nobody gives up waiting.
CapKept ==
  ~gaveUp => \A n \in {f[1] : f \in pdfs} : Cardinality(InFolder(n)) <= MaxPerBatch

\* However many workers give up waiting, a folder is over the cap by less than
\* their number.
OverrunBounded ==
  \A n \in {f[1] : f \in pdfs} :
    Cardinality(InFolder(n)) <= MaxPerBatch - 1 + Cardinality(Writers)

\* No customer's PDF is written over by another of the same name, when nobody
\* gives up waiting: the check for a free name and the copy are one critical
\* section (worker_queue.py:199-208).
NothingReplaced == ~gaveUp => replaced = {}

\* Every copy that was begun ends, though nothing queues the workers fairly at
\* the lock and others fill the folders it has counted: the 30 seconds bound the
\* wait, and the scan gets past every full folder (worker_queue.py:134-162,
\* 185-208).
PlacementEnds == \A w \in Writers : pc[w] = "wait" ~> pc[w] = "idle"
=============================================================================
