-------------------------- MODULE BatchFolderProofs --------------------------
(***************************************************************************)
(* Proofs about BatchFolders, for any number of workers, any names and any  *)
(* cap: type correctness, mutual exclusion and no overwritten PDF while      *)
(* nobody gives up waiting for the lock, the cap of a folder in that case,  *)
(* and how far a folder can be over the cap in the other.                   *)
(***************************************************************************)
EXTENDS BatchFolders, FiniteSetTheorems, TLAPS

(***************************************************************************)
(* Types                                                                   *)
(***************************************************************************)

LEMMA InitType == Init => TypeOK
<1> SUFFICES ASSUME Init PROVE TypeOK
  OBVIOUS
<1>1. target \in [Writers -> Files]
  BY DEF Init, Files
<1>2. pdfs \in SUBSET Files /\ IsFiniteSet(pdfs) /\ replaced \in SUBSET Files
  BY FS_EmptySet DEF Init
<1>3. gaveUp \in BOOLEAN
  BY DEF Init
<1> QED BY <1>1, <1>2, <1>3 DEF Init, TypeOK

\* Every step of a worker keeps the types; the finiteness of the set of files
\* is what the counting below needs.
LEMMA StepType ==
  ASSUME TypeOK, NEW w \in Writers, Step(w)
  PROVE  TypeOK'
<1>1. CASE Begin(w)
  BY <1>1 DEF TypeOK, Begin, Files
<1>2. CASE Acquire(w)
  BY <1>2 DEF TypeOK, Acquire
<1>3. CASE GiveUpWaiting(w)
  BY <1>3 DEF TypeOK, GiveUpWaiting
<1>4. CASE ScanFolder(w)
  BY <1>4 DEF TypeOK, ScanFolder
<1>5. CASE ChooseName(w)
  <2>1. target' \in [Writers -> Files]
    <3>1. PICK k \in 1..(Cardinality(pdfs) + 1) :
            target' = [target EXCEPT ![w] = <<at[w], target[w][2], k>>]
      BY <1>5 DEF ChooseName
    <3>2. Cardinality(pdfs) \in Nat
      BY FS_CardinalityType DEF TypeOK
    <3>3. k \in Nat \ {0}
      BY <3>2
    <3>4. <<at[w], target[w][2], k>> \in Files
      BY <3>3 DEF TypeOK, Files
    <3> QED BY <3>1, <3>4 DEF TypeOK
  <2> QED BY <1>5, <2>1 DEF TypeOK, ChooseName
<1>6. CASE Copy(w)
  <2>1. target[w] \in Files
    BY DEF TypeOK
  <2>2. IsFiniteSet(pdfs \cup {target[w]})
    BY FS_AddElement DEF TypeOK
  <2> QED BY <1>6, <2>1, <2>2 DEF TypeOK, Copy, Unlock
<1>7. CASE Abandon(w)
  BY <1>7 DEF TypeOK, Abandon, Unlock
<1> QED BY <1>1, <1>2, <1>3, <1>4, <1>5, <1>6, <1>7 DEF Step

LEMMA MoveType ==
  ASSUME TypeOK, MoveToSummary
  PROVE  TypeOK'
<1>1. PICK f \in pdfs : pdfs' = pdfs \ {f}
  BY DEF MoveToSummary
<1>2. IsFiniteSet(pdfs \ {f})
  BY FS_RemoveElement DEF TypeOK
<1> QED BY <1>1, <1>2 DEF TypeOK, MoveToSummary

\* Type correctness of the batch folders for every set of workers, names and
\* every cap.
THEOREM TypeCorrect == Spec => []TypeOK
<1>1. Init => TypeOK
  BY InitType
<1>2. TypeOK /\ [Next]_vars => TypeOK'
  <2> SUFFICES ASSUME TypeOK, [Next]_vars PROVE TypeOK'
    OBVIOUS
  <2>1. CASE Next
    BY <2>1, StepType, MoveType DEF Next
  <2>2. CASE UNCHANGED vars
    BY <2>2 DEF TypeOK, vars
  <2> QED BY <2>1, <2>2
<1> QED BY <1>1, <1>2, PTL DEF Spec
-----------------------------------------------------------------------------
(***************************************************************************)
(* The lock                                                                *)
(***************************************************************************)

\* A worker that is about to write has found its file free, and the file is of
\* the folder it has chosen.
NameFree == \A w \in Writers : pc[w] = "copy" => target[w] \notin pdfs

LockInv == ~gaveUp => OneInside /\ NameFree /\ replaced = {}

\* Nobody has given up before a step after which nobody has.
LEMMA Patience ==
  ASSUME [Next]_vars, ~gaveUp'
  PROVE  ~gaveUp
<1>1. ASSUME NEW w \in Writers, Step(w) PROVE ~gaveUp
  BY <1>1 DEF Step, Begin, Acquire, GiveUpWaiting, ScanFolder, ChooseName, Copy,
              Abandon
<1>2. CASE MoveToSummary
  BY <1>2 DEF MoveToSummary
<1>3. CASE UNCHANGED vars
  BY <1>3 DEF vars
<1> QED BY <1>1, <1>2, <1>3 DEF Next

LEMMA InitLock == Init => LockInv
BY DEF Init, LockInv, OneInside, Inside, NameFree

\* The critical section: whoever is inside holds the lock, so nobody else adds a
\* file between the search for a free name and the copy.
LEMMA StepLock ==
  ASSUME TypeOK, LockInv, NEW w \in Writers, Step(w)
  PROVE  LockInv'
<1> SUFFICES ASSUME ~gaveUp' PROVE OneInside' /\ NameFree' /\ replaced' = {}
  BY DEF LockInv
<1>a. ~gaveUp
  BY Patience DEF Next
<1>0. /\ \A v \in Inside : lock = v
      /\ NameFree
      /\ replaced = {}
  BY <1>a DEF LockInv, OneInside
<1>1. CASE Begin(w)
  BY <1>0, <1>1 DEF Begin, OneInside, Inside, NameFree, TypeOK
<1>2. CASE Acquire(w)
  <2>1. Inside = {}
    BY <1>0, <1>2, BatchAssumption DEF Acquire, Inside
  <2> QED BY <1>0, <1>2, <2>1 DEF Acquire, OneInside, Inside, NameFree, TypeOK
<1>3. CASE GiveUpWaiting(w)
  BY <1>3 DEF GiveUpWaiting
<1>4. CASE ScanFolder(w)
  BY <1>0, <1>4 DEF ScanFolder, OneInside, Inside, NameFree, TypeOK
<1>5. CASE ChooseName(w)
  <2>1. target'[w] \notin pdfs
    BY <1>5 DEF ChooseName, TypeOK
  <2> QED BY <1>0, <1>5, <2>1 DEF ChooseName, OneInside, Inside, NameFree, TypeOK
<1>6. CASE Copy(w)
  <2>1. lock = w /\ target[w] \notin pdfs
    BY <1>0, <1>6 DEF Copy, Inside, NameFree
  <2>2. Inside' = {}
    BY <1>0, <1>6, <2>1 DEF Copy, Inside, TypeOK
  <2>3. replaced' = {}
    BY <1>0, <1>6, <2>1 DEF Copy
  <2> QED BY <2>2, <2>3 DEF OneInside, Inside, NameFree
<1>7. CASE Abandon(w)
  <2>1. Inside' \subseteq Inside \ {w}
    BY <1>7 DEF Abandon, Inside, TypeOK
  <2>2. NameFree'
    BY <1>0, <1>7 DEF Abandon, NameFree, TypeOK
  <2>3. OneInside'
    BY <1>0, <1>7, <2>1 DEF Abandon, Unlock, OneInside
  <2> QED BY <1>0, <1>7, <2>2, <2>3 DEF Abandon
<1> QED BY <1>1, <1>2, <1>3, <1>4, <1>5, <1>6, <1>7 DEF Step

LEMMA NextLock == TypeOK /\ LockInv /\ [Next]_vars => LockInv'
<1> SUFFICES ASSUME TypeOK, LockInv, [Next]_vars PROVE LockInv'
  OBVIOUS
<1>1. ASSUME NEW w \in Writers, Step(w) PROVE LockInv'
  BY <1>1, StepLock
<1>2. CASE MoveToSummary
  BY <1>2 DEF MoveToSummary, LockInv, OneInside, Inside, NameFree
<1>3. CASE UNCHANGED vars
  BY <1>3 DEF vars, LockInv, OneInside, Inside, NameFree
<1> QED BY <1>1, <1>2, <1>3 DEF Next

LEMMA LockInvariant == Spec => []LockInv
BY InitLock, NextLock, TypeCorrect, PTL DEF Spec

\* One worker at a time is between the count of the folders and the copy.
THEOREM LockExcludes == Spec => []OneInside
<1>1. LockInv => OneInside
  BY DEF LockInv, OneInside
<1> QED BY <1>1, LockInvariant, PTL

\* No PDF is written over by another worker's PDF of the same name.
THEOREM NothingLost == Spec => []NothingReplaced
<1>1. LockInv => NothingReplaced
  BY DEF LockInv, NothingReplaced
<1> QED BY <1>1, LockInvariant, PTL
-----------------------------------------------------------------------------
(***************************************************************************)
(* The cap                                                                 *)
(***************************************************************************)

\* What a folder holds and what is on its way into it.  The cap is an invariant
\* of this sum, never of the folder alone: between the count and the copy the
\* place is taken and the file is not there.
Load(n) == Cardinality(InFolder(n)) + Cardinality(Choosing(n))

\* A worker that is about to write has a file of its folder in hand.
Aimed == \A w \in Writers : pc[w] = "copy" => target[w][1] = at[w]

LEMMA AimedInvariant == Spec => []Aimed
<1>1. Init => Aimed
  BY DEF Init, Aimed
<1>2. TypeOK /\ Aimed /\ [Next]_vars => Aimed'
  <2> SUFFICES ASSUME TypeOK, Aimed, [Next]_vars PROVE Aimed'
    OBVIOUS
  <2> USE DEF TypeOK, Aimed
  <2>1. ASSUME NEW w \in Writers, Begin(w) PROVE Aimed'
    BY <2>1 DEF Begin
  <2>2. ASSUME NEW w \in Writers, Acquire(w) PROVE Aimed'
    BY <2>2 DEF Acquire
  <2>3. ASSUME NEW w \in Writers, GiveUpWaiting(w) PROVE Aimed'
    BY <2>3 DEF GiveUpWaiting
  <2>4. ASSUME NEW w \in Writers, ScanFolder(w) PROVE Aimed'
    BY <2>4 DEF ScanFolder
  <2>5. ASSUME NEW w \in Writers, ChooseName(w) PROVE Aimed'
    BY <2>5 DEF ChooseName
  <2>6. ASSUME NEW w \in Writers, Copy(w) PROVE Aimed'
    BY <2>6 DEF Copy
  <2>7. ASSUME NEW w \in Writers, Abandon(w) PROVE Aimed'
    BY <2>7 DEF Abandon
  <2>8. CASE MoveToSummary
    BY <2>8 DEF MoveToSummary
  <2>9. CASE UNCHANGED vars
    BY <2>9 DEF vars
  <2> QED
    BY <2>1, <2>2, <2>3, <2>4, <2>5, <2>6, <2>7, <2>8, <2>9 DEF Next, Step
<1> QED BY <1>1, <1>2, TypeCorrect, PTL DEF Spec

\* The sets behind the sum are finite, and so is what any step makes of them.
LEMMA LoadFinite ==
  ASSUME TypeOK, NEW n
  PROVE  /\ IsFiniteSet(InFolder(n)) /\ Cardinality(InFolder(n)) \in Nat
         /\ IsFiniteSet(Choosing(n)) /\ Cardinality(Choosing(n)) \in Nat
         /\ Cardinality(Choosing(n)) <= Cardinality(Writers)
         /\ Cardinality(Writers) \in Nat
<1>1. InFolder(n) \in SUBSET pdfs /\ IsFiniteSet(pdfs)
  BY DEF InFolder, TypeOK
<1>2. Choosing(n) \in SUBSET Writers /\ IsFiniteSet(Writers)
  BY BatchAssumption DEF Choosing
<1>3. IsFiniteSet(InFolder(n))
  BY <1>1, FS_Subset
<1>4. IsFiniteSet(Choosing(n)) /\ Cardinality(Choosing(n)) <= Cardinality(Writers)
  BY <1>2, FS_Subset
<1> QED BY <1>2, <1>3, <1>4, FS_CardinalityType

LEMMA LoadTypes ==
  ASSUME TypeOK, TypeOK', NEW n
  PROVE  Load(n) \in Nat /\ Load(n)' \in Nat /\ Cardinality(Writers) \in Nat
<1>1. InFolder(n)' \in SUBSET pdfs' /\ IsFiniteSet(pdfs')
  BY DEF InFolder, TypeOK
<1>2. Choosing(n)' \in SUBSET Writers /\ IsFiniteSet(Writers)
  BY BatchAssumption DEF Choosing
<1>3. IsFiniteSet(InFolder(n)') /\ IsFiniteSet(Choosing(n)')
  BY <1>1, <1>2, FS_Subset
<1>4. Cardinality(InFolder(n)') \in Nat /\ Cardinality(Choosing(n)') \in Nat
  BY <1>3, FS_CardinalityType
<1> QED BY <1>4, LoadFinite DEF Load

\* The scan of a folder that has room: the one step that adds to a sum.
TakesPlace(w, n) ==
  /\ at[w] = n
  /\ Cardinality(InFolder(n)) < MaxPerBatch
  /\ pc[w] = "scan"
  /\ InFolder(n)' = InFolder(n)
  /\ Choosing(n)' = Choosing(n) \cup {w}

LEMMA SameLoad ==
  ASSUME NEW n, TypeOK, TypeOK',
         InFolder(n)' \subseteq InFolder(n), Choosing(n)' \subseteq Choosing(n)
  PROVE  Load(n)' <= Load(n)
<1>1. /\ Cardinality(InFolder(n)') <= Cardinality(InFolder(n))
      /\ Cardinality(Choosing(n)') <= Cardinality(Choosing(n))
  BY LoadFinite, FS_Subset
<1>2. /\ Cardinality(InFolder(n)') \in Nat
      /\ Cardinality(Choosing(n)') \in Nat
  BY LoadFinite, FS_Subset, FS_CardinalityType
<1> QED BY <1>1, <1>2, LoadFinite DEF Load

\* A copy puts into the folder what it takes off the way.
LEMMA CopyLoad ==
  ASSUME TypeOK, TypeOK', Aimed, NEW w \in Writers, Copy(w), NEW n
  PROVE  Load(n)' <= Load(n)
<1> DEFINE f == target[w]
<1>1. CASE at[w] = n
  <2>1. InFolder(n)' = InFolder(n) \cup {f}
    BY <1>1 DEF Copy, InFolder, Aimed
  <2>2. Choosing(n)' = Choosing(n) \ {w} /\ w \in Choosing(n)
    BY <1>1 DEF Copy, Choosing, TypeOK
  <2>3. /\ Cardinality(InFolder(n)') \in Nat
        /\ Cardinality(InFolder(n)') <= Cardinality(InFolder(n)) + 1
    <3>1. IsFiniteSet(InFolder(n)) /\ Cardinality(InFolder(n)) \in Nat
      BY LoadFinite
    <3>2. Cardinality(InFolder(n) \cup {f}) =
            IF f \in InFolder(n) THEN Cardinality(InFolder(n))
            ELSE Cardinality(InFolder(n)) + 1
      BY <3>1, FS_AddElement
    <3> QED BY <2>1, <3>1, <3>2
  <2>4. Cardinality(Choosing(n)') = Cardinality(Choosing(n)) - 1
    BY <2>2, LoadFinite, FS_RemoveElement
  <2> QED BY <2>3, <2>4, LoadFinite DEF Load
<1>2. CASE at[w] # n
  <2>1. InFolder(n)' = InFolder(n)
    BY <1>2 DEF Copy, InFolder, Aimed
  <2>2. Choosing(n)' = Choosing(n)
    BY <1>2 DEF Copy, Choosing, TypeOK
  <2> QED BY <2>1, <2>2, SameLoad
<1> QED BY <1>1, <1>2

\* Whatever happens, a sum stays or falls, unless a worker takes a place in a
\* folder that has room.
LEMMA LoadStep ==
  ASSUME TypeOK, TypeOK', Aimed, [Next]_vars, NEW n
  PROVE  \/ Load(n)' <= Load(n)
         \/ \E w \in Writers : TakesPlace(w, n)
<1>1. ASSUME NEW w \in Writers, Begin(w) PROVE Load(n)' <= Load(n)
  BY <1>1, SameLoad DEF Begin, InFolder, Choosing, TypeOK
<1>2. ASSUME NEW w \in Writers, Acquire(w) PROVE Load(n)' <= Load(n)
  BY <1>2, SameLoad DEF Acquire, InFolder, Choosing, TypeOK
<1>3. ASSUME NEW w \in Writers, GiveUpWaiting(w) PROVE Load(n)' <= Load(n)
  BY <1>3, SameLoad DEF GiveUpWaiting, InFolder, Choosing, TypeOK
<1>4. ASSUME NEW w \in Writers, ScanFolder(w)
      PROVE  Load(n)' <= Load(n) \/ TakesPlace(w, n)
  <2>1. InFolder(n)' = InFolder(n)
    BY <1>4 DEF ScanFolder, InFolder
  <2>2. CASE at[w] = n /\ Cardinality(InFolder(at[w])) < MaxPerBatch
    <3>1. Choosing(n)' = Choosing(n) \cup {w}
      BY <1>4, <2>2 DEF ScanFolder, Choosing, TypeOK
    <3> QED BY <1>4, <2>1, <2>2, <3>1 DEF TakesPlace, ScanFolder
  <2>3. CASE ~(at[w] = n /\ Cardinality(InFolder(at[w])) < MaxPerBatch)
    <3>1. Choosing(n)' = Choosing(n)
      BY <1>4, <2>3 DEF ScanFolder, Choosing, TypeOK
    <3> QED BY <2>1, <3>1, SameLoad
  <2> QED BY <2>2, <2>3
<1>5. ASSUME NEW w \in Writers, ChooseName(w) PROVE Load(n)' <= Load(n)
  BY <1>5, SameLoad DEF ChooseName, InFolder, Choosing, TypeOK
<1>6. ASSUME NEW w \in Writers, Copy(w) PROVE Load(n)' <= Load(n)
  BY <1>6, CopyLoad
<1>7. ASSUME NEW w \in Writers, Abandon(w) PROVE Load(n)' <= Load(n)
  BY <1>7, SameLoad DEF Abandon, InFolder, Choosing, TypeOK
<1>8. CASE MoveToSummary
  BY <1>8, SameLoad DEF MoveToSummary, InFolder, Choosing
<1>9. CASE UNCHANGED vars
  BY <1>9, SameLoad DEF vars, InFolder, Choosing
<1> QED
  BY <1>1, <1>2, <1>3, <1>4, <1>5, <1>6, <1>7, <1>8, <1>9 DEF Next, Step

LEMMA InitLoad ==
  ASSUME Init, NEW n
  PROVE  Load(n) = 0
<1>1. InFolder(n) = {} /\ Choosing(n) = {}
  BY DEF Init, InFolder, Choosing
<1> QED BY <1>1, FS_EmptySet DEF Load

\* However many workers have given up waiting, each of them is on its way to one
\* file at most.
LoadBounded == \A n \in Nat : Load(n) = 0 \/ Load(n) <= MaxPerBatch - 1 + Cardinality(Writers)

LEMMA LoadBoundedInvariant == Spec => []LoadBounded
<1>1. Init => LoadBounded
  BY InitLoad DEF LoadBounded
<1>2. TypeOK /\ TypeOK' /\ Aimed /\ LoadBounded /\ [Next]_vars => LoadBounded'
  <2> SUFFICES ASSUME TypeOK, TypeOK', Aimed, LoadBounded, [Next]_vars,
                      NEW n \in Nat
               PROVE  Load(n)' = 0 \/ Load(n)' <= MaxPerBatch - 1 + Cardinality(Writers)
    BY DEF LoadBounded
  <2>0. Load(n) \in Nat /\ Load(n)' \in Nat /\ Cardinality(Writers) \in Nat
    BY LoadTypes
  <2>1. CASE Load(n)' <= Load(n)
    BY <2>0, <2>1, BatchAssumption DEF LoadBounded
  <2>2. ASSUME NEW w \in Writers, TakesPlace(w, n)
        PROVE  Load(n)' <= MaxPerBatch - 1 + Cardinality(Writers)
    <3>1. Cardinality(InFolder(n)') <= MaxPerBatch - 1
      BY <2>2, LoadFinite, BatchAssumption DEF TakesPlace
    <3>2. Cardinality(Choosing(n)') <= Cardinality(Writers)
      BY FS_Subset, BatchAssumption DEF Choosing
    <3>3. Cardinality(Choosing(n)') \in Nat /\ Cardinality(InFolder(n)') \in Nat
      BY <2>2, LoadFinite, FS_AddElement, FS_CardinalityType DEF TakesPlace
    <3> QED BY <2>0, <3>1, <3>2, <3>3, BatchAssumption DEF Load
  <2> QED BY <2>1, <2>2, LoadStep
<1> QED BY <1>1, <1>2, TypeCorrect, AimedInvariant, PTL DEF Spec

\* However many workers give up waiting for the lock, no folder is over the cap
\* by as many PDFs as there are workers.
THEOREM OverrunWithinWorkers == Spec => []OverrunBounded
<1>1. TypeOK /\ LoadBounded => OverrunBounded
  <2> SUFFICES ASSUME TypeOK, LoadBounded, NEW f \in pdfs
               PROVE  Cardinality(InFolder(f[1])) <= MaxPerBatch - 1 + Cardinality(Writers)
    BY DEF OverrunBounded
  <2>1. f[1] \in Nat /\ f \in InFolder(f[1])
    BY DEF TypeOK, Files, InFolder
  <2>2. Cardinality(InFolder(f[1])) # 0
    BY <2>1, LoadFinite, FS_EmptySet
  <2>3. Load(f[1]) # 0 /\ Cardinality(InFolder(f[1])) <= Load(f[1])
    BY <2>2, LoadFinite DEF Load
  <2>4. Load(f[1]) <= MaxPerBatch - 1 + Cardinality(Writers)
    BY <2>1, <2>3 DEF LoadBounded
  <2> QED BY <2>3, <2>4, LoadFinite, BatchAssumption DEF Load
<1> QED BY <1>1, LoadBoundedInvariant, TypeCorrect, PTL

\* With the lock, the sum of what is there and what is on its way stays within
\* the cap.
LoadCapped == ~gaveUp => \A n \in Nat : Load(n) <= MaxPerBatch

LEMMA LoadCappedInvariant == Spec => []LoadCapped
<1>1. Init => LoadCapped
  BY InitLoad, BatchAssumption DEF LoadCapped
<1>2. TypeOK /\ TypeOK' /\ Aimed /\ LockInv /\ LoadCapped /\ [Next]_vars => LoadCapped'
  <2> SUFFICES ASSUME TypeOK, TypeOK', Aimed, LockInv, LoadCapped, [Next]_vars,
                      ~gaveUp', NEW n \in Nat
               PROVE  Load(n)' <= MaxPerBatch
    BY DEF LoadCapped
  <2>a. ~gaveUp
    BY Patience
  <2>0. Load(n) \in Nat /\ Load(n)' \in Nat
    BY LoadTypes
  <2>1. CASE Load(n)' <= Load(n)
    BY <2>a, <2>0, <2>1, BatchAssumption DEF LoadCapped
  <2>2. ASSUME NEW w \in Writers, TakesPlace(w, n)
        PROVE  Load(n)' <= MaxPerBatch
    <3>1. Choosing(n) \subseteq {w}
      BY <2>a, <2>2 DEF LockInv, OneInside, Inside, Choosing, TakesPlace
    <3>2. Choosing(n)' = {w}
      BY <2>2, <3>1 DEF TakesPlace
    <3>3. Cardinality(Choosing(n)') = 1
      BY <3>2, FS_Singleton
    <3>4. Cardinality(InFolder(n)') <= MaxPerBatch - 1 /\ Cardinality(InFolder(n)') \in Nat
      BY <2>2, LoadFinite, BatchAssumption DEF TakesPlace
    <3> QED BY <3>3, <3>4, BatchAssumption DEF Load
  <2> QED BY <2>1, <2>2, LoadStep
<1> QED BY <1>1, <1>2, TypeCorrect, AimedInvariant, LockInvariant, PTL DEF Spec

\* As long as nobody gives up waiting for the lock, no batch folder ever holds
\* more PDFs than the cap.
THEOREM CapHolds == Spec => []CapKept
<1>1. TypeOK /\ LoadCapped => CapKept
  <2> SUFFICES ASSUME TypeOK, LoadCapped, ~gaveUp, NEW f \in pdfs
               PROVE  Cardinality(InFolder(f[1])) <= MaxPerBatch
    BY DEF CapKept
  <2>1. f[1] \in Nat
    BY DEF TypeOK, Files
  <2> QED BY <2>1, LoadFinite, BatchAssumption DEF LoadCapped, Load
<1> QED BY <1>1, LoadCappedInvariant, TypeCorrect, PTL
=============================================================================
