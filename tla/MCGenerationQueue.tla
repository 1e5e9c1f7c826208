-------------------------- MODULE MCGenerationQueue --------------------------
(***************************************************************************)
(* Small instances of GenerationQueue.  Two templates and files of two or   *)
(* three documents are enough for every offset, breakdown and limit to have *)
(* something before, at and after it.                                      *)
(***************************************************************************)
EXTENDS GenerationQueue, TLC

CONSTANTS w1, w2, q1, q2, q3, a, b

\* Two files: one of two templates, one of one.
MixedAndPlain == 1 :> <<a, b>> @@ 2 :> <<a, a>>

\* One file of two templates.
Mixed == 1 :> <<a, b>>

\* One file in which a template comes before and after another.
Interleaved == 1 :> <<b, a, a>>

NothingBad == [u \in Uploads |-> {}]

FirstBad == [u \in Uploads |-> IF u = 1 THEN {1} ELSE {}]

\* The approved templates do not change.
AllApproved == {Templates}

\* They are whatever the administrators make of them.
AnyApproved == SUBSET Templates \ {{}}

Symmetry == Permutations(Workers) \cup Permutations(Requests)
=============================================================================
