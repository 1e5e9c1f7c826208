------------------------------- MODULE MCIntake -------------------------------
EXTENDS Intake, TLC

CONSTANTS d1, d2, n1, n2, t1, t2, w1, w2, p1, p2

\* A file to be billed and a test file of the same template.
TwoNames == (d1 :> n1) @@ (d2 :> n2)
BillAndTest == (d1 :> "Cycle_1") @@ (d2 :> Test)
OneTemplate == (d1 :> {t1}) @@ (d2 :> {t1})
OneProcess == (w1 :> p1) @@ (w2 :> p1)
TwoProcesses == (w1 :> p1) @@ (w2 :> p2)
OneWatcher == (w1 :> p1)
Threads == Permutations({w1, w2})
TheFolders == {"Cycle_1", Test}
=============================================================================
