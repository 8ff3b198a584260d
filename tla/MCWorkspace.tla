---------------------------- MODULE MCWorkspace ----------------------------
(* Commands as model-value processes; machines are small numbers' worth of *)
(* model values, so both may be permuted where no liveness is checked.     *)
EXTENDS Workspace, TLC

CONSTANTS p1, p2, p3, A, B, m1, m2

OneProcess == {p1}
TwoProcesses == {p1, p2}
ThreeProcesses == {p1, p2, p3}
OneArchiveOnly == {A}
TwoArchives == {A, B}
OneMachine == {m1}
TwoMachines == {m1, m2}
Downloads == {"download", "recover"}
Repairs == {"download", "repair"}
Symmetry == Permutations(Process) \cup Permutations(Machine)
=============================================================================
