------------------------------- MODULE MCPipes -------------------------------
(* Instances of Pipes: what is opened, written and asked for. *)
EXTENDS Pipes

CONSTANTS a, b

R == {"FREAD"}
W == {"FWRITE"}
FewModes == {R, W, {"FREAD", "FNDELAY"}, {"FWRITE", "FNDELAY"}}

Letters == {a, b}
TwoTexts == {<<a, b, a>>, <<a, b, a, b, b>>}

Symm == Permutations(Proc) \cup Permutations(File)
=============================================================================
