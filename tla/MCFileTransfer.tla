--------------------------- MODULE MCFileTransfer ---------------------------
EXTENDS FileTransfer, TLC

MCPath == {"a", "b", "c"}
MCName == {"x", "y", "bad"}
MCFileName == [a |-> "x", b |-> "y", c |-> "bad"]
MCFlaws == [a |-> {}, b |-> {}, c |-> {"ContainsNul", "ReservedDeviceName"}]
MCPlans == {<<"a", "b">>, <<"b", "c">>}
MCInitLen == [a |-> 2, b |-> 1, c |-> 1]
Symmetry == Permutations(Attempt)
=============================================================================
