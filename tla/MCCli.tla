------------------------------- MODULE MCCli -------------------------------
(* An instance of Cli for TLC: two sources, of which one may be given twice *)
(* to create, a key that two spellings give, and one directory. *)
EXTENDS Cli

CONSTANTS d1, d2
mcBasename == [s \in {"a", "b"} |-> IF s = "a" THEN 1 ELSE 2]
mcInitially == [s \in {"a", "b"} |-> IF s = "a" THEN d1 ELSE d2]
mcLists == {<<>>, <<"a", "a">>, <<"a", "b">>}
mcTrees == {[n \in 1..2 |-> IF n = 1 THEN Raw(d1) ELSE Raw(d2)]}
Hex(digits) == [hex |-> digits, file |-> <<>>]
KeyFile(f)  == [hex |-> <<>>, file |-> f]
mcKeyArgs == {Hex(<<>>), Hex(<<1, 16>>), KeyFile(<<<<1>>>>)}
=============================================================================
