---------------------------- MODULE MCFwUpload ------------------------------
(***************************************************************************)
(* FwUpload for TLC: eight addresses, five of them RAM, chunks of two      *)
(* bytes; files with a record of two chunks, an empty one, overlapping     *)
(* ones, one that wraps round the address space under a base, lines behind *)
(* EOF, no EOF, two that must be refused, and one that writes CPUCS, first *)
(* with bit 0 set and then with it clear.  Two uploaders at once.          *)
(***************************************************************************)
EXTENDS FwUpload, TLC

Data(addr, data) == [type |-> "data", addr |-> addr, data |-> data, fits |-> TRUE]
Corrupt  == [type |-> "data", addr |-> 0, data |-> <<9>>, fits |-> FALSE]
Base(b)  == [type |-> "base", base |-> b]
Eof      == [type |-> "eof"]
Skip     == [type |-> "skip"]
Bad      == [type |-> "bad"]

Symmetry == Permutations(Tools)

MCFiles ==
    {<<Data(0, <<1, 2, 3>>), Skip, Data(2, <<4>>), Eof>>,
     <<Data(1, <<>>), Base(2), Data(7, <<5, 6, 7>>), Eof, Data(0, <<8>>)>>,
     <<Data(0, <<6>>), Base(9), Data(7, <<1, 2>>)>>,
     <<Data(0, <<1, 2>>), Corrupt, Eof>>,
     <<Data(0, <<1>>), Bad>>,
     <<Data(0, <<3>>), Eof, Bad>>,
     <<Data(6, <<1>>), Base(4), Data(1, <<2, 4, 7>>)>>}
=============================================================================
