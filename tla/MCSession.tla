------------------------------ MODULE MCSession ------------------------------
(***************************************************************************)
(* Two programs: p leaves an object in its globals, makes one while it runs *)
(* and halts; q has two names, one of them p's, no globals, and no HALT.    *)
(***************************************************************************)
EXTENDS Session

Blocks == 1 .. 16
Programs == {"p", "q"}
Codes == [p |-> <<"new", "halt">>, q |-> <<"new", "op">>]
Globals == [p |-> <<"new", "halt">>, q |-> <<"halt">>]
Symbols == [p |-> <<"s">>, q |-> <<"s", "t">>]
Units == {1}
=============================================================================
