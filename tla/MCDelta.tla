------------------------------ MODULE MCDelta ------------------------------
(* Names of up to four characters over the digits 0, 1, 5 and the dot, the *)
(* words x, <, true and false, each as a plain and as a bracketed leaf,    *)
(* and the application (< x 1.5) over them.                               *)
EXTENDS Delta

MCDigits == {"0", "1", "5"}
MCWords == {"x", "<", "true", "false"}
MCNames == BoundedSeq(MCDigits \cup {Dot}, 4) \cup {<<w>> : w \in MCWords}
MCLeaves == [name : MCNames, brackets : BOOLEAN, children : {<<>>}]
MCApp == [name |-> <<>>, brackets |-> TRUE,
          children |-> <<Leaf(<<"<">>), Leaf(<<"x">>), Leaf(<<"1", Dot, "5">>)>>]
MCNodes == MCLeaves \cup {MCApp}

=============================================================================
