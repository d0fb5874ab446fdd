---------------------------- MODULE MCDelimiters ----------------------------
(***************************************************************************)
(* Scripts of up to MaxLines lines, with the two delimiters that tests use *)
(* and one the start of the other, and delimiters in the middle of a line. *)
(***************************************************************************)
EXTENDS Delimiters

CONSTANT MaxLines

MCArgument == [d \in {"delimiter ;", "delimiter ;;"} |->
                 IF d = "delimiter ;" THEN <<";">> ELSE <<";", ";">>]

Lines ==
    {<<>>, <<"a">>, <<" ", "a", ";">>, <<"a", ";", ";", " ">>, <<";", ";">>,
     <<"a", ";", ";", ";">>, <<"a", ";", ";", "b">>, <<" ">>, <<"b", ";", " ", ";">>,
     <<" ", "delimiter ;">>, <<"delimiter ;;">>}

MCTokens == {"a", "b", ";", " ", "nl"} \cup DOMAIN MCArgument

MCIgnores == {<<";">>, <<>>}

MCScripts == UNION {[1 .. n -> Lines] : n \in 1 .. MaxLines}
=============================================================================
