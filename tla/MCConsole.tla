----------------------------- MODULE MCConsole -----------------------------
(* Console for TLC. *)
EXTENDS Console

MCChars == {" ", "-", "+", "1", "5", "x"}
MCRests == {<<>>} \cup {<<" ">> \o s : s \in UNION {[1 .. n -> MCChars] : n \in 0 .. 3}}
MCLines == [word : {"ConnectTo"}, rest : MCRests]
             \cup [word : DOMAIN SimpleCommands \cup {"Connect", ""}, rest : {<<>>, <<" ", "1">>}]
=============================================================================
