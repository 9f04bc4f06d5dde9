----------------------------- MODULE MCSessions -----------------------------
(***************************************************************************)
(* Two or three overlapping runs on files of up to two lines.              *)
(***************************************************************************)
EXTENDS Sessions

MCLine     == {"a", "b", "p1", "p2", "p3"}
MCProposal == [p \in Proc |-> CASE p = 1 -> "p1" [] p = 2 -> "p2" [] OTHER -> "p3"]
OneLine    == {<<"a">>}
TwoLines   == {<<"a", "b">>}
MCSaved    == {<<"b">>, <<"a">>}
Foreign    == -1
MCEarlier  == {Foreign, 1}
OnlyForeign == {Foreign}
=============================================================================
