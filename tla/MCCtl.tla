------------------------------- MODULE MCCtl --------------------------------
(***************************************************************************)
(* Small instances of processes and their clients.                          *)
(***************************************************************************)
EXTENDS Ctl

I(name)          == [flag |-> "i", name |-> name, vids |-> <<>>]
Access(name, v)  == [flag |-> "access", name |-> name, vids |-> <<v>>]
Trunk(name, vs)  == [flag |-> "trunk", name |-> name, vids |-> vs]
Other(kind)      == [flag |-> kind, name |-> "x", vids |-> <<>>]

Good == {<<Access("e1", 1), Trunk("e2", <<1, 4094>>)>>}

\* Rejected by a flag, rejected by NewEngine, and cut short by a word.
Lines == Good \cup
  {<<>>, <<Other("bad")>>, <<I("e1"), Access("e2", 0)>>, <<Trunk("e1", <<1, 4095>>)>>,
   <<Trunk("e1", <<>>)>>, <<I("e1"), Access("e2", 1)>>, <<I("e1"), I("e1")>>, <<I("")>>,
   <<I("e1"), Other("word"), Access("e2", 1)>>}
=============================================================================
