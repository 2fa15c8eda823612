-------------------------- MODULE MCNameConverter ---------------------------
(* Small drive tables for TLC *)
EXTENDS NameConverter

CONSTANTS c1, c2
Clients == Permutations({c1, c2})

\* Beyond the digits.
Lanman == <<20>>
TheMup == <<30>>
SmallProviders == {TheMup, Lanman}

Volume(l, v, ty) == [letter |-> l, head |-> v, tail |-> <<>>, type |-> ty]
Share(l, n) == [letter |-> l, head |-> Lanman, tail |-> <<n>>, type |-> "remote"]

\* HarddiskVolume1 after 11 or 111, which continue its name by one and two digits; a
\* removable drive that comes and goes; two shares of one redirector.
SmallSystems ==
  {<<Volume("c:", <<1, 1>>, "fixed"), Volume("d:", <<1>>, "removable")>>,
   <<Volume("c:", <<1, 1, 1>>, "fixed"), Volume("d:", <<1>>, "fixed"),
     Share("x:", 1), Share("y:", 2)>>}

\* With nothing, a share, or a file below one after the head.
SmallNames == [head : {<<1>>, <<1, 1>>, <<1, 1, 1>>, Lanman, TheMup},
               tail : {<<>>, <<1>>, <<2, 7>>}, slash : BOOLEAN]
=============================================================================
