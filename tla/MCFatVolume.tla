---------------------------- MODULE MCFatVolume ----------------------------
(***************************************************************************)
(* Small volumes for TLC.  a and b are names that fit a short name; l and  *)
(* m take two pieces, of which the first is the same, and the same short   *)
(* name but for its number.  Two numbers are tried, one in sequence and a  *)
(* hash: the hash of m happens to be its first number again, so that m is  *)
(* denied a place next to an l with that number.                           *)
(***************************************************************************)
EXTENDS FatVolume

CONSTANTS a, b, l, m, D, E, x, y

Short(n) == [sfn |-> <<n, 0>>, loss |-> FALSE, lfn |-> FALSE, pieces |-> <<n>>, num |-> <<>>]
Long(pieces, hash) ==
  [sfn |-> <<"LONG", 0>>, loss |-> TRUE, lfn |-> TRUE, pieces |-> pieces,
   num |-> <<<<"LONG", 1>>, <<"LONG", hash>>>>]

McInfo == [n \in Name |-> CASE n = l -> Long(<<"long", "l">>, 2)
                              [] n = m -> Long(<<"long", "m">>, 1)
                              [] n = E -> Long(<<"E", "is", "long">>, 2)
                              [] OTHER -> Short(n)]

\* Two long names in one directory.
TreeFiles == {<<D, l>>, <<D, m>>}
TreeDirs  == {<<D>>, <<E>>}
TreeLists == {<<D>>}
TreeData  == (<<D, l>> :> {x}) @@ (<<D, m>> :> {y})

\* Two short names in the root.
RootFiles == {<<a>>, <<b>>}
NoDirs    == {}
RootData  == (<<a>> :> {x}) @@ (<<b>> :> {x})

\* A seek to before the start, and one to beyond the end.
Seeks == {-1, 3}
=============================================================================
