------------------------------- MODULE MCBoard -------------------------------
(* A burst of two words, chips of 16 and 64 bytes or none, and data that    *)
(* ends before, at and behind the end of a word and of a burst.  Transfers  *)
(* of one and two bytes.  Two pages whose pictures differ at the edges and  *)
(* in the middle of a page.  Names that fit a line, scroll, and are cut.    *)
EXTENDS Board
MCData == {<<2>>, <<1, 2, 3, 1>>, <<3, 1, 2, 3, 2>>, <<1, 3, 2, 1, 0, 2, 3, 3>>, <<2, 1, 1, 0, 3, 2, 0, 1, 3>>}
MCDatas == {<<165>>, <<255, 0>>}
MCPictures ==
  {[p \in 0..1 |-> [c \in 0..7 |-> IF p = 0 /\ c \in {0, 7} THEN 1 ELSE 0]],
   [p \in 0..1 |-> [c \in 0..7 |-> IF c \in 3..6 THEN 1 ELSE 0]]}
MCSaid == {"long", "cut", "genre", "scrolls", "fits", "artist", "title", "all"}
Text(s, n) == [says |-> s, len |-> n]
MCHeaders ==
  {[name |-> Text("nothing", 0), genre |-> Text("nothing", 0)],
   [name |-> Text("long", 9), genre |-> Text("nothing", 0)],
   [name |-> Text("cut", 12), genre |-> Text("genre", 3)]}
MCNames == {Text("scrolls", 8), Text("fits", 3)}
MCMetas == {<<Text("artist", 4), Text("title", 12)>>, <<Text("all", 8), Text("nothing", 0)>>}
MCFont ==
  [ch \in {"a", "b"} |-> IF ch = "a" THEN {<<0, 0>>, <<1, 2>>}
                         ELSE {<<1, 0>>, <<0, 1>>, <<1, 1>>}]
MCStrings == {<<"a", "b">>, <<"b">>, <<"a", "a", "b", "a">>}
MCCorners == {<<0, 0>>, <<5, 1>>, <<2, 6>>, <<7, 5>>, <<3, 3>>}
MCCircles == {<<3, 3, r>> : r \in 0..3} \cup {<<4, 4, 2>>, <<5, 3, 3>>}
==============================================================================
