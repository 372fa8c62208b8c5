------------------------- MODULE MCRunPreparation -------------------------
(* Four walkable paths, two buildings, a stop, three areas of two lots and *)
(* two entry edges; the maps differ in what a lot of wrong data can break. *)
EXTENDS RunPreparation, TLC

MCLotOf == [a |-> 1, b |-> 1, c |-> 2]

Beside(p, q) == (p :> 1) @@ (q :> 2)

Near(work, stop, b) ==
  ("home" :> Beside(1, 2)) @@ ("work" :> work) @@ ("stop" :> stop)
    @@ ("a" :> (1 :> 1)) @@ ("b" :> b) @@ ("c" :> (3 :> 1))

MCNear ==
  {Near(Beside(3, 4), (4 :> 1), (4 :> 1)), Near(Beside(3, 2), (2 :> 1), <<>>),
   Near(Beside(4, 3), <<>>, Beside(4, 3)), Near(Beside(4, 3), (2 :> 1), (3 :> 1)),
   Near(Beside(3, 2), (4 :> 1), (3 :> 1))}

MCLinks == SUBSET {{1, 2}, {2, 3}, {3, 4}}

MCRoads ==
  {(1 :> <<{1, 2}>>) @@ (2 :> <<{1, 2}>>), (1 :> <<{}, {2}>>) @@ (2 :> <<{1, 2}>>),
   (1 :> <<{2}, {1, 2}>>) @@ (2 :> <<{1}>>), (1 :> <<{1, 2}>>) @@ (2 :> <<{}>>),
   (1 :> <<{1, 2}>>) @@ (2 :> <<>>)}

MCWorlds ==
  {[near |-> near, links |-> links, roads |-> roads, residential |-> people[1],
    weighted |-> people[2], points |-> saved, selected |-> selected] :
     near \in MCNear, links \in MCLinks, roads \in MCRoads,
     people \in {<<{"home"}, {"home", "work"}>>, <<{"home"}, {"work"}>>, <<{}, {"home"}>>},
     saved \in {<<>>, <<1, 2>>, <<2, 2>>}, selected \in {{2}, {1, 2}}}

Asking(v, r, t, given, counts) ==
  [vehicles |-> v, residential |-> r, transport |-> t, given |-> given, counts |-> counts]

MCRequests ==
  {Asking(2, 0, 0, FALSE, <<>>), Asking(3, 0, 1, FALSE, <<>>),
   Asking(2, 0, 0, TRUE, <<0, 2>>), Asking(1, 1, 0, TRUE, <<1>>),
   Asking(0, 1, 1, FALSE, <<>>), Asking(3, 0, 0, TRUE, <<1, 2>>)}
=============================================================================
