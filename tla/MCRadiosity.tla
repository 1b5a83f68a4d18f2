---------------------------- MODULE MCRadiosity -----------------------------
(***************************************************************************)
(* Scenes of RadiosityScene for TLC.  On the stage a ray crosses nodes in  *)
(* another order than they lie in the tree; the room has a box between     *)
(* floor and ceiling; in the hall a screen cuts floor and ceiling, one of  *)
(* them through a corner; in cuts the planes on both sides of an edge cut  *)
(* it.                                                                     *)
(***************************************************************************)
EXTENDS RadiosityScene

Rectangle(a, b, c) == [type |-> "rectangle", p |-> <<a, b, c>>]
Triangle(a, b, c) == [type |-> "triangle", p |-> <<a, b, c>>]
MCScenes == [
    stage |-> <<Triangle(<<0, 0, 4>>, <<12, 0, 4>>, <<0, 12, 4>>),
               Triangle(<<9, 0, 0>>, <<9, 12, 0>>, <<9, 0, 3>>),
               Triangle(<<0, 0, 0>>, <<3, 0, 0>>, <<0, 3, 0>>),
               Triangle(<<9, 0, 12>>, <<9, 3, 12>>, <<12, 0, 12>>)>>,
    room |-> <<Rectangle(<<0, 0, 0>>, <<12, 0, 0>>, <<0, 12, 0>>),
               Rectangle(<<0, 0, 12>>, <<0, 12, 12>>, <<12, 0, 12>>),
               Rectangle(<<4, 4, 8>>, <<8, 4, 8>>, <<4, 8, 8>>),
               Rectangle(<<4, 4, 6>>, <<4, 8, 6>>, <<8, 4, 6>>)>>,
    hall |-> <<Rectangle(<<3, 3, 0>>, <<9, 9, 0>>, <<3, 3, 6>>),
               Rectangle(<<0, 0, 0>>, <<12, 0, 0>>, <<0, 12, 0>>),
               Rectangle(<<0, 0, 12>>, <<0, 12, 12>>, <<12, 0, 12>>),
               Triangle(<<1, 6, 6>>, <<4, 6, 6>>, <<1, 9, 3>>)>>,
    cuts |-> <<Rectangle(<<4, 0, 0>>, <<4, 8, 0>>, <<4, 0, 8>>),
               Rectangle(<<4, 2, 0>>, <<4, 2, 8>>, <<8, 2, 0>>),
               Rectangle(<<0, 1, 0>>, <<0, 1, 8>>, <<4, 1, 0>>),
               Rectangle(<<0, 0, 0>>, <<8, 0, 0>>, <<0, 8, 0>>)>> ]
MCDiv == [stage |-> 0, room |-> 0, hall |-> 1, cuts |-> 2]
MCSights == [stage |-> 2, room |-> 2, hall |-> 1, cuts |-> 0]
=============================================================================
