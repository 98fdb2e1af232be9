------------------------- MODULE MCAllocationSites -------------------------
(***************************************************************************)
(* Instances of AllocationSites.                                           *)
(***************************************************************************)
EXTENDS AllocationSites

CONSTANTS j1, c1

(* The array class is a subclass of Object. *)
MCKlasses == {"Object", "Array"}
MCSuper == [k \in MCKlasses |-> IF k = "Object" THEN NULL ELSE "Object"]

(* n allocates an array; it is reached directly, or inlined into m and l. m *)
(* allocates another.  d is an intrinsic.  u belongs to a class that is     *)
(* unloaded, v to the same class when another loader has loaded it.         *)
MCFrames == {"n", "m", "l", "d", "u", "v"}
MCName == [f \in MCFrames |-> IF f = "v" THEN "u" ELSE f]
Inlined == <<"n", "m", "l">>
MCCallSites == {<<"n">>, <<"m">>, Inlined, <<"d">>, <<"u">>, <<"v">>}
MCAllocates == [s \in MCCallSites |-> IF s = <<"d">> THEN {"Object", "Array"} ELSE {"Array"}]

Program(where, before) == [sites |-> where, collections |-> before, types |-> 0, code |-> 1]

(* Unknown classes and inlining; identifiers run out; unloading; two        *)
(* compilations of an intrinsic, and of a class unknown to the first of     *)
(* them; types run out.                                                     *)
MCPrograms ==
  {Program({<<"n">>, Inlined}, 0), Program({Inlined, <<"d">>, <<"m">>}, 1),
   Program({<<"u">>, <<"v">>}, 0), [Program({<<"d">>}, 1) EXCEPT !.code = 2],
   [Program({<<"n">>}, 0) EXCEPT !.code = 2], [Program({<<"n">>}, 0) EXCEPT !.types = 1]}
MCUnresolved == {<<"n">>, Inlined, <<"u">>, <<"v">>}

(* An intrinsic that exchanges its identifier before the first collection. *)
CollectPrograms == {Program({<<"d">>, <<"v">>}, 0)}
=============================================================================
