-------------------------- MODULE MCForecastStudy --------------------------
(* Two commands at a time on two spacecraft, both asking for one category.  *)
EXTENDS ForecastStudy, TLC

CONSTANTS p1, p2, c1, c2, o1, o2

Same == Permutations(Process) \union Permutations(Craft) \union Permutations(Output)

MCSources == {Category, {"payload-separation-update"}}
=============================================================================
