------------------------------ MODULE MCOrbitFit ------------------------------
EXTENDS OrbitFit

(* Three contacts of one spacecraft, two antennas, one start shared; one    *)
(* world where a contact's ephemeris is of another spacecraft.              *)
OneContact(craft, system, e, start) ==
  [craft |-> craft, system |-> system, ephemeris |-> e, start |-> start]
OneSample(c, t, usable) ==
  [time |-> t, contact |-> c, craft |-> 1, system |-> IF c = 2 THEN 2 ELSE 1,
   usable |-> usable]

World(starts, crafts, tle, samples) ==
  [contact |-> [c \in 1..3 |->
      OneContact(crafts[c], IF c = 2 THEN 2 ELSE 1, c, starts[c])],
   ephemeris |-> [e \in 1..3 |-> [craft |-> crafts[e], tle |-> tle[e]]],
   samples |-> samples]

Enough == [c \in 1..3 |->
  {OneSample(c, 10 - c, TRUE), OneSample(c, 14, TRUE), OneSample(c, 1, FALSE)}]
Few == [Enough EXCEPT ![2] = {OneSample(2, 8, TRUE), OneSample(2, 14, FALSE)}]
Empty == [Enough EXCEPT ![2] = {}, ![3] = {[s EXCEPT !.craft = 2] : s \in @}]

MCWorlds ==
  {World(<<5, 5, 4>>, <<1, 1, 1>>, <<TRUE, TRUE, TRUE>>, Enough),
   World(<<6, 5, 7>>, <<1, 1, 1>>, <<TRUE, TRUE, FALSE>>, Few),
   World(<<5, 6, 4>>, <<1, 1, 2>>, <<TRUE, TRUE, TRUE>>, Empty),
   [World(<<5, 6, 4>>, <<1, 1, 1>>, <<TRUE, TRUE, TRUE>>, Enough)
      EXCEPT !.ephemeris[2].craft = 2]}

MCRequests ==
  {[contacts |-> <<3, 1>>, ephemeris |-> None, minimum |-> 2],
   [contacts |-> <<1, 2>>, ephemeris |-> None, minimum |-> 2],
   [contacts |-> <<2, 1>>, ephemeris |-> 3, minimum |-> 2],
   [contacts |-> <<2, 3, 1>>, ephemeris |-> None, minimum |-> 2]}

(* The L + n profile in both versions, and the timing profile scanned. *)
Parameter(kind, role, sigma) == [name |-> Name(kind, None), role |-> role, sigma |-> sigma]
MCProfiles ==
  {[version |-> 1, scans |-> None,
    parameters |-> <<Parameter("L", "estimate", FALSE)>>],
   [version |-> 2, scans |-> "time",
    parameters |-> <<Parameter("n", "consider", TRUE), Parameter("L", "consider", TRUE),
                     Parameter("time", "estimate", TRUE)>>]}
MCHead == <<"n", "L", "time">>
MCTail == <<"epoch">>
===============================================================================
