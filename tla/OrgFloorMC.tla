----------------------------- MODULE OrgFloorMC -----------------------------
(* OrgFloor on two small kits of the shipped rooms, lengths in half metres *)
(* and a desk where the shipped room has several. They share the duo, so a *)
(* change of kit leaves some rooms of a floor. In the first a store turned *)
(* by a quarter would reach into another store, so the fourth room is a    *)
(* duo turned by a quarter.                                                *)
EXTENDS OrgFloor

Kind(id, width, depth, doors, seats) ==
  [id |-> id, width |-> width, depth |-> depth, doors |-> doors, seats |-> seats]

Port(x, z, dir) == [x |-> x, z |-> z, dir |-> dir]

Core(ports) == [width |-> 44, depth |-> 32, seats |-> 1, ports |-> ports]

Duo == Kind("duo2", 8, 12, <<West, East>>, 1)
Phone == Kind("phone1", 8, 8, <<West>>, 1)
Store == Kind("store4", 16, 8, <<West>>, 0)
Junction == Kind("junction", 12, 12, <<North, East, South, West>>, 0)

SmallKits ==
  {[core |-> Core(<<Port(-22, -14, West), Port(-22, 8, West)>>),
    kinds |-> <<Store, Duo, Junction>>],
   [core |-> Core(<<Port(22, -8, East), Port(22, 8, East), Port(-22, -8, West)>>),
    kinds |-> <<Phone, Duo>>]}

TwoRoles ==
  [e \in {"lead", "dev"} |->
     IF e = "lead" THEN Role(Nobody, <<0, 1>>) ELSE Role("lead", NoSeat)]
=============================================================================
