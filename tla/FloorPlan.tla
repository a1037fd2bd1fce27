------------------------------ MODULE FloorPlan ------------------------------
(***************************************************************************)
(* The planner of apps/server/src/office/layout.ts: how a floor grows out  *)
(* of the core, one room per free doorway, on the block kit it is given.   *)
(*                                                                         *)
(* Lengths are integers, widths and depths even. An edge is its outward    *)
(* normal <<x, z>>, so that north is <<0, -1>>, and a rotation counts      *)
(* quarter turns.                                                          *)
(***************************************************************************)
EXTENDS Integers, Sequences, FiniteSets

North == <<0, -1>>
East == <<1, 0>>
South == <<0, 1>>
West == <<-1, 0>>
Edges == {North, East, South, West}
Opposite(edge) == <<-edge[1], -edge[2]>>

(* rotatePoint, and rotatedEdgeNormal on normals.                          *)
Turned(p, rotation) ==
  IF rotation = 0 THEN p
  ELSE IF rotation = 1 THEN <<p[2], -p[1]>>
  ELSE IF rotation = 2 THEN <<-p[1], -p[2]>>
  ELSE <<-p[2], p[1]>>

EdgeMidpoint(edge, kind) ==
  <<(edge[1] * kind.width) \div 2, (edge[2] * kind.depth) \div 2>>

DoorOffset(edge, kind, rotation) == Turned(EdgeMidpoint(edge, kind), rotation)

Box(x, z, width, depth) ==
  [minX |-> x - width \div 2, maxX |-> x + width \div 2,
   minZ |-> z - depth \div 2, maxZ |-> z + depth \div 2]

(* Wrong: a room that is turned keeps its width and depth.                 *)
BoxUnturned(block, kind) == Box(block.x, block.z, kind.width, kind.depth)

(* blockBox: a quarter turn swaps width and depth.                         *)
BlockBox(block, kind) ==
  IF block.rotation \in {1, 3} THEN Box(block.x, block.z, kind.depth, kind.width)
                               ELSE Box(block.x, block.z, kind.width, kind.depth)

CoreBox(kit) == Box(0, 0, kit.core.width, kit.core.depth)

Overlaps(a, b) ==
  /\ a.minX < b.maxX /\ a.maxX > b.minX
  /\ a.minZ < b.maxZ /\ a.maxZ > b.minZ

(* The first rotation, and the first door, by which a kind mates a port.   *)
Mates(kind, port) ==
  {m \in [rotation : 0 .. 3, door : 1 .. Len(kind.doors)] :
     Turned(kind.doors[m.door], m.rotation) = Opposite(port.dir)}

PlacementFor(kind, port) ==
  CHOOSE m \in Mates(kind, port) :
    \A other \in Mates(kind, port) :
      \/ m.rotation < other.rotation
      \/ m.rotation = other.rotation /\ m.door <= other.door

BlockAt(id, kind, port, mate) ==
  LET offset == DoorOffset(kind.doors[mate.door], kind, mate.rotation)
  IN [id |-> id, kind |-> kind.id, x |-> port.x - offset[1], z |-> port.z - offset[2],
      rotation |-> mate.rotation]

(* The doorways a room opens: all its doors but the one it is entered by.  *)
PortsOf(block, kind, entry) ==
  [n \in 1 .. Len(kind.doors) - 1 |->
     LET edge   == kind.doors[IF n < entry THEN n ELSE n + 1]
         offset == DoorOffset(edge, kind, block.rotation)
     IN [x |-> block.x + offset[1], z |-> block.z + offset[2],
         dir |-> Turned(edge, block.rotation)]]

RoomKinds(kit) == {i \in 1 .. Len(kit.kinds) : kit.kinds[i].doors # <<>>}

KindNamed(kit, id) == CHOOSE i \in 1 .. Len(kit.kinds) : kit.kinds[i].id = id
InKit(kit, id) == \E i \in 1 .. Len(kit.kinds) : kit.kinds[i].id = id
BoxOf(kit, block) == BlockBox(block, kit.kinds[KindNamed(kit, block.kind)])

(* A block kit that parseBlockKit let through, no kind listed twice and no  *)
(* door of a kind either and no length below zero, as the shipped one is.  *)
IsKit(kit) ==
  /\ kit.core.seats \in Nat
  /\ kit.core.ports \in Seq([x : Int, z : Int, dir : Edges])
  /\ Len(kit.kinds) \in Nat
  /\ \A i \in 1 .. Len(kit.kinds) :
       /\ kit.kinds[i].width \in Nat /\ kit.kinds[i].depth \in Nat
       /\ kit.kinds[i].seats \in Nat
       /\ kit.kinds[i].doors \in Seq(Edges) /\ Len(kit.kinds[i].doors) <= 4
       /\ \A j \in 1 .. Len(kit.kinds) : kit.kinds[i].id = kit.kinds[j].id => i = j

(* Two kits cut the core alike, and the kinds they share.                  *)
SameCut(kit, other) ==
  /\ CoreBox(kit) = CoreBox(other)
  /\ \A i \in 1 .. Len(kit.kinds), j \in 1 .. Len(other.kinds) :
       kit.kinds[i].id = other.kinds[j].id =>
         /\ kit.kinds[i].width = other.kinds[j].width
         /\ kit.kinds[i].depth = other.kinds[j].depth

(* planFloor: `blocks` so far, the `frontier` of doorways, those looked at.*)
Start(kit) == [blocks |-> <<>>, frontier |-> kit.core.ports, cursor |-> 0]

Collides(kit, blocks, block) ==
  \/ Overlaps(BoxOf(kit, block), CoreBox(kit))
  \/ \E i \in 1 .. Len(blocks) : Overlaps(BoxOf(kit, block), BoxOf(kit, blocks[i]))

CandidateAt(kit, plan, i) ==
  LET port == plan.frontier[plan.cursor + 1]
  IN BlockAt(Len(plan.blocks) + 1, kit.kinds[i], port, PlacementFor(kit.kinds[i], port))

Fits(kit, plan) ==
  {i \in RoomKinds(kit) :
     /\ Mates(kit.kinds[i], plan.frontier[plan.cursor + 1]) # {}
     /\ ~Collides(kit, plan.blocks, CandidateAt(kit, plan, i))}

PlacedCount(kit, plan, i) ==
  Cardinality({b \in 1 .. Len(plan.blocks) : plan.blocks[b].kind = kit.kinds[i].id})

(* kindOrder: least used first, then in the order of the kit.              *)
Chosen(kit, plan) ==
  CHOOSE i \in Fits(kit, plan) :
    \A j \in Fits(kit, plan) :
      \/ PlacedCount(kit, plan, i) < PlacedCount(kit, plan, j)
      \/ PlacedCount(kit, plan, i) = PlacedCount(kit, plan, j) /\ i <= j

(* One doorway: a room is put there, or nothing fits and it is spent.      *)
AtNextPort(kit, plan) ==
  LET port  == plan.frontier[plan.cursor + 1]
      kind  == kit.kinds[Chosen(kit, plan)]
      block == CandidateAt(kit, plan, Chosen(kit, plan))
      entry == PlacementFor(kind, port).door
  IN IF Fits(kit, plan) = {}
     THEN [plan EXCEPT !.cursor = @ + 1]
     ELSE [blocks |-> Append(plan.blocks, block),
           frontier |-> plan.frontier \o PortsOf(block, kind, entry),
           cursor |-> plan.cursor + 1]

Advance(kit, rooms, plan) ==
  IF Len(plan.blocks) < rooms /\ plan.cursor < Len(plan.frontier)
  THEN AtNextPort(kit, plan)
  ELSE plan

(* Every room opens three doorways at most, which bounds the loop.         *)
LastStep(kit, rooms) == Len(kit.core.ports) + 3 * rooms

PlanFloor(kit, rooms) ==
  LET after[n \in Nat] ==
        IF n = 0 THEN Start(kit) ELSE Advance(kit, rooms, after[n - 1])
  IN after[LastStep(kit, rooms)].blocks

SeatsOf(kit, block) ==
  IF InKit(kit, block.kind)
  THEN {<<block.id, seat>> : seat \in 1 .. kit.kinds[KindNamed(kit, block.kind)].seats}
  ELSE {}

(* seatIdsFor, with the seats of the core as <<0, seat>>, and capacityOf.  *)
SeatIdsFor(kit, layout) ==
  {<<0, seat>> : seat \in 1 .. kit.core.seats}
    \cup UNION {SeatsOf(kit, layout[i]) : i \in 1 .. Len(layout)}

CapacityOf(kit, layout) ==
  kit.core.seats
    + Cardinality(UNION {{i} \X SeatsOf(kit, layout[i]) : i \in 1 .. Len(layout)})

Abs(n) == IF n < 0 THEN -n ELSE n

(* Where a room stands: its corner turns as its doors do, and the room     *)
(* reaches as far from its middle as the corner.                           *)
Footprint(kit, block) ==
  LET kind   == kit.kinds[KindNamed(kit, block.kind)]
      corner == Turned(<<kind.width \div 2, kind.depth \div 2>>, block.rotation)
  IN [minX |-> block.x - Abs(corner[1]), maxX |-> block.x + Abs(corner[1]),
      minZ |-> block.z - Abs(corner[2]), maxZ |-> block.z + Abs(corner[2])]

(* No room stands in the core or in another room.                          *)
RoomsApart(kit, layout) ==
  \A i \in 1 .. Len(layout) :
    /\ ~Overlaps(Footprint(kit, layout[i]), CoreBox(kit))
    /\ \A j \in 1 .. i - 1 : ~Overlaps(Footprint(kit, layout[i]), Footprint(kit, layout[j]))
=============================================================================
