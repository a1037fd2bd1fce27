------------------------------ MODULE OrgFloor ------------------------------
(***************************************************************************)
(* One organisation's chart and floor, as the operator edits them: hire,   *)
(* fire, setSeat, addRoom and removeRoom of server/runtime.ts, on the      *)
(* plans of FloorPlan. A handler runs to its end and commits before the    *)
(* next; skills, tools and model policies of a role change nothing here.   *)
(*                                                                         *)
(* `saved` is what the last commit wrote. A restart reads it back, perhaps *)
(* onto another block kit, and reconciles the floor without committing.    *)
(***************************************************************************)
EXTENDS FloorPlan, FiniteSetsExt

CONSTANTS
  Employees, \* ids an employee may have
  Kits,      \* block kits an installation may be given
  MaxRooms,  \* maxBlocks, the ceiling of a floor
  MaxHires,  \* bound: hires in a behaviour
  FirstRoles \* the chart a floor starts with

ASSUME OrgFloorAssumption ==
  /\ MaxRooms \in Nat /\ MaxHires \in Nat
  /\ DOMAIN FirstRoles \subseteq Employees /\ IsFiniteSet(DOMAIN FirstRoles)

(* A kind keeps its cut as long as it keeps its id: nothing plans a floor  *)
(* anew because a room of it has another size now.                         *)
ASSUME KitsAssumption ==
  /\ Kits # {} /\ \A k \in Kits : IsKit(k)
  /\ \A k, other \in Kits : SameCut(k, other)

VARIABLES
  kit,    \* the block kit on disk
  layout, \* workspace.layout.blocks
  roles,  \* workspace.org.roles, keyed by id
  saved,  \* the layout as last committed
  hires,  \* hires so far
  served, \* history: the last step hired somebody who asked for no seat
  redrawn \* history: since the last start addRoom has drawn a floor anew that had
          \* lost rooms

floorVars == <<kit, layout, roles, saved, hires, served, redrawn>>

Nobody == "nobody"
NoSeat == <<>>

Role(boss, seat) == [reportsTo |-> boss, seat |-> seat]

(* A kit with what planFloor answers on it, for every number of rooms.     *)
Planned ==
  {[core |-> k.core, kinds |-> k.kinds,
    plans |-> [rooms \in 0 .. MaxRooms |-> PlanFloor(k, rooms)]] : k \in Kits}

PlanOf(k, rooms) == k.plans[Min({rooms, MaxRooms})]

Enough(k, blocks, target) == CapacityOf(k, blocks) >= target

(* How long a floor can get, planning for one room more every time.        *)
Longer(k, blocks) == {n \in Len(blocks) + 1 .. MaxRooms : Len(PlanOf(k, n)) = n}

(* grow: the first of those that seats `target`, else the last of them.    *)
Grown(k, blocks, target) ==
  LET seating == {n \in Longer(k, blocks) : Enough(k, PlanOf(k, n), target)}
  IN IF Enough(k, blocks, target) \/ Longer(k, blocks) = {} THEN blocks
     ELSE IF seating # {} THEN PlanOf(k, Min(seating))
     ELSE PlanOf(k, Max(Longer(k, blocks)))

(* pruneUnknownModules, and reconcileFloors after it.                      *)
Pruned(k, blocks) ==
  LET kept[n \in 0 .. Len(blocks)] ==
        IF n = 0 THEN <<>>
        ELSE IF InKit(k, blocks[n].kind) THEN Append(kept[n - 1], blocks[n])
        ELSE kept[n - 1]
  IN kept[Len(blocks)]

Reconciled(k, blocks, heads) == Grown(k, Pruned(k, blocks), heads)

FloorInit ==
  /\ kit \in Planned
  /\ roles = FirstRoles
  /\ saved = <<>>
  /\ layout = Reconciled(kit, <<>>, Cardinality(DOMAIN FirstRoles))
  /\ hires = 0
  /\ served = FALSE
  /\ redrawn = FALSE
-----------------------------------------------------------------------------
Commit(newLayout, newRoles) ==
  /\ layout' = newLayout
  /\ saved' = newLayout
  /\ roles' = newRoles
  /\ UNCHANGED kit

Taken(e) == {roles[other].seat : other \in DOMAIN roles \ {e}}

Before(a, b) == a[1] < b[1] \/ (a[1] = b[1] /\ a[2] <= b[2])

(* Wrong: the first seat of the floor, whoever sits there.                 *)
DeskOfAnybody(e, blocks) ==
  LET seats == SeatIdsFor(kit, blocks)
  IN IF seats \subseteq Taken(e) THEN NoSeat
     ELSE CHOOSE seat \in seats : \A other \in seats : Before(seat, other)

(* seatNewcomer: the first seat of the floor that is free.                 *)
DeskFor(e, blocks) ==
  LET free == SeatIdsFor(kit, blocks) \ Taken(e)
  IN IF free = {} THEN NoSeat
     ELSE CHOOSE seat \in free : \A other \in free : Before(seat, other)

Hire(e, boss, asked) ==
  LET grown == Grown(kit, layout, Cardinality(DOMAIN roles) + 1)
      seat  == IF asked = NoSeat THEN DeskFor(e, grown) ELSE asked
  IN /\ hires < MaxHires
     /\ e \notin DOMAIN roles
     /\ boss \in DOMAIN roles \cup {Nobody}
     /\ hires' = hires + 1
     /\ served' = (asked = NoSeat)
     /\ UNCHANGED redrawn
     /\ Commit(grown, [x \in DOMAIN roles \cup {e} |->
                         IF x = e THEN Role(boss, seat) ELSE roles[x]])

Reparented(x, e) ==
  IF roles[x].reportsTo = e THEN [roles[x] EXCEPT !.reportsTo = roles[e].reportsTo]
                            ELSE roles[x]

Fire(e) ==
  /\ Commit(layout, [x \in DOMAIN roles \ {e} |-> Reparented(x, e)])
  /\ served' = FALSE
  /\ UNCHANGED <<hires, redrawn>>

SetSeat(e, seat) ==
  /\ Commit(layout, [roles EXCEPT ![e].seat = seat])
  /\ served' = FALSE
  /\ UNCHANGED <<hires, redrawn>>

(* The floor is the one planFloor draws for as many rooms. One that lost   *)
(* some to a new kit is not.                                               *)
AsPlanned == layout = PlanOf(kit, Len(layout))

AddRoom ==
  LET planned == PlanOf(kit, Len(layout) + 1)
  IN /\ Len(planned) > Len(layout)
     /\ Commit(planned, roles)
     /\ redrawn' = (redrawn \/ ~AsPlanned)
     /\ served' = FALSE
     /\ UNCHANGED hires

(* Wrong: takes a room whoever needs it.                                   *)
RemoveNeeded ==
  /\ layout # <<>>
  /\ Commit(PlanOf(kit, Len(layout) - 1), roles)
  /\ served' = FALSE
  /\ UNCHANGED <<hires, redrawn>>

(* shrink replans with one room less.                                      *)
RemoveRoom ==
  LET planned == PlanOf(kit, Len(layout) - 1)
  IN /\ layout # <<>>
     /\ Enough(kit, planned, Cardinality(DOMAIN roles))
     /\ Commit(planned, roles)
     /\ served' = FALSE
     /\ UNCHANGED <<hires, redrawn>>

Restart(k) ==
  /\ kit' = k
  /\ layout' = Reconciled(k, saved, Cardinality(DOMAIN roles))
  /\ served' = FALSE /\ redrawn' = FALSE
  /\ UNCHANGED <<roles, saved, hires>>

FloorNext ==
  \/ \E e \in Employees, boss \in Employees \cup {Nobody},
       asked \in SeatIdsFor(kit, layout) \cup {NoSeat} : Hire(e, boss, asked)
  \/ \E e \in DOMAIN roles :
       \/ Fire(e)
       \/ \E seat \in SeatIdsFor(kit, layout) \cup {NoSeat} : SetSeat(e, seat)
  \/ AddRoom \/ RemoveRoom
  \/ \E k \in Planned : Restart(k)

FloorSpec == FloorInit /\ [][FloorNext]_floorVars
-----------------------------------------------------------------------------
(* No room of a floor stands in the core or in another room, however its   *)
(* rooms are turned and whichever of them a kit has dropped.               *)
RoomsStandApart == RoomsApart(kit, layout)

(* A restart on the same kit finds the building it left, although what the *)
(* last restart built was never written down, and also where rooms have    *)
(* gone with their kind; unless addRoom has drawn such a floor anew, which *)
(* may leave it short of desks.                                            *)
RestartsRebuildTheFloor ==
  redrawn \/ Reconciled(kit, saved, Cardinality(DOMAIN roles)) = layout

(* Somebody hired without a seat gets a desk nobody else has, in the same  *)
(* breath, or there is no free one and the floor cannot be made to seat    *)
(* them all.                                                               *)
NewcomersGetADesk ==
  [][served' =>
       \A e \in DOMAIN roles' \ DOMAIN roles :
         LET free == SeatIdsFor(kit, layout') \ {roles'[x].seat : x \in DOMAIN roles' \ {e}}
         IN \/ roles'[e].seat \in free
            \/ free = {} /\ ~Enough(kit, layout', Cardinality(DOMAIN roles'))]_floorVars
=============================================================================
