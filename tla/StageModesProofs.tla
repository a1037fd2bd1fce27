-------------------------- MODULE StageModesProofs --------------------------
(***************************************************************************)
(* Theorems about StageModes, for every set of roles, stages, caps and     *)
(* widths.                                                                 *)
(***************************************************************************)
EXTENDS StageModes, FiniteSetTheorems, TLAPS

(* A chair or facilitator is called when the run is not halted, and is     *)
(* pulled before anybody else can act, so that the call is still good.     *)
CallIsGood(ph) == phase = ph /\ queue # <<>> => queue = <<Owner>> /\ working = {} /\ ~aborted

HaltInv ==
  /\ CallIsGood("ruling")
  /\ CallIsGood("verdict")
  /\ phase = "ruling" /\ queue # <<>> => ~broke

(* While somebody stands alone in the queue nobody else acts, and once     *)
(* pulled they leave it empty.                                             *)
LEMMA HaltInvHolds == Spec => []HaltInv
<1>1. Init => HaltInv
  BY DEF Init, HaltInv, CallIsGood
<1>2. HaltInv /\ [Next]_vars => HaltInv'
  <2> SUFFICES ASSUME HaltInv, [Next]_vars PROVE HaltInv'
    OBVIOUS
  <2> USE DEF HaltInv, CallIsGood, Owner
  <2>1. CASE Start
    BY <2>1 DEF Start, Call, Return, Halted
  <2>2. CASE Pull
    <3>1. queue # <<>> /\ phase' = phase /\ queue' \in {<<>>, Tail(queue)}
      BY <2>2 DEF Pull, CanPull
    <3>2. Tail(<<Owner>>) = <<>>
      OBVIOUS
    <3>3. phase \in {"ruling", "verdict"} => queue' = <<>>
      BY <3>1, <3>2
    <3> QED
      BY <3>1, <3>3
  <2>3. ASSUME NEW e \in Roles, NEW said \in Verdict, NEW spentOut \in BOOLEAN,
               EndTurn(e, said, spentOut)
        PROVE  HaltInv'
    BY <2>3 DEF EndTurn, Waiting
  <2>4. CASE Abort
    BY <2>4 DEF Abort, Waiting
  <2>5. CASE WorkOver
    BY <2>5 DEF WorkOver, Return
  <2>6. CASE RoundOver
    BY <2>6 DEF RoundOver, BatchOver, Call, Return, Halted
  <2>7. CASE RulingOver
    BY <2>7 DEF RulingOver, Return
  <2>8. CASE ReviewsIn
    BY <2>8 DEF ReviewsIn, BatchOver, SendBack, ReturnReview, Call, Return
  <2>9. CASE VerdictIn
    BY <2>9 DEF VerdictIn, SendBack, ReturnReview, Call, Return
  <2>10. CASE RevisionsIn
    BY <2>10 DEF RevisionsIn, ReturnReview, Call, Return
  <2>11. CASE UNCHANGED vars
    BY <2>11 DEF vars
  <2> QED
    BY <2>1, <2>2, <2>3, <2>4, <2>5, <2>6, <2>7, <2>8, <2>9, <2>10, <2>11 DEF Next, Proceed
<1> QED
  BY <1>1, <1>2, PTL DEF Spec

(* A halted run begins no position, no ruling and no new review pass, and  *)
(* a cancelled one no verdict, whatever the modes, caps and widths         *)
(* (stages.ts looks at ctx.abortReason before each, and keeps the thread   *)
(* until the turn has begun).                                              *)
THEOREM HaltedStagesStop == Spec => HaltStopsTheStage
<1> DEFINE Step == (working' \ working # {} \/ (phase' = "review" /\ phase # "review")) =>
                     /\ phase' \in {"position", "ruling"} => ~aborted /\ ~broke
                     /\ phase' = "review" /\ phase # "review" => ~aborted /\ ~broke
                     /\ phase' = "verdict" => ~aborted
<1>1. HaltInv /\ [Next]_vars => [Step]_vars
  <2> SUFFICES ASSUME HaltInv, Next PROVE Step
    OBVIOUS
  <2>1. CASE Start
    BY <2>1 DEF Start, Call, Return, Halted
  <2>2. CASE Pull
    BY <2>2 DEF Pull, CanPull, Halted, HaltInv, CallIsGood
  <2>3. ASSUME NEW e \in Roles, NEW said \in Verdict, NEW spentOut \in BOOLEAN,
               EndTurn(e, said, spentOut)
        PROVE  Step
    BY <2>3 DEF EndTurn
  <2>4. CASE Abort
    BY <2>4 DEF Abort
  <2>5. CASE WorkOver
    BY <2>5 DEF WorkOver, Return
  <2>6. CASE RoundOver
    BY <2>6 DEF RoundOver, Call, Return
  <2>7. CASE RulingOver
    BY <2>7 DEF RulingOver, Return
  <2>8. CASE ReviewsIn
    BY <2>8 DEF ReviewsIn, SendBack, ReturnReview, Call, Return
  <2>9. CASE VerdictIn
    BY <2>9 DEF VerdictIn, SendBack, ReturnReview, Call, Return
  <2>10. CASE RevisionsIn
    BY <2>10 DEF RevisionsIn, ReturnReview, Call, Return, Halted
  <2> QED
    BY <2>1, <2>2, <2>3, <2>4, <2>5, <2>6, <2>7, <2>8, <2>9, <2>10 DEF Next, Proceed
<1> QED
  BY <1>1, HaltInvHolds, PTL DEF Spec, HaltStopsTheStage

-----------------------------------------------------------------------------
(* What the engine builds on.                                              *)

Batches == {"start", "work", "position", "ruling", "review", "verdict", "revision", "returned"}
Listed == [role : Roles, batch : Batches, round : Nat]
TurnsOf(e) == {k \in DOMAIN turnIds : turnIds[k].role = e}

(* Nobody stands in the queue twice, or stands there while at work, and    *)
(* outside its batches the stage has nobody to wait for.                   *)
Lined ==
  /\ queue \in Seq(Roles) /\ NobodyTwice(queue)
  /\ \A k \in DOMAIN queue : queue[k] \notin working
  /\ phase \in {"start", "returned"} => queue = <<>> /\ working = {}

TurnsInv ==
  /\ stage \in StageSpecs /\ producers \in Writers /\ phase \in Batches /\ round \in Nat
  /\ phase \notin {"start", "returned"} => stage.roles # <<>>
  /\ Lined
  /\ working \subseteq Roles /\ IsFiniteSet(working) /\ Cardinality(working) <= Lanes
  /\ turnIds \in Seq(Listed)
  /\ taken \in [Roles -> Nat]
  /\ \A e \in Roles :
       /\ taken[e] <= Cap[e]
       /\ taken[e] = Cardinality(TurnsOf(e)) + (IF e \in working THEN 1 ELSE 0)

LEMMA EmptyLine ==
  /\ <<>> \in Seq(Roles) /\ <<>> \in Seq(Listed)
  /\ DOMAIN <<>> = {} /\ NobodyTwice(<<>>)
BY DEF NobodyTwice

LEMMA LanesType ==
  ASSUME stage \in StageSpecs
  PROVE  Lanes \in Nat \ {0}
BY StageAssumption DEF Lanes

(* The list of turns is finite, and one turn longer for its employee when  *)
(* one has ended.                                                          *)
LEMMA TurnsFinite ==
  ASSUME turnIds \in Seq(Listed), NEW e
  PROVE  IsFiniteSet(TurnsOf(e)) /\ Cardinality(TurnsOf(e)) \in Nat
<1>1. IsFiniteSet(1 .. Len(turnIds))
  BY FS_Interval
<1>2. TurnsOf(e) \in SUBSET (1 .. Len(turnIds))
  BY DEF TurnsOf
<1> QED
  BY <1>1, <1>2, FS_Subset, FS_CardinalityType

LEMMA OneTurnMore ==
  ASSUME turnIds \in Seq(Listed), NEW t \in Listed, turnIds' = Append(turnIds, t), NEW e
  PROVE  Cardinality(TurnsOf(e))' = Cardinality(TurnsOf(e)) + (IF t.role = e THEN 1 ELSE 0)
<1>1. /\ DOMAIN turnIds = 1 .. Len(turnIds) /\ Len(turnIds) \in Nat
      /\ DOMAIN turnIds' = 1 .. (Len(turnIds) + 1)
      /\ \A k \in 1 .. Len(turnIds) : turnIds'[k] = turnIds[k]
      /\ turnIds'[Len(turnIds) + 1] = t
  OBVIOUS
<1>2. IsFiniteSet(TurnsOf(e)) /\ Cardinality(TurnsOf(e)) \in Nat
  BY TurnsFinite
<1>3. CASE t.role = e
  <2>1. TurnsOf(e)' = TurnsOf(e) \cup {Len(turnIds) + 1}
    BY <1>1, <1>3 DEF TurnsOf
  <2>2. Len(turnIds) + 1 \notin TurnsOf(e)
    BY <1>1 DEF TurnsOf
  <2> QED
    BY <1>2, <1>3, <2>1, <2>2, FS_AddElement
<1>4. CASE t.role # e
  <2>1. TurnsOf(e)' = TurnsOf(e)
    BY <1>1, <1>4 DEF TurnsOf
  <2> QED
    BY <1>2, <1>4, <2>1
<1> QED
  BY <1>3, <1>4

(* A batch is called when the one before is over.                          *)
LEMMA CallKeepsTurns ==
  ASSUME TurnsInv, working = {}, stage.roles # <<>>,
         NEW ph \in Batches \ {"start", "returned"}, NEW n \in Nat,
         NEW who \in Seq(Roles), NobodyTwice(who), Call(ph, n, who)
  PROVE  TurnsInv'
<1>1. /\ phase' = ph /\ round' = n /\ queue' = who
      /\ UNCHANGED <<stage, producers, working, taken, turnIds>>
  BY DEF Call
<1>2. Lined'
  BY <1>1 DEF Lined, NobodyTwice
<1>3. Cardinality(working') <= Lanes'
  BY <1>1 DEF TurnsInv, Lanes
<1> QED
  BY <1>1, <1>2, <1>3 DEF TurnsInv, TurnsOf

(* The stage returns when its last batch is over.                          *)
LEMMA ReturnKeepsTurns ==
  ASSUME TurnsInv, working = {}, queue = <<>>, NEW what, Return(what)
  PROVE  TurnsInv'
<1>1. /\ phase' = "returned"
      /\ UNCHANGED <<stage, producers, round, queue, working, taken, turnIds>>
  BY DEF Return
<1>2. Lined'
  BY <1>1 DEF TurnsInv, Lined, NobodyTwice
<1>3. Cardinality(working') <= Lanes'
  BY <1>1 DEF TurnsInv, Lanes
<1> QED
  BY <1>1, <1>2, <1>3 DEF TurnsInv, TurnsOf, Batches

(* Those a stage may call: all of it, its owner, its reviewers, authors.   *)
LEMMA Callable ==
  ASSUME TurnsInv, stage.roles # <<>>
  PROVE  /\ \A who \in {stage.roles, <<Owner>>, Reviewers, Authors} :
              who \in Seq(Roles) /\ NobodyTwice(who)
<1>1. stage.roles \in Seq(Roles) /\ NobodyTwice(stage.roles)
  BY StageAssumption DEF TurnsInv, StageSpec
<1>2. <<Owner>> \in Seq(Roles) /\ NobodyTwice(<<Owner>>)
  <2>1. Owner \in Roles
    BY <1>1 DEF Owner
  <2> QED
    BY <2>1 DEF NobodyTwice
<1>3. Reviewers \in Seq(Roles) /\ NobodyTwice(Reviewers)
  <2> DEFINE s == stage.roles
             t == Tail(s)
  <2> HIDE DEF s
  <2>1. s \in Seq(Roles) /\ s # <<>> /\ NobodyTwice(s)
    BY <1>1 DEF s
  <2>2. /\ t \in Seq(Roles) /\ Len(t) = Len(s) - 1 /\ Len(s) \in Nat
        /\ \A k \in 1 .. Len(t) : t[k] = s[k + 1]
    BY <2>1
  <2> HIDE DEF t
  <2>3. \A k \in DOMAIN t : k \in Nat /\ k + 1 \in DOMAIN s /\ t[k] = s[k + 1]
    BY <2>1, <2>2
  <2>4. NobodyTwice(t)
    BY <2>1, <2>3 DEF NobodyTwice
  <2> QED
    BY <2>2, <2>4 DEF Reviewers, t, s
<1>4. Authors \in Seq(Roles) /\ NobodyTwice(Authors)
  BY StageAssumption DEF Authors, TurnsInv
<1> QED
  BY <1>1, <1>2, <1>3, <1>4

LEMMA StartKeepsTurns ==
  ASSUME TurnsInv, Start
  PROVE  TurnsInv'
<1>1. working = {} /\ queue = <<>>
  BY DEF Start, TurnsInv, Lined
<1>2. \/ \E what : Return(what)
      \/ /\ stage.roles # <<>>
         /\ \E ph \in {"work", "position", "review"},
               who \in {stage.roles, <<Owner>>, Reviewers} : Call(ph, 1, who)
  BY DEF Start
<1>3. CASE \E what : Return(what)
  BY <1>1, <1>3, ReturnKeepsTurns
<1>4. ASSUME stage.roles # <<>>, NEW ph \in {"work", "position", "review"},
             NEW who \in {stage.roles, <<Owner>>, Reviewers}, Call(ph, 1, who)
      PROVE  TurnsInv'
  <2>1. who \in Seq(Roles) /\ NobodyTwice(who)
    BY <1>4, Callable
  <2>2. ph \in Batches \ {"start", "returned"} /\ 1 \in Nat
    BY DEF Batches
  <2> QED
    BY <1>1, <1>4, <2>1, <2>2, CallKeepsTurns
<1> QED
  BY <1>2, <1>3, <1>4

(* A turn begins for somebody who is not at work and has one left, or the  *)
(* queue only gets shorter.                                                *)
LEMMA PullKeepsTurns ==
  ASSUME TurnsInv, Pull
  PROVE  TurnsInv'
<1> DEFINE e == Head(queue)
<1>1. /\ queue \in Seq(Roles) /\ queue # <<>> /\ Cardinality(working) < Lanes
      /\ UNCHANGED <<stage, producers, phase, round, turnIds>>
  BY DEF Pull, CanPull, TurnsInv, Lined
<1>2. /\ e \in Roles /\ e \notin working /\ 1 \in DOMAIN queue /\ e = queue[1]
      /\ phase \notin {"start", "returned"}
  BY <1>1 DEF TurnsInv, Lined
<1> DEFINE t == Tail(queue)
<1>3. /\ t \in Seq(Roles)
      /\ \A k \in DOMAIN t : /\ k \in Nat /\ k + 1 \in DOMAIN queue /\ t[k] = queue[k + 1]
                             /\ k + 1 # 1
  BY <1>1
<1> HIDE DEF t
<1>4. NobodyTwice(t) /\ \A k \in DOMAIN t : t[k] \notin working /\ t[k] # e
  BY <1>2, <1>3 DEF TurnsInv, Lined, NobodyTwice
<1> HIDE DEF e
<1>5. ASSUME working' = working, taken' = taken, queue' = t \/ queue' = <<>>
      PROVE  TurnsInv'
  <2>1. Lined'
    <3>1. CASE queue' = t
      BY <1>1, <1>2, <1>3, <1>4, <1>5, <3>1 DEF Lined
    <3>2. CASE queue' = <<>>
      BY <1>1, <1>2, <1>5, <3>2, EmptyLine DEF Lined
    <3> QED
      BY <1>5, <3>1, <3>2
  <2>2. Cardinality(working') <= Lanes'
    BY <1>1, <1>5 DEF TurnsInv, Lanes
  <2> QED
    BY <1>1, <1>5, <2>1, <2>2 DEF TurnsInv, TurnsOf
<1>6. ASSUME queue' = t, working' = working \cup {e}, taken' = [taken EXCEPT ![e] = taken[e] + 1],
             taken[e] < Cap[e]
      PROVE  TurnsInv'
  <2>1. Lined'
    BY <1>1, <1>2, <1>3, <1>4, <1>6 DEF Lined
  <2>2. IsFiniteSet(working') /\ Cardinality(working') <= Lanes'
    <3>1. IsFiniteSet(working) /\ Cardinality(working) \in Nat /\ stage \in StageSpecs
      BY FS_CardinalityType DEF TurnsInv
    <3>2. IsFiniteSet(working') /\ Cardinality(working') = Cardinality(working) + 1
      BY <1>2, <1>6, <3>1, FS_AddElement
    <3>3. Lanes' = Lanes /\ Lanes \in Nat
      BY <1>1, <3>1, LanesType DEF Lanes
    <3> QED
      BY <1>1, <3>1, <3>2, <3>3
  <2>3. taken' \in [Roles -> Nat]
    BY <1>2, <1>6 DEF TurnsInv
  <2>4. ASSUME NEW d \in Roles
        PROVE  /\ taken'[d] <= Cap[d]
               /\ taken'[d] = Cardinality(TurnsOf(d)') + (IF d \in working' THEN 1 ELSE 0)
    <3>1. TurnsOf(d)' = TurnsOf(d) /\ Cardinality(TurnsOf(d)) \in Nat
      BY <1>1, TurnsFinite DEF TurnsOf, TurnsInv
    <3>2. /\ taken[d] <= Cap[d] /\ taken[d] \in Nat /\ Cap[d] \in Nat
          /\ taken[d] = Cardinality(TurnsOf(d)) + (IF d \in working THEN 1 ELSE 0)
      BY StageAssumption DEF TurnsInv
    <3>3. taken'[d] = IF d = e THEN taken[d] + 1 ELSE taken[d]
      BY <1>6 DEF TurnsInv
    <3> QED
      BY <1>2, <1>6, <3>1, <3>2, <3>3
  <2> QED
    BY <1>1, <1>2, <1>6, <2>1, <2>2, <2>3, <2>4 DEF TurnsInv
<1> QED
  BY <1>5, <1>6 DEF Pull, MayTakeTurn, t, e

(* The turn that ends is listed, and was counted when it began.            *)
LEMMA EndTurnKeepsTurns ==
  ASSUME TurnsInv, NEW e \in Roles, NEW said \in Verdict, NEW spentOut \in BOOLEAN,
         EndTurn(e, said, spentOut)
  PROVE  TurnsInv'
<1> DEFINE t == [role |-> e, batch |-> phase, round |-> round]
<1>1. /\ e \in working /\ working' = working \ {e} /\ turnIds' = Append(turnIds, t)
      /\ UNCHANGED <<stage, producers, phase, round, queue, taken>>
  BY DEF EndTurn
<1>2. t \in Listed /\ t.role = e
  BY DEF TurnsInv, Listed
<1> HIDE DEF t
<1>3. Lined'
  BY <1>1 DEF TurnsInv, Lined
<1>4. IsFiniteSet(working') /\ Cardinality(working') <= Lanes'
  <2>1. IsFiniteSet(working) /\ Cardinality(working) \in Nat /\ Cardinality(working) <= Lanes
    BY FS_CardinalityType DEF TurnsInv
  <2>2. IsFiniteSet(working') /\ Cardinality(working') = Cardinality(working) - 1
    BY <1>1, <2>1, FS_RemoveElement
  <2>3. Lanes' = Lanes /\ Lanes \in Nat
    BY <1>1, LanesType DEF Lanes, TurnsInv
  <2> QED
    BY <2>1, <2>2, <2>3
<1>5. turnIds' \in Seq(Listed)
  BY <1>1, <1>2 DEF TurnsInv
<1>6. ASSUME NEW d \in Roles
      PROVE  taken'[d] = Cardinality(TurnsOf(d)') + (IF d \in working' THEN 1 ELSE 0)
  <2>1. Cardinality(TurnsOf(d)') = Cardinality(TurnsOf(d)) + (IF e = d THEN 1 ELSE 0)
    BY <1>1, <1>2, OneTurnMore DEF TurnsInv
  <2>2. Cardinality(TurnsOf(d)) \in Nat
    BY TurnsFinite DEF TurnsInv
  <2>3. taken[d] = Cardinality(TurnsOf(d)) + (IF d \in working THEN 1 ELSE 0)
    BY DEF TurnsInv
  <2> QED
    BY <1>1, <2>1, <2>2, <2>3
<1> QED
  BY <1>1, <1>3, <1>4, <1>5, <1>6 DEF TurnsInv

(* A batch of a stage is over: the stage calls the next one, or returns.   *)
LEMMA BatchKeepsTurns ==
  ASSUME TurnsInv, phase \notin {"start", "returned"}, BatchOver,
         \/ \E what : Return(what)
         \/ \E ph \in Batches \ {"start", "returned"}, n \in {round, round + 1},
               who \in {stage.roles, <<Owner>>, Reviewers, Authors} : Call(ph, n, who)
  PROVE  TurnsInv'
<1>1. working = {} /\ queue = <<>> /\ stage.roles # <<>> /\ round \in Nat
  BY DEF BatchOver, TurnsInv
<1>2. CASE \E what : Return(what)
  BY <1>1, <1>2, ReturnKeepsTurns
<1>3. ASSUME NEW ph \in Batches \ {"start", "returned"}, NEW n \in {round, round + 1},
             NEW who \in {stage.roles, <<Owner>>, Reviewers, Authors}, Call(ph, n, who)
      PROVE  TurnsInv'
  <2>1. who \in Seq(Roles) /\ NobodyTwice(who)
    BY <1>1, <1>3, Callable
  <2>2. n \in Nat
    BY <1>1, <1>3
  <2> QED
    BY <1>1, <1>3, <2>1, <2>2, CallKeepsTurns
<1> QED
  BY <1>2, <1>3

LEMMA NextKeepsTurns ==
  ASSUME TurnsInv, Next
  PROVE  TurnsInv'
<1> DEFINE Onwards == \/ \E what : Return(what)
                      \/ \E ph \in Batches \ {"start", "returned"}, n \in {round, round + 1},
                            who \in {stage.roles, <<Owner>>, Reviewers, Authors} :
                           Call(ph, n, who)
<1>1. CASE WorkOver \/ RoundOver \/ RulingOver \/ ReviewsIn \/ VerdictIn \/ RevisionsIn
  <2>1. phase \notin {"start", "returned"} /\ BatchOver
    BY <1>1 DEF WorkOver, RoundOver, RulingOver, ReviewsIn, VerdictIn, RevisionsIn
  <2>2. {"position", "ruling", "review", "verdict", "revision"}
          \subseteq Batches \ {"start", "returned"}
    BY DEF Batches
  <2> SUFFICES Onwards
    BY <2>1, BatchKeepsTurns
  <2>3. CASE WorkOver \/ RulingOver
    BY <2>3 DEF WorkOver, RulingOver
  <2>4. CASE RoundOver
    BY <2>2, <2>4 DEF RoundOver
  <2>5. ASSUME NEW open, NEW said, SendBack(open, said) \/ ReturnReview(open, said)
        PROVE  Onwards
    BY <2>2, <2>5 DEF SendBack, ReturnReview
  <2>6. CASE ReviewsIn
    <3>1. (\E open, said : SendBack(open, said)) \/ Call("verdict", round, <<Owner>>)
      BY <2>6 DEF ReviewsIn
    <3> QED
      BY <2>2, <2>5, <3>1
  <2>7. CASE VerdictIn
    <3>1. \E open, said : SendBack(open, said) \/ ReturnReview(open, said)
      BY <2>7 DEF VerdictIn
    <3> QED
      BY <2>5, <3>1
  <2>8. CASE RevisionsIn
    <3>1. (\E open, said : ReturnReview(open, said)) \/ Call("review", round + 1, Reviewers)
      BY <2>8 DEF RevisionsIn
    <3> QED
      BY <2>2, <2>5, <3>1
  <2> QED
    BY <1>1, <2>3, <2>4, <2>6, <2>7, <2>8
<1>2. CASE Abort
  BY <1>2 DEF Abort, TurnsInv, Lined, Lanes, TurnsOf
<1> QED
  BY <1>1, <1>2, StartKeepsTurns, PullKeepsTurns, EndTurnKeepsTurns DEF Next, Proceed

LEMMA TurnsInvHolds == Spec => []TurnsInv
<1>1. Init => TurnsInv
  <2> SUFFICES ASSUME Init PROVE TurnsInv
    OBVIOUS
  <2>1. Lined
    BY EmptyLine DEF Init, Lined
  <2>2. IsFiniteSet({}) /\ Cardinality({}) = 0
    BY FS_EmptySet
  <2>3. Lanes \in Nat
    BY LanesType DEF Init
  <2>4. \A e \in Roles : TurnsOf(e) = {}
    BY EmptyLine DEF Init, TurnsOf
  <2>5. Cap \in [Roles -> Nat]
    BY StageAssumption
  <2>6. \A e \in Roles : /\ taken[e] <= Cap[e]
                        /\ taken[e] = Cardinality(TurnsOf(e)) + (IF e \in working THEN 1 ELSE 0)
    <3> SUFFICES ASSUME NEW e \in Roles
                 PROVE  /\ taken[e] <= Cap[e]
                        /\ taken[e] = Cardinality(TurnsOf(e)) + (IF e \in working THEN 1 ELSE 0)
      OBVIOUS
    <3>1. taken[e] = 0 /\ e \notin working /\ Cap[e] \in Nat
      BY <2>5 DEF Init
    <3> QED
      BY <2>2, <2>4, <3>1
  <2>7. taken \in [Roles -> Nat] /\ turnIds \in Seq(Listed)
    BY EmptyLine DEF Init
  <2>8. working \subseteq Roles /\ IsFiniteSet(working) /\ Cardinality(working) <= Lanes
    <3>1. working = {}
      BY DEF Init
    <3>2. Cardinality(working) <= Lanes
      BY <2>2, <2>3, <3>1
    <3> QED
      BY <2>2, <3>1, <3>2
  <2> QED
    BY <2>1, <2>6, <2>7, <2>8 DEF Init, TurnsInv, Batches
<1>2. TurnsInv /\ [Next]_vars => TurnsInv'
  <2>1. TurnsInv /\ UNCHANGED vars => TurnsInv'
    BY DEF vars, TurnsInv, Lined, Lanes, TurnsOf
  <2> QED
    BY <2>1, NextKeepsTurns
<1> QED
  BY <1>1, <1>2, PTL DEF Spec

(* The engine may rely on it: turns overlap only where the mode lets them  *)
(* and never beyond the width, caps hold across all rounds, each turn      *)
(* begun is listed or in flight, and a returned stage has nobody at work.  *)
THEOREM StagesAreAsAssumed == Spec => []TurnsAsTheEngineAssumes
<1>1. TurnsInv => TurnsAsTheEngineAssumes
  BY DEF TurnsInv, Lined, TurnsOf, TurnsAsTheEngineAssumes
<1> QED
  BY <1>1, TurnsInvHolds, PTL

-----------------------------------------------------------------------------
(* Nobody is passed over. Who was heard before the k-th of the turns ids,  *)
(* or was refused one.                                                     *)
Before(ids, ref, k, e, ph, n) ==
  \/ e \in ref
  \/ \E j \in 1 .. (k - 1) : ids[j] = [role |-> e, batch |-> ph, round |-> n]

Heard(ids, ref, e, ph, n) == Before(ids, ref, Len(ids) + 1, e, ph, n)

(* What NobodyIsPassedOver says of the k-th turn.                          *)
InTurn(ids, ref, roles, rounds, k) ==
  /\ ids[k].batch = "position" =>
       \A s \in DOMAIN roles :
         /\ \A n \in 1 .. (ids[k].round - 1) : Before(ids, ref, k, roles[s], "position", n)
         /\ (\A h \in DOMAIN roles : roles[h] = ids[k].role => s < h)
              => Before(ids, ref, k, roles[s], "position", ids[k].round)
  /\ ids[k].batch = "ruling" =>
       \A s \in DOMAIN roles, n \in 1 .. rounds : Before(ids, ref, k, roles[s], "position", n)
  /\ ids[k].batch = "verdict" =>
       \A s \in 2 .. Len(roles) : Before(ids, ref, k, roles[s], "review", ids[k].round)

(* A debate that has not passed anybody over: all were heard in the rounds *)
(* before, and in this one those who no longer wait, in the order of the   *)
(* stage, but the one who speaks.                                          *)
SpeakingInTurn ==
  /\ \A s \in DOMAIN stage.roles, n \in 1 .. (round - 1) :
       Heard(turnIds, refused, stage.roles[s], "position", n)
  /\ \E m \in 0 .. Len(stage.roles) :
       /\ Len(queue) = Len(stage.roles) - m
       /\ \A i \in 1 .. Len(queue) : queue[i] = stage.roles[m + i]
       /\ \A e \in working : m > 0 /\ e = stage.roles[m]
       /\ \A s \in 1 .. m : \/ Heard(turnIds, refused, stage.roles[s], "position", round)
                            \/ s = m /\ stage.roles[m] \in working

(* A halted debate passes everybody over, and calls nobody any more.       *)
TurnsSoFar ==
  /\ \A k \in DOMAIN turnIds : InTurn(turnIds, refused, stage.roles, stage.rounds, k)
  /\ phase = "position" =>
       stage.mode = "debate" /\ (SpeakingInTurn \/ (Halted /\ working = {}))
  /\ phase = "ruling" => \A s \in DOMAIN stage.roles, n \in 1 .. stage.rounds :
       Heard(turnIds, refused, stage.roles[s], "position", n)
  /\ phase = "review" => \A s \in 2 .. Len(stage.roles) :
       \/ Heard(turnIds, refused, stage.roles[s], "review", round)
       \/ stage.roles[s] \in working
       \/ \E i \in 1 .. Len(queue) : queue[i] = stage.roles[s]
  /\ phase = "verdict" => \A s \in 2 .. Len(stage.roles) :
       Heard(turnIds, refused, stage.roles[s], "review", round)

(* Who was heard stays heard, whoever else is refused or ends a turn.      *)
LEMMA HeardStays ==
  ASSUME NEW ids \in Seq(Listed), NEW t \in Listed, NEW more, more = ids \/ more = Append(ids, t),
         NEW ref, NEW refs, ref \subseteq refs, NEW e, NEW ph, NEW n
  PROVE  /\ \A k \in 1 .. (Len(ids) + 1) :
              Before(ids, ref, k, e, ph, n) => Before(more, refs, k, e, ph, n)
         /\ Heard(ids, ref, e, ph, n) => Heard(more, refs, e, ph, n)
<1>1. /\ Len(ids) \in Nat /\ Len(more) \in {Len(ids), Len(ids) + 1}
      /\ \A j \in 1 .. Len(ids) : more[j] = ids[j]
  OBVIOUS
<1>2. ASSUME NEW k \in 1 .. (Len(ids) + 1), Before(ids, ref, k, e, ph, n)
      PROVE  Before(more, refs, k, e, ph, n) /\ Before(more, refs, Len(more) + 1, e, ph, n)
  <2>1. CASE e \in ref
    BY <2>1 DEF Before
  <2>2. ASSUME NEW j \in 1 .. (k - 1), ids[j] = [role |-> e, batch |-> ph, round |-> n]
        PROVE  Before(more, refs, k, e, ph, n) /\ Before(more, refs, Len(more) + 1, e, ph, n)
    <3>1. j \in 1 .. Len(ids) /\ more[j] = ids[j] /\ j \in 1 .. ((Len(more) + 1) - 1)
      BY <1>1, <1>2, <2>2
    <3> QED
      BY <2>2, <3>1 DEF Before
  <2> QED
    BY <1>2, <2>1, <2>2 DEF Before
<1>3. Len(ids) + 1 \in 1 .. (Len(ids) + 1)
  BY <1>1
<1> QED
  BY <1>2, <1>3 DEF Heard

(* And who ends a turn is heard from then on.                              *)
LEMMA NowHeard ==
  ASSUME NEW ids \in Seq(Listed), NEW e \in Roles, NEW ph \in Batches, NEW n \in Nat, NEW more,
         more = Append(ids, [role |-> e, batch |-> ph, round |-> n]), NEW ref
  PROVE  Heard(more, ref, e, ph, n)
<1> DEFINE t == [role |-> e, batch |-> ph, round |-> n]
<1>1. t \in Listed
  BY DEF Listed
<1> HIDE DEF t
<1>2. Len(more) = Len(ids) + 1 /\ more[Len(more)] = t /\ Len(ids) \in Nat
  BY <1>1 DEF t
<1>3. Len(more) \in 1 .. ((Len(more) + 1) - 1)
  BY <1>2
<1> QED
  BY <1>2, <1>3 DEF Heard, Before, t

(* The turns so far were in turn, and stay so.                             *)
LEMMA PastStays ==
  ASSUME TurnsInv, TurnsSoFar, stage' = stage, refused \subseteq refused',
         NEW t \in Listed, turnIds' = turnIds \/ turnIds' = Append(turnIds, t)
  PROVE  \A k \in 1 .. Len(turnIds) :
           InTurn(turnIds', refused', stage'.roles, stage'.rounds, k)
<1> SUFFICES ASSUME NEW k \in 1 .. Len(turnIds)
             PROVE  InTurn(turnIds', refused', stage.roles, stage.rounds, k)
  OBVIOUS
<1>1. turnIds \in Seq(Listed) /\ Len(turnIds) \in Nat
  BY DEF TurnsInv
<1>2. k \in 1 .. (Len(turnIds) + 1) /\ k \in DOMAIN turnIds /\ turnIds'[k] = turnIds[k]
  BY <1>1
<1>3. \A e, ph, n : Before(turnIds, refused, k, e, ph, n) => Before(turnIds', refused', k, e, ph, n)
  BY <1>1, <1>2, HeardStays
<1>4. InTurn(turnIds, refused, stage.roles, stage.rounds, k)
  BY <1>2 DEF TurnsSoFar
<1> QED
  BY <1>2, <1>3, <1>4 DEF InTurn

(* Between two batches no turn ends and nobody is refused.                 *)
LEMMA BetweenBatches ==
  ASSUME TurnsInv, TurnsSoFar,
         (\E what : Return(what)) \/ (\E ph, n, who : Call(ph, n, who))
  PROVE  /\ \A k \in DOMAIN turnIds' : InTurn(turnIds', refused', stage'.roles, stage'.rounds, k)
         /\ stage' = stage /\ turnIds' = turnIds /\ refused' = refused /\ working' = working
<1>1. stage' = stage /\ turnIds' = turnIds /\ refused' = refused /\ working' = working
  BY DEF Call, Return
<1> QED
  BY <1>1 DEF TurnsSoFar

LEMMA ReturnInTurn ==
  ASSUME TurnsInv, TurnsSoFar, NEW what, Return(what)
  PROVE  TurnsSoFar'
<1>1. phase' = "returned"
  BY DEF Return
<1> QED
  BY <1>1, BetweenBatches DEF TurnsSoFar

LEMMA WritersInTurn ==
  ASSUME TurnsInv, TurnsSoFar, NEW ph \in {"work", "revision"}, NEW n, NEW who, Call(ph, n, who)
  PROVE  TurnsSoFar'
<1>1. phase' = ph
  BY DEF Call
<1> QED
  BY <1>1, BetweenBatches DEF TurnsSoFar

LEMMA ReviewersInTurn ==
  ASSUME TurnsInv, TurnsSoFar, stage.roles # <<>>, NEW n, Call("review", n, Reviewers)
  PROVE  TurnsSoFar'
<1>1. phase' = "review" /\ queue' = Reviewers /\ stage' = stage
  BY DEF Call
<1>2. stage.roles \in Seq(Roles)
  BY StageAssumption DEF TurnsInv, StageSpec
<1>3. ASSUME NEW s \in 2 .. Len(stage.roles)
      PROVE  \E i \in 1 .. Len(Reviewers) : Reviewers[i] = stage.roles[s]
  <2>1. /\ Len(Reviewers) = Len(stage.roles) - 1 /\ Len(stage.roles) \in Nat
        /\ \A i \in 1 .. Len(Reviewers) : Reviewers[i] = stage.roles[i + 1]
    BY <1>2 DEF Reviewers
  <2>2. s - 1 \in 1 .. Len(Reviewers) /\ (s - 1) + 1 = s
    BY <2>1
  <2> QED
    BY <2>1, <2>2
<1> QED
  BY <1>1, <1>3, BetweenBatches DEF TurnsSoFar

(* A round begins with the whole stage waiting.                            *)
LEMMA DebatersInTurn ==
  ASSUME TurnsInv, TurnsSoFar, stage.mode = "debate", working = {}, NEW n \in Nat,
         Call("position", n, stage.roles),
         \/ Halted
         \/ \A s \in DOMAIN stage.roles, r \in 1 .. (n - 1) :
              Heard(turnIds, refused, stage.roles[s], "position", r)
  PROVE  TurnsSoFar'
<1>1. /\ phase' = "position" /\ round' = n /\ queue' = stage.roles
      /\ stage' = stage /\ turnIds' = turnIds /\ refused' = refused /\ working' = {}
      /\ Halted' = Halted
  BY DEF Call, Halted
<1>2. stage.roles \in Seq(Roles) /\ Len(stage.roles) \in Nat
  BY StageAssumption DEF TurnsInv, StageSpec
<1>3. ASSUME ~Halted PROVE SpeakingInTurn'
  <2>1. /\ 0 \in 0 .. Len(stage.roles) /\ Len(stage.roles) = Len(stage.roles) - 0
        /\ \A i \in 1 .. Len(stage.roles) : 0 + i = i
    BY <1>2
  <2>2. \A s \in 1 .. 0 : FALSE
    OBVIOUS
  <2> QED
    BY <1>1, <1>3, <2>1, <2>2 DEF SpeakingInTurn
<1> QED
  BY <1>1, <1>3, BetweenBatches DEF TurnsSoFar

(* Once a round is over everybody was heard in it.                         *)
LEMMA RoundsAreHeard ==
  ASSUME TurnsInv, SpeakingInTurn, BatchOver
  PROVE  \A s \in DOMAIN stage.roles, n \in 1 .. round :
           Heard(turnIds, refused, stage.roles[s], "position", n)
<1>1. queue = <<>> /\ working = {} /\ round \in Nat
  BY DEF BatchOver, TurnsInv
<1>2. stage.roles \in Seq(Roles) /\ Len(stage.roles) \in Nat
  BY StageAssumption DEF TurnsInv, StageSpec
<1>3. PICK m \in 0 .. Len(stage.roles) :
        /\ Len(queue) = Len(stage.roles) - m
        /\ \A s \in 1 .. m : \/ Heard(turnIds, refused, stage.roles[s], "position", round)
                             \/ s = m /\ stage.roles[m] \in working
  BY DEF SpeakingInTurn
<1>4. m = Len(stage.roles)
  BY <1>1, <1>2, <1>3
<1>5. DOMAIN stage.roles = 1 .. m
  BY <1>2, <1>4
<1>6. \A s \in DOMAIN stage.roles : Heard(turnIds, refused, stage.roles[s], "position", round)
  BY <1>1, <1>3, <1>5
<1>7. \A n \in 1 .. round : n = round \/ n \in 1 .. (round - 1)
  BY <1>1
<1> QED
  BY <1>6, <1>7 DEF SpeakingInTurn

LEMMA BatchesInTurn ==
  ASSUME TurnsInv, TurnsSoFar,
         Start \/ WorkOver \/ RoundOver \/ RulingOver \/ ReviewsIn \/ VerdictIn \/ RevisionsIn
  PROVE  TurnsSoFar'
<1>1. CASE Start
  <2>0. working = {} /\ stage.roles \in Seq(Roles)
    BY <1>1, StageAssumption DEF Start, TurnsInv, Lined, StageSpec
  <2>1. \A r \in 1 .. (1 - 1) : FALSE
    OBVIOUS
  <2>2. \/ \E what : Return(what)
        \/ \E who : Call("work", 1, who)
        \/ stage.mode = "debate" /\ Call("position", 1, stage.roles)
        \/ stage.roles # <<>> /\ Call("review", 1, Reviewers)
    BY <1>1 DEF Start
  <2> QED
    BY <2>0, <2>1, <2>2, ReturnInTurn, WritersInTurn, DebatersInTurn, ReviewersInTurn
<1>2. CASE WorkOver \/ RulingOver
  BY <1>2, ReturnInTurn DEF WorkOver, RulingOver
<1>3. CASE RoundOver
  <2>1. /\ working = {} /\ round \in Nat /\ phase = "position" /\ BatchOver
        /\ stage.mode = "debate" /\ (SpeakingInTurn \/ Halted)
    BY <1>3 DEF RoundOver, BatchOver, TurnsInv, TurnsSoFar
  <2>2. ~Halted => \A s \in DOMAIN stage.roles, n \in 1 .. round :
          Heard(turnIds, refused, stage.roles[s], "position", n)
    BY <2>1, RoundsAreHeard
  <2>3. CASE Call("position", round + 1, stage.roles)
    <3>1. round + 1 \in Nat /\ (round + 1) - 1 = round
      BY <2>1
    <3> QED
      BY <2>1, <2>2, <2>3, <3>1, DebatersInTurn
  <2>4. CASE ~Halted /\ ~(round < stage.rounds) /\ Call("ruling", round, <<Owner>>)
    <3>1. stage.rounds \in Nat
      BY StageAssumption DEF TurnsInv, StageSpec
    <3>2. \A n \in 1 .. stage.rounds : n \in 1 .. round
      BY <2>1, <2>4, <3>1
    <3>3. \A s \in DOMAIN stage.roles, n \in 1 .. stage.rounds :
            Heard(turnIds, refused, stage.roles[s], "position", n)
      BY <2>2, <2>4, <3>2
    <3>4. phase' = "ruling"
      BY <2>4 DEF Call
    <3> QED
      BY <2>4, <3>3, <3>4, BetweenBatches DEF TurnsSoFar
  <2> QED
    BY <1>3, <2>3, <2>4, ReturnInTurn DEF RoundOver
<1>4. ASSUME NEW open, NEW said, SendBack(open, said) \/ ReturnReview(open, said)
      PROVE  TurnsSoFar'
  BY <1>4, ReturnInTurn, WritersInTurn DEF SendBack, ReturnReview
<1>5. CASE ReviewsIn
  <2>1. CASE Call("verdict", round, <<Owner>>)
    <3>1. \A s \in 2 .. Len(stage.roles) : Heard(turnIds, refused, stage.roles[s], "review", round)
      <4>1. phase = "review" /\ working = {} /\ Len(queue) = 0
        BY <1>5 DEF ReviewsIn, BatchOver
      <4> QED
        BY <4>1 DEF TurnsSoFar
    <3>2. phase' = "verdict" /\ round' = round
      BY <2>1 DEF Call
    <3> QED
      BY <2>1, <3>1, <3>2, BetweenBatches DEF TurnsSoFar
  <2> QED
    BY <1>4, <1>5, <2>1 DEF ReviewsIn
<1>6. CASE VerdictIn
  BY <1>4, <1>6 DEF VerdictIn
<1>7. CASE RevisionsIn
  <2>1. stage.roles # <<>>
    BY <1>7 DEF RevisionsIn, TurnsInv
  <2> QED
    BY <1>4, <1>7, <2>1, ReviewersInTurn DEF RevisionsIn
<1> QED
  BY <1>1, <1>2, <1>3, <1>5, <1>6, <1>7

(* A lane pulls the next, who speaks or is refused.                        *)
LEMMA PullInTurn ==
  ASSUME TurnsInv, TurnsSoFar, Pull
  PROVE  TurnsSoFar'
<1> DEFINE e == Head(queue)
<1>1. /\ queue \in Seq(Roles) /\ queue # <<>> /\ Cardinality(working) < Lanes
      /\ UNCHANGED <<stage, phase, round, turnIds>> /\ refused \subseteq refused'
      /\ Halted' = Halted
  BY DEF Pull, CanPull, TurnsInv, Lined, Halted
<1>2. /\ Len(queue) \in Nat \ {0} /\ e = queue[1] /\ Len(Tail(queue)) = Len(queue) - 1
      /\ \A i \in 1 .. Len(Tail(queue)) : Tail(queue)[i] = queue[i + 1]
  BY <1>1
<1> HIDE DEF e
<1>3. turnIds \in Seq(Listed) /\ Listed # {}
  <2>1. PICK d : d \in Roles
    BY <1>1
  <2>2. [role |-> d, batch |-> "work", round |-> 0] \in Listed
    BY <2>1 DEF Listed, Batches
  <2> QED
    BY <2>2 DEF TurnsInv
<1>4. \A d, ph, n : Heard(turnIds, refused, d, ph, n) => Heard(turnIds', refused', d, ph, n)
  BY <1>1, <1>3, HeardStays
<1>5. \A k \in DOMAIN turnIds' : InTurn(turnIds', refused', stage'.roles, stage'.rounds, k)
  BY <1>1, <1>3, PastStays DEF TurnsInv
<1>6. \/ phase = "position" /\ Halted /\ queue' = <<>> /\ working' = working
      \/ /\ ~(phase = "position" /\ Halted)
         /\ queue' = Tail(queue)
         /\ \/ working' = working \cup {e}
            \/ working' = working /\ e \in refused'
  BY DEF Pull, e
<1>7. CASE phase = "position"
  <2>1. stage.mode = "debate" /\ (SpeakingInTurn \/ (Halted /\ working = {}))
    BY <1>7 DEF TurnsSoFar
  <2>2. working = {}
    <3>1. Cardinality(working) < 1 /\ IsFiniteSet(working)
      BY <1>1, <2>1 DEF Lanes, TurnsInv
    <3>2. Cardinality(working) = 0
      BY <3>1, FS_CardinalityType
    <3> QED
      BY <3>1, <3>2, FS_EmptySet
  <2>3. CASE Halted
    BY <1>1, <1>5, <1>6, <1>7, <2>1, <2>2, <2>3 DEF TurnsSoFar
  <2>4. CASE ~Halted
    <3>1. PICK m \in 0 .. Len(stage.roles) :
            /\ Len(queue) = Len(stage.roles) - m
            /\ \A i \in 1 .. Len(queue) : queue[i] = stage.roles[m + i]
            /\ \A s \in 1 .. m : Heard(turnIds, refused, stage.roles[s], "position", round)
      BY <2>1, <2>2, <2>4 DEF SpeakingInTurn
    <3>2. Len(stage.roles) \in Nat
      BY StageAssumption DEF TurnsInv, StageSpec
    <3> DEFINE l == m + 1
    <3>3. /\ l \in 0 .. Len(stage.roles) /\ l > 0 /\ e = stage.roles[l]
          /\ \A s \in 1 .. l : s \in 1 .. m \/ s = l
      BY <1>2, <3>1, <3>2
    <3>4. /\ Len(queue') = Len(stage.roles) - l
          /\ \A i \in 1 .. Len(queue') : queue'[i] = stage.roles[l + i]
      <4>1. queue' = Tail(queue) /\ Len(queue') = Len(queue) - 1
        BY <1>2, <1>6, <2>4
      <4>2. \A i \in 1 .. Len(queue') :
               /\ queue'[i] = queue[i + 1] /\ i + 1 \in 1 .. Len(queue) /\ m + (i + 1) = l + i
        BY <1>2, <3>2, <4>1
      <4>3. Len(queue') = Len(stage.roles) - l
        BY <1>2, <3>1, <3>2, <4>1
      <4> QED
        BY <3>1, <4>2, <4>3
    <3> HIDE DEF l
    <3>5. \/ working' = {e}
          \/ working' = {} /\ e \in refused'
      BY <1>6, <2>2, <2>4
    <3>6. \A s \in 1 .. l : \/ Heard(turnIds', refused', stage.roles[s], "position", round)
                            \/ s = l /\ stage.roles[l] \in working'
      BY <1>4, <3>1, <3>3, <3>5 DEF Heard, Before
    <3>7. \A d \in working' : l > 0 /\ d = stage.roles[l]
      BY <3>3, <3>5
    <3>8. \A s \in DOMAIN stage.roles, n \in 1 .. (round - 1) :
             Heard(turnIds', refused', stage.roles[s], "position", n)
      BY <1>4, <2>1, <2>4 DEF SpeakingInTurn
    <3>9. SpeakingInTurn'
      BY <1>1, <3>3, <3>4, <3>6, <3>7, <3>8 DEF SpeakingInTurn
    <3> QED
      BY <1>1, <1>5, <1>7, <2>1, <3>9 DEF TurnsSoFar
  <2> QED
    BY <2>3, <2>4
<1>8. CASE phase = "review"
  <2>1. ASSUME NEW s \in 2 .. Len(stage.roles)
        PROVE  \/ Heard(turnIds', refused', stage.roles[s], "review", round)
               \/ stage.roles[s] \in working'
               \/ \E i \in 1 .. Len(queue') : queue'[i] = stage.roles[s]
    <3>1. /\ queue' = Tail(queue)
          /\ (working' = working \cup {e}) \/ (working' = working /\ e \in refused')
      BY <1>6, <1>8
    <3>2. ASSUME NEW i \in 1 .. Len(queue), queue[i] = stage.roles[s] PROVE <2>1!2
      <4>1. CASE i = 1
        BY <1>2, <3>1, <3>2, <4>1 DEF Heard, Before
      <4>2. CASE i # 1
        <5>1. i - 1 \in 1 .. Len(Tail(queue)) /\ (i - 1) + 1 = i
          BY <1>2, <4>2
        <5> QED
          BY <1>2, <3>1, <3>2, <5>1
      <4> QED
        BY <4>1, <4>2
    <3> QED
      BY <1>4, <1>8, <3>1, <3>2 DEF TurnsSoFar
  <2> QED
    BY <1>1, <1>5, <1>8, <2>1 DEF TurnsSoFar
<1>9. CASE phase \notin {"position", "review"}
  BY <1>1, <1>4, <1>5, <1>9 DEF TurnsSoFar
<1> QED
  BY <1>7, <1>8, <1>9

(* A turn ends when all who were to be heard before it have been.          *)
LEMMA EndTurnInTurn ==
  ASSUME TurnsInv, TurnsSoFar, NEW e \in Roles, NEW said \in Verdict, NEW spentOut \in BOOLEAN,
         EndTurn(e, said, spentOut)
  PROVE  TurnsSoFar'
<1> DEFINE t == [role |-> e, batch |-> phase, round |-> round]
           l == Len(turnIds) + 1
<1>1. /\ e \in working /\ working' = working \ {e} /\ turnIds' = Append(turnIds, t)
      /\ UNCHANGED <<stage, phase, round, queue, refused>> /\ (Halted => Halted')
  BY DEF EndTurn, Halted
<1>2. t \in Listed /\ phase \in Batches /\ round \in Nat /\ turnIds \in Seq(Listed)
  BY DEF TurnsInv, Listed
<1>3. t.role = e /\ t.batch = phase /\ t.round = round
  OBVIOUS
<1>4. Heard(turnIds', refused', e, phase, round)
  BY <1>1, <1>2, NowHeard
<1> HIDE DEF t
<1>5. /\ DOMAIN turnIds' = 1 .. l /\ turnIds'[l] = t /\ Len(turnIds) \in Nat
      /\ \A k \in 1 .. l : k \in 1 .. Len(turnIds) \/ k = l
  BY <1>1, <1>2
<1>6. \A d, ph, n : Heard(turnIds, refused, d, ph, n) => Heard(turnIds', refused', d, ph, n)
  BY <1>1, <1>2, HeardStays
<1>7. \A d, ph, n : Heard(turnIds, refused, d, ph, n) => Before(turnIds', refused', l, d, ph, n)
  <2>1. l \in 1 .. (Len(turnIds) + 1) /\ refused' = refused
    BY <1>1, <1>5
  <2>2. \A d, ph, n : Before(turnIds, refused, l, d, ph, n)
                       => Before(turnIds', refused', l, d, ph, n)
    <3> HIDE DEF l
    <3> QED
      BY <1>1, <1>2, <2>1, HeardStays
  <2> QED
    BY <2>2 DEF Heard
<1>8. \A k \in 1 .. Len(turnIds) : InTurn(turnIds', refused', stage'.roles, stage'.rounds, k)
  BY <1>1, <1>2, PastStays
<1> HIDE DEF l
<1>9. CASE phase = "position"
  <2>1. stage.mode = "debate" /\ SpeakingInTurn
    BY <1>1, <1>9 DEF TurnsSoFar
  <2>2. PICK m \in 0 .. Len(stage.roles) :
          /\ Len(queue) = Len(stage.roles) - m
          /\ \A i \in 1 .. Len(queue) : queue[i] = stage.roles[m + i]
          /\ \A d \in working : m > 0 /\ d = stage.roles[m]
          /\ \A s \in 1 .. m : \/ Heard(turnIds, refused, stage.roles[s], "position", round)
                               \/ s = m /\ stage.roles[m] \in working
    BY <2>1 DEF SpeakingInTurn
  <2>3. Len(stage.roles) \in Nat /\ DOMAIN stage.roles = 1 .. Len(stage.roles)
    BY StageAssumption DEF TurnsInv, StageSpec
  <2>4. m > 0 /\ e = stage.roles[m] /\ working' = {} /\ m \in DOMAIN stage.roles
    BY <1>1, <2>2, <2>3
  <2>5. \A s \in 1 .. m : Heard(turnIds', refused', stage.roles[s], "position", round)
    BY <1>4, <1>6, <1>9, <2>2, <2>4
  <2>6. SpeakingInTurn'
    BY <1>1, <1>6, <2>1, <2>2, <2>4, <2>5 DEF SpeakingInTurn
  <2>7. ASSUME NEW s \in DOMAIN stage.roles, \A h \in DOMAIN stage.roles : stage.roles[h] = e => s < h
        PROVE  Before(turnIds', refused', l, stage.roles[s], "position", round)
    <3>1. s \in 1 .. m /\ s # m
      BY <2>2, <2>3, <2>4, <2>7
    <3> QED
      BY <1>7, <2>2, <3>1
  <2>8. \A s \in DOMAIN stage.roles, n \in 1 .. (round - 1) :
           Before(turnIds', refused', l, stage.roles[s], "position", n)
    BY <1>7, <2>1 DEF SpeakingInTurn
  <2>9. InTurn(turnIds', refused', stage.roles, stage.rounds, l)
    BY <1>3, <1>5, <1>9, <2>7, <2>8 DEF InTurn
  <2> QED
    BY <1>1, <1>5, <1>8, <1>9, <2>1, <2>6, <2>9 DEF TurnsSoFar
<1>10. CASE phase # "position"
  <2>1. InTurn(turnIds', refused', stage.roles, stage.rounds, l)
    <3>1. phase = "ruling" => \A s \in DOMAIN stage.roles, n \in 1 .. stage.rounds :
            Before(turnIds', refused', l, stage.roles[s], "position", n)
      BY <1>7 DEF TurnsSoFar
    <3>2. phase = "verdict" => \A s \in 2 .. Len(stage.roles) :
            Before(turnIds', refused', l, stage.roles[s], "review", round)
      BY <1>7 DEF TurnsSoFar
    <3> QED
      BY <1>3, <1>5, <1>10, <3>1, <3>2 DEF InTurn
  <2>2. phase = "review" => \A s \in 2 .. Len(stage.roles) :
          \/ Heard(turnIds', refused', stage.roles[s], "review", round)
          \/ stage.roles[s] \in working'
          \/ \E i \in 1 .. Len(queue) : queue[i] = stage.roles[s]
    BY <1>1, <1>4, <1>6 DEF TurnsSoFar
  <2> QED
    BY <1>1, <1>5, <1>6, <1>8, <1>10, <2>1, <2>2 DEF TurnsSoFar
<1> QED
  BY <1>9, <1>10

(* Everybody is heard in the order a stage means to hear them, or had no   *)
(* turn left, whatever the caps, the width, a cancellation or the budget   *)
(* do to its rounds.                                                       *)
THEOREM EverybodyIsHeardInTurn == Spec => []NobodyIsPassedOver
<1>1. Init => TurnsSoFar
  BY EmptyLine DEF Init, TurnsSoFar
<1>2. TurnsInv /\ TurnsSoFar /\ [Next]_vars => TurnsSoFar'
  <2> SUFFICES ASSUME TurnsInv, TurnsSoFar, [Next]_vars PROVE TurnsSoFar'
    OBVIOUS
  <2>1. CASE Abort
    BY <2>1 DEF Abort, TurnsSoFar, SpeakingInTurn, Halted
  <2>2. CASE UNCHANGED vars
    BY <2>2 DEF vars, TurnsSoFar, SpeakingInTurn, Halted
  <2> QED
    BY <2>1, <2>2, BatchesInTurn, PullInTurn, EndTurnInTurn DEF Next, Proceed
<1>3. TurnsSoFar => NobodyIsPassedOver
  <2> SUFFICES ASSUME TurnsSoFar, NEW k \in DOMAIN turnIds
               PROVE  InTurn(turnIds, refused, stage.roles, stage.rounds, k) =>
                        NobodyIsPassedOver!(k)
    BY DEF TurnsSoFar, NobodyIsPassedOver
  <2> QED
    BY DEF InTurn, NobodyIsPassedOver, HeardBefore, Before
<1> QED
  BY <1>1, <1>2, <1>3, TurnsInvHolds, PTL DEF Spec
=============================================================================
