---------------------------- MODULE MemoryProofs ----------------------------
(* That corrections stand but for crashes, that nothing false is believed  *)
(* again, that no turn is begun on it and that no console believes two     *)
(* facts of which one corrects the other: for any facts, scopes, turns,    *)
(* frames, limits and crashes.                                             *)
EXTENDS Memory, TLAPS, FiniteSetTheorems, SequenceTheorems

Row ==
  [scope : Scopes, supersedes : Nat, invalid : BOOLEAN, by : Nat, read : BOOLEAN]

Facts == fact \in Seq(Row)

Shape ==
  /\ crashes \in Nat
  /\ turn = [t \in Turns |-> [at |-> turn[t].at, found |-> turn[t].found,
                              stopped |-> turn[t].stopped, told |-> turn[t].told]]

(* What is replaced and what replaces it name each other.                  *)
Links ==
  \A f \in Ids :
    /\ fact[f].supersedes # None => fact[f].supersedes \in Ids
    /\ fact[f].by # None =>
         /\ fact[f].by \in Ids /\ fact[f].invalid
         /\ fact[fact[f].by].supersedes = f
         /\ fact[fact[f].by].scope = fact[f].scope

(* Between the two rows of a correction.                                   *)
Correcting ==
  at = "invalidate" =>
    /\ event.fact \in Ids /\ event.old \in Active
    /\ fact[event.fact].supersedes = event.old
    /\ fact[event.fact].scope = fact[event.old].scope

Halved ==
  Cardinality(HalfApplied) <= crashes + (IF at = "invalidate" THEN 1 ELSE 0)

(* What turn t may be given.                                               *)
True(t) == {f \in Ids : fact[f].scope \in Visible[t] /\ f \notin turn[t].stopped}

(* A turn holds, and was given, nothing that it may not hold.              *)
Told ==
  \A t \in Turns :
    /\ turn[t].stopped \subseteq Ids \ Active
    /\ turn[t].told \subseteq True(t)
    /\ turn[t].at = "embedding" => DOMAIN turn[t].found \subseteq True(t)
    /\ turn[t].at = "new" => turn[t].told = {}

IInv == Facts /\ Shape /\ Links /\ Correcting /\ Halved /\ Told

-----------------------------------------------------------------------------
(* What a step may do to the facts.                                        *)

(* Nothing but that some have been read.                                   *)
SameTruth ==
  /\ Len(fact') = Len(fact)
  /\ \A f \in Ids :
       /\ fact'[f].scope = fact[f].scope /\ fact'[f].supersedes = fact[f].supersedes
       /\ fact'[f].invalid = fact[f].invalid /\ fact'[f].by = fact[f].by

(* They stay, where and instead of what they were, and the false ones so.  *)
GoesOn ==
  /\ Facts' /\ Len(fact) <= Len(fact')
  /\ \A f \in Ids :
       /\ fact'[f].scope = fact[f].scope /\ fact'[f].supersedes = fact[f].supersedes
       /\ f \notin Active => ~isActive(fact'[f]) /\ fact'[f].by = fact[f].by

LEMMA IdsAre == ASSUME Facts PROVE Ids = 1..Len(fact) /\ Len(fact) \in Nat
  BY LenProperties DEF Facts, Ids

(* noteMemoryFactsRead changes nothing that is believed.                   *)
LEMMA ReadingKeepsTruth ==
  ASSUME Facts, NEW rows, fact' = NoteRead(rows)
  PROVE  Facts' /\ SameTruth
<1>1. Ids = 1..Len(fact) /\ Len(fact) \in Nat
  BY IdsAre
<1>2. \A f \in Ids : fact[f] \in Row
  BY <1>1, ElementOfSeq DEF Facts
<1>3. \A f \in Ids : fact'[f] = IF f \in DOMAIN rows THEN [fact[f] EXCEPT !.read = TRUE] ELSE fact[f]
  BY DEF NoteRead
<1>4. \A f \in Ids : fact'[f] \in Row
  BY <1>2, <1>3 DEF Row
<1>5. fact' \in [1..Len(fact) -> Row]
  BY <1>1, <1>4 DEF NoteRead
<1>6. fact' \in Seq(Row) /\ Len(fact') = Len(fact)
  <2>1. fact' \in Seq(Row)
    BY <1>1, <1>5, SeqDef
  <2>2. DOMAIN fact' = 1..Len(fact')  /\ Len(fact') \in Nat
    BY <2>1, LenProperties
  <2>3. DOMAIN fact' = 1..Len(fact)
    BY <1>5
  <2> QED
    BY <1>1, <2>1, <2>2, <2>3
<1> QED
  BY <1>2, <1>3, <1>6 DEF SameTruth, Row, Facts

LEMMA SameTruthGoesOn ==
  ASSUME Facts, Facts', SameTruth
  PROVE  GoesOn /\ Ids' = Ids /\ Active' = Active
<1>1. Ids = 1..Len(fact) /\ Len(fact) \in Nat
  BY IdsAre
<1>2. Ids' = 1..Len(fact') /\ Len(fact') \in Nat
  BY LenProperties DEF Facts, Ids
<1>3. Ids' = Ids
  BY <1>1, <1>2 DEF SameTruth
<1> QED
  BY <1>1, <1>2, <1>3 DEF SameTruth, GoesOn, Active, isActive

-----------------------------------------------------------------------------
(* Writing.                                                                *)

(* What Record leaves, said of each row.                                   *)
LEMMA RecordAppends ==
  ASSUME Facts, NEW scope \in Scopes, NEW old \in Ids \cup {None}, Record(scope, old)
  PROVE  /\ Facts' /\ GoesOn
         /\ Len(fact') = Len(fact) + 1
         /\ Ids' = Ids \cup {Len(fact')} /\ Len(fact') \notin Ids
         /\ \A f \in Ids : fact'[f] = fact[f]
         /\ fact'[Len(fact')] = Written(scope, old)
<1>1. Ids = 1..Len(fact) /\ Len(fact) \in Nat
  BY IdsAre
<1>2. old \in Nat
  BY <1>1 DEF None
<1>3. Written(scope, old) \in Row
  BY <1>2 DEF Written, Row, None
<1>4. fact' = Append(fact, Written(scope, old))
  BY DEF Record
<1>5. /\ fact' \in Seq(Row) /\ Len(fact') = Len(fact) + 1
      /\ \A f \in 1..Len(fact) : fact'[f] = fact[f]
      /\ fact'[Len(fact) + 1] = Written(scope, old)
  BY <1>3, <1>4, AppendProperties DEF Facts
<1>6. Ids' = 1..Len(fact')
  BY <1>5, LenProperties DEF Ids
<1> QED
  BY <1>1, <1>5, <1>6 DEF Facts, GoesOn, Active, isActive

(* A row changed in place, as Invalidate and Retract change one.           *)
LEMMA UpdateKeepsRows ==
  ASSUME Facts, NEW g \in Ids, NEW row \in Row, fact' = [fact EXCEPT ![g] = row]
  PROVE  /\ Facts' /\ Len(fact') = Len(fact) /\ Ids' = Ids
         /\ fact'[g] = row
         /\ \A f \in Ids \ {g} : fact'[f] = fact[f]
<1>1. Ids = 1..Len(fact) /\ Len(fact) \in Nat
  BY IdsAre
<1>2. /\ fact' \in Seq(Row) /\ Len(fact') = Len(fact)
      /\ \A f \in 1..Len(fact) : fact'[f] = IF f = g THEN row ELSE fact[f]
  BY <1>1, ExceptSeq DEF Facts
<1>3. Ids' = 1..Len(fact')
  BY <1>2, LenProperties DEF Ids
<1> QED
  BY <1>1, <1>2, <1>3 DEF Facts

LEMMA InvalidateUpdates ==
  ASSUME Facts, Correcting, Invalidate
  PROVE  /\ Facts' /\ GoesOn /\ Ids' = Ids
         /\ event.old \in Active /\ event.fact \in Ids
         /\ \A f \in Ids \ {event.old} : fact'[f] = fact[f]
         /\ fact'[event.old].invalid /\ fact'[event.old].by = event.fact
         /\ fact'[event.old].scope = fact[event.old].scope
         /\ fact'[event.old].supersedes = fact[event.old].supersedes
<1>1. Ids = 1..Len(fact) /\ Len(fact) \in Nat
  BY IdsAre
<1>2. event.old \in Active /\ event.fact \in Ids /\ event.old \in Ids
  BY DEF Correcting, Invalidate, Active
<1> DEFINE row == [fact[event.old] EXCEPT !.invalid = TRUE, !.by = event.fact]
<1>3. fact[event.old] \in Row
  BY <1>1, <1>2, ElementOfSeq DEF Facts
<1>4. row \in Row
  <2>1. ASSUME NEW r \in Row, NEW g \in Nat
        PROVE  [r EXCEPT !.invalid = TRUE, !.by = g] \in Row
    BY DEF Row
  <2>2. event.fact \in Nat
    BY <1>1, <1>2
  <2> QED
    BY <1>3, <2>1, <2>2
<1>5. fact' = [fact EXCEPT ![event.old] = row]
  BY <1>2 DEF Invalidate, Ids
<1>6. /\ Facts' /\ Len(fact') = Len(fact) /\ Ids' = Ids
      /\ fact'[event.old] = row /\ \A f \in Ids \ {event.old} : fact'[f] = fact[f]
  <2> HIDE DEF row
  <2> QED
    BY <1>2, <1>4, <1>5, UpdateKeepsRows
<1>7. /\ row.invalid /\ row.by = event.fact /\ row.scope = fact[event.old].scope
      /\ row.supersedes = fact[event.old].supersedes
  BY <1>3 DEF Row
<1>8. Facts' /\ Ids' = Ids
  BY <1>6
<1>9. GoesOn
  <2> HIDE DEF row
  <2> QED
    BY <1>1, <1>2, <1>6, <1>7 DEF GoesOn, Active, isActive
<1> QED
  <2> HIDE DEF row
  <2> QED
    BY <1>2, <1>6, <1>7, <1>8, <1>9

LEMMA RetractUpdates ==
  ASSUME Facts, NEW g \in Ids, Retract(g)
  PROVE  /\ Facts' /\ GoesOn /\ Ids' = Ids /\ g \in Active
         /\ \A f \in Ids \ {g} : fact'[f] = fact[f]
         /\ fact'[g].invalid /\ fact'[g].by = fact[g].by
         /\ fact'[g].scope = fact[g].scope /\ fact'[g].supersedes = fact[g].supersedes
<1>1. Ids = 1..Len(fact) /\ Len(fact) \in Nat
  BY IdsAre
<1> DEFINE row == [fact[g] EXCEPT !.invalid = TRUE]
<1>2. fact[g] \in Row
  BY <1>1, ElementOfSeq DEF Facts
<1>3. row \in Row
  BY <1>2 DEF Row
<1>4. fact' = [fact EXCEPT ![g] = row] /\ g \in Active
  BY DEF Retract
<1>5. /\ Facts' /\ Len(fact') = Len(fact) /\ Ids' = Ids
      /\ fact'[g] = row /\ \A f \in Ids \ {g} : fact'[f] = fact[f]
  <2> HIDE DEF row
  <2> QED
    BY <1>3, <1>4, UpdateKeepsRows
<1>6. /\ row.invalid /\ row.by = fact[g].by /\ row.scope = fact[g].scope
      /\ row.supersedes = fact[g].supersedes
  BY <1>2 DEF Row
<1> QED
  BY <1>1, <1>4, <1>5, <1>6 DEF GoesOn, Active, isActive

(* Steps that write, correct or retract nothing.                           *)
Otherwise ==
  \/ Emit
  \/ \E t \in Turns : BeginTurn(t) \/ Ranked(t) \/ RecallTool(t) \/ EndTurn(t)
  \/ Connect \/ Receive \/ Drop \/ CrashAndRestart

LEMMA TruthStays ==
  ASSUME Facts, Otherwise \/ UNCHANGED vars
  PROVE  Facts' /\ SameTruth
<1>1. CASE UNCHANGED fact
  BY <1>1 DEF Facts, SameTruth, Ids
<1>2. CASE \E rows : fact' = NoteRead(rows)
  BY <1>2, ReadingKeepsTruth
<1>3. (UNCHANGED fact) \/ \E rows : fact' = NoteRead(rows)
  <2>1. CASE Emit
    BY <2>1 DEF Emit
  <2>2. ASSUME NEW t \in Turns, BeginTurn(t) PROVE <1>3
    BY <2>2 DEF BeginTurn, Indexed
  <2>3. ASSUME NEW t \in Turns, Ranked(t) PROVE <1>3
    BY <2>3 DEF Ranked, Indexed
  <2>4. ASSUME NEW t \in Turns, RecallTool(t) PROVE <1>3
    BY <2>4 DEF RecallTool
  <2>5. ASSUME NEW t \in Turns, EndTurn(t) PROVE <1>3
    BY <2>5 DEF EndTurn
  <2>6. CASE Connect \/ Receive \/ Drop \/ CrashAndRestart
    BY <2>6 DEF Connect, Receive, Drop, CrashAndRestart
  <2>7. CASE UNCHANGED vars
    BY <2>7 DEF vars
  <2> QED
    BY <2>1, <2>2, <2>3, <2>4, <2>5, <2>6, <2>7 DEF Otherwise
<1> QED
  BY <1>1, <1>2, <1>3

(* NothingComesBack, of one step.                                          *)
LEMMA StepsGoOn ==
  ASSUME Facts, Correcting, [Next]_vars
  PROVE  GoesOn
<1>1. ASSUME NEW scope \in Scopes, NEW old \in Ids \cup {None}, Record(scope, old)
      PROVE  GoesOn
  BY <1>1, RecordAppends
<1>2. CASE Invalidate
  BY <1>2, InvalidateUpdates
<1>3. ASSUME NEW f \in Ids, Retract(f) PROVE GoesOn
  BY <1>3, RetractUpdates
<1>4. CASE Otherwise \/ UNCHANGED vars
  BY <1>4, TruthStays, SameTruthGoesOn
<1> QED
  BY <1>1, <1>2, <1>3, <1>4 DEF Next, Otherwise

-----------------------------------------------------------------------------
(* Corrections.                                                            *)

LEMMA LinksKept ==
  ASSUME Facts, Links, Correcting, [Next]_vars
  PROVE  Links'
<1>1. ASSUME NEW scope \in Scopes, NEW old \in Ids \cup {None}, Record(scope, old)
      PROVE  Links'
  <2>1. /\ Ids' = Ids \cup {Len(fact')} /\ Len(fact') \notin Ids
        /\ \A f \in Ids : fact'[f] = fact[f]
        /\ fact'[Len(fact')] = Written(scope, old)
    BY <1>1, RecordAppends
  <2>2. /\ fact'[Len(fact')].supersedes = old
        /\ fact'[Len(fact')].by = None
    BY <2>1 DEF Written
  <2> QED
    BY <2>1, <2>2 DEF Links
<1>2. CASE Invalidate
  <2>1. /\ Ids' = Ids
        /\ event.old \in Active /\ event.fact \in Ids
        /\ \A f \in Ids \ {event.old} : fact'[f] = fact[f]
        /\ fact'[event.old].invalid /\ fact'[event.old].by = event.fact
        /\ fact'[event.old].scope = fact[event.old].scope
        /\ fact'[event.old].supersedes = fact[event.old].supersedes
    BY <1>2, InvalidateUpdates
  <2>2. /\ fact[event.fact].supersedes = event.old
        /\ fact[event.fact].scope = fact[event.old].scope
    BY <1>2 DEF Correcting, Invalidate
  <2>3. \A f \in Ids : /\ fact'[f].scope = fact[f].scope
                       /\ fact'[f].supersedes = fact[f].supersedes
    BY <2>1
  <2>4. event.old \in Ids
    BY <2>1 DEF Active
  <2> QED
    BY <2>1, <2>2, <2>3, <2>4 DEF Links
<1>3. ASSUME NEW g \in Ids, Retract(g) PROVE Links'
  <2>1. /\ Ids' = Ids
        /\ \A f \in Ids \ {g} : fact'[f] = fact[f]
        /\ fact'[g].invalid /\ fact'[g].by = fact[g].by
        /\ fact'[g].scope = fact[g].scope /\ fact'[g].supersedes = fact[g].supersedes
    BY <1>3, RetractUpdates
  <2> QED
    BY <2>1 DEF Links
<1>4. CASE Otherwise \/ UNCHANGED vars
  <2>1. SameTruth /\ Ids' = Ids
    BY <1>4, TruthStays, SameTruthGoesOn
  <2> QED
    BY <2>1 DEF Links, SameTruth
<1> QED
  BY <1>1, <1>2, <1>3, <1>4 DEF Next, Otherwise

LEMMA CorrectingKept ==
  ASSUME Facts, Correcting, [Next]_vars
  PROVE  Correcting'
<1>1. ASSUME NEW scope \in Scopes, NEW old \in Ids \cup {None}, Record(scope, old)
      PROVE  Correcting'
  <2>1. /\ Ids' = Ids \cup {Len(fact')} /\ Len(fact') \notin Ids
        /\ \A f \in Ids : fact'[f] = fact[f]
        /\ fact'[Len(fact')] = Written(scope, old)
    BY <1>1, RecordAppends
  <2>2. /\ fact'[Len(fact')].supersedes = old
        /\ fact'[Len(fact')].scope = scope
    BY <2>1 DEF Written
  <2>3. event'.fact = Len(fact') /\ event'.old = old
    BY <1>1 DEF Record
  <2>4. at' = "invalidate" => old \in Active /\ fact[old].scope = scope
    BY <1>1 DEF Record, MayReplace
  <2> QED
    BY <2>1, <2>2, <2>3, <2>4 DEF Correcting, Active
<1>2. CASE Invalidate
  BY <1>2 DEF Invalidate, Correcting
<1>3. ASSUME NEW g \in Ids, Retract(g) PROVE Correcting'
  BY <1>3 DEF Retract, Correcting
<1>4. CASE Otherwise \/ UNCHANGED vars
  <2>1. SameTruth /\ Ids' = Ids /\ Active' = Active
    BY <1>4, TruthStays, SameTruthGoesOn
  <2>2. at' # "invalidate" \/ UNCHANGED <<at, event>>
    BY <1>4 DEF Otherwise, Emit, BeginTurn, Ranked, RecallTool, EndTurn, Connect, Receive,
                Drop, CrashAndRestart, vars
  <2>3. Active \subseteq Ids
    BY DEF Active
  <2> QED
    BY <2>1, <2>2, <2>3 DEF Correcting, SameTruth
<1> QED
  BY <1>1, <1>2, <1>3, <1>4 DEF Next, Otherwise

LEMMA PartsAreSmaller ==
  ASSUME NEW S, IsFiniteSet(S), NEW T, T \subseteq S
  PROVE  /\ IsFiniteSet(T) /\ Cardinality(T) <= Cardinality(S)
         /\ Cardinality(T) \in Nat /\ Cardinality(S) \in Nat
<1>1. IsFiniteSet(T) /\ Cardinality(T) <= Cardinality(S)
  BY FS_Subset
<1>2. Cardinality(S) \in Nat
  BY FS_CardinalityType
<1>3. Cardinality(T) \in Nat
  BY <1>1, FS_CardinalityType
<1> QED
  BY <1>1, <1>2, <1>3

LEMMA OneMoreIsOneMore ==
  ASSUME NEW S, IsFiniteSet(S), NEW x
  PROVE  /\ IsFiniteSet(S \cup {x}) /\ Cardinality(S) \in Nat
         /\ Cardinality(S \cup {x}) \in {Cardinality(S), Cardinality(S) + 1}
<1>1. IsFiniteSet(S \cup {x})
  BY FS_AddElement
<1>2. Cardinality(S \cup {x}) = IF x \in S THEN Cardinality(S) ELSE Cardinality(S) + 1
  BY FS_AddElement
<1>3. Cardinality(S) \in Nat
  BY FS_CardinalityType
<1> QED
  BY <1>1, <1>2, <1>3

LEMMA OneLessIsOneLess ==
  ASSUME NEW S, IsFiniteSet(S), NEW x \in S
  PROVE  IsFiniteSet(S \ {x}) /\ Cardinality(S \ {x}) = Cardinality(S) - 1
<1>1. IsFiniteSet(S \ {x})
  BY FS_RemoveElement
<1>2. Cardinality(S \ {x}) = IF x \in S THEN Cardinality(S) - 1 ELSE Cardinality(S)
  BY FS_RemoveElement
<1> QED
  BY <1>1, <1>2

(* The half-applied corrections are a finite set.                          *)
LEMMA HalvesAreFinite ==
  ASSUME Facts
  PROVE  IsFiniteSet(HalfApplied) /\ Cardinality(HalfApplied) \in Nat
<1>1. HalfApplied \subseteq 1..Len(fact) /\ Len(fact) \in Nat
  BY IdsAre DEF HalfApplied
<1>2. IsFiniteSet(1..Len(fact))
  BY <1>1, FS_Interval
<1> QED
  BY <1>1, <1>2, PartsAreSmaller

LEMMA HalvedKept ==
  ASSUME Facts, crashes \in Nat, Links, Correcting, Halved, [Next]_vars
  PROVE  Halved'
<1>1. ASSUME NEW scope \in Scopes, NEW old \in Ids \cup {None}, Record(scope, old)
      PROVE  Halved'
  <2>1. /\ Ids' = Ids \cup {Len(fact')} /\ Len(fact') \notin Ids
        /\ \A f \in Ids : fact'[f] = fact[f]
        /\ fact'[Len(fact')] = Written(scope, old)
    BY <1>1, RecordAppends
  <2>2. fact'[Len(fact')].supersedes = old
    BY <2>1 DEF Written
  <2>3. crashes' = crashes /\ at # "invalidate"
    BY <1>1 DEF Record, MayEmit, Idle
  <2>4. HalfApplied' \subseteq HalfApplied \cup (IF old = None THEN {} ELSE {Len(fact')})
    BY <2>1, <2>2 DEF HalfApplied, Links
  <2>5. CASE old = None
    <3>1. HalfApplied' \subseteq HalfApplied /\ at' # "invalidate"
      BY <1>1, <2>4, <2>5 DEF Record
    <3> QED
      <4>1. Cardinality(HalfApplied') <= Cardinality(HalfApplied) /\ Cardinality(HalfApplied') \in Nat
        BY <3>1, HalvesAreFinite, PartsAreSmaller
      <4> QED
        BY <2>3, <3>1, <4>1, HalvesAreFinite DEF Halved
  <2>6. CASE old # None
    <3>1. HalfApplied' \subseteq HalfApplied \cup {Len(fact')} /\ at' = "invalidate"
      BY <1>1, <2>4, <2>6 DEF Record
    <3>2. /\ IsFiniteSet(HalfApplied \cup {Len(fact')}) /\ Cardinality(HalfApplied) \in Nat
          /\ Cardinality(HalfApplied \cup {Len(fact')})
               \in {Cardinality(HalfApplied), Cardinality(HalfApplied) + 1}
      BY HalvesAreFinite, OneMoreIsOneMore
    <3>3. /\ Cardinality(HalfApplied') <= Cardinality(HalfApplied \cup {Len(fact')})
          /\ Cardinality(HalfApplied') \in Nat
      BY <3>1, <3>2, PartsAreSmaller
    <3> QED
      BY <2>3, <3>1, <3>2, <3>3 DEF Halved
  <2> QED
    BY <2>5, <2>6
<1>2. CASE Invalidate
  <2>1. /\ Ids' = Ids
        /\ event.old \in Active /\ event.fact \in Ids
        /\ \A f \in Ids \ {event.old} : fact'[f] = fact[f]
        /\ fact'[event.old].by = event.fact
        /\ fact'[event.old].supersedes = fact[event.old].supersedes
    BY <1>2, InvalidateUpdates
  <2>2. /\ fact[event.fact].supersedes = event.old /\ at = "invalidate"
        /\ at' # "invalidate" /\ crashes' = crashes
    BY <1>2 DEF Correcting, Invalidate
  <2>3. event.old \in Ids /\ fact[event.old].by = None /\ event.old # None
    BY <2>1, IdsAre DEF Active, isActive, None
  <2>4. event.fact # None
    BY <2>1, IdsAre DEF None
  <2>5. event.fact \in HalfApplied
    BY <2>1, <2>2, <2>3, <2>4 DEF HalfApplied
  <2>6. HalfApplied' \subseteq HalfApplied \ {event.fact}
    <3>1. None \notin Ids
      BY IdsAre DEF None
    <3>2. ASSUME NEW g \in HalfApplied'
          PROVE  g \in HalfApplied \ {event.fact}
      <4>1. /\ g \in Ids /\ fact[g].supersedes # None
            /\ fact'[fact[g].supersedes].by # g
        BY <2>1, <3>2 DEF HalfApplied
      <4>2. fact[g].supersedes \in Ids
        BY <4>1 DEF Links
      <4>3. CASE fact[g].supersedes = event.old
        BY <2>1, <2>3, <3>1, <4>1, <4>3 DEF HalfApplied
      <4>4. CASE fact[g].supersedes # event.old
        BY <2>1, <2>2, <4>1, <4>2, <4>4 DEF HalfApplied
      <4> QED
        BY <4>3, <4>4
    <3> QED
      BY <3>2
  <2>7. /\ IsFiniteSet(HalfApplied \ {event.fact})
        /\ Cardinality(HalfApplied \ {event.fact}) = Cardinality(HalfApplied) - 1
    BY <2>5, HalvesAreFinite, OneLessIsOneLess
  <2>8. /\ Cardinality(HalfApplied') <= Cardinality(HalfApplied \ {event.fact})
        /\ Cardinality(HalfApplied') \in Nat
    BY <2>6, <2>7, PartsAreSmaller
  <2> QED
    BY <2>2, <2>7, <2>8, HalvesAreFinite DEF Halved
<1>3. ASSUME NEW g \in Ids, Retract(g) PROVE Halved'
  <2>1. /\ Ids' = Ids
        /\ \A f \in Ids : fact'[f].supersedes = fact[f].supersedes /\ fact'[f].by = fact[f].by
    BY <1>3, RetractUpdates
  <2>2. HalfApplied' = HalfApplied
    BY <2>1 DEF HalfApplied, Links
  <2>3. at # "invalidate" /\ at' # "invalidate" /\ crashes' = crashes
    BY <1>3 DEF Retract, MayEmit, Idle
  <2> QED
    BY <2>2, <2>3 DEF Halved
<1>4. CASE Otherwise \/ UNCHANGED vars
  <2>1. SameTruth /\ Ids' = Ids
    BY <1>4, TruthStays, SameTruthGoesOn
  <2>2. HalfApplied' = HalfApplied
    BY <2>1 DEF HalfApplied, SameTruth, Links
  <2>3. \/ at' = at /\ crashes' = crashes
        \/ at # "invalidate" /\ at' # "invalidate" /\ crashes' = crashes
        \/ at' # "invalidate" /\ crashes' = crashes + 1
    BY <1>4 DEF Otherwise, Emit, BeginTurn, Ranked, RecallTool, EndTurn, Connect, Receive,
                Drop, CrashAndRestart, vars
  <2> QED
    BY <2>2, <2>3, HalvesAreFinite DEF Halved
<1> QED
  BY <1>1, <1>2, <1>3, <1>4 DEF Next, Otherwise

-----------------------------------------------------------------------------
(* Recalls.                                                                *)

(* A turn that gets nothing new, or what it may be given, has been told    *)
(* nothing wrong.                                                          *)
LEMMA TurnsAsTheyWere ==
  ASSUME Facts, GoesOn, Told,
         \A t \in Turns :
           /\ turn'[t].stopped = turn[t].stopped /\ turn'[t].told = turn[t].told
           /\ turn'[t].found = turn[t].found
           /\ turn'[t].at \in {turn[t].at, "over"}
  PROVE  Told'
<1>1. Ids \subseteq Ids'
  BY IdsAre, LenProperties DEF GoesOn, Facts, Ids
<1>2. \A f \in Ids : f \notin Active => f \notin Active'
  BY DEF GoesOn, Active
<1>3. \A t \in Turns : True(t) \subseteq True(t)'
  BY <1>1 DEF True, GoesOn
<1> QED
  BY <1>1, <1>2, <1>3 DEF Told, Active

(* One turn moves on while the facts stay as true as they were.            *)
LEMMA OneTurnMoves ==
  ASSUME Facts, SameTruth, Facts', Told, NEW t \in Turns,
         \A u \in Turns \ {t} : turn'[u] = turn[u],
         turn'[t].stopped \subseteq Ids \ Active,
         \A f \in turn'[t].told :
            f \in Ids /\ fact[f].scope \in Visible[t] /\ f \notin turn'[t].stopped,
         turn'[t].at = "embedding" => \A f \in DOMAIN turn'[t].found :
            f \in Ids /\ fact[f].scope \in Visible[t] /\ f \notin turn'[t].stopped,
         turn'[t].at # "new"
  PROVE  Told'
<1>1. Ids' = Ids /\ Active' = Active
  BY SameTruthGoesOn
<1>2. \A u \in Turns \ {t} : True(u)' = True(u)
  BY <1>1 DEF True, SameTruth
<1>3. True(t)' = {f \in Ids : fact[f].scope \in Visible[t] /\ f \notin turn'[t].stopped}
  BY <1>1 DEF True, SameTruth
<1> QED
  BY <1>1, <1>2, <1>3 DEF Told

LEMMA ToldKept ==
  ASSUME Facts, Shape, Correcting, Told, [Next]_vars
  PROVE  Told'
<1>0. GoesOn
  BY StepsGoOn
<1>1. CASE UNCHANGED turn \/ CrashAndRestart
  <2>1. \A t \in Turns :
           /\ turn'[t].stopped = turn[t].stopped /\ turn'[t].told = turn[t].told
           /\ turn'[t].found = turn[t].found
           /\ turn'[t].at \in {turn[t].at, "over"}
    BY <1>1 DEF CrashAndRestart, Shape
  <2> QED
    BY <1>0, <2>1, TurnsAsTheyWere
<1>2. ASSUME NEW t \in Turns, BeginTurn(t) PROVE Told'
  <2>1. Facts' /\ SameTruth
    BY <1>2, TruthStays DEF Otherwise
  <2>2. PICK found \in Searches(t) :
          IF semantic /\ Cardinality(found) > 1
            THEN turn' = [turn EXCEPT ![t] = [at |-> "embedding", found |-> Rows(found),
                                              told |-> {}, stopped |-> Ids \ Active]]
            ELSE Indexed(t, Rows(found))
    BY <1>2 DEF BeginTurn
  <2>3. /\ found \subseteq Active /\ Active \subseteq Ids
        /\ \A f \in found : fact[f].scope \in Visible[t]
        /\ DOMAIN Rows(found) = found
    BY <2>2 DEF Searches, InScope, Rows, Active
  <2>4. turn[t].at = "new" /\ turn[t].told = {}
    BY <1>2 DEF BeginTurn, Told
  <2>5. CASE semantic /\ Cardinality(found) > 1
    <3>1. /\ \A u \in Turns \ {t} : turn'[u] = turn[u]
          /\ turn'[t].at = "embedding" /\ turn'[t].found = Rows(found)
          /\ turn'[t].stopped = Ids \ Active /\ turn'[t].told = {}
      BY <2>2, <2>4, <2>5 DEF Shape
    <3> QED
      BY <2>1, <2>3, <3>1, OneTurnMoves
  <2>6. CASE ~(semantic /\ Cardinality(found) > 1)
    <3>1. /\ \A u \in Turns \ {t} : turn'[u] = turn[u]
          /\ turn'[t].at = "working" /\ turn'[t].told = found
          /\ turn'[t].stopped = Ids \ Active
      BY <2>2, <2>3, <2>4, <2>6 DEF Indexed, Shape
    <3> QED
      BY <2>1, <2>3, <3>1, OneTurnMoves
  <2> QED
    BY <2>5, <2>6
<1>3. ASSUME NEW t \in Turns, Ranked(t) PROVE Told'
  <2>1. Facts' /\ SameTruth
    BY <1>3, TruthStays DEF Otherwise
  <2>2. /\ turn[t].stopped \subseteq Ids \ Active
        /\ \A f \in DOMAIN turn[t].found :
             f \in Ids /\ fact[f].scope \in Visible[t] /\ f \notin turn[t].stopped
    BY <1>3 DEF Ranked, Told, True
  <2>3. /\ \A u \in Turns \ {t} : turn'[u] = turn[u]
        /\ turn'[t].at = "working" /\ turn'[t].told = DOMAIN turn[t].found
        /\ turn'[t].stopped = turn[t].stopped
    BY <1>3 DEF Ranked, Indexed, Shape
  <2> QED
    BY <2>1, <2>2, <2>3, OneTurnMoves
<1>4. ASSUME NEW t \in Turns, RecallTool(t) PROVE Told'
  <2>1. Facts' /\ SameTruth
    BY <1>4, TruthStays DEF Otherwise
  <2>2. PICK found \in Searches(t) : turn' = [turn EXCEPT ![t].told = @ \cup found]
    BY <1>4 DEF RecallTool
  <2>3. /\ turn[t].stopped \subseteq Ids \ Active
        /\ \A f \in turn[t].told \cup found :
             f \in Ids /\ fact[f].scope \in Visible[t] /\ f \notin turn[t].stopped
    BY <2>2 DEF Told, True, Searches, InScope, Active
  <2>4. /\ \A u \in Turns \ {t} : turn'[u] = turn[u]
        /\ turn'[t].at = turn[t].at /\ turn'[t].told = turn[t].told \cup found
        /\ turn'[t].stopped = turn[t].stopped
    BY <2>2 DEF Shape
  <2>5. turn[t].at = "working"
    BY <1>4 DEF RecallTool
  <2> QED
    BY <2>1, <2>3, <2>4, <2>5, OneTurnMoves
<1>5. ASSUME NEW t \in Turns, EndTurn(t) PROVE Told'
  <2>1. \A u \in Turns :
           /\ turn'[u].stopped = turn[u].stopped /\ turn'[u].told = turn[u].told
           /\ turn'[u].found = turn[u].found
           /\ turn'[u].at \in {turn[u].at, "over"}
    BY <1>5 DEF EndTurn, Shape
  <2> QED
    BY <1>0, <2>1, TurnsAsTheyWere
<1>6. CASE \E scope \in Scopes, old \in Ids \cup {None} : Record(scope, old)
  BY <1>1, <1>6 DEF Record
<1>7. CASE \E f \in Ids : Retract(f)
  BY <1>1, <1>7 DEF Retract
<1>8. CASE Invalidate \/ Emit \/ Connect \/ Receive \/ Drop \/ UNCHANGED vars
  BY <1>1, <1>8 DEF Invalidate, Emit, Connect, Receive, Drop, vars
<1> QED
  BY <1>1, <1>2, <1>3, <1>4, <1>5, <1>6, <1>7, <1>8 DEF Next

LEMMA ShapeKept ==
  ASSUME Shape, [Next]_vars
  PROVE  Shape'
<1>1. CASE UNCHANGED <<turn, crashes>>
  BY <1>1 DEF Shape
<1>2. ASSUME NEW t \in Turns, BeginTurn(t) PROVE Shape'
  BY <1>2 DEF BeginTurn, Indexed, Shape
<1>3. ASSUME NEW t \in Turns, Ranked(t) PROVE Shape'
  BY <1>3 DEF Ranked, Indexed, Shape
<1>4. ASSUME NEW t \in Turns, RecallTool(t) PROVE Shape'
  BY <1>4 DEF RecallTool, Shape
<1>5. ASSUME NEW t \in Turns, EndTurn(t) PROVE Shape'
  BY <1>5 DEF EndTurn, Shape
<1>6. CASE CrashAndRestart
  BY <1>6 DEF CrashAndRestart, Shape
<1>7. CASE \E scope \in Scopes, old \in Ids \cup {None} : Record(scope, old)
  BY <1>1, <1>7 DEF Record
<1>8. CASE \E f \in Ids : Retract(f)
  BY <1>1, <1>8 DEF Retract
<1>9. CASE Invalidate \/ Emit \/ Connect \/ Receive \/ Drop \/ UNCHANGED vars
  BY <1>1, <1>9 DEF Invalidate, Emit, Connect, Receive, Drop, vars
<1> QED
  BY <1>2, <1>3, <1>4, <1>5, <1>6, <1>7, <1>8, <1>9 DEF Next

-----------------------------------------------------------------------------
LEMMA Initially == Init => IInv
<1> SUFFICES ASSUME Init PROVE IInv
  OBVIOUS
<1>1. Facts /\ Ids = {}
  BY EmptySeq, LenProperties DEF Init, Facts, Ids
<1>2. Shape
  BY DEF Init, Shape, NewTurn
<1>3. HalfApplied = {}
  BY <1>1 DEF HalfApplied
<1>4. Halved
  BY <1>3, FS_EmptySet DEF Halved, Init
<1>5. Links /\ Correcting
  BY <1>1 DEF Links, Correcting, Init
<1>6. Told
  BY <1>1 DEF Told, Init, NewTurn
<1> QED
  BY <1>1, <1>2, <1>4, <1>5, <1>6 DEF IInv

LEMMA Inductive == IInv /\ [Next]_vars => IInv'
<1> SUFFICES ASSUME IInv, [Next]_vars PROVE IInv'
  OBVIOUS
<1>1. GoesOn
  BY StepsGoOn DEF IInv
<1>2. Facts'
  BY <1>1 DEF GoesOn
<1>3. Shape' /\ Links' /\ Correcting'
  BY ShapeKept, LinksKept, CorrectingKept DEF IInv
<1>4. Halved'
  BY HalvedKept DEF IInv, Shape
<1>5. Told'
  BY ToldKept DEF IInv
<1> QED
  BY <1>2, <1>3, <1>4, <1>5 DEF IInv

LEMMA Invariant == Spec => []IInv
  BY Initially, Inductive, PTL DEF Spec

(* A fact that was replaced and the one that replaced it name each other,  *)
(* and there are no more half-applied corrections than there were crashes. *)
THEOREM CorrectionsAreWhole == Spec => []CorrectionsStand
<1>1. IInv => CorrectionsStand
  BY DEF IInv, Links, Halved, CorrectionsStand
<1> QED
  BY <1>1, Invariant, PTL

(* What has stopped being true is not believed again by any step.          *)
THEOREM WhatIsFalseStaysFalse == Spec => NothingComesBack
<1>1. IInv /\ [Next]_vars =>
        [\A f \in Ids \ Active : ~isActive(fact'[f]) /\ fact'[f].by = fact[f].by]_vars
  BY StepsGoOn DEF IInv, GoesOn
<1> QED
  BY <1>1, Invariant, PTL DEF Spec, NothingComesBack

(* No turn is given what was untrue when it began or is not in its scopes. *)
THEOREM TurnsAreToldTheTruth == Spec => []RecallsAreTrue
<1>1. IInv => RecallsAreTrue
  BY DEF IInv, Told, True, RecallsAreTrue
<1> QED
  BY <1>1, Invariant, PTL

-----------------------------------------------------------------------------
(* The console. What it shows, then the frames on their way to it, each by *)
(* the rows it holds.                                                      *)
Places == 0 .. Len(wire)
Shown == [p \in Places |-> IF p = 0 THEN screen ELSE wire[p].rows]

Frame == [type : {"hello", "created", "retracted"},
          rows : UNION {[ids -> Row] : ids \in SUBSET Nat}]

Frames == wire \in Seq(Frame)

(* The event of a correction or a retraction, as far as it has come.       *)
Announced ==
  /\ at \in {"invalidate", "emit"} =>
       /\ event.type \in {"created", "retracted"} /\ event.fact \in Ids
       /\ event.old # None => event.old \in Ids
       /\ event.type = "created" => fact[event.fact].supersedes = event.old
       /\ event.type = "retracted" => event.old = None
  /\ at = "invalidate" =>
       event.type = "created" /\ \A p \in Places : event.fact \notin DOMAIN Shown[p]
  /\ at = "emit" =>
       /\ event.old # None => event.old \notin Active
       /\ event.type = "retracted" => event.fact \notin Active

(* A row anywhere is one the store had.                                    *)
Faithful ==
  \A p \in Places : \A f \in DOMAIN Shown[p] :
    /\ f \in Ids
    /\ Shown[p][f].supersedes = fact[f].supersedes
    /\ f \in Active => isActive(Shown[p][f])

(* The greeting comes first, and a frame with a correction has both rows.  *)
Ordered ==
  \A p \in Places \ {0} :
    /\ p > 1 => wire[p].type # "hello"
    /\ wire[p].type # "hello" => \A g \in DOMAIN Shown[p] :
         isActive(Shown[p][g]) /\ fact[g].supersedes # None
           => fact[g].supersedes \in DOMAIN Shown[p]

(* Once a correction is shown, what it corrects is shown as untrue.        *)
Corrects(v, w) ==
  \A g \in DOMAIN v \ HalfApplied :
    isActive(v[g]) /\ fact[g].supersedes \in DOMAIN w => ~isActive(w[fact[g].supersedes])

Corrected == \A p, q \in Places : p <= q => Corrects(Shown[p], Shown[q])

(* What is true is shown or on its way.                                    *)
Reaches ==
  \A f \in Active :
    \/ at # "idle" /\ event.type = "created" /\ event.fact = f
    \/ \E p \in Places \ {0} : f \in DOMAIN Shown[p]
    \/ f \in DOMAIN screen /\ \A p \in Places \ {0} : wire[p].type # "hello"

(* Where what is not true is shown, what takes it away is on its way.      *)
LastWord ==
  \A f \in Ids \ Active : \A p \in Places :
    f \in DOMAIN Shown[p] /\ isActive(Shown[p][f]) =>
      \/ at = "emit" /\ f \in {event.fact, event.old}
      \/ \E q \in Places :
           /\ q > p
           /\ wire[q].type # "hello" => f \in DOMAIN Shown[q] /\ ~isActive(Shown[q][f])

Pictures ==
  /\ Frames /\ Announced /\ Faithful /\ Ordered /\ Corrected
  /\ online => Reaches /\ LastWord

LEMMA PlacesAre ==
  ASSUME Frames
  PROVE  /\ Places = 0 .. Len(wire) /\ Len(wire) \in Nat /\ 0 \in Places
         /\ Shown[0] = screen
         /\ \A p \in Places \ {0} : p \in 1 .. Len(wire) /\ Shown[p] = wire[p].rows
<1>1. Len(wire) \in Nat
  BY LenProperties DEF Frames
<1> QED
  BY <1>1 DEF Places, Shown

(* What one step does to the facts, and to the corrections half-applied.   *)
LEMMA HalvesAreLeft ==
  ASSUME Facts, Links, Correcting, [Next]_vars, NEW g \in HalfApplied \ HalfApplied'
  PROVE  Invalidate /\ g = event.fact
<1>1. ASSUME NEW scope \in Scopes, NEW old \in Ids \cup {None}, Record(scope, old)
      PROVE  FALSE
  <2>1. /\ Ids' = Ids \cup {Len(fact')} /\ \A f \in Ids : fact'[f] = fact[f]
    BY <1>1, RecordAppends
  <2> QED
    BY <2>1 DEF HalfApplied, Links
<1>2. CASE Invalidate
  <2>1. /\ Ids' = Ids
        /\ \A f \in Ids \ {event.old} : fact'[f] = fact[f]
        /\ fact'[event.old].by = event.fact /\ event.old \in Ids
        /\ fact'[event.old].supersedes = fact[event.old].supersedes
    BY <1>2, InvalidateUpdates DEF Active
  <2>2. /\ g \in Ids /\ fact[g].supersedes # None
        /\ fact[fact[g].supersedes].by # g
    BY DEF HalfApplied
  <2>3. fact'[g].supersedes = fact[g].supersedes
    BY <2>1, <2>2
  <2>4. fact'[fact[g].supersedes].by = g
    BY <2>1, <2>2, <2>3 DEF HalfApplied
  <2> QED
    BY <1>2, <2>1, <2>2, <2>4 DEF Links
<1>3. ASSUME NEW f \in Ids, Retract(f) PROVE FALSE
  <2>1. /\ Ids' = Ids
        /\ \A h \in Ids : fact'[h].supersedes = fact[h].supersedes /\ fact'[h].by = fact[h].by
    BY <1>3, RetractUpdates
  <2> QED
    BY <2>1 DEF HalfApplied, Links
<1>4. CASE Otherwise \/ UNCHANGED vars
  <2>1. SameTruth /\ Ids' = Ids
    BY <1>4, TruthStays, SameTruthGoesOn
  <2> QED
    BY <2>1 DEF HalfApplied, SameTruth, Links
<1> QED
  BY <1>1, <1>2, <1>3, <1>4 DEF Next, Otherwise

(* The facts go on and the console stays as it is.                         *)
LEMMA QuietSteps ==
  ASSUME Facts, GoesOn, Pictures, UNCHANGED console, Announced',
         \A g \in HalfApplied \ HalfApplied' : \A p \in Places : g \notin DOMAIN Shown[p],
         \A f \in Active' \ Active :
           at' # "idle" /\ event'.type = "created" /\ event'.fact = f,
         \A f \in Active \ Active' : at' = "emit" /\ f \in {event'.fact, event'.old},
         at # "idle" => at' # "idle" /\ event' = event,
         at = "emit" => at' = "emit"
  PROVE  Pictures'
<1>1. Ids \subseteq Ids'
  BY IdsAre, LenProperties DEF GoesOn, Facts, Ids
<1>2. Places' = Places /\ Shown' = Shown /\ wire' = wire /\ screen' = screen /\ online' = online
  BY DEF console, Places, Shown
<1>3. \A f \in Ids : fact'[f].supersedes = fact[f].supersedes
  BY DEF GoesOn
<1>4. \A f \in Ids : f \in Active' => f \in Active
  BY DEF GoesOn, Active
<1>5. Active \subseteq Ids /\ Active' \subseteq Ids'
  BY DEF Active
<1>6. \A p \in Places : DOMAIN Shown[p] \subseteq Ids
  BY DEF Pictures, Faithful
<1>7. Frames'
  BY <1>2 DEF Pictures, Frames
<1>8. Faithful'
  BY <1>1, <1>2, <1>3, <1>4 DEF Pictures, Faithful, isActive
<1>9. Ordered'
  BY <1>2, <1>3, <1>6 DEF Pictures, Ordered, isActive
<1>10. Corrected'
  BY <1>2, <1>3, <1>6 DEF Pictures, Corrected, Corrects, isActive
<1>11. ASSUME online' PROVE Reaches'
  <2>1. Reaches
    BY <1>2, <1>11 DEF Pictures
  <2> QED
    BY <1>2, <2>1 DEF Reaches
<1>12. ASSUME online' PROVE LastWord'
  <2>1. LastWord
    BY <1>2, <1>12 DEF Pictures
  <2>2. ASSUME NEW f \in Ids' \ Active', NEW p \in Places, f \in DOMAIN Shown[p],
               isActive(Shown[p][f])
        PROVE  \/ at' = "emit" /\ f \in {event'.fact, event'.old}
               \/ \E q \in Places :
                    /\ q > p
                    /\ wire[q].type # "hello" => f \in DOMAIN Shown[q] /\ ~isActive(Shown[q][f])
    <3>1. f \in Ids
      BY <1>6, <2>2
    <3>2. CASE f \in Active
      BY <2>2, <3>2
    <3>3. CASE f \notin Active
      BY <2>1, <2>2, <3>1, <3>3 DEF LastWord
    <3> QED
      BY <3>2, <3>3
  <2> QED
    BY <1>2, <2>2 DEF LastWord, isActive
<1> QED
  BY <1>7, <1>8, <1>9, <1>10, <1>11, <1>12 DEF Pictures

(* An emit adds a frame of what is current, if there is a socket.          *)
LEMMA EmitIsPictured ==
  ASSUME Facts, Pictures, Emit
  PROVE  Pictures'
<1>1. /\ fact' = fact /\ Ids' = Ids /\ Active' = Active /\ HalfApplied' = HalfApplied
      /\ screen' = screen /\ online' = online /\ at = "emit" /\ at' = "idle"
  BY DEF Emit, Ids, Active, HalfApplied
<1>2. Announced'
  BY <1>1 DEF Announced
<1>3. None \notin Ids
  BY IdsAre DEF None
<1>4. CASE ~online
  <2>1. wire' = wire /\ Places' = Places /\ Shown' = Shown
    BY <1>1, <1>4 DEF Emit, Places, Shown
  <2>2. Frames' /\ Faithful' /\ Ordered' /\ Corrected'
    BY <1>1, <2>1 DEF Pictures, Frames, Faithful, Ordered, Corrected, Corrects, isActive
  <2> QED
    BY <1>1, <1>2, <1>4, <2>2 DEF Pictures
<1>5. CASE online
  <2> DEFINE n == Len(wire) + 1
             frame == [type |-> event.type, rows |-> Halves]
  <2>1. /\ event.type \in {"created", "retracted"} /\ event.fact \in Ids
        /\ event.old # None => event.old \in Ids /\ event.old \notin Active
        /\ event.type = "created" => fact[event.fact].supersedes = event.old
        /\ event.type = "retracted" => event.old = None /\ event.fact \notin Active
    BY <1>1 DEF Pictures, Announced
  <2>2. /\ Frames /\ Places = 0 .. Len(wire) /\ Len(wire) \in Nat
        /\ Shown[0] = screen /\ 0 \in Places
        /\ \A p \in Places \ {0} : p \in 1 .. Len(wire) /\ Shown[p] = wire[p].rows
    BY PlacesAre DEF Pictures
  <2>3. /\ DOMAIN Halves = {event.fact, event.old} \ {None}
        /\ DOMAIN Halves \subseteq Ids
        /\ \A f \in DOMAIN Halves : Halves[f] = fact[f]
    BY <2>1 DEF Halves, Rows
  <2>4. frame \in Frame
    <3>1. DOMAIN Halves \in SUBSET Nat
      <4>1. Ids \subseteq Nat
        BY IdsAre
      <4> QED
        BY <2>3, <4>1
    <3>2. \A f \in DOMAIN Halves : Halves[f] \in Row
      BY <2>3, IdsAre, ElementOfSeq DEF Facts
    <3>3. Halves \in [DOMAIN Halves -> Row]
      BY <3>2 DEF Halves, Rows
    <3>4. Halves \in UNION {[ids -> Row] : ids \in SUBSET Nat}
      BY <3>1, <3>3
    <3> QED
      BY <2>1, <3>4 DEF Frame
  <2>5. /\ wire' \in Seq(Frame) /\ Len(wire') = n
        /\ \A p \in 1..Len(wire) : wire'[p] = wire[p]
        /\ wire'[n] = frame
    BY <1>5, <2>2, <2>4, AppendProperties DEF Emit, Frames
  <2>6. Frames' /\ Places' = 0 .. n
    BY <2>5 DEF Frames, Places
  <2>7. /\ Places' = Places \cup {n} /\ n \notin Places /\ n # 0
        /\ \A p \in Places : p <= n /\ ~(n <= p)
    BY <2>2, <2>6
  <2>8. /\ \A p \in Places : Shown'[p] = Shown[p]
        /\ Shown'[n] = Halves
        /\ \A p \in Places \ {0} : wire'[p].type = wire[p].type
        /\ wire'[n].type = event.type /\ event.type # "hello"
    <3>1. \A p \in Places' : Shown'[p] = IF p = 0 THEN screen' ELSE wire'[p].rows
      BY DEF Shown
    <3> QED
      BY <1>1, <2>1, <2>2, <2>5, <2>7, <3>1
  <2> HIDE DEF n, frame
  <2>9. Faithful'
    BY <1>1, <2>3, <2>7, <2>8 DEF Pictures, Faithful, Active, isActive
  <2>10. \A g \in DOMAIN Halves : isActive(Halves[g]) => g = event.fact /\ event.type = "created"
    BY <2>1, <2>3 DEF Active
  <2>11. Ordered'
    BY <1>1, <2>1, <2>3, <2>7, <2>8, <2>10 DEF Pictures, Ordered, isActive
  <2>12. Corrected'
    <3>1. \A p \in Places' : DOMAIN Shown'[p] \subseteq Ids
      BY <1>1, <2>9 DEF Faithful
    <3>2. ASSUME NEW p \in Places', NEW q \in Places', p <= q,
                 NEW g \in DOMAIN Shown'[p] \ HalfApplied, isActive(Shown'[p][g]),
                 fact[g].supersedes \in DOMAIN Shown'[q]
          PROVE  ~isActive(Shown'[q][fact[g].supersedes])
      <4>1. CASE q = n
        BY <1>3, <2>3, <2>8, <3>1, <3>2, <4>1 DEF HalfApplied, isActive
      <4>2. CASE q \in Places
        <5>1. p \in Places
          BY <2>7, <3>2, <4>2
        <5> QED
          BY <2>8, <3>2, <4>2, <5>1 DEF Pictures, Corrected, Corrects
      <4> QED
        BY <2>7, <4>1, <4>2
    <3> QED
      BY <1>1, <3>2 DEF Corrected, Corrects, isActive
  <2>13. Reaches /\ LastWord
    BY <1>5 DEF Pictures
  <2>14. Reaches'
    BY <1>1, <1>3, <2>1, <2>3, <2>7, <2>8, <2>13 DEF Reaches
  <2>15. LastWord'
    <3>1. ASSUME NEW f \in Ids \ Active, NEW p \in Places', f \in DOMAIN Shown'[p],
                 isActive(Shown'[p][f])
          PROVE  \E q \in Places' :
                   /\ q > p
                   /\ wire'[q].type # "hello"
                        => f \in DOMAIN Shown'[q] /\ ~isActive(Shown'[q][f])
      <4>1. p \in Places
        BY <2>3, <2>7, <2>8, <3>1 DEF Active
      <4>2. CASE f \in {event.fact, event.old}
        <5>1. f \in DOMAIN Halves /\ ~isActive(Halves[f]) /\ n > p
          BY <1>3, <2>2, <2>3, <2>7, <3>1, <4>1, <4>2 DEF Active, n
        <5> QED
          BY <2>7, <2>8, <5>1
      <4>3. CASE f \notin {event.fact, event.old}
        <5>1. PICK q \in Places :
                /\ q > p
                /\ wire[q].type # "hello" => f \in DOMAIN Shown[q] /\ ~isActive(Shown[q][f])
          BY <2>8, <2>13, <3>1, <4>1, <4>3 DEF LastWord
        <5>2. q # 0
          BY <2>2, <4>1, <5>1
        <5> QED
          BY <2>7, <2>8, <5>1, <5>2
      <4> QED
        BY <4>2, <4>3
    <3> QED
      BY <1>1, <3>1 DEF LastWord, isActive
  <2> QED
    BY <1>2, <2>6, <2>9, <2>11, <2>12, <2>14, <2>15 DEF Pictures
<1> QED
  BY <1>4, <1>5

(* The greeting holds what is current and nothing else.                    *)
LEMMA ConnectIsPictured ==
  ASSUME Facts, Pictures, Connect
  PROVE  Pictures'
<1>1. /\ fact' = fact /\ Ids' = Ids /\ Active' = Active /\ HalfApplied' = HalfApplied
      /\ screen' = screen /\ at' = "idle"
  BY DEF Connect, Ids, Active, HalfApplied, Idle
<1>2. Announced'
  BY <1>1 DEF Announced
<1>3. None \notin Ids
  BY IdsAre DEF None
<1>4. Active \subseteq Ids /\ \A f \in Active : isActive(fact[f])
  BY DEF Active
<1>5. 0 \in Places /\ Shown[0] = screen
  BY PlacesAre DEF Pictures
<1> DEFINE frame == [type |-> "hello", rows |-> Rows(Active)]
<1>6. DOMAIN Rows(Active) = Active /\ \A f \in Active : Rows(Active)[f] = fact[f]
  BY DEF Rows
<1>7. frame \in Frame
  <2>1. Active \in SUBSET Nat
    BY <1>4, IdsAre
  <2>2. \A f \in Active : fact[f] \in Row
    BY <1>4, IdsAre, ElementOfSeq DEF Facts
  <2>3. Rows(Active) \in [Active -> Row]
    BY <2>2 DEF Rows
  <2> QED
    BY <2>1, <2>3 DEF Frame
<1>8. wire' = <<frame>>
  BY DEF Connect
<1>9. wire' \in Seq(Frame) /\ Len(wire') = 1 /\ wire'[1] = frame
  BY <1>7, <1>8
<1>10. Frames' /\ Places' = {0, 1}
  BY <1>9 DEF Frames, Places
<1>11. Shown'[0] = screen /\ Shown'[1] = Rows(Active) /\ wire'[1].type = "hello"
  <2>1. \A p \in Places' : Shown'[p] = IF p = 0 THEN screen' ELSE wire'[p].rows
    BY DEF Shown
  <2> QED
    BY <1>1, <1>9, <1>10, <2>1
<1>12. Faithful'
  BY <1>1, <1>4, <1>5, <1>6, <1>10, <1>11 DEF Pictures, Faithful, isActive
<1>13. Ordered'
  BY <1>10, <1>11 DEF Ordered
<1>14. Corrected'
  <2>1. \A p \in Places' : DOMAIN Shown'[p] \subseteq Ids
    BY <1>1, <1>12 DEF Faithful
  <2>2. ASSUME NEW p \in Places', NEW q \in Places', p <= q,
               NEW g \in DOMAIN Shown'[p] \ HalfApplied, isActive(Shown'[p][g]),
               fact[g].supersedes \in DOMAIN Shown'[q]
        PROVE  ~isActive(Shown'[q][fact[g].supersedes])
    <3>1. CASE q = 1
      BY <1>3, <1>4, <1>6, <1>11, <2>1, <2>2, <3>1 DEF HalfApplied, isActive
    <3>2. CASE q = 0
      <4>1. p = 0
        BY <1>10, <2>2, <3>2
      <4> QED
        BY <1>5, <1>11, <2>2, <3>2, <4>1 DEF Pictures, Corrected, Corrects
    <3> QED
      BY <1>10, <3>1, <3>2
  <2> QED
    BY <1>1, <2>2 DEF Corrected, Corrects, isActive
<1>15. Reaches'
  BY <1>1, <1>6, <1>10, <1>11 DEF Reaches
<1>16. LastWord'
  <2>1. ASSUME NEW f \in Ids \ Active, NEW p \in Places', f \in DOMAIN Shown'[p]
        PROVE  1 > p
    BY <1>6, <1>10, <1>11, <2>1
  <2> QED
    BY <1>1, <1>10, <1>11, <2>1 DEF LastWord
<1> QED
  BY <1>2, <1>10, <1>12, <1>13, <1>14, <1>15, <1>16 DEF Pictures

(* A frame is laid over the console, or takes its place if it greets.      *)
LEMMA ReceiveIsPictured ==
  ASSUME Facts, Pictures, Receive
  PROVE  Pictures'
<1>1. /\ fact' = fact /\ Ids' = Ids /\ Active' = Active /\ HalfApplied' = HalfApplied
      /\ at' = at /\ event' = event /\ online' = online
  BY DEF Receive, Ids, Active, HalfApplied
<1>2. /\ Frames /\ Places = 0 .. Len(wire) /\ Len(wire) \in Nat
      /\ Shown[0] = screen /\ 0 \in Places
      /\ \A p \in Places \ {0} : p \in 1 .. Len(wire) /\ Shown[p] = wire[p].rows
  BY PlacesAre DEF Pictures
<1>3. None \notin Ids
  BY IdsAre DEF None
<1>4. /\ Len(wire) >= 1 /\ Head(wire) = wire[1]
      /\ wire' \in Seq(Frame) /\ Len(wire') = Len(wire) - 1
      /\ \A p \in 1 .. Len(wire') : wire'[p] = wire[p + 1]
  <2>1. wire \in Seq(Frame) /\ wire # <<>> /\ wire' = Tail(wire)
    BY <1>2 DEF Receive, Frames
  <2>2. Len(wire) # 0
    BY <2>1, EmptySeq
  <2> QED
    BY <1>2, <2>1, <2>2, HeadTailProperties
<1>5. Frames' /\ Places' = 0 .. Len(wire) - 1
  BY <1>4 DEF Frames, Places
<1>6. \A p \in Places' \ {0} :
         /\ p + 1 \in Places \ {0} /\ p + 1 > 1
         /\ wire'[p] = wire[p + 1] /\ Shown'[p] = Shown[p + 1]
  <2>1. \A p \in Places' : Shown'[p] = IF p = 0 THEN screen' ELSE wire'[p].rows
    BY DEF Shown
  <2>2. \A p \in Places' \ {0} :
           p \in 1 .. Len(wire') /\ p + 1 \in Places \ {0} /\ p + 1 > 1
    BY <1>2, <1>4, <1>5
  <2> QED
    BY <1>2, <1>4, <2>1, <2>2
<1>7. \A q \in Places : q > 1 => q - 1 \in Places' \ {0} /\ (q - 1) + 1 = q
  BY <1>2, <1>5
<1>8. /\ 1 \in Places /\ 0 \in Places' /\ Shown'[0] = screen'
      /\ \A p \in Places : p = 0 \/ p = 1 \/ p > 1
      /\ \A p \in Places' : p \in Nat
  BY <1>2, <1>4, <1>5 DEF Shown, Places
<1>9. /\ wire[1].type = "hello" => screen' = Shown[1]
      /\ wire[1].type # "hello" => screen' = Over(Shown[1], Shown[0])
  BY <1>2, <1>4, <1>8 DEF Receive
<1>10. \A p \in Places' : wire[p + 1].type = "hello" => p = 0
  BY <1>6 DEF Pictures, Ordered
<1>11. /\ DOMAIN screen' \subseteq DOMAIN Shown[0] \cup DOMAIN Shown[1]
       /\ DOMAIN Shown[1] \subseteq DOMAIN screen'
       /\ wire[1].type # "hello" => DOMAIN Shown[0] \subseteq DOMAIN screen'
       /\ \A f \in DOMAIN screen' :
            screen'[f] = IF f \in DOMAIN Shown[1] THEN Shown[1][f] ELSE Shown[0][f]
  BY <1>9 DEF Over
<1>12. Faithful'
  BY <1>1, <1>2, <1>6, <1>8, <1>11 DEF Pictures, Faithful, isActive
<1>13. Announced'
  BY <1>1, <1>2, <1>6, <1>8, <1>11 DEF Pictures, Announced
<1>14. Ordered'
  BY <1>1, <1>6, <1>10 DEF Pictures, Ordered, isActive
<1>15. Corrected'
  <2>1. \A p \in Places : DOMAIN Shown[p] \subseteq Ids
    BY DEF Pictures, Faithful
  <2>2. ASSUME NEW p \in Places', NEW q \in Places', p <= q,
               NEW g \in DOMAIN Shown'[p] \ HalfApplied, isActive(Shown'[p][g]),
               fact[g].supersedes \in DOMAIN Shown'[q]
        PROVE  ~isActive(Shown'[q][fact[g].supersedes])
    <3>1. CASE p # 0
      <4>1. q # 0 /\ p + 1 <= q + 1
        BY <1>5, <1>2, <2>2, <3>1
      <4> QED
        BY <1>6, <2>2, <3>1, <4>1 DEF Pictures, Corrected, Corrects
    <3>2. CASE p = 0 /\ q # 0
      <4>0. q \in Nat
        BY <1>8, <2>2
      <4>1. q + 1 \in Places /\ 0 <= q + 1 /\ 1 <= q + 1 /\ Shown'[q] = Shown[q + 1]
        BY <1>6, <2>2, <3>2, <4>0
      <4>2. CASE g \in DOMAIN Shown[1]
        BY <1>8, <1>11, <2>2, <3>2, <4>1, <4>2 DEF Pictures, Corrected, Corrects
      <4>3. CASE g \notin DOMAIN Shown[1]
        <5>1. g \in DOMAIN Shown[0] /\ isActive(Shown[0][g])
          BY <1>8, <1>11, <2>2, <3>2, <4>3
        <5> QED
          BY <1>2, <2>2, <4>1, <5>1 DEF Pictures, Corrected, Corrects
      <4> QED
        BY <4>2, <4>3
    <3>3. CASE p = 0 /\ q = 0
      <4> DEFINE s == fact[g].supersedes
      <4>1. s \in DOMAIN screen' /\ g \in DOMAIN screen' /\ isActive(screen'[g])
        BY <1>8, <2>2, <3>3
      <4>2. /\ Corrects(Shown[0], Shown[0]) /\ Corrects(Shown[0], Shown[1])
            /\ Corrects(Shown[1], Shown[1])
        BY <1>2, <1>8 DEF Pictures, Corrected
      <4>3. CASE s \in DOMAIN Shown[1]
        <5>1. screen'[s] = Shown[1][s]
          BY <1>11, <4>1, <4>3
        <5> QED
          BY <1>8, <1>11, <2>2, <3>3, <4>1, <4>2, <4>3, <5>1 DEF Corrects
      <4>4. CASE s \notin DOMAIN Shown[1]
        <5>1. s \in DOMAIN Shown[0] /\ screen'[s] = Shown[0][s]
          BY <1>11, <4>1, <4>4
        <5>2. s # None
          BY <1>2, <1>3, <2>1, <5>1
        <5>3. wire[1].type # "hello"
          BY <1>9, <4>1, <4>4
        <5>4. g \notin DOMAIN Shown[1]
          BY <1>8, <1>11, <4>1, <4>4, <5>2, <5>3 DEF Pictures, Ordered
        <5>5. g \in DOMAIN Shown[0] /\ screen'[g] = Shown[0][g]
          BY <1>11, <4>1, <5>4
        <5> QED
          BY <1>8, <2>2, <3>3, <4>1, <4>2, <5>1, <5>5 DEF Corrects
      <4> QED
        BY <4>3, <4>4
    <3> QED
      BY <3>1, <3>2, <3>3
  <2> QED
    BY <1>1, <2>2 DEF Corrected, Corrects, isActive
<1>16. ASSUME online' PROVE Reaches'
  <2>1. Reaches
    BY <1>1, <1>16 DEF Pictures
  <2>2. \A p \in Places' \ {0} : wire'[p].type # "hello"
    BY <1>6 DEF Pictures, Ordered
  <2>3. ASSUME NEW f \in Active
        PROVE  \/ at # "idle" /\ event.type = "created" /\ event.fact = f
               \/ \E p \in Places' \ {0} : f \in DOMAIN Shown'[p]
               \/ f \in DOMAIN screen'
    <3>1. ASSUME NEW q \in Places \ {0}, f \in DOMAIN Shown[q] PROVE <2>3!2
      <4>1. CASE q = 1
        BY <1>11, <3>1, <4>1
      <4>2. CASE q > 1
        BY <1>6, <1>7, <3>1, <4>2
      <4> QED
        BY <1>8, <4>1, <4>2
    <3>2. ASSUME f \in DOMAIN screen, wire[1].type # "hello" PROVE f \in DOMAIN screen'
      BY <1>2, <1>11, <3>2
    <3> QED
      BY <1>8, <2>1, <3>1, <3>2 DEF Reaches
  <2> QED
    BY <1>1, <2>2, <2>3 DEF Reaches
<1>17. ASSUME online' PROVE LastWord'
  <2>1. LastWord
    BY <1>1, <1>17 DEF Pictures
  <2>2. ASSUME NEW f \in Ids \ Active, NEW p \in Places', f \in DOMAIN Shown'[p],
               isActive(Shown'[p][f]), ~(at = "emit" /\ f \in {event.fact, event.old})
        PROVE  \E q \in Places' :
                 /\ q > p
                 /\ wire'[q].type # "hello"
                      => f \in DOMAIN Shown'[q] /\ ~isActive(Shown'[q][f])
    <3>1. ASSUME NEW r \in Places, f \in DOMAIN Shown[r], isActive(Shown[r][f])
          PROVE  \E q \in Places :
                   /\ q > r
                   /\ wire[q].type # "hello" => f \in DOMAIN Shown[q] /\ ~isActive(Shown[q][f])
      BY <2>1, <2>2, <3>1 DEF LastWord
    <3>2. ASSUME NEW q \in Places, q > p + 1,
                 wire[q].type # "hello" => f \in DOMAIN Shown[q] /\ ~isActive(Shown[q][f])
          PROVE  \E r \in Places' :
                   /\ r > p
                   /\ wire'[r].type # "hello"
                        => f \in DOMAIN Shown'[r] /\ ~isActive(Shown'[r][f])
      <4>1. q \in Nat /\ p \in Nat
        BY <1>2, <1>8, <2>2
      <4>2. q > 1 /\ q - 1 > p
        BY <3>2, <4>1
      <4>3. /\ q - 1 \in Places' /\ wire'[q - 1] = wire[q] /\ Shown'[q - 1] = Shown[q]
        BY <1>6, <1>7, <4>2
      <4> QED
        BY <3>2, <4>2, <4>3
    <3>3. CASE p # 0
      <4>1. p + 1 \in Places /\ Shown'[p] = Shown[p + 1]
        BY <1>6, <2>2, <3>3
      <4>2. PICK q \in Places :
              /\ q > p + 1
              /\ wire[q].type # "hello" => f \in DOMAIN Shown[q] /\ ~isActive(Shown[q][f])
        BY <2>2, <3>1, <4>1
      <4> QED
        BY <3>2, <4>2
    <3>4. CASE p = 0 /\ f \in DOMAIN Shown[1]
      <4>1. isActive(Shown[1][f])
        BY <1>8, <1>11, <2>2, <3>4
      <4>2. PICK q \in Places :
              /\ q > 1
              /\ wire[q].type # "hello" => f \in DOMAIN Shown[q] /\ ~isActive(Shown[q][f])
        BY <1>8, <3>1, <3>4, <4>1
      <4>3. q > p + 1
        BY <3>4, <4>2
      <4> QED
        BY <3>2, <4>2, <4>3
    <3>5. CASE p = 0 /\ f \notin DOMAIN Shown[1]
      <4>1. /\ f \in DOMAIN Shown[0] /\ isActive(Shown[0][f]) /\ wire[1].type # "hello"
        BY <1>8, <1>9, <1>11, <2>2, <3>5
      <4>2. PICK q \in Places :
              /\ q > 0
              /\ wire[q].type # "hello" => f \in DOMAIN Shown[q] /\ ~isActive(Shown[q][f])
        BY <1>2, <3>1, <4>1
      <4>3. q # 1
        BY <3>5, <4>1, <4>2
      <4>4. q > p + 1
        BY <1>2, <3>5, <4>2, <4>3
      <4> QED
        BY <3>2, <4>2, <4>4
    <3> QED
      BY <3>3, <3>4, <3>5
  <2> QED
    BY <1>1, <2>2 DEF LastWord, isActive
<1> QED
  BY <1>5, <1>12, <1>13, <1>14, <1>15, <1>16, <1>17 DEF Pictures

(* The socket goes, and what was on its way with it.                       *)
LEMMA DisconnectIsPictured ==
  ASSUME Facts, Pictures, Drop \/ CrashAndRestart
  PROVE  Pictures'
<1>1. /\ fact' = fact /\ Ids' = Ids /\ Active' = Active /\ HalfApplied' = HalfApplied
      /\ screen' = screen /\ wire' = <<>> /\ ~online'
  BY DEF Drop, CrashAndRestart, Ids, Active, HalfApplied
<1>2. at' = "idle" \/ (at' = at /\ event' = event)
  BY DEF Drop, CrashAndRestart
<1>3. 0 \in Places /\ Shown[0] = screen
  BY PlacesAre DEF Pictures
<1>4. Frames' /\ Places' = {0}
  BY <1>1, EmptySeq DEF Frames, Places
<1>5. Shown'[0] = Shown[0]
  BY <1>1, <1>3, <1>4 DEF Shown
<1>6. Announced'
  BY <1>1, <1>2, <1>3, <1>4, <1>5 DEF Pictures, Announced
<1>7. Faithful' /\ Ordered' /\ Corrected'
  BY <1>1, <1>3, <1>4, <1>5 DEF Pictures, Faithful, Ordered, Corrected, Corrects, isActive
<1> QED
  BY <1>1, <1>4, <1>6, <1>7 DEF Pictures

LEMMA PicturesKept ==
  ASSUME Facts, Links, Correcting, Pictures, [Next]_vars
  PROVE  Pictures'
<1>0. GoesOn
  BY StepsGoOn
<1>1. \A p \in Places : DOMAIN Shown[p] \subseteq Ids
  BY DEF Pictures, Faithful
<1>2. ASSUME NEW scope \in Scopes, NEW old \in Ids \cup {None}, Record(scope, old)
      PROVE  Pictures'
  <2>1. /\ Ids' = Ids \cup {Len(fact')} /\ Len(fact') \notin Ids
        /\ \A f \in Ids : fact'[f] = fact[f]
        /\ fact'[Len(fact')] = Written(scope, old)
    BY <1>2, RecordAppends
  <2>2. fact'[Len(fact')].supersedes = old
    BY <2>1 DEF Written
  <2>3. /\ UNCHANGED console /\ at = "idle" /\ at' \in {"emit", "invalidate"}
        /\ event'.type = "created" /\ event'.fact = Len(fact') /\ event'.old = old
        /\ at' = "emit" => old = None
    BY <1>2 DEF Record, MayEmit, Idle
  <2>4. Shown' = Shown /\ Places' = Places
    BY <2>3 DEF Shown, Places, console
  <2>5. Announced'
    BY <1>1, <2>1, <2>2, <2>3, <2>4 DEF Announced
  <2>6. HalfApplied \ HalfApplied' = {}
    BY <1>2, HalvesAreLeft DEF Record, Invalidate, MayEmit, Idle, Next
  <2>7. Active \subseteq Active' /\ Active' \subseteq Active \cup {Len(fact')}
    BY <2>1 DEF Active
  <2> QED
    BY <1>0, <2>3, <2>5, <2>6, <2>7, QuietSteps
<1>3. CASE Invalidate
  <2>1. /\ Ids' = Ids /\ event.old \in Active /\ event.fact \in Ids
        /\ \A f \in Ids \ {event.old} : fact'[f] = fact[f]
        /\ fact'[event.old].invalid
        /\ \A f \in Ids : fact'[f].supersedes = fact[f].supersedes
    BY <1>3, InvalidateUpdates
  <2>2. /\ UNCHANGED console /\ at = "invalidate" /\ at' = "emit" /\ event' = event
    BY <1>3 DEF Invalidate
  <2>3. /\ event.type = "created" /\ fact[event.fact].supersedes = event.old
        /\ \A p \in Places : event.fact \notin DOMAIN Shown[p]
    BY <2>2 DEF Pictures, Announced
  <2>4. Announced'
    BY <2>1, <2>2, <2>3 DEF Announced, Active, isActive
  <2>5. Active' = Active \ {event.old}
    BY <2>1 DEF Active, isActive
  <2>6. \A g \in HalfApplied \ HalfApplied' : \A p \in Places : g \notin DOMAIN Shown[p]
    BY <2>3, HalvesAreLeft
  <2> QED
    BY <1>0, <2>2, <2>4, <2>5, <2>6, QuietSteps
<1>4. ASSUME NEW g \in Ids, Retract(g) PROVE Pictures'
  <2>1. /\ Ids' = Ids /\ g \in Active
        /\ \A f \in Ids \ {g} : fact'[f] = fact[f]
        /\ fact'[g].invalid
    BY <1>4, RetractUpdates
  <2>2. /\ UNCHANGED console /\ at = "idle" /\ at' = "emit"
        /\ event'.type = "retracted" /\ event'.fact = g /\ event'.old = None
    BY <1>4 DEF Retract, MayEmit, Idle
  <2>3. Active' = Active \ {g}
    BY <2>1 DEF Active, isActive
  <2>4. Announced'
    BY <2>1, <2>2, <2>3 DEF Announced
  <2>5. HalfApplied \ HalfApplied' = {}
    BY <1>4, HalvesAreLeft DEF Retract, Invalidate, MayEmit, Idle
  <2> QED
    BY <1>0, <2>2, <2>3, <2>4, <2>5, QuietSteps
<1>5. CASE \/ \E t \in Turns : BeginTurn(t) \/ Ranked(t) \/ RecallTool(t) \/ EndTurn(t)
           \/ UNCHANGED vars
  <2>1. SameTruth /\ Ids' = Ids /\ Active' = Active
    BY <1>5, TruthStays, SameTruthGoesOn DEF Otherwise
  <2>2. UNCHANGED <<console, at, event>>
    BY <1>5 DEF BeginTurn, Ranked, RecallTool, EndTurn, vars
  <2>3. Shown' = Shown /\ Places' = Places
    BY <2>2 DEF Shown, Places, console
  <2>4. Announced'
    BY <2>1, <2>2, <2>3 DEF Pictures, Announced, SameTruth
  <2>5. HalfApplied \ HalfApplied' = {}
    BY <2>1 DEF HalfApplied, SameTruth, Links
  <2> QED
    BY <1>0, <2>1, <2>2, <2>4, <2>5, QuietSteps
<1>6. CASE Emit
  BY <1>6, EmitIsPictured
<1>7. CASE Connect
  BY <1>7, ConnectIsPictured
<1>8. CASE Receive
  BY <1>8, ReceiveIsPictured
<1>9. CASE Drop \/ CrashAndRestart
  BY <1>9, DisconnectIsPictured
<1> QED
  BY <1>2, <1>3, <1>4, <1>5, <1>6, <1>7, <1>8, <1>9 DEF Next

(* A console never believes a fact and the one that replaced it, unless a  *)
(* crash halved the correction, and believes what the office does once it  *)
(* has caught up.                                                          *)
THEOREM ConsolesHoldOneBelief == Spec => []OneBeliefOnScreen
<1>1. Init => Pictures
  <2> SUFFICES ASSUME Init PROVE Pictures
    OBVIOUS
  <2>1. wire = <<>> /\ screen = <<>> /\ ~online /\ at = "idle"
    BY DEF Init
  <2>2. Frames /\ Places = {0}
    BY <2>1, EmptySeq DEF Frames, Places
  <2>3. DOMAIN Shown[0] = {}
    BY <2>1, <2>2 DEF Shown
  <2> QED
    BY <2>1, <2>2, <2>3 DEF Pictures, Announced, Faithful, Ordered, Corrected, Corrects
<1>2. IInv /\ Pictures /\ [Next]_vars => Pictures'
  BY PicturesKept DEF IInv
<1>3. IInv /\ Pictures => OneBeliefOnScreen
  <2> SUFFICES ASSUME IInv, Pictures PROVE OneBeliefOnScreen
    OBVIOUS
  <2>1. 0 \in Places /\ Shown[0] = screen
    BY PlacesAre DEF Pictures
  <2>2. Believed \subseteq Ids /\ Active \subseteq Ids
    BY <2>1 DEF Pictures, Faithful, Believed, Active
  <2>3. ASSUME NEW g \in Believed, screen[g].supersedes \in Believed
        PROVE  g \in HalfApplied
    <3>1. screen[g].supersedes = fact[g].supersedes
      BY <2>1, <2>3 DEF Pictures, Faithful, Believed
    <3>2. Corrects(screen, screen)
      BY <2>1 DEF Pictures, Corrected
    <3> QED
      BY <2>3, <3>1, <3>2 DEF Corrects, Believed
  <2>4. ASSUME online, wire = <<>>, Idle PROVE Believed = Active
    <3>1. Places = {0}
      BY <2>4, EmptySeq DEF Places
    <3>2. Reaches /\ LastWord
      BY <2>4 DEF Pictures
    <3>3. Active \subseteq Believed
      BY <2>1, <2>4, <3>1, <3>2 DEF Reaches, Pictures, Faithful, Believed, Idle
    <3>4. \A f \in Believed : f \in Active
      BY <2>1, <2>2, <2>4, <3>1, <3>2 DEF LastWord, Believed, Idle
    <3> QED
      BY <3>3, <3>4
  <2> QED
    BY <2>3, <2>4 DEF OneBeliefOnScreen
<1> QED
  BY <1>1, <1>2, <1>3, Invariant, PTL DEF Spec
=============================================================================
