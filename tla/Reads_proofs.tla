----------------------------- MODULE Reads_proofs -----------------------------
(***************************************************************************)
(* Proofs about what MCReads puts side by side: the cached follow set, for *)
(* any authors and any number of concurrent requests and calls; the walk   *)
(* over a prepared timeline, for any posts, scores and sizes, whatever     *)
(* changes around it; and the stores a process closes last.                *)
(***************************************************************************)
EXTENDS MCReads, Sequences, FiniteSetTheorems, NaturalsInduction, TLAPS

(* Cardinality is the one of FiniteSets also as FollowingCache sees it.    *)
LEMMA SameCardinality == \A S : Cache!Cardinality(S) = Cardinality(S)
BY DEF Cardinality, Cache!Cardinality

(* The entry is a set of at most one set.                                  *)
LEMMA SmallSets == Cache!Cardinality({}) <= 1 /\ \A x : Cache!Cardinality({x}) <= 1
<1>1. Cardinality({}) = 0
  BY FS_EmptySet, Zenon
<1>2. \A x : Cardinality({x}) = 1
  BY FS_Singleton, Zenon
<1>3. QED
  BY <1>1, <1>2, SameCardinality

(* The initial state has the types.                                        *)
LEMMA InitTypeOK == Cache!Init => Cache!TypeOK
<1> SUFFICES ASSUME Cache!Init PROVE Cache!TypeOK
  OBVIOUS
<1>1. Cache!Cardinality(cache) <= 1
  BY SmallSets DEF Cache!Init
<1> QED  BY <1>1 DEF Cache!Init, Cache!TypeOK, Cache!NotAsking

(* Every step keeps every variable in its type; the cache holds one entry. *)
LEMMA NextTypeOK == Cache!TypeOK /\ [Cache!Next]_Cache!vars => Cache!TypeOK'
<1> SUFFICES ASSUME Cache!TypeOK, [Cache!Next]_Cache!vars PROVE Cache!TypeOK'
  OBVIOUS
<1> USE DEF Cache!TypeOK
<1>1. Cache!Cardinality({}) <= 1
  BY SmallSets
<1>2. ASSUME NEW r \in Requests, Cache!Ask(r) \/ Cache!QueryFails(r) PROVE Cache!TypeOK'
  <2>1. CASE Cache!Hit(r)
    BY <2>1 DEF Cache!Hit
  <2>2. CASE Cache!LookUpFails(r) \/ Cache!Query(r)
    BY <2>2 DEF Cache!LookUpFails, Cache!Query
  <2>3. CASE Cache!Fill(r)
    <3>1. Cache!Cardinality(cache') <= 1
      BY <2>3, SmallSets DEF Cache!Fill
    <3>2. overtaken' = TRUE \/ overtaken' = FALSE
      BY <2>3 DEF Cache!Fill
    <3>3. req[r].ids \subseteq Authors
      OBVIOUS
    <3>4. req' \in [Requests -> [pc : {"idle", "query", "fill", "filter"},
                                ids : SUBSET Authors]]
      BY <2>3 DEF Cache!Fill
    <3> QED  BY <2>3, <3>1, <3>2, <3>3, <3>4 DEF Cache!Fill
  <2>4. CASE Cache!FillFails(r) \/ Cache!QueryFails(r)
    BY <2>4 DEF Cache!FillFails, Cache!QueryFails, Cache!NotAsking
  <2>5. CASE Cache!Filter(r)
    BY <2>5 DEF Cache!Filter, Cache!NotAsking
  <2> QED  BY <1>2, <2>1, <2>2, <2>3, <2>4, <2>5 DEF Cache!Ask
<1>3. ASSUME NEW m \in Mutations, Cache!Change(m) PROVE Cache!TypeOK'
  <2>1. ASSUME NEW a \in Authors, Cache!Commit(m, a) PROVE Cache!TypeOK'
    BY <2>1 DEF Cache!Commit
  <2>2. CASE Cache!InvalidateFollowingIDs(m)
    BY <1>1, <2>2 DEF Cache!InvalidateFollowingIDs
  <2>3. CASE Cache!InvalidateFails(m)
    <3>1. missed' \in BOOLEAN
      BY <2>3 DEF Cache!InvalidateFails
    <3> QED  BY <2>3, <3>1 DEF Cache!InvalidateFails
  <2> QED  BY <1>3, <2>1, <2>2, <2>3 DEF Cache!Change, Cache!End
<1>4. CASE Cache!Expire
  BY <1>1, <1>4 DEF Cache!Expire
<1>5. CASE UNCHANGED Cache!vars
  BY <1>5 DEF Cache!vars
<1> QED  BY <1>2, <1>3, <1>4, <1>5 DEF Cache!Next

(* Every variable has its type in every reachable state.                   *)
THEOREM CacheTypeCorrect == Cache!Spec => []Cache!TypeOK
BY InitTypeOK, NextTypeOK, PTL DEF Cache!Spec

-----------------------------------------------------------------------------
(* StaleOnlyByLossOrRace is inductive on typed states: a commit leaves its *)
(* call pending until the entry is deleted or the delete is known lost.    *)
CacheInv == Cache!TypeOK /\ Cache!StaleOnlyByLossOrRace

LEMMA NextCacheInv == CacheInv /\ [Cache!Next]_Cache!vars => CacheInv'
<1> SUFFICES ASSUME CacheInv, [Cache!Next]_Cache!vars PROVE Cache!StaleOnlyByLossOrRace'
  BY NextTypeOK DEF CacheInv
<1> USE DEF Cache!StaleOnlyByLossOrRace
<1>0. Cache!TypeOK /\ Cache!TypeOK'
  BY NextTypeOK DEF CacheInv
<1>1. ASSUME NEW r \in Requests, Cache!Ask(r) \/ Cache!QueryFails(r)
      PROVE  Cache!StaleOnlyByLossOrRace'
  <2>1. CASE Cache!Fill(r)
    BY <2>1 DEF Cache!Fill
  <2>2. CASE \/ Cache!Hit(r) \/ Cache!LookUpFails(r) \/ Cache!Query(r) \/ Cache!FillFails(r)
             \/ Cache!Filter(r) \/ Cache!QueryFails(r)
    BY <2>2 DEF CacheInv, Cache!Hit, Cache!LookUpFails, Cache!Query, Cache!FillFails,
                Cache!Filter, Cache!QueryFails
  <2> QED  BY <1>1, <2>1, <2>2 DEF Cache!Ask
<1>2. ASSUME NEW m \in Mutations, Cache!Change(m) PROVE Cache!StaleOnlyByLossOrRace'
  <2>1. ASSUME NEW a \in Authors, Cache!Commit(m, a) PROVE Cache!StaleOnlyByLossOrRace'
    <3>1. call'[m] = "delete"
      BY <1>0, <2>1 DEF Cache!Commit, Cache!TypeOK
    <3> QED  BY <3>1
  <2>2. CASE Cache!InvalidateFollowingIDs(m)
    BY <2>2 DEF Cache!InvalidateFollowingIDs
  <2>3. CASE Cache!InvalidateFails(m)
    BY <2>3 DEF Cache!InvalidateFails
  <2> QED  BY <1>2, <2>1, <2>2, <2>3 DEF Cache!Change, Cache!End
<1>3. CASE Cache!Expire
  BY <1>3 DEF Cache!Expire
<1>4. CASE UNCHANGED Cache!vars
  BY <1>4 DEF CacheInv, Cache!vars
<1> QED  BY <1>1, <1>2, <1>3, <1>4 DEF Cache!Next

(* When no call is under way, a cached set that differs from the follow    *)
(* graph is there because a delete was lost or because a fill from an      *)
(* older query overtook a commit (FollowService and followingResolver.get), *)
(* for any number of requests and calls.                                   *)
THEOREM StalenessExplained == Cache!Spec => []StaleOnlyByLossOrRace
<1>1. Cache!Init => CacheInv
  BY InitTypeOK DEF Cache!Init, CacheInv, Cache!StaleOnlyByLossOrRace
<1>2. CacheInv => StaleOnlyByLossOrRace
  BY DEF CacheInv, StaleOnlyByLossOrRace
<1>3. QED
  BY <1>1, <1>2, NextCacheInv, PTL DEF Cache!Spec

(* The follow set is cached as FollowingCache says, whatever walk, edit of *)
(* the settings or process MCReads puts beside it.                         *)
THEOREM CacheApart == MCSpec => Cache!Spec
<1>1. MCInit => Cache!Init
  BY DEF MCInit
<1>2. [MCNext]_all => [Cache!Next]_Cache!vars
  BY DEF MCNext, Walking, Filtering, Setting, Living, all, cacheVars, Cache!vars
<1>3. QED
  BY <1>1, <1>2, PTL DEF MCSpec, Cache!Spec

-----------------------------------------------------------------------------
(* The walk over a prepared timeline.  A position is a pair of numbers.    *)
LEMMA PositionPairs ==
  \A x \in Position : x[1] \in Nat /\ x[2] \in Nat /\ x[2] \in Posts /\ x = <<x[1], x[2]>>
<1> SUFFICES ASSUME NEW x \in Position
             PROVE  x[1] \in Nat /\ x[2] \in Nat /\ x[2] \in Posts /\ x = <<x[1], x[2]>>
  OBVIOUS
<1>1. x[1] \in Scores /\ x[2] \in Posts /\ x = <<x[1], x[2]>>
  BY DEF Position
<1> QED  BY <1>1, ScoresAssumption, PostsAssumption

(* Positions are a strict linear order below Top.                          *)
LEMMA BelowOrders ==
  /\ \A x \in Position : x # Top /\ Below(x, Top) /\ ~Below(x, x)
  /\ \A x, y \in Position, z \in Position \cup {Top} :
       Below(x, y) /\ Below(y, z) => Below(x, z)
  /\ \A x, y \in Position : x = y \/ Below(x, y) \/ Below(y, x)
<1>1. \A x \in Position : x # Top
  BY DEF Position, Top
<1>2. \A x \in Position : x[1] \in Nat /\ x[2] \in Nat /\ x = <<x[1], x[2]>>
  BY PositionPairs
<1>3. \A x \in Position : Below(x, Top) /\ ~Below(x, x)
  BY <1>1, <1>2 DEF Below
<1>4. ASSUME NEW x \in Position, NEW y \in Position, NEW z \in Position \cup {Top},
             Below(x, y), Below(y, z)
      PROVE  Below(x, z)
  <2>1. CASE z = Top
    BY <2>1, <1>3
  <2>2. CASE z \in Position
    BY <1>1, <1>2, <1>4, <2>2 DEF Below
  <2> QED  BY <2>1, <2>2
<1>5. ASSUME NEW x \in Position, NEW y \in Position
      PROVE  x = y \/ Below(x, y) \/ Below(y, x)
  BY <1>2 DEF Below
<1> QED  BY <1>1, <1>3, <1>4, <1>5

(* A timeline has finitely many entries.                                   *)
LEMMA EntriesFinite ==
  ASSUME score \in [Posts -> Scores \cup {Absent}]
  PROVE  IsFiniteSet(Entries) /\ Entries \subseteq Position
<1> DEFINE There == {q \in Posts : score[q] # Absent}
           f == [q \in There |-> <<score[q], q>>]
<1>1. IsFiniteSet(There)
  BY FS_Subset, PostsAssumption
<1>2. f \in Surjection(There, Entries)
  BY DEF Surjection, Entries
<1>3. IsFiniteSet(Entries)
  BY <1>1, <1>2, FS_Surjection
<1>4. Entries \subseteq Position
  BY DEF Entries, Position
<1> QED  BY <1>3, <1>4

(* A page takes the highest positions: what is left out ranks below all of *)
(* it, and nothing is left out when there is room.                         *)
LEMMA FirstTakesHighest ==
  ASSUME NEW S, S \subseteq Position, IsFiniteSet(S), NEW n \in Nat
  PROVE  /\ First(S, n) \subseteq S
         /\ IsFiniteSet(First(S, n))
         /\ \A x \in S \ First(S, n) : \A y \in First(S, n) : Below(x, y)
         /\ Cardinality(S) <= n => First(S, n) = S
<1> DEFINE Above(x) == {y \in S : Below(x, y)}
<1>1. First(S, n) \subseteq S
  BY DEF First
<1>2. IsFiniteSet(First(S, n))
  BY <1>1, FS_Subset
<1>3. \A x \in S : IsFiniteSet(Above(x)) /\ Cardinality(Above(x)) \in Nat
  BY FS_Subset, FS_CardinalityType
<1>4. ASSUME NEW x \in S \ First(S, n), NEW y \in First(S, n)
      PROVE  Below(x, y)
  <2>1. ~(Cardinality(Above(x)) < n) /\ Cardinality(Above(y)) < n /\ y \in S
    BY <1>4 DEF First
  <2>2. ASSUME Below(y, x) PROVE FALSE
    <3>1. Above(x) \subseteq Above(y)
      BY <1>4, <2>1, <2>2, BelowOrders
    <3>2. Cardinality(Above(x)) <= Cardinality(Above(y))
      BY <3>1, <1>3, <2>1, FS_Subset
    <3> HIDE DEF Above
    <3> QED  BY <1>4, <2>1, <3>2, <1>3
  <2>3. x # y
    BY <1>4
  <2> QED  BY <2>1, <2>2, <2>3, BelowOrders
<1>5. ASSUME Cardinality(S) <= n, NEW x \in S
      PROVE  x \in First(S, n)
  <2>1. Above(x) \subseteq S /\ x \notin Above(x)
    BY BelowOrders
  <2>2. Cardinality(Above(x)) <= Cardinality(S) /\ Cardinality(Above(x)) # Cardinality(S)
    BY <2>1, FS_Subset
  <2>3. Cardinality(S) \in Nat
    BY FS_CardinalityType
  <2> QED  BY <1>3, <1>5, <2>2, <2>3 DEF First
<1> QED  BY <1>1, <1>2, <1>4, <1>5

(* The last item of a page is its lowest.                                  *)
LEMMA LastIsLowest ==
  ASSUME NEW S, S \subseteq Position, S # {}
  PROVE  Last(S) \in S /\ \A y \in S \ {Last(S)} : Below(Last(S), y)
<1>1. ASSUME NEW T, T \subseteq Nat, T # {} PROVE \E a \in T : \A b \in T : a <= b
  <2>1. PICK a \in T : \A b \in T : ~(<<b, a>> \in OpToRel(<, Nat))
    BY <1>1, NatLessThanWellFounded, WFMin, Zenon
  <2>2. \A b \in T : ~(b < a)
    BY <1>1, <2>1, Zenon DEF OpToRel
  <2> QED  BY <1>1, <2>2
<1> DEFINE Firsts == {x[1] : x \in S}
<1>2. PICK a \in Firsts : \A b \in Firsts : a <= b
  <2>1. Firsts \subseteq Nat /\ Firsts # {}
    BY PositionPairs
  <2> HIDE DEF Firsts
  <2> QED  BY <1>1, <2>1
<1> DEFINE Seconds == {x[2] : x \in {y \in S : y[1] = a}}
<1>3. PICK c \in Seconds : \A b \in Seconds : c <= b
  <2>1. Seconds \subseteq Nat /\ Seconds # {}
    BY PositionPairs
  <2> HIDE DEF Seconds
  <2> QED  BY <1>1, <2>1
<1>4. PICK x \in S : x[1] = a /\ x[2] = c
  OBVIOUS
<1>5. ASSUME NEW y \in S \ {x} PROVE Below(x, y)
  <2>1. x[1] <= y[1] /\ (y[1] = a => x[2] <= y[2])
    BY <1>2, <1>3, <1>4
  <2>2. ~Below(y, x)
    BY <1>4, <2>1, PositionPairs, BelowOrders DEF Below
  <2> QED  BY <2>2, BelowOrders
<1> QED  BY <1>5 DEF Last

-----------------------------------------------------------------------------
(* Between two pages, what was shown and has not moved ranks at or above   *)
(* the cursor.  Between the two steps of a request, its window lies below  *)
(* the cursor, its unmoved positions are still right, and an unmoved entry *)
(* below the cursor is in it or ranks below all of it.                     *)
Unmoved(x) == x[2] \notin moved

ShownAbove ==
  pc \in {"ask", "hydrate"} =>
    \A p \in shown \ moved :
      score[p] # Absent /\ cursor # Top /\ ~Below(<<score[p], p>>, cursor)

WindowRight ==
  pc = "hydrate" =>
    \A x \in window : Below(x, cursor) /\ (Unmoved(x) => score[x[2]] = x[1])

WindowWhole ==
  pc = "hydrate" =>
    \A x \in Entries :
      Unmoved(x) /\ Below(x, cursor) =>
        x \in window \/ (hasMore /\ \A y \in window : Below(x, y))

VisibleUnlessBlinked == Posts \ blinked \subseteq eligible

WalkInv ==
  /\ TypeOK /\ IsFiniteSet(window)
  /\ VisibleUnlessBlinked /\ ShownAbove /\ WindowRight /\ WindowWhole
  /\ NoRepeats /\ NothingSkipped

(* What an entry is.                                                       *)
LEMMA EntryIs ==
  \A x : x \in Entries <=>
           \E p \in Posts : score[p] # Absent /\ x = <<score[p], p>>
BY DEF Entries

(* The store's read: an entry below the cursor that is not in the window   *)
(* ranks below all of it, and then there is more.                          *)
LEMMA NextReadPage == WalkInv /\ ReadPage => WalkInv'
<1> SUFFICES ASSUME WalkInv, ReadPage PROVE WalkInv'
  OBVIOUS
<1> DEFINE U == Unread(cursor)
<1>0. TypeOK
  BY DEF WalkInv
<1>1. /\ UNCHANGED <<score, eligible, cursor, shown, again, moved, blinked, changes>>
      /\ pc = "ask" /\ pc' = "hydrate"
      /\ window' = First(U, WindowSize)
      /\ hasMore' = (Cardinality(U) > WindowSize)
  BY DEF ReadPage, history
<1>2. Entries' = Entries
  BY <1>1 DEF Entries
<1>3. U \subseteq Entries /\ U \subseteq Position /\ IsFiniteSet(U)
  BY <1>0, EntriesFinite, FS_Subset DEF Unread, TypeOK
<1>4. /\ window' \subseteq U /\ IsFiniteSet(window')
      /\ \A x \in U \ window' : \A y \in window' : Below(x, y)
      /\ Cardinality(U) <= WindowSize => window' = U
  BY <1>1, <1>3, FirstTakesHighest, SizesAssumption
<1>5. Cardinality(U) \in Nat /\ WindowSize \in Nat
  BY <1>3, FS_CardinalityType, SizesAssumption
<1>6. TypeOK'
  BY <1>0, <1>1, <1>3, <1>4 DEF TypeOK
<1>7. VisibleUnlessBlinked' /\ ShownAbove' /\ NoRepeats'
  BY <1>1 DEF WalkInv, VisibleUnlessBlinked, ShownAbove, NoRepeats
<1>8. WindowRight'
  <2> SUFFICES ASSUME NEW x \in window' PROVE Below(x, cursor) /\ score[x[2]] = x[1]
    BY <1>1 DEF WindowRight
  <2>1. x \in Entries /\ Below(x, cursor)
    BY <1>3, <1>4 DEF Unread
  <2> QED  BY <2>1, EntryIs
<1>9. WindowWhole'
  <2> SUFFICES ASSUME NEW x \in Entries, Below(x, cursor)
               PROVE  x \in window' \/ (hasMore' /\ \A y \in window' : Below(x, y))
    BY <1>1, <1>2 DEF WindowWhole
  <2>1. x \in U
    BY DEF Unread
  <2>2. CASE x \notin window'
    <3>1. Cardinality(U) > WindowSize
      BY <1>4, <1>5, <2>1, <2>2
    <3>2. hasMore'
      BY <1>1, <3>1
    <3> QED  BY <1>4, <2>1, <2>2, <3>2
  <2> QED  BY <2>2
<1>10. NothingSkipped'
  BY <1>1, <1>2 DEF WalkInv, NothingSkipped, Passed
<1> QED  BY <1>4, <1>6, <1>7, <1>8, <1>9, <1>10 DEF WalkInv

(* Hydration: a post the page shows was not shown before, unless it moved, *)
(* and a visible entry the page leaves out ranks below its last item.      *)
LEMMA NextServe == WalkInv /\ Serve => WalkInv'
<1> SUFFICES ASSUME WalkInv, Serve PROVE WalkInv'
  OBVIOUS
<1>0. TypeOK /\ pc = "hydrate"
  BY DEF WalkInv, Serve
<1>1. UNCHANGED <<score, eligible, moved, blinked, changes>>
  BY DEF Serve
<1>2. /\ shown' = shown \cup Ids(Items)
      /\ again' = again \cup (Ids(Items) \cap shown)
      /\ window' = {} /\ hasMore' = FALSE
  BY DEF Serve
<1>3. Entries' = Entries /\ Entries \subseteq Position
  BY <1>0, <1>1, EntriesFinite DEF Entries, TypeOK
<1>4. Visible \subseteq window /\ Visible \subseteq Position /\ IsFiniteSet(Visible)
  BY <1>0, FS_Subset DEF Visible, WalkInv, TypeOK
<1>5. /\ Items \subseteq Visible
      /\ \A x \in Visible \ Items : \A y \in Items : Below(x, y)
      /\ Cardinality(Visible) <= PageSize => Items = Visible
  BY <1>4, FirstTakesHighest, SizesAssumption DEF Items
<1>6. \A x \in Items : /\ x \in Position /\ x \in window /\ Below(x, cursor)
                       /\ Unmoved(x) => score[x[2]] = x[1]
  BY <1>0, <1>4, <1>5 DEF WalkInv, WindowRight
<1>7. Ids(Items) \subseteq Posts
  BY <1>6, PositionPairs DEF Ids
<1>8. Ids(Items) \cap shown \subseteq moved
  <2> SUFFICES ASSUME NEW x \in Items, x[2] \in shown, Unmoved(x) PROVE FALSE
    BY DEF Ids, Unmoved
  <2>1. ~Below(<<score[x[2]], x[2]>>, cursor)
    BY <1>0 DEF WalkInv, ShownAbove, Unmoved
  <2>2. <<score[x[2]], x[2]>> = x
    BY <1>6, PositionPairs
  <2> QED  BY <1>6, <2>1, <2>2
<1>9. NoRepeats' /\ VisibleUnlessBlinked'
  BY <1>1, <1>2, <1>8 DEF WalkInv, NoRepeats, VisibleUnlessBlinked
\* An entry that is due and was not shown before this page is still visible.
<1>10. ASSUME NEW x \in Entries, x[2] \notin shown \cup moved \cup blinked
       PROVE  /\ Below(x, cursor) /\ x \in Position /\ x[2] \in eligible
              /\ x \in window \/ (hasMore /\ \A y \in window : Below(x, y))
  <2>1. x \in Position /\ x[2] \in Posts
    BY <1>3, PositionPairs
  <2>2. Below(x, cursor)
    <3>1. ~Passed(x)
      BY <1>10 DEF WalkInv, NothingSkipped
    <3> QED  BY <3>1, <2>1, BelowOrders DEF Passed
  <2> QED  BY <1>0, <1>10, <2>1, <2>2 DEF WalkInv, WindowWhole, VisibleUnlessBlinked, Unmoved
<1>11. CASE Items # {} /\ MorePages /\ pc' = "ask" /\ cursor' = Last(Items)
  <2>1. Last(Items) \in Items /\ \A y \in Items \ {Last(Items)} : Below(Last(Items), y)
    BY <1>6, <1>11, LastIsLowest
  <2>2. cursor' \in Position /\ cursor' # Top /\ Below(cursor', cursor) /\ cursor' \in window
    BY <1>6, <1>11, <2>1, BelowOrders
  <2>3. TypeOK'
    BY <1>0, <1>1, <1>2, <1>7, <1>11, <2>2 DEF TypeOK
  <2>4. ShownAbove'
    <3> SUFFICES ASSUME NEW p \in shown', p \notin moved
                 PROVE  score[p] # Absent /\ ~Below(<<score[p], p>>, cursor')
      BY <1>1, <2>2 DEF ShownAbove
    <3>1. CASE p \in shown
      <4>1. score[p] # Absent /\ ~Below(<<score[p], p>>, cursor) /\ p \in Posts
        BY <1>0, <3>1 DEF WalkInv, ShownAbove, TypeOK
      <4>2. <<score[p], p>> \in Position
        BY <1>0, <4>1 DEF TypeOK, Position
      <4> QED  BY <1>0, <2>2, <4>1, <4>2, BelowOrders DEF TypeOK
    <3>2. CASE p \in Ids(Items)
      <4>1. PICK x \in Items : x[2] = p
        BY <3>2 DEF Ids
      <4>2. x = <<score[p], p>> /\ score[p] # Absent
        <5>1. x \in Position /\ score[p] = x[1]
          BY <1>6, <4>1 DEF Unmoved
        <5> QED  BY <4>1, <5>1, PositionPairs DEF Absent
      <4>3. ~Below(x, cursor')
        BY <1>6, <1>11, <2>1, BelowOrders
      <4> QED  BY <4>2, <4>3
    <3> QED  BY <1>2, <3>1, <3>2
  <2>5. NothingSkipped'
    <3> SUFFICES ASSUME NEW x \in Entries, ~Below(x, cursor'),
                        x[2] \notin shown' \cup moved \cup blinked
                 PROVE  FALSE
      BY <1>1, <1>3, <1>11 DEF NothingSkipped, Passed
    <3>1. /\ x \in Position /\ x[2] \in eligible
          /\ x \in window \/ \A y \in window : Below(x, y)
      BY <1>2, <1>10
    <3>2. x \in Visible
      BY <2>2, <3>1 DEF Visible
    <3>3. x \in Items
      BY <1>5, <1>11, <2>1, <3>2
    <3> QED  BY <1>2, <3>3 DEF Ids
  <2> QED  BY <1>2, <1>9, <1>11, <2>3, <2>4, <2>5, FS_EmptySet
       DEF WalkInv, WindowRight, WindowWhole
<1>12. CASE Items # {} /\ ~MorePages /\ pc' = "end" /\ UNCHANGED cursor
  <2>1. TypeOK'
    BY <1>0, <1>1, <1>2, <1>7, <1>12 DEF TypeOK
  <2>2. ~hasMore /\ Items = Visible
    <3>1. Cardinality(Visible) \in Nat /\ PageSize \in Nat
      BY <1>4, FS_CardinalityType, SizesAssumption
    <3> QED  BY <1>5, <1>12, <3>1 DEF MorePages
  <2>3. NothingSkipped'
    <3> SUFFICES ASSUME NEW x \in Entries, x[2] \notin shown' \cup moved \cup blinked
                 PROVE  FALSE
      BY <1>1, <1>3 DEF NothingSkipped
    <3>1. x \in Visible
      BY <1>2, <1>10, <2>2 DEF Visible
    <3> QED  BY <1>2, <2>2, <3>1 DEF Ids
  <2> QED  BY <1>2, <1>9, <1>12, <2>1, <2>3, FS_EmptySet
       DEF WalkInv, ShownAbove, WindowRight, WindowWhole
<1>13. CASE Items = {} /\ pc' = "done" /\ UNCHANGED cursor
  <2>1. TypeOK'
    BY <1>0, <1>1, <1>2, <1>7, <1>13 DEF TypeOK
  <2>2. NothingSkipped'
    BY <1>1, <1>2, <1>3, <1>13 DEF WalkInv, NothingSkipped, Passed
  <2> QED  BY <1>2, <1>9, <1>13, <2>1, <2>2, FS_EmptySet
       DEF WalkInv, ShownAbove, WindowRight, WindowWhole
<1> QED  BY <1>11, <1>12, <1>13 DEF Serve

(* A request that fails ends the walk; what was shown stays shown.         *)
LEMMA NextReadFails == WalkInv /\ ReadFails => WalkInv'
<1> SUFFICES ASSUME WalkInv, ReadFails PROVE WalkInv'
  OBVIOUS
<1>1. /\ UNCHANGED <<score, eligible, cursor, shown, again, moved, blinked, changes>>
      /\ pc' = "done" /\ window' = {} /\ hasMore' = FALSE
  BY DEF ReadFails, history
<1>2. Entries' = Entries
  BY <1>1 DEF Entries
<1>3. TypeOK'
  BY <1>1 DEF WalkInv, TypeOK
<1>4. NothingSkipped'
  BY <1>1, <1>2 DEF WalkInv, NothingSkipped, Passed
<1> QED  BY <1>1, <1>3, <1>4, FS_EmptySet
     DEF WalkInv, VisibleUnlessBlinked, ShownAbove, WindowRight, WindowWhole, NoRepeats

(* What goes on around a walk: a post whose score changes has moved, and   *)
(* one whose visibility changes has blinked.                               *)
LEMMA EnvironmentIs ==
  TypeOK /\ Environment =>
    /\ pc \in {"ask", "hydrate"}
    /\ UNCHANGED <<pc, cursor, window, hasMore, shown, again>>
    /\ score' \in [Posts -> Scores \cup {Absent}] /\ eligible' \subseteq Posts
    /\ moved \subseteq moved' /\ moved' \subseteq Posts
    /\ blinked \subseteq blinked' /\ blinked' \subseteq Posts
    /\ changes' \in 0..MaxChanges
    /\ \A p \in Posts \ moved' : score'[p] = score[p]
    /\ \A p \in Posts \ blinked' : p \in eligible' <=> p \in eligible
<1> SUFFICES ASSUME TypeOK, Environment
             PROVE  /\ pc \in {"ask", "hydrate"}
                    /\ UNCHANGED <<pc, cursor, window, hasMore, shown, again>>
                    /\ score' \in [Posts -> Scores \cup {Absent}] /\ eligible' \subseteq Posts
                    /\ moved \subseteq moved' /\ moved' \subseteq Posts
                    /\ blinked \subseteq blinked' /\ blinked' \subseteq Posts
                    /\ changes' \in 0..MaxChanges
                    /\ \A p \in Posts \ moved' : score'[p] = score[p]
                    /\ \A p \in Posts \ blinked' : p \in eligible' <=> p \in eligible
  OBVIOUS
<1> USE ChangesAssumption DEF TypeOK, Change, walk
<1>1. CASE \E p \in Posts : RemovePost(p)
  BY <1>1 DEF RemovePost
<1>2. CASE \E p \in Posts : SetEligible(p)
  BY <1>2 DEF SetEligible
<1>3. CASE \E p \in Posts, s \in Scores : AddPost(p, s)
  BY <1>3 DEF AddPost
<1>4. CASE \E new \in [Posts -> Scores \cup {Absent}] : ReplacePosts(new)
  BY <1>4 DEF ReplacePosts
<1> QED  BY <1>1, <1>2, <1>3, <1>4 DEF Environment

LEMMA NextEnvironment == WalkInv /\ Environment => WalkInv'
<1> SUFFICES ASSUME WalkInv, Environment PROVE WalkInv'
  OBVIOUS
<1>0. TypeOK
  BY DEF WalkInv
<1>1. /\ pc \in {"ask", "hydrate"}
      /\ UNCHANGED <<pc, cursor, window, hasMore, shown, again>>
      /\ score' \in [Posts -> Scores \cup {Absent}] /\ eligible' \subseteq Posts
      /\ moved \subseteq moved' /\ moved' \subseteq Posts
      /\ blinked \subseteq blinked' /\ blinked' \subseteq Posts
      /\ changes' \in 0..MaxChanges
      /\ \A p \in Posts \ moved' : score'[p] = score[p]
      /\ \A p \in Posts \ blinked' : p \in eligible' <=> p \in eligible
  BY <1>0, EnvironmentIs
<1>2. TypeOK'
  BY <1>0, <1>1 DEF TypeOK
<1>3. \A x \in Entries' : x[2] \notin moved' => x \in Entries /\ x[2] \notin moved
  <2> SUFFICES ASSUME NEW p \in Posts, score'[p] # Absent, p \notin moved'
               PROVE  <<score'[p], p>> \in Entries /\ p \notin moved
    BY DEF Entries
  <2> QED  BY <1>1, EntryIs
<1>4. VisibleUnlessBlinked' /\ NoRepeats'
  BY <1>0, <1>1 DEF WalkInv, VisibleUnlessBlinked, NoRepeats, TypeOK
<1>5. ShownAbove'
  BY <1>0, <1>1 DEF WalkInv, ShownAbove, TypeOK
<1>6. WindowRight'
  <2> SUFFICES ASSUME pc = "hydrate", NEW x \in window
               PROVE  Below(x, cursor) /\ (x[2] \notin moved' => score'[x[2]] = x[1])
    BY <1>1 DEF WindowRight, Unmoved
  <2>1. x[2] \in Posts
    BY <1>0, PositionPairs DEF TypeOK
  <2> QED  BY <1>1, <2>1 DEF WalkInv, WindowRight, Unmoved
<1>7. WindowWhole'
  BY <1>1, <1>3 DEF WalkInv, WindowWhole, Unmoved
<1>8. NothingSkipped'
  BY <1>1, <1>3 DEF WalkInv, NothingSkipped, Passed
<1> QED  BY <1>1, <1>2, <1>4, <1>5, <1>6, <1>7, <1>8 DEF WalkInv

(* Pages neither repeat nor skip: cursorPaginator and the prepared         *)
(* timeline's ReadPage, hydration and MorePages together, for any posts,   *)
(* scores and sizes of page and window, whatever changes around the walk.  *)
THEOREM PagesAreTheTimeline == Spec => []PagesExact
<1>1. Init => WalkInv
  <2> SUFFICES ASSUME Init PROVE WalkInv
    OBVIOUS
  <2>1. TypeOK
    <3>1. 0 \in 0..MaxChanges
      BY ChangesAssumption
    <3> QED  BY <3>1 DEF Init, TypeOK
  <2>2. IsFiniteSet(window)
    BY FS_EmptySet DEF Init
  <2> QED  BY <2>1, <2>2 DEF Init, WalkInv, VisibleUnlessBlinked, ShownAbove, WindowRight,
              WindowWhole, NoRepeats, NothingSkipped, Passed
<1>2. WalkInv /\ [Next]_vars => WalkInv'
  <2> SUFFICES ASSUME WalkInv, [Next]_vars PROVE WalkInv'
    OBVIOUS
  <2>1. CASE UNCHANGED vars
    BY <2>1 DEF vars, walk, history, WalkInv, TypeOK, VisibleUnlessBlinked, ShownAbove,
                WindowRight, WindowWhole, NoRepeats, NothingSkipped, Passed, Entries, Unmoved
  <2> QED  BY <2>1, NextReadPage, NextServe, NextReadFails, NextEnvironment
       DEF Next, Request
<1>3. WalkInv => PagesExact
  BY DEF WalkInv, PagesExact
<1>4. QED
  BY <1>1, <1>2, <1>3, PTL DEF Spec

(* A walk in MCReads is a walk by itself.                                  *)
THEOREM WalkApart == MCSpec => Spec
<1>1. MCInit => Init
  BY DEF MCInit
<1>2. [MCNext]_all => [Next]_vars
  BY DEF MCNext, Walking, Filtering, Setting, Living, all, vars
<1>3. QED
  BY <1>1, <1>2, PTL DEF MCSpec, Spec

-----------------------------------------------------------------------------
(* The life of a process.  What is open is what the boot opened so far;     *)
(* the server listens, and requests run, only between the end of the boot  *)
(* and the step of the shutdown that waited for them; the consumer is      *)
(* stopped before the first store is closed.                               *)
BootOpens ==
  /\ boot = "pool" => open = {}
  /\ boot = "redis" => open = {"pool"}
  /\ boot = "events" => open = {"pool", "redis"}
  /\ boot \notin {"pool", "redis", "events", "done", "failed"} => open = Process!Opened

StopsAfterBoot ==
  /\ boot \notin {"done", "failed"} => stop = "no"
  /\ boot = "failed" => stop \in {"no", "exited"}

ServesBetween ==
  /\ listening => boot = "done" /\ stop \in {"no", "streams"}
  /\ \A r \in Requests :
       serving[r] => boot = "done" /\ stop \in {"no", "streams", "http", "exited"}

StoppedFirst ==
  /\ boot = "done" /\ stop \in {"no", "streams", "http", "drain"} => open = Process!Opened
  /\ stop \in {"redis", "events", "pool"} => consumer = "stopped"

ProcessInv ==
  /\ Process!TypeOK /\ BootOpens /\ StopsAfterBoot /\ ServesBetween /\ StoppedFirst
  /\ StoresOutliveUse

(* The steps of New, in their order.                                       *)
LEMMA BootOrder ==
  /\ Process!After("pool") = "redis" /\ Process!After("redis") = "events"
  /\ Process!After("events") = "jwt" /\ Process!After("jwt") = "infrastructure"
  /\ Process!After("infrastructure") = "contexts" /\ Process!After("contexts") = "feed"
  /\ Process!After("feed") = "codohue" /\ Process!After("codohue") = "root"
  /\ Process!After("root") = "server" /\ Process!After("server") = "done"
  /\ Process!Steps = {"pool", "redis", "events", "jwt", "infrastructure", "contexts",
                       "feed", "codohue", "root", "server"}
<1>1. DOMAIN Process!Setup = 1..10 /\ Len(Process!Setup) = 10
  BY DEF Process!Setup
<1>2. \A i \in 1..10 : Process!Setup[i] =
        CASE i = 1 -> "pool" [] i = 2 -> "redis" [] i = 3 -> "events" [] i = 4 -> "jwt"
          [] i = 5 -> "infrastructure" [] i = 6 -> "contexts" [] i = 7 -> "feed"
          [] i = 8 -> "codohue" [] i = 9 -> "root" [] i = 10 -> "server"
  BY DEF Process!Setup
<1> QED  BY <1>1, <1>2 DEF Process!After, Process!Steps

(* Every step of the process keeps the invariant.                          *)
LEMMA NextProcessInv == ProcessInv /\ [Process!Next]_Process!vars => ProcessInv'
<1> SUFFICES ASSUME ProcessInv, [Process!Next]_Process!vars PROVE ProcessInv'
  OBVIOUS
<1> USE DEF ProcessInv, BootOpens, StopsAfterBoot, ServesBetween, StoppedFirst,
            StoresOutliveUse, Process!StoresOutliveUse, Process!Opened
<1>1. CASE Process!New
  <2> USE BootOrder DEF Process!Done, Process!TypeOK
  <2>1. ASSUME NEW store \in {"pool", "redis"}, Process!SetupStore(store) PROVE ProcessInv'
    BY <2>1 DEF Process!SetupStore
  <2>2. CASE Process!SetupEventsRedis
    BY <2>2 DEF Process!SetupEventsRedis
  <2>3. CASE \/ Process!SetupJWT \/ Process!SetupInfrastructure \/ Process!SetupContexts
             \/ Process!BootstrapRootUser \/ Process!SetupServer
    BY <2>3 DEF Process!SetupJWT, Process!SetupInfrastructure, Process!SetupContexts,
                Process!BootstrapRootUser, Process!SetupServer, Process!Prepare
  <2>4. CASE Process!SetupFeedContext
    BY <2>4 DEF Process!SetupFeedContext
  <2>5. CASE Process!WireCodohue
    BY <2>5 DEF Process!WireCodohue
  <2>6. CASE Process!FailBoot
    BY <2>6 DEF Process!FailBoot
  <2> QED  BY <1>1, <2>1, <2>2, <2>3, <2>4, <2>5, <2>6 DEF Process!New
<1>2. CASE Process!ExitFailed \/ Process!Listen \/ Process!ListenFails
  <2> USE DEF Process!TypeOK
  <2>1. CASE Process!ExitFailed
    BY <2>1 DEF Process!ExitFailed
  <2>2. CASE Process!Listen
    BY <2>2 DEF Process!Listen
  <2>3. CASE Process!ListenFails
    BY <2>3 DEF Process!ListenFails
  <2> QED  BY <1>2, <2>1, <2>2, <2>3
<1>3. ASSUME NEW r \in Requests, Process!Serve(r) \/ Process!Answer(r) PROVE ProcessInv'
  <2> USE DEF Process!TypeOK
  <2>1. serving' \in [Requests -> BOOLEAN]
    BY <1>3 DEF Process!Serve, Process!Answer
  <2>2. \A q \in Requests : serving'[q] =>
          boot = "done" /\ stop \in {"no", "streams", "http", "exited"}
    BY <1>3 DEF Process!Serve, Process!Answer
  <2>3. UNCHANGED <<boot, stop, open, listening, consumer, monitor, status>>
    BY <1>3 DEF Process!Serve, Process!Answer
  <2>4. CASE open = Process!Opened \/ boot = "failed"
    BY <2>1, <2>2, <2>3, <2>4
  <2>5. CASE open # Process!Opened /\ boot # "failed"
    <3>1. ~listening \/ ~Process!Alive
      BY <2>5 DEF Process!Alive
    <3>2. \A q \in Requests : ~serving'[q]
      BY <1>3, <2>5, <3>1 DEF Process!Serve, Process!Answer
    <3> QED  BY <2>1, <2>2, <2>3, <2>5, <3>2
  <2> QED  BY <2>4, <2>5
<1>4. CASE Process!StartBatch \/ Process!EndBatch
  <2>1. CASE Process!StartBatch
    BY <2>1 DEF Process!StartBatch, Process!TypeOK
  <2>2. CASE Process!EndBatch
    BY <2>2 DEF Process!EndBatch, Process!TypeOK
  <2> QED  BY <1>4, <2>1, <2>2
<1>5. CASE Process!Probe \/ Process!EndMonitor
  <2>1. CASE Process!Probe
    BY <2>1 DEF Process!Probe, Process!TypeOK
  <2>2. CASE Process!EndMonitor
    BY <2>2 DEF Process!EndMonitor, Process!TypeOK
  <2> QED  BY <1>5, <2>1, <2>2
<1>6. CASE Process!Shutdown
  <2> USE DEF Process!TypeOK
  <2>1. CASE Process!Signal \/ Process!CloseListener
    BY <2>1 DEF Process!Signal, Process!CloseListener
  <2>2. CASE Process!ServerStopped \/ Process!ShutdownTimesOut
    BY <2>2 DEF Process!ServerStopped, Process!ShutdownTimesOut
  <2>3. CASE Process!CloseDispatcher
    BY <2>3 DEF Process!CloseDispatcher
  <2>4. CASE Process!CloseStores
    <3>1. CASE Process!CloseStore("redis", "events")
      BY <3>1, BootOrder DEF Process!CloseStore
    <3>2. CASE Process!CloseStore("events", "pool")
      BY <3>2, BootOrder DEF Process!CloseStore
    <3>3. CASE Process!CloseStore("pool", "exited")
      BY <3>3, BootOrder DEF Process!CloseStore
    <3> QED  BY <2>4, <3>1, <3>2, <3>3 DEF Process!CloseStores
  <2> QED  BY <1>6, <2>1, <2>2, <2>3, <2>4 DEF Process!Shutdown
<1>7. CASE UNCHANGED Process!vars
  BY <1>7 DEF Process!vars, Process!TypeOK
<1> QED  BY <1>1, <1>2, <1>3, <1>4, <1>5, <1>6, <1>7 DEF Process!Next

(* No store is closed while a request or a batch of the outbox still uses  *)
(* it: App.Shutdown stops the server and drains the consumer first, for    *)
(* any number of requests, though it is told to stop at any time.          *)
THEOREM StoresClosedLast == MCSpec => []StoresOutliveUse
<1>1. Process!Init => ProcessInv
  <2> SUFFICES ASSUME Process!Init PROVE ProcessInv
    OBVIOUS
  <2> USE DEF Process!Init
  <2>1. Process!TypeOK
    BY BootOrder DEF Process!TypeOK
  <2>2. BootOpens /\ StopsAfterBoot /\ ServesBetween /\ StoppedFirst
    BY DEF BootOpens, StopsAfterBoot, ServesBetween, StoppedFirst
  <2> QED  BY <2>1, <2>2 DEF ProcessInv, StoresOutliveUse, Process!StoresOutliveUse
<1>2. [MCNext]_all => [Process!Next]_Process!vars
  BY DEF MCNext, Walking, Filtering, Setting, Living, all, processVars, Process!vars
<1>3. ProcessInv => StoresOutliveUse
  BY DEF ProcessInv
<1>4. QED
  BY <1>1, <1>2, <1>3, NextProcessInv, PTL DEF MCSpec, MCInit
=============================================================================
