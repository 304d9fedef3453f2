---------------------------- MODULE PagingProofs ----------------------------
(***************************************************************************)
(* Proofs about Paging for any number of users and clients and any limit.  *)
(***************************************************************************)
EXTENDS Paging, FiniteSetTheorems, WellFoundedInduction, TLAPS

\* The offset of the page after p is where page p ends, and is what hasMore
\* compares with the total.
LEMMA SkipNext ==
  ASSUME NEW p \in Nat \ {0}
  PROVE  /\ skipFor(p) \in Nat
         /\ skipFor(p + 1) = skipFor(p) + Limit
         /\ skipFor(p + 1) = p * Limit
         /\ skipFor(1) = 0
<1>1. /\ (p - 1) \in Nat
      /\ (p - 1) * Limit \in Nat
      /\ p * Limit = (p - 1) * Limit + Limit
      /\ (1 - 1) * Limit = 0
  BY LimitAssumption
<1>2. (p + 1) - 1 = p
  OBVIOUS
<1> QED
  BY <1>1, <1>2 DEF skipFor

\* The place of a user is a number, and lies within the table.
LEMMA PlaceBounds ==
  ASSUME NEW S, S \subseteq Users, NEW u
  PROVE  /\ Place(u, S) \in Nat
         /\ IsFiniteSet(S)
         /\ Cardinality(S) \in Nat
         /\ u \in S => Place(u, S) < Cardinality(S)
<1> DEFINE B == {v \in S : u < v}
<1>1. IsFiniteSet(S) /\ Cardinality(S) \in Nat
  BY UsersAssumption, FS_Subset, FS_CardinalityType
<1>2. IsFiniteSet(B) /\ Cardinality(B) \in Nat
  BY <1>1, FS_Subset, FS_CardinalityType
<1>3. ASSUME u \in S
      PROVE  Cardinality(B) < Cardinality(S)
  <2>1. IsFiniteSet(S \ {u}) /\ Cardinality(S \ {u}) = Cardinality(S) - 1
    BY <1>1, <1>3, FS_RemoveElement
  <2>2. B \subseteq S \ {u}
    BY <1>3, UsersAssumption
  <2>3. Cardinality(B) <= Cardinality(S \ {u})
    BY <2>1, <2>2, FS_Subset
  <2> QED
    BY <1>1, <1>2, <2>1, <2>3
<1> QED
  BY <1>1, <1>2, <1>3 DEF Place

\* New users push the others down and never up.
LEMMA PlaceGrows ==
  ASSUME NEW S, NEW T, S \subseteq T, T \subseteq Users, NEW u
  PROVE  Place(u, S) <= Place(u, T) /\ Cardinality(S) <= Cardinality(T)
<1>1. IsFiniteSet(T) /\ IsFiniteSet({v \in T : u < v})
  BY UsersAssumption, FS_Subset
<1>2. {v \in S : u < v} \subseteq {v \in T : u < v}
  OBVIOUS
<1> QED
  BY <1>1, <1>2, FS_Subset DEF Place

\* A set of numbers that is not empty has a least one.
LEMMA Least ==
  ASSUME NEW S, S \subseteq Nat, S # {}
  PROVE  \E m \in S : \A n \in S : m <= n
<1>1. PICK m \in S : \A n \in S : ~(<<n, m>> \in OpToRel(<, Nat))
  BY NatLessThanWellFounded, WFMin
<1>2. \A n \in S : ~(n < m)
  BY <1>1 DEF OpToRel
<1>3. \A n \in S : m <= n
  BY <1>2
<1> QED
  BY <1>3

\* Removing the least of the users before u leaves the place one lower.
LEMMA StepUp ==
  ASSUME NEW S, S \subseteq Users, NEW B, B \subseteq S, B # {},
         \A v \in B : \A w \in S : v < w => w \in B
  PROVE  \E m \in B : Place(m, S) = Cardinality(B) - 1
<1>1. PICK m \in B : \A n \in B : m <= n
  BY Least, UsersAssumption
<1>2. {v \in S : m < v} = B \ {m}
  <2>1. ASSUME NEW v \in S, m < v PROVE v \in B \ {m}
    BY <2>1, UsersAssumption
  <2>2. ASSUME NEW v \in B \ {m} PROVE v \in S /\ m < v
    <3>1. m <= v /\ m \in Nat /\ v \in Nat
      BY <1>1, UsersAssumption
    <3> QED
      BY <3>1
  <2> QED
    BY <2>1, <2>2
<1>3. IsFiniteSet(B)
  BY UsersAssumption, FS_Subset
<1> QED
  BY <1>2, <1>3, FS_RemoveElement DEF Place

\* Every offset below the total is the place of a user.
LEMMA PlaceTaken ==
  ASSUME NEW S, S \subseteq Users, NEW k \in Nat, k < Cardinality(S)
  PROVE  \E u \in S : Place(u, S) = k
<1> DEFINE P == {n \in Nat : k <= n /\ \E u \in S : Place(u, S) = n}
<1>1. S # {} /\ IsFiniteSet(S) /\ Cardinality(S) \in Nat
  BY PlaceBounds, FS_EmptySet
<1>2. PICK b \in S : Place(b, S) = Cardinality(S) - 1
  BY <1>1, StepUp
<1>3. Cardinality(S) - 1 \in P
  BY <1>1, <1>2
<1>4. PICK p \in P : \A n \in P : p <= n
  <2> P # {} /\ P \subseteq Nat
    BY <1>3
  <2> HIDE DEF P
  <2> QED
    BY Least
<1>5. PICK u \in S : Place(u, S) = p
  BY <1>4
<1>6. CASE p = k
  BY <1>5, <1>6
<1>7. CASE k < p
  <2> DEFINE B == {v \in S : u < v}
  <2>1. Cardinality(B) = p
    BY <1>5 DEF Place
  <2>2. B # {}
    BY <2>1, <1>7, FS_EmptySet
  <2>3. \A v \in B : \A w \in S : v < w => w \in B
    BY <1>5, UsersAssumption
  <2>4. PICK m \in B : Place(m, S) = p - 1
    <3> HIDE DEF B
    <3> B \subseteq S
      BY DEF B
    <3> QED
      BY <2>1, <2>2, <2>3, StepUp
  <2>5. p - 1 \in P
    BY <2>4, <1>7, <1>4
  <2> QED
    BY <2>5, <1>4
<1> QED
  BY <1>4, <1>6, <1>7

\* Hence a page that begins below the total is not empty.
LEMMA PageNotEmpty ==
  ASSUME NEW S, S \subseteq Users, NEW p \in Nat \ {0}, skipFor(p) < Cardinality(S)
  PROVE  PageOf(S, p) # {}
<1>1. PICK u \in S : Place(u, S) = skipFor(p)
  BY SkipNext, PlaceTaken
<1>2. u \in PageOf(S, p)
  BY <1>1, SkipNext, LimitAssumption DEF PageOf
<1> QED
  BY <1>2

\* Two users of one table have different places, ...
LEMMA PlacesDiffer ==
  ASSUME NEW S, S \subseteq Users, NEW u \in S, NEW v \in S, Place(u, S) = Place(v, S)
  PROVE  u = v
<1>1. ASSUME NEW x \in S, NEW y \in S, x < y PROVE Place(y, S) < Place(x, S)
  <2> DEFINE X == {w \in S : x < w}
             Y == {w \in S : y < w}
  <2>1. IsFiniteSet(X) /\ IsFiniteSet(X \ {y})
    BY UsersAssumption, FS_Subset
  <2>2. y \in X /\ Y \subseteq X \ {y}
    <3>1. ASSUME NEW w \in S, y < w PROVE x < w /\ w # y
      <4>1. x \in Nat /\ y \in Nat /\ w \in Nat
        BY UsersAssumption
      <4> QED BY <1>1, <3>1, <4>1
    <3> QED BY <1>1, <3>1
  <2>3. Cardinality(X \ {y}) = Cardinality(X) - 1 /\ Cardinality(X) \in Nat
    BY <2>1, <2>2, FS_RemoveElement, FS_CardinalityType
  <2>4. Cardinality(Y) <= Cardinality(X \ {y}) /\ Cardinality(Y) \in Nat
    BY <2>1, <2>2, FS_Subset, FS_CardinalityType
  <2> QED
    BY <2>3, <2>4 DEF Place
<1>2. u \in Nat /\ v \in Nat /\ Place(u, S) \in Nat
  BY UsersAssumption, PlaceBounds
<1>3. ~(u < v) /\ ~(v < u)
  BY <1>1, <1>2
<1> QED
  BY <1>2, <1>3

\* ... so that a page holds Limit of them at most.
LEMMA PageLength ==
  ASSUME NEW S, S \subseteq Users, NEW p \in Nat \ {0}
  PROVE  Cardinality(PageOf(S, p)) <= Limit
<1> DEFINE P == PageOf(S, p)
           k == skipFor(p)
           T == k .. (k + Limit - 1)
           place == [u \in P |-> Place(u, S)]
<1>1. k \in Nat /\ Limit \in Nat \ {0} /\ \A u : Place(u, S) \in Nat
  BY SkipNext, LimitAssumption, PlaceBounds
<1>2. \A u \in P : u \in S /\ k <= Place(u, S) /\ Place(u, S) < k + Limit
  BY DEF PageOf
<1> HIDE DEF P, k
<1>3. \A u \in P : Place(u, S) \in T
  BY <1>1, <1>2
<1>4. \A u, v \in P : place[u] = place[v] => u = v
  BY <1>2, PlacesDiffer
<1>5. place \in Injection(P, T)
  BY <1>3, <1>4 DEF Injection, IsInjective
<1>6. IsFiniteSet(T) /\ Cardinality(T) = Limit
  BY <1>1, FS_Interval
<1> HIDE DEF T, place
<1>7. Cardinality(P) <= Cardinality(T)
  BY <1>5, <1>6, FS_Injection
<1> QED
  BY <1>6, <1>7 DEF P

-----------------------------------------------------------------------------
(* The inductive invariant: what is known while client c walks. *)

Walking(c) == at[c] \in {"ask", "count"}

\* Who was there at the beginning and has not been listed stands at the offset
\* of the page asked for, or after it; ...
Behind(c) == Walking(c) => \A u \in initial[c] \ shown[c] : skipFor(page[c]) <= Place(u, stored)

\* ... and once the page is read, after its end.
BehindRead(c) ==
  at[c] = "count" =>
    \A u \in initial[c] \ (shown[c] \union read[c]) : skipFor(page[c] + 1) <= Place(u, stored)

\* A page the client was sent to begins below the total.
Reachable(c) ==
  /\ Walking(c) /\ page[c] > 1 => skipFor(page[c]) < Cardinality(stored)
  /\ at[c] = "count" /\ page[c] > 1 => read[c] # {}

\* As long as nobody is created, what was listed stands before the page.
Quiet(c) ==
  Walking(c) /\ stored = initial[c] =>
    /\ \A u \in shown[c] : Place(u, stored) < skipFor(page[c])
    /\ at[c] = "count" => read[c] = PageOf(stored, page[c])

Done(c) == at[c] = "done" => initial[c] \subseteq shown[c]

ClientInv(c) == Behind(c) /\ BehindRead(c) /\ Reachable(c) /\ Quiet(c) /\ Done(c)

IInv == TypeOK /\ \A c \in Clients : ClientInv(c)

\* Every action keeps the shape of the state.
LEMMA TypeStep == TypeOK /\ [Next]_vars => TypeOK'
<1> SUFFICES ASSUME TypeOK, [Next]_vars PROVE TypeOK'
  OBVIOUS
<1>1. CASE UNCHANGED vars
  BY <1>1 DEF TypeOK, vars, client
<1>2. ASSUME NEW u \in Users, BeginCreate(u) PROVE TypeOK'
  <2>1. u \notin stored
    BY <1>2, UsersAssumption DEF BeginCreate
  <2> QED
    BY <1>2, <2>1 DEF TypeOK, BeginCreate, client
<1>3. ASSUME NEW u \in Users, EndCreate(u) PROVE TypeOK'
  <2>1. stored \subseteq stored' /\ stored' \subseteq Users /\ creating' \subseteq Users \ stored'
    BY <1>3 DEF TypeOK, EndCreate
  <2> QED
    BY <1>3, <2>1 DEF TypeOK, EndCreate, client
<1>4. ASSUME NEW c \in Clients, StartWalk(c) PROVE TypeOK'
  BY <1>4 DEF TypeOK, StartWalk, FirstPage
<1>0. Cardinality({}) <= Limit
  BY FS_EmptySet, LimitAssumption
<1>5. ASSUME NEW c \in Clients, FindMany(c) PROVE TypeOK'
  <2> DEFINE P == PageOf(stored, page[c])
  <2>1. P \subseteq stored
    BY DEF PageOf
  <2>2. Cardinality(P) <= Limit
    BY PageLength DEF TypeOK
  <2>3. read' = [read EXCEPT ![c] = P]
    BY <1>5 DEF FindMany
  <2> HIDE DEF P
  <2> QED
    BY <1>5, <2>1, <2>2, <2>3 DEF TypeOK, FindMany
<1>6. ASSUME NEW c \in Clients, Count(c) PROVE TypeOK'
  BY <1>0, <1>6 DEF TypeOK, Count
<1>7. ASSUME NEW c \in Clients, Fail(c) PROVE TypeOK'
  BY <1>0, <1>7 DEF TypeOK, Fail
<1>8. ASSUME NEW c \in Clients, EndWalk(c) PROVE TypeOK'
  BY <1>8 DEF TypeOK, EndWalk
<1> QED
  BY <1>1, <1>2, <1>3, <1>4, <1>5, <1>6, <1>7, <1>8 DEF Next

\* A client that does nothing keeps its invariant while users are created.
LEMMA Unmoved ==
  ASSUME TypeOK, TypeOK', NEW c \in Clients, ClientInv(c), stored \subseteq stored',
         at'[c] = at[c], page'[c] = page[c], read'[c] = read[c], shown'[c] = shown[c],
         initial'[c] = initial[c]
  PROVE  ClientInv(c)'
<1> DEFINE p == page[c]
<1>1. /\ stored' \subseteq Users /\ p \in Nat \ {0} /\ initial[c] \subseteq stored
      /\ stored \subseteq Users
  BY DEF TypeOK
<1>2. /\ skipFor(p) \in Nat /\ skipFor(p + 1) \in Nat
      /\ Cardinality(stored) \in Nat /\ Cardinality(stored') \in Nat
      /\ Cardinality(stored) <= Cardinality(stored')
  <2>1. skipFor(p) \in Nat /\ skipFor(p + 1) \in Nat
    BY <1>1, SkipNext, LimitAssumption
  <2> QED BY <1>1, <2>1, PlaceBounds, PlaceGrows
<1>3. \A u : /\ Place(u, stored) \in Nat /\ Place(u, stored') \in Nat
             /\ Place(u, stored) <= Place(u, stored')
  BY <1>1, PlaceBounds, PlaceGrows
<1>4. Walking(c)' <=> Walking(c)
  BY DEF Walking
<1>5. Behind(c)' /\ BehindRead(c)'
  BY <1>2, <1>3, <1>4 DEF ClientInv, Behind, BehindRead
<1>6. Reachable(c)'
  BY <1>1, <1>2, <1>4 DEF ClientInv, Reachable
<1>7. Quiet(c)'
  <2> SUFFICES ASSUME Walking(c), stored' = initial[c] PROVE Quiet(c)'
    BY <1>4 DEF Quiet
  <2>1. stored' = stored
    BY <1>1
  <2> QED
    BY <2>1 DEF ClientInv, Quiet
<1> QED
  BY <1>5, <1>6, <1>7 DEF ClientInv, Done

\* Every action, of this client, another one or a creation, keeps what is known
\* of each walk.
LEMMA ClientStep == IInv /\ [Next]_vars => \A c \in Clients : ClientInv(c)'
<1> SUFFICES ASSUME IInv, [Next]_vars, NEW c \in Clients PROVE ClientInv(c)'
  OBVIOUS
<1>0. TypeOK /\ TypeOK' /\ ClientInv(c)
  BY TypeStep DEF IInv
<1> DEFINE p == page[c]
<1>a. /\ p \in Nat \ {0} /\ stored \subseteq Users /\ initial[c] \subseteq stored
      /\ read[c] \subseteq stored /\ shown[c] \subseteq stored
  BY <1>0 DEF TypeOK
<1>b. /\ skipFor(p) \in Nat /\ skipFor(p + 1) = skipFor(p) + Limit
      /\ skipFor(p + 1) = p * Limit /\ skipFor(p + 1) \in Nat /\ skipFor(1) = 0
      /\ Limit \in Nat \ {0}
  BY <1>a, SkipNext, LimitAssumption
<1>c. /\ Cardinality(stored) \in Nat
      /\ \A u : Place(u, stored) \in Nat
      /\ \A u \in stored : Place(u, stored) < Cardinality(stored)
  BY <1>a, PlaceBounds
<1>1. ASSUME stored \subseteq stored', UNCHANGED client PROVE ClientInv(c)'
  BY <1>0, <1>1, Unmoved DEF client
<1>2. ASSUME NEW u \in Users, BeginCreate(u) \/ EndCreate(u) PROVE ClientInv(c)'
  BY <1>1, <1>2 DEF BeginCreate, EndCreate
<1>3. ASSUME NEW d \in Clients, d # c,
             StartWalk(d) \/ FindMany(d) \/ Count(d) \/ Fail(d) \/ EndWalk(d)
      PROVE  ClientInv(c)'
  <2>1. /\ stored' = stored
        /\ at'[c] = at[c] /\ page'[c] = page[c] /\ read'[c] = read[c]
        /\ shown'[c] = shown[c] /\ initial'[c] = initial[c]
    BY <1>0, <1>3 DEF TypeOK, StartWalk, FindMany, Count, Fail, EndWalk
  <2> QED
    BY <1>0, <2>1, Unmoved
<1>4. ASSUME StartWalk(c) PROVE ClientInv(c)'
  <2>1. /\ stored' = stored /\ at'[c] = "ask" /\ page'[c] = 1 /\ shown'[c] = {}
        /\ initial'[c] = stored
    BY <1>0, <1>4 DEF TypeOK, StartWalk, FirstPage
  <2> QED
    BY <2>1, <1>b, <1>c DEF ClientInv, Behind, BehindRead, Reachable, Quiet, Done, Walking
<1>5. ASSUME FindMany(c) PROVE ClientInv(c)'
  <2>1. /\ stored' = stored /\ at[c] = "ask" /\ at'[c] = "count" /\ page'[c] = p
        /\ shown'[c] = shown[c] /\ initial'[c] = initial[c]
        /\ read'[c] = PageOf(stored, p)
    BY <1>0, <1>5 DEF TypeOK, FindMany
  <2>2. Behind(c)' /\ Done(c)'
    BY <1>0, <2>1 DEF ClientInv, Behind, Done, Walking
  <2>3. BehindRead(c)'
    <3> SUFFICES ASSUME NEW u \in initial[c] \ (shown[c] \union PageOf(stored, p))
                 PROVE  skipFor(p + 1) <= Place(u, stored)
      BY <2>1 DEF BehindRead
    <3>1. skipFor(p) <= Place(u, stored)
      BY <1>0, <2>1 DEF ClientInv, Behind, Walking
    <3> QED
      BY <3>1, <1>a, <1>b, <1>c DEF PageOf
  <2>4. Reachable(c)'
    BY <1>0, <1>a, <2>1, PageNotEmpty DEF ClientInv, Reachable, Walking
  <2>5. Quiet(c)'
    BY <1>0, <2>1 DEF ClientInv, Quiet, Walking
  <2> QED
    BY <2>2, <2>3, <2>4, <2>5 DEF ClientInv
<1>6. ASSUME Count(c) PROVE ClientInv(c)'
  <2>1. /\ stored' = stored /\ at[c] = "count" /\ initial'[c] = initial[c]
        /\ shown'[c] = shown[c] \union read[c]
    BY <1>0, <1>6 DEF TypeOK, Count
  <2>2. \A u \in initial[c] \ shown'[c] : skipFor(p + 1) <= Place(u, stored)
    BY <1>0, <2>1 DEF ClientInv, BehindRead
  <2>3. CASE p * Limit < Cardinality(stored)
    <3>1. at'[c] = "ask" /\ page'[c] = p + 1
      BY <1>0, <1>6, <2>3 DEF TypeOK, Count, hasMore, Total
    <3>2. Behind(c)' /\ BehindRead(c)' /\ Done(c)'
      BY <2>1, <2>2, <3>1 DEF Behind, BehindRead, Done
    <3>3. Reachable(c)'
      BY <2>1, <2>3, <3>1, <1>b DEF Reachable
    <3>4. Quiet(c)'
      <4> SUFFICES ASSUME stored = initial[c], NEW u \in shown[c] \union read[c]
                   PROVE  Place(u, stored) < skipFor(p + 1)
        BY <2>1, <3>1 DEF Quiet
      <4>1. u \in shown[c] => Place(u, stored) < skipFor(p)
        BY <1>0, <2>1 DEF ClientInv, Quiet, Walking
      <4>2. u \in read[c] => Place(u, stored) < skipFor(p) + Limit
        BY <1>0, <2>1 DEF ClientInv, Quiet, Walking, PageOf
      <4> QED
        BY <4>1, <4>2, <1>b, <1>c
    <3> QED
      BY <3>2, <3>3, <3>4 DEF ClientInv
  <2>4. CASE ~(p * Limit < Cardinality(stored))
    <3>1. at'[c] = "done"
      BY <1>0, <1>6, <2>4 DEF TypeOK, Count, hasMore, Total
    <3>2. initial'[c] \subseteq shown'[c]
      BY <2>1, <2>2, <2>4, <1>a, <1>b, <1>c
    <3> QED
      BY <3>1, <3>2 DEF ClientInv, Behind, BehindRead, Reachable, Quiet, Done, Walking
  <2> QED
    BY <2>3, <2>4
<1>7. ASSUME Fail(c) PROVE ClientInv(c)'
  <2>1. /\ stored' = stored /\ at[c] = "count" /\ at'[c] = "ask" /\ page'[c] = p
        /\ shown'[c] = shown[c] /\ initial'[c] = initial[c]
    BY <1>0, <1>7 DEF TypeOK, Fail
  <2> QED
    BY <1>0, <2>1 DEF ClientInv, Behind, BehindRead, Reachable, Quiet, Done, Walking
<1>8. ASSUME EndWalk(c) PROVE ClientInv(c)'
  <2>1. at'[c] = "idle"
    BY <1>0, <1>8 DEF TypeOK, EndWalk
  <2> QED
    BY <2>1 DEF ClientInv, Behind, BehindRead, Reachable, Quiet, Done, Walking
<1>9. CASE UNCHANGED vars
  BY <1>1, <1>9 DEF vars
<1> QED
  BY <1>2, <1>3, <1>4, <1>5, <1>6, <1>7, <1>8, <1>9 DEF Next

\* The inductive invariant holds.
LEMMA Invariance == Spec => []IInv
<1>1. Init => IInv
  BY FS_EmptySet, LimitAssumption DEF Init, IInv, TypeOK, ClientInv, Behind, BehindRead, Reachable, Quiet, Done, Walking
<1>2. IInv /\ [Next]_vars => IInv'
  BY TypeStep, ClientStep DEF IInv
<1> QED
  BY <1>1, <1>2, PTL DEF Spec

\* Type correctness: what a walk has read and listed are stored users, and no
\* page is longer than the limit (the places of the list are all different).
THEOREM TypeCorrect == Spec => []TypeOK
<1>1. IInv => TypeOK
  BY DEF IInv
<1> QED
  BY <1>1, Invariance, PTL

\* A walk that ends has listed everybody who was there when it began, for any
\* limit and any number of users created on the way.
THEOREM WalksComplete == Spec => []WalkComplete
<1>1. IInv => WalkComplete
  BY DEF IInv, ClientInv, Done, WalkComplete
<1> QED
  BY <1>1, Invariance, PTL

\* The page hasMore sends a client to is never empty.
THEOREM HasMoreKeepsItsWord == Spec => []NextPageNotEmpty
<1>1. IInv => NextPageNotEmpty
  BY DEF IInv, ClientInv, Reachable, NextPageNotEmpty
<1> QED
  BY <1>1, Invariance, PTL

\* Nobody is listed twice in a walk during which nobody was created.
THEOREM NoRepeatWithoutCreate == Spec => []RepeatsOnlyAfterCreate
<1>1. ASSUME IInv PROVE RepeatsOnlyAfterCreate
  <2> SUFFICES ASSUME NEW c \in Clients, at[c] = "count", stored = initial[c],
                      NEW u \in read[c], u \in shown[c]
               PROVE  FALSE
    BY DEF RepeatsOnlyAfterCreate
  <2>1. Quiet(c) /\ Walking(c)
    BY <1>1 DEF IInv, ClientInv, Walking
  <2>2. Place(u, stored) < skipFor(page[c]) /\ skipFor(page[c]) <= Place(u, stored)
    BY <2>1 DEF Quiet, PageOf
  <2>3. Place(u, stored) \in Nat /\ skipFor(page[c]) \in Nat
    BY <1>1, PlaceBounds, SkipNext DEF IInv, TypeOK
  <2> QED
    BY <2>2, <2>3
<1> QED
  BY <1>1, Invariance, PTL

=============================================================================
