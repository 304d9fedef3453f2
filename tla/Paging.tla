-------------------------------- MODULE Paging --------------------------------
(***************************************************************************)
(* GET /users: UsersRepository.findPage reads a page and then the total,   *)
(* two statements of one READ COMMITTED transaction, while other requests  *)
(* create users.  Clients walk the list: they ask for page 1, 2, 3, ...    *)
(* until an answer says that there is no more.  The users of one hotel are *)
(* numbered in the order of (createdAt, id); the list is newest first.     *)
(* Users are never deleted and never change their place.                   *)
(***************************************************************************)
EXTENDS Naturals, FiniteSets

CONSTANTS
  Users,    \* the users the hotel may come to have
  Clients,  \* clients that walk through the list
  Limit     \* the page length they ask for

ASSUME UsersAssumption == Users \subseteq Nat /\ IsFiniteSet(Users)
ASSUME LimitAssumption == Limit \in Nat \ {0}

VARIABLES
  stored,    \* the users whose creation has committed
  creating,  \* users being created: createdAt is set, the insert is not committed
  at,        \* at[c]: where client c stands
  page,      \* page[c]: the page it asks for
  read,      \* read[c]: the items findMany gave to the request being served
  shown,     \* history: the users the answers of this walk have listed
  initial    \* history: the users stored when the walk began

client == <<at, page, read, shown, initial>>
vars == <<stored, creating, client>>

Init ==
  /\ stored \in SUBSET Users
  /\ creating = {}
  /\ at = [c \in Clients |-> "idle"]
  /\ page = [c \in Clients |-> 1]
  /\ read = [c \in Clients |-> {}]
  /\ shown = [c \in Clients |-> {}]
  /\ initial = [c \in Clients |-> {}]

\* The row receives its createdAt when the insert begins, ...
BeginCreate(u) ==
  /\ \A v \in stored \union creating : v < u
  /\ creating' = creating \union {u}
  /\ UNCHANGED <<stored, client>>

\* ... is seen by others when it commits, in any order, or is rolled back
\* (the e-mail is taken, the connection is lost).
EndCreate(u) ==
  /\ u \in creating
  /\ creating' = creating \ {u}
  /\ stored' \in {stored, stored \union {u}}
  /\ UNCHANGED client

\* Mutant: the offset repeats the last row of the page before.
SkipOneLess(p) == IF p = 1 THEN 0 ELSE (p - 1) * Limit - 1

skipFor(p) == (p - 1) * Limit

\* ORDER BY created_at DESC, id DESC: the rows listed before u.
Place(u, S) == Cardinality({v \in S : u < v})

\* Mutant: one row more is taken, to see whether there is another page.
PageOneMore(S, p) == {u \in S : skipFor(p) <= Place(u, S) /\ Place(u, S) <= skipFor(p) + Limit}

\* Rows OFFSET .. OFFSET + LIMIT - 1 of the table as it is now.
PageOf(S, p) == {u \in S : skipFor(p) <= Place(u, S) /\ Place(u, S) < skipFor(p) + Limit}

FirstPage == 1

StartWalk(c) ==
  /\ at[c] = "idle"
  /\ at' = [at EXCEPT ![c] = "ask"]
  /\ page' = [page EXCEPT ![c] = FirstPage]
  /\ shown' = [shown EXCEPT ![c] = {}]
  /\ initial' = [initial EXCEPT ![c] = stored]
  /\ UNCHANGED <<stored, creating, read>>

FindMany(c) ==
  /\ at[c] = "ask"
  /\ at' = [at EXCEPT ![c] = "count"]
  /\ read' = [read EXCEPT ![c] = PageOf(stored, page[c])]
  /\ UNCHANGED <<stored, creating, page, shown, initial>>

\* Mutant: the total is the one the walk began with.
TotalOnce(c) == Cardinality(initial[c])

Total(c) == Cardinality(stored)

\* Mutant: one page too many.
HasMoreOrEqual(p, total) == p * Limit <= total

hasMore(p, total) == p * Limit < total

\* The count ends the transaction; the answer lists the items and says
\* whether there are more, and the client asks for the next page or is done.
Count(c) ==
  /\ at[c] = "count"
  /\ shown' = [shown EXCEPT ![c] = @ \union read[c]]
  /\ read' = [read EXCEPT ![c] = {}]
  /\ IF hasMore(page[c], Total(c))
       THEN /\ page' = [page EXCEPT ![c] = @ + 1]
            /\ at' = [at EXCEPT ![c] = "ask"]
       ELSE /\ at' = [at EXCEPT ![c] = "done"]
            /\ UNCHANGED page
  /\ UNCHANGED <<stored, creating, initial>>

\* The request fails, or its answer is lost: the client asks again.
Fail(c) ==
  /\ at[c] = "count"
  /\ at' = [at EXCEPT ![c] = "ask"]
  /\ read' = [read EXCEPT ![c] = {}]
  /\ UNCHANGED <<stored, creating, page, shown, initial>>

EndWalk(c) ==
  /\ at[c] = "done"
  /\ at' = [at EXCEPT ![c] = "idle"]
  /\ UNCHANGED <<stored, creating, page, read, shown, initial>>

Next ==
  \/ \E u \in Users : BeginCreate(u) \/ EndCreate(u)
  \/ \E c \in Clients : StartWalk(c) \/ FindMany(c) \/ Count(c) \/ Fail(c) \/ EndWalk(c)

Spec == Init /\ [][Next]_vars

-----------------------------------------------------------------------------
(* Properties *)

\* The shape of the state; a row that is being created is not listed yet, and
\* a page is never longer than the limit.
TypeOK ==
  /\ stored \subseteq Users
  /\ creating \subseteq Users \ stored
  /\ at \in [Clients -> {"idle", "ask", "count", "done"}]
  /\ page \in [Clients -> Nat \ {0}]
  /\ read \in [Clients -> SUBSET stored]
  /\ \A c \in Clients : Cardinality(read[c]) <= Limit
  /\ shown \in [Clients -> SUBSET stored]
  /\ initial \in [Clients -> SUBSET stored]

\* A walk that was told there is no more has listed everybody who was there
\* when it began, although users created on the way push the rows down and the
\* total is read after the page.
WalkComplete == \A c \in Clients : at[c] = "done" => initial[c] \subseteq shown[c]

\* hasMore keeps its word: the page it sends the client to is not empty.
NextPageNotEmpty == \A c \in Clients : at[c] = "count" /\ page[c] > 1 => read[c] # {}

\* A page lists somebody again only when users were created during the walk.
RepeatsOnlyAfterCreate ==
  \A c \in Clients : at[c] = "count" /\ read[c] \intersect shown[c] # {} => stored # initial[c]

=============================================================================
