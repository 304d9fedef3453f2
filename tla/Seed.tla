--------------------------------- MODULE Seed ---------------------------------
(***************************************************************************)
(* prisma/seed.ts: for each demo hotel a fixed list of upserts, one        *)
(* statement each, committed one by one.  A run may fail after any of      *)
(* them and be repeated, two runs may overlap, and the application works   *)
(* on the users meanwhile.  The columns that refer to users, guests and    *)
(* conversations have no foreign key: nothing but the script keeps them    *)
(* right.                                                                  *)
(***************************************************************************)
EXTENDS Naturals, Sequences

CONSTANTS
  Hotels,   \* the HOTELS array, a sequence
  Seeders,  \* processes that run the script
  MaxEdits, \* bound on the application's writes to demo users
  None      \* no row

ASSUME HotelsAssumption == Len(Hotels) \in Nat \ {0} /\ DOMAIN Hotels = 1 .. Len(Hotels)
ASSUME MaxEditsAssumption == MaxEdits \in Nat

\* seedHotel's upserts in the order of the code.
Script == <<"tenant", "admin", "manager", "staff", "guest1", "guest2", "conversation",
            "message1", "message2", "ticket1", "ticket2">>

Items == {Script[n] : n \in DOMAIN Script}
DemoUsers == {"admin", "manager", "staff"}   \* also the name of each one's role

\* The rows an item's columns refer to.
Refs(item) ==
  CASE item = "conversation" -> {"guest1", "staff"}
    [] item = "message1" -> {"conversation"}
    [] item = "message2" -> {"conversation", "staff"}
    [] item = "ticket1" -> {"guest1", "conversation", "manager"}
    [] OTHER -> {}

\* A row's id: the fixed demo id, or one the application generated.
Ids == {"demo", "generated"}

ASSUME NoneAssumption == None \notin Ids

HotelIds == {Hotels[n] : n \in DOMAIN Hotels}

VARIABLES
  id,           \* id[h][i]: the id of the row found by item i's key, or None
  refs,         \* refs[h][i]: the ids its columns hold
  role,         \* role[h][u] of a demo user
  permissions,  \* permissions[h][u]: the defaults of a role (its name) or "custom"
  pc,           \* pc[s]: the hotel and the statement run s is at; <<0, 0>> when it is not running
  result,       \* result[s]: the ids the upserts of this hotel have returned
  edits         \* writes of the application so far (for the bound)

vars == <<id, refs, role, permissions, pc, result, edits>>

NoRefs == [i \in Items |-> [r \in Refs(i) |-> None]]
NoResult == [i \in Items |-> None]
Stopped == <<0, 0>>

\* A migrated database without rows.
Init ==
  /\ id = [h \in HotelIds |-> NoResult]
  /\ refs = [h \in HotelIds |-> NoRefs]
  /\ role = [h \in HotelIds |-> [u \in DemoUsers |-> "staff"]]
  /\ permissions = [h \in HotelIds |-> [u \in DemoUsers |-> "staff"]]
  /\ pc = [s \in Seeders |-> Stopped]
  /\ result = [s \in Seeders |-> NoResult]
  /\ edits = 0

StartRun(s) ==
  /\ pc[s] = Stopped
  /\ pc' = [pc EXCEPT ![s] = <<1, 1>>]
  /\ result' = [result EXCEPT ![s] = NoResult]
  /\ UNCHANGED <<id, refs, role, permissions, edits>>

\* The hotel and the statement that run s is at.
HotelOf(s) == Hotels[pc[s][1]]
Statement(s) == pc[s][2]

\* main's loop over the hotels: each seedHotel call has its own results.
Advance(s, item, rowId) ==
  LET n == pc[s][1] k == pc[s][2] IN
  IF k < Len(Script)
    THEN /\ pc' = [pc EXCEPT ![s] = <<n, k + 1>>]
         /\ result' = [result EXCEPT ![s][item] = rowId]
    ELSE /\ pc' = [pc EXCEPT ![s] = IF n < Len(Hotels) THEN <<n + 1, 1>> ELSE Stopped]
         /\ result' = [result EXCEPT ![s] = NoResult]

\* Mutant: the rows refer to the fixed ids instead of the rows found.
DemoReference(s, i) == [r \in Refs(i) |-> "demo"]

Reference(s, i) == [r \in Refs(i) |-> result[s][r]]

\* Mutant: a user that exists is given the role and keeps the permissions.
RoleOnly(h, u) == permissions[h][u]

ResetPermissions(h, u) == u

\* Mutant: a plain create, which fails when the row is there.
RefuseExisting(h, i) == id[h][i] = None

UpsertAccepts(h, i) == TRUE

\* Mutant: the id of the create branch is taken for the row's id.
ReturnedDemo(h, i) == "demo"

\* The id of the row an upsert returns: the one created, or the one found.
Returned(h, i) == IF id[h][i] = None THEN "demo" ELSE id[h][i]

\* The next upsert: an absent row is created, with the demo id; a user that
\* is there gets the role, the permissions and the name again, a tenant its
\* name, slug and status, any other row is left as it is.
Upsert(s) ==
  LET h == HotelOf(s)
      i == Script[Statement(s)]
      new == id[h][i] = None
  IN
  /\ pc[s] # Stopped
  /\ UpsertAccepts(h, i)
  /\ id' = IF new THEN [id EXCEPT ![h][i] = "demo"] ELSE id
  /\ refs' = IF new THEN [refs EXCEPT ![h][i] = Reference(s, i)] ELSE refs
  /\ IF i \in DemoUsers
       THEN /\ role' = [role EXCEPT ![h][i] = i]
            /\ permissions' = [permissions EXCEPT ![h][i] = IF new THEN i ELSE ResetPermissions(h, i)]
       ELSE UNCHANGED <<role, permissions>>
  /\ Advance(s, i, Returned(h, i))
  /\ UNCHANGED edits

\* A statement fails (the connection is lost, or an overlapping insert comes
\* first) or the process is killed: exit code 1.
Exit(s) ==
  /\ pc[s] # Stopped
  /\ pc' = [pc EXCEPT ![s] = Stopped]
  /\ UNCHANGED <<id, refs, role, permissions, result, edits>>

\* Somebody in the hotel may manage its users.
Manageable(h) ==
  \E u \in DemoUsers : id[h][u] # None /\ (role[h][u] # "staff" \/ permissions[h][u] = "custom")

\* PATCH /users/:id, and POST /users with the e-mail of a demo user that is
\* not there: a role with its defaults, or a list of permissions set by hand.
AppWrite(h, u) ==
  /\ edits < MaxEdits
  /\ Manageable(h)
  /\ edits' = edits + 1
  /\ id' = IF id[h][u] = None THEN [id EXCEPT ![h][u] = "generated"] ELSE id
  /\ \E r \in DemoUsers :
       /\ role' = [role EXCEPT ![h][u] = r]
       /\ \E p \in {r, "custom"} : permissions' = [permissions EXCEPT ![h][u] = p]
  /\ UNCHANGED <<refs, pc, result>>

Next ==
  \/ \E s \in Seeders : StartRun(s) \/ Upsert(s) \/ Exit(s)
  \/ \E h \in HotelIds, u \in DemoUsers : AppWrite(h, u)

Spec == Init /\ [][Next]_vars

\* A run makes progress, and one that failed is repeated.
FairSpec == Spec /\ \A s \in Seeders : WF_vars(Upsert(s)) /\ WF_vars(StartRun(s))

-----------------------------------------------------------------------------
(* Properties *)

\* What the columns of a row may hold.
References == UNION {[Refs(i) -> Ids \union {None}] : i \in Items}

\* A run that has not stopped knows the id of every row it has upserted in this hotel.
Knows(s) ==
  pc[s] # Stopped =>
    \A k \in 1 .. Statement(s) - 1 :
      result[s][Script[k]] # None /\ result[s][Script[k]] = id[HotelOf(s)][Script[k]]

\* The shape of the state; a run knows the id of every row it has upserted.
TypeOK ==
  /\ id \in [HotelIds -> [Items -> Ids \union {None}]]
  /\ refs \in [HotelIds -> [Items -> References]]
  /\ \A h \in HotelIds, i \in Items : DOMAIN refs[h][i] = Refs(i)
  /\ role \in [HotelIds -> [DemoUsers -> DemoUsers]]
  /\ permissions \in [HotelIds -> [DemoUsers -> DemoUsers \union {"custom"}]]
  /\ pc \in [Seeders -> {Stopped} \union ((1 .. Len(Hotels)) \X (1 .. Len(Script)))]
  /\ result \in [Seeders -> [Items -> Ids \union {None}]]
  /\ \A s \in Seeders : Knows(s)
  /\ edits \in 0 .. MaxEdits

\* Every reference leads to the row it means, in the same hotel, although the
\* application may have created the user under an id of its own.
ReferencesResolve ==
  \A h \in HotelIds, i \in Items : id[h][i] # None =>
    \A r \in Refs(i) : refs[h][i][r] # None /\ refs[h][i][r] = id[h][r]

\* Permissions nobody set by hand are the defaults of the present role, also
\* after the seed has put a demo user back into their role.
DefaultsMatchRole ==
  \A h \in HotelIds, u \in DemoUsers : permissions[h][u] \in {role[h][u], "custom"}

\* A seed that is repeated until it no longer fails brings every hotel all its
\* rows, whatever the runs before it left behind.
SeedCompletes ==
  (\A s \in Seeders : <>[][~Exit(s)]_vars) => <>[](\A h \in HotelIds, i \in Items : id[h][i] # None)

=============================================================================
