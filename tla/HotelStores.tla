----------------------------- MODULE HotelStores -----------------------------
(***************************************************************************)
(* What the shared tables, the policies and the pool of connections        *)
(* promise together: every hotel has a store of its own.  A request works  *)
(* for one hotel, and all that it is given, changes and commits is to be   *)
(* explained from that hotel's store and that hotel's other requests.      *)
(***************************************************************************)
CONSTANTS
  Requests,  \* slots for requests
  Hotels,
  Keys,      \* primary keys of rows
  None       \* no hotel

VARIABLES
  store,    \* store[h]: the rows of hotel h
  serves,   \* serves[r]: the hotel that request r works for
  written,  \* written[r]: the rows it has made or changed and not committed
  erased,   \* erased[r]: the rows it has deleted and not committed
  given     \* given[r]: the last answer it was given, a set of none or one

vars == <<store, serves, written, erased, given>>

Init ==
  /\ store \in [Hotels -> SUBSET Keys]
  /\ serves = [r \in Requests |-> None]
  /\ written = [r \in Requests |-> {}]
  /\ erased = [r \in Requests |-> {}]
  /\ given = [r \in Requests |-> {}]

Arrive(r, h) ==
  /\ serves[r] = None
  /\ serves' = [serves EXCEPT ![r] = h]
  /\ UNCHANGED <<store, written, erased, given>>

\* The store as r finds it: what is committed, with its own changes.
View(r) == (store[serves[r]] \ erased[r]) \union written[r]

\* A query is answered with the whole store, as it is now.
Read(r) ==
  /\ serves[r] # None
  /\ given' = [given EXCEPT ![r] = {View(r)}]
  /\ UNCHANGED <<store, serves, written, erased>>

\* No other request of the hotel has an uncommitted change of row k.
Unlocked(r, k) ==
  \A q \in Requests \ {r} : serves[q] = serves[r] => k \notin written[q] \union erased[q]

\* A row is made, or changed where it is there.
Put(r, k) ==
  /\ serves[r] # None
  /\ Unlocked(r, k)
  /\ written' = [written EXCEPT ![r] = @ \union {k}]
  /\ erased' = [erased EXCEPT ![r] = @ \ {k}]
  /\ UNCHANGED <<store, serves, given>>

Remove(r, k) ==
  /\ serves[r] # None
  /\ k \in View(r)
  /\ Unlocked(r, k)
  /\ written' = [written EXCEPT ![r] = @ \ {k}]
  /\ erased' = [erased EXCEPT ![r] = @ \union {k}]
  /\ UNCHANGED <<store, serves, given>>

Drop(r) == written' = [written EXCEPT ![r] = {}] /\ erased' = [erased EXCEPT ![r] = {}]

\* All of the request's changes are in the store at once, or none of them is.
Commit(r) ==
  /\ serves[r] # None
  /\ store' = [store EXCEPT ![serves[r]] = View(r)]
  /\ Drop(r)
  /\ UNCHANGED <<serves, given>>

\* The request is answered, or fails: what it has not committed is lost.
Leave(r) ==
  /\ serves[r] # None
  /\ serves' = [serves EXCEPT ![r] = None]
  /\ given' = [given EXCEPT ![r] = {}]
  /\ Drop(r)
  /\ UNCHANGED store

Next ==
  \E r \in Requests :
    \/ \E h \in Hotels : Arrive(r, h)
    \/ Read(r)
    \/ \E k \in Keys : Put(r, k) \/ Remove(r, k)
    \/ Commit(r)
    \/ Leave(r)

Spec == Init /\ [][Next]_vars

=============================================================================
