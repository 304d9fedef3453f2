-------------------------------- MODULE MCLogin --------------------------------
(***************************************************************************)
(* Login for TLC: one account, its e-mail as stored, in another case (which *)
(* finds no account and has the same identity), and with the tenant's UUID *)
(* in another spelling (the same account under another identity).          *)
(***************************************************************************)
EXTENDS Login, TLC

CONSTANTS asStored, otherCase, otherHeader, k1, k2, u1

Typed == {asStored, otherCase, otherHeader}

Identity   == [a \in Typed |-> IF a = otherHeader THEN k2 ELSE k1]
OneAccount == [a \in Typed |-> IF a = otherCase THEN None ELSE u1]

\* Bounds of the run.  Refusals are counted for one identity at a time, while
\* the account may still be reached under the other; ...
OneCounter == \E k \in Keys : \A j \in Keys \ {k} : count[j] = 0 /\ guesses[j] = NoGuesses

\* ... and a session is refreshed beside logins that have not been refused yet.
CountersOrRefresh == (\A t \in Tokens : exp[t] # 0) => \A k \in Keys : guesses[k] = NoGuesses /\ count[k] = 0

Symmetry == Permutations(Requests) \union Permutations(Tokens) \union Permutations(Families)

=============================================================================
