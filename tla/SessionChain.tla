---------------------------- MODULE SessionChain ----------------------------
(***************************************************************************)
(* What the refresh-token code promises of a login session, without its    *)
(* database, clock or requests.  A session (the code's token family) is a  *)
(* chain of refresh tokens: at every moment it either holds one current    *)
(* token, or one request is replacing that token by the next one, or it is *)
(* over for good.                                                          *)
(***************************************************************************)
CONSTANTS Families, Tokens

VARIABLES
  started,    \* the sessions ever opened
  current,    \* current[f]: the token of f that can be exchanged, as a set
  replacing,  \* the sessions whose token is being issued or replaced
  used        \* every token that was ever current, or thrown away

vars == <<started, current, replacing, used>>

Init ==
  /\ started = {}
  /\ current = [f \in Families |-> {}]
  /\ replacing = {}
  /\ used = {}

\* A login opens a session that no token belongs to yet.
Open(f) ==
  /\ f \notin started
  /\ started' = started \union {f}
  /\ replacing' = replacing \union {f}
  /\ UNCHANGED <<current, used>>

\* The session receives a token that no session ever had.
Issue(f, t) ==
  /\ f \in replacing
  /\ t \notin used
  /\ current' = [current EXCEPT ![f] = {t}]
  /\ replacing' = replacing \ {f}
  /\ used' = used \union {t}
  /\ UNCHANGED started

\* The current token is given up in exchange for a next one.
Exchange(f) ==
  /\ current[f] # {}
  /\ current' = [current EXCEPT ![f] = {}]
  /\ replacing' = replacing \union {f}
  /\ UNCHANGED <<started, used>>

\* Some sessions end: logout, reuse, a refused user, expiry, a failed request,
\* which throws away the tokens T that it had signed.
End(F, T) ==
  /\ current' = [f \in Families |-> IF f \in F THEN {} ELSE current[f]]
  /\ replacing' = replacing \ F
  /\ used' = used \union T
  /\ UNCHANGED started

Next ==
  \/ \E f \in Families : Open(f) \/ Exchange(f) \/ \E t \in Tokens : Issue(f, t)
  \/ \E F \in SUBSET Families, T \in SUBSET Tokens : End(F, T)

Spec == Init /\ [][Next]_vars

=============================================================================
