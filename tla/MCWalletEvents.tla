--------------------------- MODULE MCWalletEvents ---------------------------
(***************************************************************************)
(* A small instance of WalletEvents: a phone that passes from one user to  *)
(* another, and a user suspended.                                          *)
(***************************************************************************)
EXTENDS WalletEvents

CONSTANTS u1, u2, p1, p2, w1, w2, d1, d2, heal, job

Item(kind, user, tel) == [kind |-> kind, user |-> user, phone |-> tel]

MCNews == <<
  Item("registered", u1, p1),
  Item("updated", u1, p2),
  Item("registered", u2, p1),
  Item("suspended", u1, Nothing)>>

\* Support backfills the first user.
MCAsk == [r \in {heal} |-> Item("registered", u1, p2)]

\* News and payments meet only where a process starts: a history has one or the other.
MCStarts == {[made |-> {d1, d2}, told |-> 0], [made |-> {}, told |-> Len(MCNews)]}

\* The news of the proof's hypothesis.
ASSUME NewsAreOrderly == OrderlyNews
=============================================================================
