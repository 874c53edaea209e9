---------------------------- MODULE SeatHandover ----------------------------
(***************************************************************************)
(* What the login program promises of the seat, apart from how it keeps    *)
(* it: the login screen or one person's session has the seat, never both;  *)
(* a session opens only for the account that was let in, on a seat the     *)
(* login screen has left; and being let in opens one session.              *)
(***************************************************************************)
CONSTANTS Accounts, Screen, None

VARIABLES owner,    \* who has the seat: the login screen, an account, or None
          letIn     \* the account let in whose session has not opened yet

vars == <<owner, letIn>>

Init == owner = None /\ letIn = None

ScreenTakes == owner = None /\ owner' = Screen /\ UNCHANGED letIn

LetIn(a) == letIn = None /\ letIn' = a /\ UNCHANGED owner

\* Let in, the account's session could not be opened after all.
TurnedAway == letIn # None /\ letIn' = None /\ UNCHANGED owner

SessionOpens == owner = None /\ letIn # None /\ owner' = letIn /\ letIn' = None

Leaves == owner # None /\ owner' = None /\ UNCHANGED letIn

Next == \/ ScreenTakes \/ TurnedAway \/ SessionOpens \/ Leaves
        \/ \E a \in Accounts : LetIn(a)

Spec == Init /\ [][Next]_vars
=============================================================================
