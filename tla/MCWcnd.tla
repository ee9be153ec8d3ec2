------------------------------- MODULE MCWcnd -------------------------------
(***************************************************************************)
(* Instances of Wcnd for TLC: the commands each connection may carry.      *)
(***************************************************************************)
EXTENDS Wcnd, TLC

CONSTANTS c1, c2, c3

Open(u)  == [op |-> "open", user |-> u]
Close(u) == [op |-> "close", user |-> u]

\* Two users, the second one's connection also for an engineer's commands.
MCMixed == c1 :> {Open("bt"), Close("bt")}
           @@ c2 :> {Open("wifi"), Close("wifi"), Event("reset"), Event("dumpmem")}
\* A user that closes while two others open, one of which closes again.
MCThree == c1 :> {Open("bt"), Close("bt")} @@ c2 :> {Open("fm")}
           @@ c3 :> {Open("wifi"), Close("wifi")}
\* One user, and a client that asks for a reset.
MCReset == c1 :> {Open("bt")} @@ c2 :> {Event("reset")}

Bound(b, r, f) == [boot |-> b, requests |-> r, faults |-> f]
MCBounds     == {Bound(TRUE, 1, 0), Bound(TRUE, 0, 1), Bound(FALSE, 5, 0),
                 Bound(FALSE, 3, 1), Bound(FALSE, 2, 2)}
FiveRequests == {Bound(FALSE, 5, 0)}
OneFault     == {Bound(FALSE, 2, 1)}

MCUser  == {"bt", "wifi"}
MCConn  == {c1, c2}
MCUser3 == {"bt", "wifi", "fm"}
MCConn3 == {c1, c2, c3}
=============================================================================
