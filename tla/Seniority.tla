----------------------------- MODULE Seniority -----------------------------
(***************************************************************************)
(* What a room promises, without saying how it keeps track of it: its      *)
(* members form a seniority order (who was there before whom), and as long *)
(* as it has members its chief is the member nobody precedes.  The chief   *)
(* is computed from the order alone here; the code maintains it            *)
(* incrementally (module Rooms).                                           *)
(***************************************************************************)

CONSTANTS
  Peer,    (* the ids of peers                   *)
  Room,    (* the ids of rooms                   *)
  NoPeer   (* the chief of a room without members *)

VARIABLES
  present,   (* present[r]: the members of room r                          *)
  before,    (* before[r]: the pairs <<p, q>> with p in r longer than q    *)
  chief      (* chief[r]: the member that may assign tasks in r            *)

vars == <<present, before, chief>>

Init ==
  /\ present = [r \in Room |-> {}]
  /\ before  = [r \in Room |-> {}]
  /\ chief   = [r \in Room |-> NoPeer]

(* The member of S that every other member of S came after. *)
MostSenior(S, order) == CHOOSE p \in S : \A q \in S \ {p} : <<p, q>> \in order

ChiefOf(S, order) == IF S = {} THEN NoPeer ELSE MostSenior(S, order)

(* A newcomer is junior to everybody present. *)
Enter(r, p) ==
  /\ p \notin present[r]
  /\ present' = [present EXCEPT ![r] = @ \cup {p}]
  /\ before'  = [before EXCEPT ![r] = @ \cup (present[r] \X {p})]
  /\ chief'   = [chief EXCEPT ![r] = ChiefOf(present'[r], before'[r])]

(* p walks out of all the rooms of S in one step. *)
Exit(S, p) ==
  /\ present' = [r \in Room |-> IF r \in S THEN present[r] \ {p} ELSE present[r]]
  /\ before'  = [r \in Room |->
                   {pair \in before[r] : r \in S => p \notin {pair[1], pair[2]}}]
  /\ chief'   = [r \in Room |-> ChiefOf(present'[r], before'[r])]

Next ==
  \E p \in Peer :
    \/ \E r \in Room : Enter(r, p)
    \/ \E S \in SUBSET Room : Exit(S, p)

Spec == Init /\ [][Next]_vars
=============================================================================
