------------------------- MODULE DetectionContract --------------------------
(***************************************************************************)
(* What the backend promises about one event id, without handlers, store   *)
(* or clock: it is decided once, a granted command is issued once, and     *)
(* what was issued is recorded unless the process or the database loses    *)
(* it.  An event that was decided never becomes new again, except that a   *)
(* volatile store forgets every event at once.                             *)
(*                                                                         *)
(*   unseen -> held                           rejected or cooling down     *)
(*   unseen -> granted -> issued -> recorded  the command's life           *)
(*   unseen, granted, issued -> lost          outcome never recorded       *)
(***************************************************************************)
EXTENDS Integers

CONSTANTS Events, Durable

VARIABLES
    life,  \* where an event is in its life
    runs   \* commands issued for it

Lives == {"unseen", "held", "granted", "issued", "recorded", "lost"}

ContractInit ==
    /\ life = [e \in Events |-> "unseen"]
    /\ runs = [e \in Events |-> 0]

Move(e, from, to) == life[e] = from /\ life' = [life EXCEPT ![e] = to]

Hold(e) == Move(e, "unseen", "held") /\ UNCHANGED runs

Grant(e) == Move(e, "unseen", "granted") /\ UNCHANGED runs

\* A claim that was committed although its caller was told it failed.
GrantToNobody(e) == Move(e, "unseen", "lost") /\ UNCHANGED runs

Issue(e) ==
    /\ Move(e, "granted", "issued")
    /\ runs' = [runs EXCEPT ![e] = @ + 1]

Record(e) == Move(e, "issued", "recorded") /\ UNCHANGED runs

\* Handlers that fail or die lose the events they hold.
Lose(S) ==
    /\ \A e \in S : life[e] \in {"granted", "issued"}
    /\ life' = [e \in Events |-> IF e \in S THEN "lost" ELSE life[e]]
    /\ UNCHANGED runs

\* The volatile store starts again.
Forget ==
    /\ ~Durable
    /\ life' = [e \in Events |-> "unseen"]
    /\ runs' = [e \in Events |-> 0]

ContractNext ==
    \/ \E e \in Events : \/ Hold(e) \/ Grant(e) \/ GrantToNobody(e)
                         \/ Issue(e) \/ Record(e)
    \/ \E S \in SUBSET Events : Lose(S)
    \/ Forget

ContractSpec == ContractInit /\ [][ContractNext]_<<life, runs>>
=============================================================================
