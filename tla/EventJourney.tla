---------------------------- MODULE EventJourney ----------------------------
(***************************************************************************)
(* What an ingestion buffer promises its callers, whatever it is made of:  *)
(* an event enters once, leaves once and never comes back, and each request*)
(* gets one answer, which says where its event is.                         *)
(***************************************************************************)
CONSTANT Events

VARIABLES
  place,   \* where each event is: "outside", "inside" or "settled"
  answer   \* what its request was told

journey == <<place, answer>>

Init ==
  /\ place = [e \in Events |-> "outside"]
  /\ answer = [e \in Events |-> "none"]

Reply(e, result) ==
  /\ answer[e] = "none"
  /\ answer' = [answer EXCEPT ![e] = result]

Enter(e) ==
  /\ place[e] = "outside" /\ answer[e] = "none"
  /\ place' = [place EXCEPT ![e] = "inside"]
  /\ UNCHANGED answer

\* Some events leave together; what became of them is not said here.
Settle(es) ==
  /\ \A e \in es : place[e] = "inside"
  /\ place' = [e \in Events |-> IF e \in es THEN "settled" ELSE place[e]]
  /\ UNCHANGED answer

Acknowledge(e) ==
  /\ place[e] # "outside"
  /\ Reply(e, "ok")
  /\ UNCHANGED place

Refuse(e) ==
  /\ place[e] = "outside"
  /\ Reply(e, "refused")
  /\ UNCHANGED place

\* The caller gets an error for an event the buffer has settled without it.
DeadLetter(e) ==
  /\ place[e] = "outside"
  /\ place' = [place EXCEPT ![e] = "settled"]
  /\ Reply(e, "flushFailed")

Next ==
  \/ \E e \in Events : Enter(e) \/ Acknowledge(e) \/ Refuse(e) \/ DeadLetter(e)
  \/ \E es \in SUBSET Events : Settle(es)

Spec == Init /\ [][Next]_journey
=============================================================================
