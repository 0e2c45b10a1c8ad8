------------------------------ MODULE Rendezvous ------------------------------
(***************************************************************************)
(* What POST /v1/loops/tag promises the Player, without threads, dicts,    *)
(* events or scratch files: the work of a request is begun at most once,   *)
(* its result is offered to that request and nobody else, and a request    *)
(* gets one answer, which is its own result, a timeout, or an error when   *)
(* the service could not take or keep the request.  LoopTag implements it. *)
(***************************************************************************)
CONSTANTS
  Requests,     \* calls of POST /v1/loops/tag
  Outcomes      \* what the worker may find: scores, or an error

VARIABLES
  work,         \* work[r]: how far the worker is with the request
  offer,        \* offer[r]: the result that has not reached its request yet, if any
  answer        \* answer[r]: what the Player got

promise == <<work, offer, answer>>

Init == /\ work = [r \in Requests |-> "none"]
        /\ offer = [r \in Requests |-> {}]
        /\ answer = [r \in Requests |-> "none"]

Move(r, from, to) == work[r] = from /\ work' = [work EXCEPT ![r] = to]
Reply(r, x) == answer[r] = "none" /\ answer' = [answer EXCEPT ![r] = x]

Ask(r) == /\ Move(r, "none", "asked") /\ answer[r] = "none"
          /\ UNCHANGED <<offer, answer>>

Start(r) == Move(r, "asked", "running") /\ UNCHANGED <<offer, answer>>

\* The clip is gone, or the worker dies over it: there will be no result.
GiveUp(r) == /\ Move(r, "asked", "over") \/ Move(r, "running", "over")
             /\ UNCHANGED <<offer, answer>>

Finish(r) == /\ Move(r, "running", "over") /\ offer[r] = {}
             /\ \E x \in Outcomes : offer' = [offer EXCEPT ![r] = {x}]
             /\ UNCHANGED answer

\* On the wire, or because nobody waits any more.
Lose(r) == /\ offer' = [offer EXCEPT ![r] = {}]
           /\ UNCHANGED <<work, answer>>

Deliver(r) == /\ \E x \in offer[r] : Reply(r, x)
              /\ offer' = [offer EXCEPT ![r] = {}]
              /\ UNCHANGED work

TimeOut(r) == /\ work[r] # "none" /\ Reply(r, "timeout")
              /\ UNCHANGED <<work, offer>>

Refuse(r) == Reply(r, "unavailable") /\ UNCHANGED <<work, offer>>

\* The service restarts: whoever is connected is cut off, and what was on offer
\* is forgotten, whoever it was for.
Restart(connected) ==
  /\ \A r \in connected : answer[r] = "none"
  /\ answer' = [r \in Requests |-> IF r \in connected THEN "unavailable" ELSE answer[r]]
  /\ offer' = [r \in Requests |-> {}]
  /\ UNCHANGED work

Next == \/ \E r \in Requests : \/ Ask(r) \/ Start(r) \/ GiveUp(r) \/ Finish(r)
                               \/ Lose(r) \/ Deliver(r) \/ TimeOut(r) \/ Refuse(r)
        \/ \E connected \in SUBSET Requests : Restart(connected)

Spec == Init /\ [][Next]_promise
===============================================================================
