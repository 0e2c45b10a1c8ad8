------------------------------ MODULE Broadcast ------------------------------
(***************************************************************************)
(* What the event bus promises a WebSocket client: a best-effort stream.   *)
(* Events may be missing, but none is repeated, none is invented, and of   *)
(* two events of one publisher the one published first comes first.        *)
(* EventBus implements it.                                                 *)
(***************************************************************************)
EXTENDS Naturals, Sequences

CONSTANTS Threads, Clients

VARIABLES
  sent,         \* sent[t]: how many events t has published
  received      \* received[c]: the stream of client c

Init == /\ sent = [t \in Threads |-> 0]
        /\ received = [c \in Clients |-> <<>>]

Publish(t) == /\ sent' = [sent EXCEPT ![t] = @ + 1]
              /\ UNCHANGED received

\* Any event not older than the last one of its publisher that c has received.
Receive(c) ==
  /\ \E t \in Threads : \E n \in 1..sent[t] :
       /\ \A i \in DOMAIN received[c] : received[c][i].from = t => received[c][i].nr < n
       /\ received' = [received EXCEPT ![c] = Append(@, [from |-> t, nr |-> n])]
  /\ UNCHANGED sent

Next == (\E t \in Threads : Publish(t)) \/ (\E c \in Clients : Receive(c))

Spec == Init /\ [][Next]_<<sent, received>>
===============================================================================
