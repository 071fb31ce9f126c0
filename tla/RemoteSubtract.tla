-------------------------- MODULE RemoteSubtract --------------------------
(***************************************************************************)
(* What flashClient (include/client.hpp) promises the program that calls   *)
(* it: each call comes back with the answer to its own request, or the     *)
(* calling process gives up and exits.                                     *)
(***************************************************************************)
EXTENDS Naturals

CONSTANTS Clients,   \* threads that call flashClient
          MaxCalls,  \* client -> bound on its calls
          NoAnswer

VARIABLES status,  \* client -> "idle", "pending", "exited"
          calls,   \* client -> number of its latest call, which names its request
          answer   \* client -> call answered by what the latest call returned

vars == <<status, calls, answer>>

Init == /\ status = [c \in Clients |-> "idle"]
        /\ calls = [c \in Clients |-> 0]
        /\ answer = [c \in Clients |-> NoAnswer]

Call(c) == /\ status[c] = "idle" /\ calls[c] < MaxCalls[c]
           /\ status' = [status EXCEPT ![c] = "pending"]
           /\ calls' = [calls EXCEPT ![c] = @ + 1]
           /\ answer' = [answer EXCEPT ![c] = NoAnswer]

Return(c) == /\ status[c] = "pending"
             /\ status' = [status EXCEPT ![c] = "idle"]
             /\ answer' = [answer EXCEPT ![c] = <<c, calls[c]>>]
             /\ UNCHANGED calls

GiveUp(c) == /\ status[c] = "pending"
             /\ status' = [status EXCEPT ![c] = "exited"]
             /\ UNCHANGED <<calls, answer>>

Next == \E c \in Clients : Call(c) \/ Return(c) \/ GiveUp(c)

Spec == Init /\ [][Next]_vars /\ \A c \in Clients : WF_vars(Return(c) \/ GiveUp(c))
===========================================================================
