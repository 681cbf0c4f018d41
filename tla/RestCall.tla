------------------------------ MODULE RestCall ------------------------------
(***************************************************************************)
(* What one call of the REST client promises to the resource handler that  *)
(* makes it, without attempts, delays or the network: the call ends with   *)
(* one outcome, the server may carry the request out before or after that, *)
(* and only some pairs (outcome, number of executions) are possible.       *)
(* HttpClient implements this specification.                               *)
(***************************************************************************)
EXTENDS Naturals, RestVocabulary

CONSTANTS Calls       \* the calls made by concurrent resource handlers

VARIABLES request,    \* [Calls -> Requests], the kind of each call
          phase,      \* [Calls -> {"idle", "running", "done"}]
          executed,   \* [Calls -> Nat], times the server carried it out
          outcome     \* [Calls -> Outcomes \cup {"none"}]

vars == <<request, phase, executed, outcome>>

Init == /\ request \in [Calls -> Requests]
        /\ phase = [c \in Calls |-> "idle"]
        /\ executed = [c \in Calls |-> 0]
        /\ outcome = [c \in Calls |-> "none"]

\* A handler makes the call.
Begin(c) == /\ phase[c] = "idle"
            /\ phase' = [phase EXCEPT ![c] = "running"]
            /\ UNCHANGED <<request, executed, outcome>>

\* The server carries the request out: a POST at most once and never after it
\* was refused, a consuming request at most once, any other any number of
\* times, even after the call has returned.
Execute(c) == /\ phase[c] # "idle"
              /\ request[c] = "Post" => executed[c] = 0 /\ outcome[c] # "refused"
              /\ request[c] \in Consuming => executed[c] = 0
              /\ executed' = [executed EXCEPT ![c] = @ + 1]
              /\ UNCHANGED <<request, phase, outcome>>

\* The call returns: success implies that the request was carried out, and the
\* refusal of a POST implies that it was not.
Return(c) == /\ phase[c] = "running"
             /\ \E o \in Outcomes :
                  /\ o = "ok" => executed[c] > 0
                  /\ (o = "refused" /\ request[c] = "Post") => executed[c] = 0
                  /\ outcome' = [outcome EXCEPT ![c] = o]
             /\ phase' = [phase EXCEPT ![c] = "done"]
             /\ UNCHANGED <<request, executed>>

Next == \E c \in Calls : Begin(c) \/ Execute(c) \/ Return(c)

Spec == Init /\ [][Next]_vars
=============================================================================
