-------------------------------- MODULE Calls --------------------------------
(***************************************************************************)
(* What the RPC layer promises to its callers: a call that has begun ends  *)
(* at most once, its function runs at most once on the other side, and the *)
(* call ends with the answer to it, or with a failure.  Only while the     *)
(* bytes of a lost connection are read as those of the next one may a call *)
(* be given what is not its answer.                                        *)
(***************************************************************************)
CONSTANT Requests
VARIABLES
  status,
  executed, refused,  \* the function has run; the call was answered with an error
  torn,               \* bytes of a lost connection are taken for the next one's
  garbled             \* has been given what is not its answer

Failures == {"timeout", "send_error"}

Init == /\ status = [r \in Requests |-> "none"]
        /\ executed = {} /\ refused = {} /\ torn = FALSE /\ garbled = {}

Begin(r) == /\ status[r] = "none"
            /\ status' = [status EXCEPT ![r] = "open"]
            /\ UNCHANGED <<executed, refused, torn, garbled>>

Unanswered(r) == status[r] # "none" /\ r \notin executed \cup refused

Execute(r) == /\ Unanswered(r)
              /\ executed' = executed \cup {r}
              /\ UNCHANGED <<status, refused, torn, garbled>>

Refuse(r) == /\ Unanswered(r)
             /\ refused' = refused \cup {r}
             /\ UNCHANGED <<status, executed, torn, garbled>>

Tear == torn' = ~torn /\ UNCHANGED <<status, executed, refused, garbled>>

Garble(r) == /\ torn
             /\ garbled' = garbled \cup {r}
             /\ UNCHANGED <<status, executed, refused, torn>>

End(r) == /\ status[r] = "open"
          /\ \E s \in Failures \cup {"ok", "no_bind", "garbled"} :
               /\ s = "ok" => r \in executed
               /\ s = "no_bind" => r \in refused
               /\ s = "garbled" => torn \/ r \in garbled
               /\ status' = [status EXCEPT ![r] = s]
          /\ UNCHANGED <<executed, refused, torn, garbled>>

Next == \/ \E r \in Requests : Begin(r) \/ Execute(r) \/ Refuse(r) \/ Garble(r) \/ End(r)
        \/ Tear

Spec == Init /\ [][Next]_<<status, executed, refused, torn, garbled>>
==============================================================================
