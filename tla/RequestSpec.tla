---------------------------- MODULE RequestSpec ----------------------------
(***************************************************************************)
(* What a caller of the driver counts on: a call is one request; the       *)
(* device serves it at most once, with an answer or with a refusal; and    *)
(* the call reports just what became of it: "OK" with the answer to this   *)
(* very request, "RXERR" if it was refused, "TIMEOUT" only if it was not   *)
(* served by then.  There are no bytes, transfers, buffers or locks here;  *)
(* module SlamkitDriver says how the driver does it.                       *)
(***************************************************************************)
EXTENDS Naturals

CONSTANT Callers

VARIABLES calls,    \* how many calls were made
          pending,  \* [c |-> the number of the call c is in, or 0]
          reply,    \* [c |-> "none" | "answer" | "refusal"], what that call was served
          outcome   \* [c |-> what the last call of c returned: its code, and the
                    \* number of the call the data answers, or 0]

vars == <<calls, pending, reply, outcome>>

Init ==
  /\ calls = 0
  /\ pending = [c \in Callers |-> 0]
  /\ reply = [c \in Callers |-> "none"]
  /\ outcome = [c \in Callers |-> [code |-> "none", of |-> 0]]

Call(c) ==
  /\ pending[c] = 0
  /\ calls' = calls + 1
  /\ pending' = [pending EXCEPT ![c] = calls']
  /\ UNCHANGED <<reply, outcome>>

Serve(c) ==
  /\ pending[c] # 0 /\ reply[c] = "none"
  /\ \E r \in {"answer", "refusal"} : reply' = [reply EXCEPT ![c] = r]
  /\ UNCHANGED <<calls, pending, outcome>>

Ended(c, code, of) ==
  /\ pending' = [pending EXCEPT ![c] = 0]
  /\ reply' = [reply EXCEPT ![c] = "none"]
  /\ outcome' = [outcome EXCEPT ![c] = [code |-> code, of |-> of]]
  /\ UNCHANGED calls

Return(c) ==
  /\ pending[c] # 0
  /\ \/ reply[c] = "answer" /\ Ended(c, "OK", pending[c])
     \/ reply[c] = "refusal" /\ Ended(c, "RXERR", 0)
     \/ reply[c] = "none" /\ Ended(c, "TIMEOUT", 0)

Next == \E c \in Callers : Call(c) \/ Serve(c) \/ Return(c)

Spec == Init /\ [][Next]_vars
=============================================================================
