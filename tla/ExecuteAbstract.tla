--------------------------- MODULE ExecuteAbstract ---------------------------
(***************************************************************************)
(* What Engine.Execute promises its caller, without opcodes or stacks: it  *)
(* works through the scripts in order, never returning to an earlier one;  *)
(* the list of scripts only grows (the tapscript leaf is appended); the    *)
(* engine is "done" exactly when the index has passed the last script;     *)
(* only a done engine is accepted, and the verdict, once given, is final.  *)
(***************************************************************************)
EXTENDS Naturals

VARIABLES
  script,   \* the index of the script being executed (vm.scriptIdx)
  count,    \* the number of scripts the engine holds (len(vm.scripts))
  verdict   \* "running", "done", "accepted" or "rejected"

avars == <<script, count, verdict>>

\* Running means there is a script left to execute; done means there is none.
Positioned == /\ verdict = "running" => script < count
              /\ verdict = "done" => script >= count

Init ==
  /\ script \in Nat /\ count \in Nat
  /\ verdict \in {"running", "rejected"}
  /\ Positioned

\* Moving on through the scripts, possibly to the end of them.
Advance ==
  /\ verdict = "running"
  /\ script' >= script /\ count' >= count
  /\ verdict' \in {"running", "done"}
  /\ Positioned'

\* An error ends the execution where it stands.
Reject ==
  /\ verdict \in {"running", "done"}
  /\ verdict' = "rejected"
  /\ UNCHANGED <<script, count>>

\* The final check passes.
Accept ==
  /\ verdict = "done"
  /\ verdict' = "accepted"
  /\ UNCHANGED <<script, count>>

Next == Advance \/ Reject \/ Accept

\* The safety part of the contract.
SafeSpec == Init /\ [][Next]_avars

\* Execute returns: a verdict is eventually given.
Spec == SafeSpec /\ WF_avars(Next)

=============================================================================
