----------------------------- MODULE TurnContract -----------------------------
(***************************************************************************)
(* What POST /ai/multi-agent promises, without tasks, channels, frames or  *)
(* blocks: the model says pieces of an answer, the client is shown them    *)
(* one after the other, a verdict follows the last one, and the response   *)
(* ends with nothing withheld unless the client leaves.                    *)
(***************************************************************************)
EXTENDS Integers, Sequences

VARIABLES status,   \* "pending", "refused", "open", "ended", "left"
          said,     \* the pieces of the answer the model has produced
          shown,    \* the pieces the client displays
          verdicts  \* how many times the client was told that the turn is over

vars == <<status, said, shown, verdicts>>

Init == status = "pending" /\ said = <<>> /\ shown = <<>> /\ verdicts = 0

Refuse == status = "pending" /\ status' = "refused" /\ UNCHANGED <<said, shown, verdicts>>

Open == status = "pending" /\ status' = "open" /\ UNCHANGED <<said, shown, verdicts>>

\* The model goes on whatever the client does, but never after a verdict.
Say ==
  /\ verdicts = 0
  /\ Len(said') = Len(said) + 1
  /\ SubSeq(said', 1, Len(said)) = said
  /\ UNCHANGED <<status, shown, verdicts>>

Show ==
  /\ status = "open" /\ Len(shown) < Len(said)
  /\ shown' = SubSeq(said, 1, Len(shown) + 1)
  /\ UNCHANGED <<status, said, verdicts>>

Conclude ==
  /\ status = "open" /\ shown = said
  /\ verdicts' = verdicts + 1
  /\ UNCHANGED <<status, said, shown>>

End == status = "open" /\ shown = said /\ status' = "ended" /\ UNCHANGED <<said, shown, verdicts>>

Leave == status = "open" /\ status' = "left" /\ UNCHANGED <<said, shown, verdicts>>

Next == Refuse \/ Open \/ Say \/ Show \/ Conclude \/ End \/ Leave

Spec == Init /\ [][Next]_vars

=============================================================================
