--------------------------------- MODULE Echo ---------------------------------
(***************************************************************************)
(* What seminar8/task2/pipes.c and seminar8/task3/semaphore.c are for: one *)
(* process changes an array, another one prints it.  Each change is shown  *)
(* once, whole, and in the order the changes were made.                    *)
(***************************************************************************)
EXTENDS Naturals, Sequences, SequencesExt

VARIABLES
  made,   \* the array after each change, in order
  shown   \* the arrays printed, in order

vars == <<made, shown>>

Init == made = <<>> /\ shown = <<>>

(* There is no saying what the array is changed to.                        *)
Change == /\ made' # <<>> /\ Front(made') = made
          /\ UNCHANGED shown

Show == /\ Len(shown) < Len(made)
        /\ shown' = Append(shown, made[Len(shown) + 1])
        /\ UNCHANGED made

(* The program is started anew.                                            *)
Restart == made' = <<>> /\ shown' = <<>>

Next == Change \/ Show \/ Restart

Spec == Init /\ [][Next]_vars

=============================================================================
