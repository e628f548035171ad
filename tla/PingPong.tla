------------------------------- MODULE PingPong -------------------------------
(***************************************************************************)
(* seminar8/task3/semaphore.c.  The child changes an array in shared       *)
(* memory as the user says, posts the semaphore `child' and waits for      *)
(* `parent'; the parent waits for `child', prints the array and posts      *)
(* `parent'.  The semaphores have names: they outlive the processes, with  *)
(* whatever values they have.  A run of the program is called a session.   *)
(***************************************************************************)
EXTENDS Naturals, Sequences, SequencesExt

CONSTANTS
  SIZE,         \* the size of the array: 10 in the program
  Values,       \* what the user may store
  MAXCHANGES,   \* bound: changes in a session
  MAXSTARTS     \* bound: sessions

ASSUME PingPongAssumption == SIZE \in Nat \ {0} /\ Values \subseteq Nat

VARIABLES
  arr,     \* the array in shared memory
  exists,  \* the semaphores have been created
  sem,     \* their values
  usable,  \* sem_open has succeeded in this session
  cpc,     \* where the child is
  ppc,     \* where the parent is
  input,   \* idx and val of the child
  line,    \* what the parent has printed of a line
  made,    \* auxiliary: the arrays the child has made in this session
  shown,   \* auxiliary: the lines the parent has printed in this session
  left,    \* auxiliary: the values of the semaphores at the start of the session
  starts   \* auxiliary: the number of sessions

session == <<exists, usable, left, starts>>

ping_vars == <<arr, sem, cpc, ppc, input, line, made, shown, session>>

Index == 0 .. SIZE - 1

NONE == [child |-> 0, parent |-> 0]

-----------------------------------------------------------------------------
PingInit ==
  /\ arr = [k \in Index |-> 0] /\ input = <<0, 0>> /\ line = <<>>
  /\ exists = FALSE /\ usable = FALSE /\ sem = NONE
  /\ cpc = "gone" /\ ppc = "gone"
  /\ made = <<>> /\ shown = <<>> /\ left = NONE /\ starts = 0

(* main up to the fork.  Semaphores that exist keep their values, and can  *)
(* only be opened again by a user whom their mode, decimal 644, does not   *)
(* bind; the result of sem_open is not looked at.  Without a child fork    *)
(* returns -1, and main goes on as the parent.                             *)
Start ==
  /\ cpc = "gone" /\ ppc = "gone" /\ starts < MAXSTARTS
  /\ arr' = [k \in Index |-> k + 1]
  /\ exists' = TRUE /\ usable' \in IF exists THEN BOOLEAN ELSE {TRUE}
  /\ cpc' \in {"scan", "gone"} /\ ppc' = "wait"
  /\ line' = <<>> /\ made' = <<>> /\ shown' = <<>>
  /\ left' = sem /\ starts' = starts + 1
  /\ UNCHANGED <<sem, input>>

(* At the end of the input scanf leaves idx and val as they are, which is  *)
(* one of the choices here.                                                *)
Scan ==
  /\ cpc = "scan" /\ Len(made) < MAXCHANGES
  /\ \E idx \in Index, val \in Values : input' = <<idx, val>>
  /\ cpc' = "change"
  /\ UNCHANGED <<arr, sem, ppc, line, made, shown, session>>

change_arr ==
  /\ cpc = "change"
  /\ arr' = [arr EXCEPT ![input[1]] = input[2]]
  /\ made' = Append(made, arr')
  /\ cpc' = "post"
  /\ UNCHANGED <<sem, ppc, input, line, shown, session>>

PostChild ==
  /\ cpc = "post" /\ usable
  /\ sem' = [sem EXCEPT !.child = @ + 1]
  /\ cpc' = "wait"
  /\ UNCHANGED <<arr, ppc, input, line, made, shown, session>>

(* Slip: the child does not wait until the parent has printed.             *)
NoWait ==
  /\ cpc = "wait"
  /\ cpc' = "scan"
  /\ UNCHANGED <<arr, sem, ppc, input, line, made, shown, session>>

WaitParent ==
  /\ cpc = "wait" /\ sem.parent > 0
  /\ sem' = [sem EXCEPT !.parent = @ - 1]
  /\ cpc' = "scan"
  /\ UNCHANGED <<arr, ppc, input, line, made, shown, session>>

WaitChild ==
  /\ ppc = "wait" /\ usable /\ sem.child > 0
  /\ sem' = [sem EXCEPT !.child = @ - 1]
  /\ ppc' = "print" /\ line' = <<>>
  /\ UNCHANGED <<arr, cpc, input, made, shown, session>>

(* The parent prints the array element by element.                         *)
PrintElement ==
  /\ ppc = "print"
  /\ line' = Append(line, arr[Len(line)])
  /\ IF Len(line') < SIZE
     THEN UNCHANGED <<ppc, shown>>
     ELSE ppc' = "post" /\ shown' = Append(shown, line')
  /\ UNCHANGED <<arr, sem, cpc, input, made, session>>

(* Slip: the parent posts both semaphores.                                 *)
PostBoth ==
  /\ ppc = "post"
  /\ sem' = [child |-> sem.child + 1, parent |-> sem.parent + 1]
  /\ ppc' = "wait"
  /\ UNCHANGED <<arr, cpc, input, line, made, shown, session>>

(* Slip: the parent does not post.                                         *)
PostNot ==
  /\ ppc = "post"
  /\ ppc' = "wait"
  /\ UNCHANGED <<arr, sem, cpc, input, line, made, shown, session>>

PostParent ==
  /\ ppc = "post"
  /\ sem' = [sem EXCEPT !.parent = @ + 1]
  /\ ppc' = "wait"
  /\ UNCHANGED <<arr, cpc, input, line, made, shown, session>>

(* A semaphore that could not be opened is a null pointer.                 *)
ChildFaults ==
  /\ cpc = "post" /\ ~usable
  /\ cpc' = "gone"
  /\ UNCHANGED <<arr, sem, ppc, input, line, made, shown, session>>

ParentFaults ==
  /\ ppc = "wait" /\ ~usable
  /\ ppc' = "gone"
  /\ UNCHANGED <<arr, sem, cpc, input, line, made, shown, session>>

(* The loops do not end: a session ends when its processes are killed, one *)
(* after the other.                                                        *)
KillChild ==
  /\ cpc # "gone" /\ cpc' = "gone"
  /\ UNCHANGED <<arr, sem, ppc, input, line, made, shown, session>>

KillParent ==
  /\ ppc # "gone" /\ ppc' = "gone"
  /\ UNCHANGED <<arr, sem, cpc, input, line, made, shown, session>>

Child == change_arr \/ PostChild \/ WaitParent \/ ChildFaults

Parent == WaitChild \/ PrintElement \/ PostParent \/ ParentFaults

PingNext == Start \/ Scan \/ Child \/ Parent \/ KillChild \/ KillParent

PingSpec == /\ PingInit /\ [][PingNext]_ping_vars
            /\ WF_ping_vars(Child) /\ WF_ping_vars(Parent)

-----------------------------------------------------------------------------
(* A line as the array it shows.                                           *)
Shown(l) == [k \in Index |-> l[k + 1]]

lines == [k \in 1 .. Len(shown) |-> Shown(shown[k])]

(* A session leaves the semaphores at most one higher than it found them,  *)
(* wherever its processes are killed.                                      *)
OneTokenPerSession ==
  sem.child + sem.parent <= left.child + left.parent + 1

(* The child's wait ends in every session, unless a process is killed or   *)
(* faults: a token left over never keeps it waiting.                       *)
Answered ==
  cpc = "wait" ~> (cpc = "scan" \/ cpc = "gone" \/ ppc = "gone")

E == INSTANCE Echo WITH
  made  <- IF left = NONE THEN made ELSE <<>>,
  shown <- IF left = NONE THEN lines ELSE <<>>

(* A session that finds the semaphores at zero echoes the changes: each    *)
(* line printed is the array as one change left it, and no change is torn, *)
(* skipped or shown twice (lines 42-44 and 49-51).                         *)
Echoes == E!Spec

=============================================================================
