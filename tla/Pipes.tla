-------------------------------- MODULE Pipes --------------------------------
(***************************************************************************)
(* seminar8/task2/pipes.c.  The child doubles elements of an array as the  *)
(* user says and writes the array to a pipe after each change; the parent  *)
(* reads and prints the arrays until a message says that the child has     *)
(* finished, or the pipe ends.  fork gives both processes both ends of     *)
(* both pipes, and each closes what it does not use.                       *)
(***************************************************************************)
EXTENDS Naturals, Sequences, SequencesExt

CONSTANTS
  arr0,         \* the array at the beginning: 0 .. 9 in the program
  CAP,          \* bound: the messages a pipe holds (64 KiB in Linux)
  MAXWRITES    \* bound: the changes the user makes

ASSUME PipesAssumption ==
  CAP \in Nat \ {0} /\ arr0 \in [DOMAIN arr0 -> Nat]

VARIABLES
  queue,      \* the contents of pipes[0]; nothing is ever written to pipes[1]
  ends,       \* the file descriptors each process has: <<pipe, end>>
  writer,     \* where the child is
  reader,     \* where the parent is
  child_arr,  \* arr of the child
  msg,        \* child_message of the parent
  changes,    \* auxiliary: the arrays the child has made
  prints      \* auxiliary: the arrays the parent has printed

pipe_vars == <<queue, ends, writer, reader, child_arr, msg, changes, prints>>

READ == 0    \* pipes[..][0]

WRITE == 1   \* pipes[..][1]

Ends == {0, 1} \X {READ, WRITE}

Places == DOMAIN arr0

-----------------------------------------------------------------------------
(* The operating system.  A message is smaller than PIPE_BUF: it is        *)
(* written and read as a whole.                                            *)

Open(e) == \E p \in {"child", "parent"} : e \in ends[p]

(* A write fails without readers: SIGPIPE ends the writer.                 *)
Broken(p) == ~Open(<<p, READ>>)

(* A read from an empty pipe without writers finds its end.                *)
AtEnd(p) == queue = <<>> /\ ~Open(<<p, WRITE>>)

(* What ends a process closes its descriptors.                             *)
Gone(p) == ends' = [ends EXCEPT ![p] = {}]

Close(p, e) == ends' = [ends EXCEPT ![p] = @ \ {e}]

-----------------------------------------------------------------------------
(* After the fork.  Without a child fork returns -1, and main goes on as   *)
(* the parent.                                                             *)
PipeInit ==
  /\ queue = <<>> /\ child_arr = arr0
  /\ \/ writer = "close_00" /\ ends = [p \in {"child", "parent"} |-> Ends]
     \/ writer = "gone" /\ ends = [child |-> {}, parent |-> Ends]
  /\ reader = "close_01"
  /\ msg = [finished |-> FALSE, arr |-> arr0]
  /\ changes = <<>> /\ prints = <<>>

ChildCloses ==
  \/ writer = "close_00" /\ writer' = "close_11" /\ Close("child", <<0, READ>>)
  \/ writer = "close_11" /\ writer' = "scan" /\ Close("child", <<1, WRITE>>)

ChildBegins ==
  /\ ChildCloses
  /\ UNCHANGED <<queue, reader, child_arr, msg, changes, prints>>

(* The user names an element, or a negative number.  At the end of the     *)
(* input scanf leaves `input' undefined, which is one of the choices here. *)
ScanIndex ==
  /\ writer = "scan" /\ Len(changes) < MAXWRITES
  /\ \E input \in Places : child_arr' = [child_arr EXCEPT ![input] = 2 * @]
  /\ changes' = Append(changes, child_arr')
  /\ writer' = "write"
  /\ UNCHANGED <<queue, ends, reader, msg, prints>>

ScanNegative ==
  /\ writer = "scan"
  /\ writer' = "write_last"
  /\ UNCHANGED <<queue, ends, reader, child_arr, msg, changes, prints>>

data == [finished |-> FALSE, arr |-> child_arr]

break_data == [finished |-> TRUE, arr |-> [k \in Places |-> 0]]

Write ==
  /\ writer \in {"write", "write_last"} /\ ~Broken(0) /\ Len(queue) < CAP
  /\ queue' = Append(queue, IF writer = "write" THEN data ELSE break_data)
  /\ writer' = IF writer = "write" THEN "scan" ELSE "close_01"
  /\ UNCHANGED <<ends, reader, child_arr, msg, changes, prints>>

Sigpipe ==
  /\ writer \in {"write", "write_last"} /\ Broken(0)
  /\ writer' = "gone" /\ Gone("child")
  /\ UNCHANGED <<queue, reader, child_arr, msg, changes, prints>>

ChildEnds ==
  /\ \/ writer = "close_01" /\ writer' = "close_10" /\ Close("child", <<0, WRITE>>)
     \/ writer = "close_10" /\ writer' = "gone" /\ Gone("child")
  /\ UNCHANGED <<queue, reader, child_arr, msg, changes, prints>>

(* Slip: the parent keeps the end the child writes to.                     *)
ParentKeepsWrite ==
  \/ reader = "close_01" /\ reader' = "close_10" /\ UNCHANGED ends
  \/ reader = "close_10" /\ reader' = "read" /\ Close("parent", <<1, READ>>)

ParentCloses ==
  \/ reader = "close_01" /\ reader' = "close_10" /\ Close("parent", <<0, WRITE>>)
  \/ reader = "close_10" /\ reader' = "read" /\ Close("parent", <<1, READ>>)

ParentBegins ==
  /\ ParentCloses
  /\ UNCHANGED <<queue, writer, child_arr, msg, changes, prints>>

(* Slip: the loop does not look at `finished'.                             *)
ReadToTheEnd ==
  /\ reader = "read" /\ queue # <<>>
  /\ msg' = Head(queue) /\ queue' = Tail(queue)
  /\ reader' = "print"
  /\ UNCHANGED <<ends, writer, child_arr, changes, prints>>

ReadMessage ==
  /\ reader = "read" /\ queue # <<>>
  /\ msg' = Head(queue) /\ queue' = Tail(queue)
  /\ reader' = IF msg'.finished THEN "close_11" ELSE "print"
  /\ UNCHANGED <<ends, writer, child_arr, changes, prints>>

(* Slip: an empty pipe is taken for one that has ended.                    *)
ReadEmpty ==
  /\ reader = "read" /\ queue = <<>>
  /\ reader' = "close_11"
  /\ UNCHANGED <<queue, ends, writer, child_arr, msg, changes, prints>>

ReadEnd ==
  /\ reader = "read" /\ AtEnd(0)
  /\ reader' = "close_11"
  /\ UNCHANGED <<queue, ends, writer, child_arr, msg, changes, prints>>

PrintArray ==
  /\ reader = "print"
  /\ prints' = Append(prints, msg.arr)
  /\ reader' = "read"
  /\ UNCHANGED <<queue, ends, writer, child_arr, msg, changes>>

ParentEnds ==
  /\ \/ reader = "close_11" /\ reader' = "close_00" /\ Close("parent", <<1, WRITE>>)
     \/ reader = "close_00" /\ reader' = "ended" /\ Gone("parent")
  /\ UNCHANGED <<queue, writer, child_arr, msg, changes, prints>>

(* Either process may be killed at any time.                               *)
KillWriter ==
  /\ writer # "gone"
  /\ writer' = "gone" /\ Gone("child")
  /\ UNCHANGED <<queue, reader, child_arr, msg, changes, prints>>

KillReader ==
  /\ reader \notin {"ended", "gone"}
  /\ reader' = "gone" /\ Gone("parent")
  /\ UNCHANGED <<queue, writer, child_arr, msg, changes, prints>>

Writer == ChildBegins \/ Write \/ Sigpipe \/ ChildEnds

Reader == ParentBegins \/ ReadMessage \/ ReadEnd \/ PrintArray \/ ParentEnds

PipeNext == \/ Writer \/ ScanIndex \/ ScanNegative \/ Reader
            \/ KillWriter \/ KillReader

PipeSpec == /\ PipeInit /\ [][PipeNext]_pipe_vars
            /\ WF_pipe_vars(Writer) /\ WF_pipe_vars(Reader)

-----------------------------------------------------------------------------
(* When the parent stops reading, it has printed every array that reached  *)
(* the pipe: also after the child was killed, and never because of a       *)
(* message that overtook another (lines 42-48 and 57).                     *)
NothingLeftUnread ==
  reader \in {"close_11", "close_00", "ended"} =>
    /\ queue = <<>>
    /\ prints = changes \/ (writer = "gone" /\ prints = Front(changes))

(* When the child is gone, however, the parent ends: it holds no end of    *)
(* the pipe that would keep it waiting for itself (line 53).  When the     *)
(* parent is gone, a child that is writing does not wait for ever on a     *)
(* pipe that nobody empties (line 27).                                     *)
NobodyWaits ==
  /\ (writer = "gone") ~> (reader \in {"ended", "gone"})
  /\ (reader = "gone" /\ writer \in {"write", "write_last"}) ~> (writer = "gone")

(* The parent's lines are the child's changes, in order.                   *)
PipeEcho == INSTANCE Echo WITH made <- changes, shown <- prints

PipeEchoes == PipeEcho!Spec

=============================================================================
