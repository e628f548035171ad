------------------------------ MODULE MCSeminars ------------------------------
(* The programs of the seminars.  cpu-reordering.c is run to its end, and  *)
(* then one of the others; those whose turn does not come have been run    *)
(* before and have ended, or are not started.  The array of Pipes has two  *)
(* elements, 1 and 2; the words of MutexPrint have two and three letters.  *)
EXTENDS CpuReordering, PingPong, Pipes, MutexPrint, BlockHeap

MCarr == [k \in {0, 1} |-> k + 1]

MCLength == <<2, 3>>

VARIABLE turn   \* the program that is run after cpu-reordering.c

PipeOver ==
  /\ queue = <<>> /\ ends = [p \in {"child", "parent"} |-> {}]
  /\ writer = "gone" /\ reader = "ended" /\ child_arr = arr0 /\ msg = break_data
  /\ changes = <<>> /\ prints = <<>>

Word(t) == [k \in 1 .. LENGTH[t] |-> <<t, k>>]

PrintOver ==
  /\ m = FREE /\ print_main = "exit"
  /\ print_pc = [t \in Printers |-> "done"]
  /\ iteration = [t \in Printers |-> PRINTS] /\ s = [t \in Printers |-> LENGTH[t] + 2]
  /\ out = FlattenSeq([k \in 1 .. 2 * PRINTS |-> Word(1 + (k % 2))])

SeminarsInit ==
  /\ turn \in {"semaphore.c", "pipes.c", "task05.c", "heap-1.c"}
  /\ Init /\ PingInit /\ HeapInit
  /\ IF turn = "pipes.c" THEN PipeInit ELSE PipeOver
  /\ IF turn = "task05.c" THEN PrintInit ELSE PrintOver

Turn(program) == turn = program /\ main = "finished"

SeminarsNext ==
  /\ UNCHANGED turn
  /\ \/ /\ Next
        /\ UNCHANGED <<ping_vars, pipe_vars, print_vars, heap_vars>>
     \/ /\ Turn("semaphore.c") /\ PingNext
        /\ UNCHANGED <<vars, pipe_vars, print_vars, heap_vars>>
     \/ /\ Turn("pipes.c") /\ PipeNext
        /\ UNCHANGED <<vars, ping_vars, print_vars, heap_vars>>
     \/ /\ Turn("task05.c") /\ PrintNext
        /\ UNCHANGED <<vars, ping_vars, pipe_vars, heap_vars>>
     \/ /\ Turn("heap-1.c") /\ HeapNext
        /\ UNCHANGED <<vars, ping_vars, pipe_vars, print_vars>>

(* The fairness of each program.  Before its turn it waits only for the    *)
(* end of cpu-reordering.c.                                                *)
SeminarsSpec ==
  /\ SeminarsInit
  /\ [][SeminarsNext]_<<vars, ping_vars, pipe_vars, print_vars, heap_vars, turn>>
  /\ WF_vars(MainStep)
  /\ \A t \in Threads : WF_vars(ThreadStep(t))
  /\ \A p \in Processors : WF_vars(Flush(p))
  /\ WF_ping_vars(Child) /\ WF_ping_vars(Parent)
  /\ WF_pipe_vars(Writer) /\ WF_pipe_vars(Reader)
  /\ WF_print_vars(Main) /\ \A t \in Printers : WF_print_vars(my_thread(t))

=============================================================================
