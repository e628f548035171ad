---------------------------- MODULE CpuReordering ----------------------------
(***************************************************************************)
(* seminar8/task4/cpu-reordering.c on an x86 processor.  A store goes to a *)
(* first-in first-out buffer of its processor and reaches memory some time *)
(* later; a load sees the stores of its own processor at once and those of *)
(* others when they have reached memory.  mfence and the locked            *)
(* instructions of sem_wait and sem_post wait until the buffer is empty.   *)
(* Threads have processors of their own.                                   *)
(***************************************************************************)
EXTENDS Integers, Sequences

CONSTANT ITERS   \* the number of rounds: 1000000 in the program

ASSUME ItersAssumption == ITERS \in Nat \ {0}

VARIABLES
  mem,    \* x, y, read0 and read1 in memory
  buf,    \* the store buffer of each thread, and of main (processor 2)
  begin,  \* the values of sem_begin0 and sem_begin1
  end,    \* the value of sem_end
  pc,     \* where each thread is
  reg,    \* the value a thread has loaded and not yet stored
  main,   \* where main is
  i       \* the round

vars == <<mem, buf, begin, end, pc, reg, main, i>>

Threads == {0, 1}

MAIN == 2

Processors == Threads \cup {MAIN}

Cells == {"x", "y", "read0", "read1"}

Own(t) == IF t = 0 THEN "x" ELSE "y"

Read(t) == IF t = 0 THEN "read0" ELSE "read1"

-----------------------------------------------------------------------------
(* The processor.                                                          *)

Buffered(p, c, v) == buf' = [buf EXCEPT ![p] = Append(@, <<c, v>>)]

Drained(p) == buf[p] = <<>>

(* Slip: mfence is left out.                                               *)
NoFence(p) == TRUE

MFence(p) == Drained(p)

(* A load takes the youngest buffered store to the cell, if there is one.  *)
Value(p, c) ==
  LET own == {k \in DOMAIN buf[p] : buf[p][k][1] = c}
  IN  IF own = {} THEN mem[c]
      ELSE buf[p][CHOOSE k \in own : \A l \in own : l <= k][2]

Flush(p) ==
  /\ buf[p] # <<>>
  /\ mem' = [mem EXCEPT ![Head(buf[p])[1]] = Head(buf[p])[2]]
  /\ buf' = [buf EXCEPT ![p] = Tail(@)]
  /\ UNCHANGED <<begin, end, pc, reg, main, i>>

-----------------------------------------------------------------------------
(* main has initialised the semaphores and created the threads.            *)
Init ==
  /\ mem = [c \in Cells |-> 0]
  /\ buf = [p \in Processors |-> <<>>]
  /\ begin = [t \in Threads |-> 0] /\ end = 0
  /\ pc = [t \in Threads |-> "wait"]
  /\ reg = [t \in Threads |-> 0]
  /\ main = "reset_x" /\ i = 0

(* thread0_impl and thread1_impl: sem_wait on their own semaphore.         *)
Wake(t) ==
  /\ pc[t] = "wait" /\ begin[t] > 0 /\ Drained(t)
  /\ begin' = [begin EXCEPT ![t] = @ - 1]
  /\ pc' = [pc EXCEPT ![t] = "store"]
  /\ UNCHANGED <<mem, buf, end, reg, main, i>>

Store(t) ==
  /\ pc[t] = "store"
  /\ Buffered(t, Own(t), 1)
  /\ pc' = [pc EXCEPT ![t] = "fence"]
  /\ UNCHANGED <<mem, begin, end, reg, main, i>>

Fence(t) ==
  /\ pc[t] = "fence" /\ MFence(t)
  /\ pc' = [pc EXCEPT ![t] = "load"]
  /\ UNCHANGED <<mem, buf, begin, end, reg, main, i>>

Load(t) ==
  /\ pc[t] = "load"
  /\ reg' = [reg EXCEPT ![t] = Value(t, Own(1 - t))]
  /\ pc' = [pc EXCEPT ![t] = "save"]
  /\ UNCHANGED <<mem, buf, begin, end, main, i>>

Save(t) ==
  /\ pc[t] = "save"
  /\ Buffered(t, Read(t), reg[t])
  /\ pc' = [pc EXCEPT ![t] = "post"]
  /\ UNCHANGED <<mem, begin, end, reg, main, i>>

PostEnd(t) ==
  /\ pc[t] = "post" /\ Drained(t)
  /\ end' = end + 1
  /\ pc' = [pc EXCEPT ![t] = "wait"]
  /\ UNCHANGED <<mem, buf, begin, reg, main, i>>

(* main resets x and y, ...                                                *)
Reset(t, here, next) ==
  /\ main = here
  /\ Buffered(MAIN, Own(t), 0)
  /\ main' = next
  /\ UNCHANGED <<mem, begin, end, pc, reg, i>>

(* ... starts the two threads, ...                                         *)
PostBegin(t, here, next) ==
  /\ main = here /\ Drained(MAIN)
  /\ begin' = [begin EXCEPT ![t] = @ + 1]
  /\ main' = next
  /\ UNCHANGED <<mem, buf, end, pc, reg, i>>

(* Slip: one of the threads is not started.                                *)
StartOne == PostBegin(0, "post0", "wait1")

StartBoth == PostBegin(0, "post0", "post1") \/ PostBegin(1, "post1", "wait1")

(* ... waits for both, ...                                                 *)
WaitEnd(here, next) ==
  /\ main = here /\ end > 0 /\ Drained(MAIN)
  /\ end' = end - 1
  /\ main' = next
  /\ UNCHANGED <<mem, buf, begin, pc, reg, i>>

(* Slip: main waits for one of the threads only.                           *)
WaitOne == WaitEnd("wait1", "check")

WaitBoth == WaitEnd("wait1", "wait2") \/ WaitEnd("wait2", "check")

BothZero == Value(MAIN, "read0") = 0 /\ Value(MAIN, "read1") = 0

(* ... and looks at what they have read.  Two zeros are reported, and end  *)
(* main; when main ends, all ends.                                         *)
NextRound ==
  /\ main = "check" /\ ~BothZero /\ i + 1 < ITERS
  /\ main' = "reset_x" /\ i' = i + 1
  /\ UNCHANGED <<mem, buf, begin, end, pc, reg>>

Finish ==
  /\ main = "check" /\ (BothZero \/ i + 1 = ITERS)
  /\ IF BothZero THEN main' = "reported" /\ UNCHANGED i
                 ELSE main' = "finished" /\ i' = i + 1
  /\ pc' = [t \in Threads |-> "gone"]
  /\ UNCHANGED <<mem, buf, begin, end, reg>>

ThreadStep(t) ==
  Wake(t) \/ Store(t) \/ Fence(t) \/ Load(t) \/ Save(t) \/ PostEnd(t)

MainStep ==
  \/ Reset(0, "reset_x", "reset_y") \/ Reset(1, "reset_y", "post0")
  \/ StartBoth \/ WaitBoth
  \/ NextRound \/ Finish

Next == \/ MainStep
        \/ \E t \in Threads : ThreadStep(t)
        \/ \E p \in Processors : Flush(p)

Spec == /\ Init /\ [][Next]_vars
        /\ WF_vars(MainStep)
        /\ \A t \in Threads : WF_vars(ThreadStep(t))
        /\ \A p \in Processors : WF_vars(Flush(p))

-----------------------------------------------------------------------------
(* The variables have their types, and no buffer holds more stores than    *)
(* its processor executes between two fences: a thread one, main two.      *)
TypeOK ==
  /\ mem \in [Cells -> {0, 1}]
  /\ buf \in [Processors -> Seq(Cells \X {0, 1})]
  /\ Len(buf[MAIN]) <= 2 /\ \A t \in Threads : Len(buf[t]) <= 1
  /\ begin \in [Threads -> Nat] /\ end \in Nat
  /\ pc \in [Threads -> {"wait", "store", "fence", "load", "save", "post", "gone"}]
  /\ reg \in [Threads -> {0, 1}]
  /\ main \in {"reset_x", "reset_y", "post0", "post1", "wait1", "wait2",
               "check", "reported", "finished"}
  /\ i \in 0 .. ITERS

(* With the fence between its store and its load no two threads both miss  *)
(* the store of the other: the message of line 54 is never printed.        *)
NeverReordered == main # "reported"

(* Between two rounds nothing of the last one is on its way: both threads  *)
(* wait, no semaphore is up, and no store of theirs is still to come.  So  *)
(* the reset of line 46 cannot be overtaken, and line 53 reads the values  *)
(* of this round.                                                          *)
RoundsApart ==
  main \in {"check", "reset_x", "reset_y", "post0"} =>
    /\ \A t \in Threads : pc[t] = "wait" /\ begin[t] = 0 /\ buf[t] = <<>>
    /\ end = 0

(* main runs all its rounds and ends: no semaphore is waited for in vain.  *)
Terminates == <>(main \in {"finished", "reported"})

-----------------------------------------------------------------------------
(* With its fences the program behaves as if every store took effect at    *)
(* once: a store in a buffer counts as one that is still to be executed.   *)

PcBar == [t \in Threads |->
            CASE pc[t] = "fence" /\ buf[t] # <<>> -> "store"
              [] pc[t] = "fence" /\ buf[t] = <<>> -> "load"
              [] pc[t] = "post" /\ buf[t] # <<>>  -> "save"
              [] OTHER                            -> pc[t]]

MainBar == CASE Len(buf[MAIN]) = 2                     -> "reset_x"
             [] Len(buf[MAIN]) = 1 /\ main = "reset_y" -> "reset_x"
             [] Len(buf[MAIN]) = 1 /\ main = "post0"   -> "reset_y"
             [] OTHER                                  -> main

SC == INSTANCE Litmus WITH pc <- PcBar, main <- MainBar

(* The program implements Litmus, and is fair to its steps.                *)
SequentiallyConsistent == SC!Spec

(* What can be in the buffers, and when.                                   *)
Buffers ==
  /\ \A t \in Threads :
       \/ buf[t] = <<>>
       \/ pc[t] = "fence" /\ buf[t] = << <<Own(t), 1>> >>
       \/ pc[t] = "post" /\ buf[t] = << <<Read(t), reg[t]>> >>
  /\ \/ buf[MAIN] = <<>>
     \/ main = "reset_y" /\ buf[MAIN] = << <<"x", 0>> >>
     \/ main = "post0" /\ buf[MAIN] = << <<"x", 0>>, <<"y", 0>> >>
     \/ main = "post0" /\ buf[MAIN] = << <<"y", 0>> >>

=============================================================================
