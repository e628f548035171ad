-------------------------------- MODULE Litmus --------------------------------
(***************************************************************************)
(* The program of seminar8/task4/cpu-reordering.c as its author reads it:  *)
(* each store takes effect at once and in program order.  Two threads      *)
(* store to x and y and load the variable of the other one; main starts a  *)
(* round with a semaphore for each thread and waits for both to end.       *)
(***************************************************************************)
EXTENDS Integers

CONSTANT ITERS   \* the number of rounds: 1000000 in the program

VARIABLES
  mem,    \* x, y, read0 and read1
  begin,  \* the values of sem_begin0 and sem_begin1
  end,    \* the value of sem_end
  pc,     \* where each thread is
  reg,    \* the value a thread has loaded and not yet stored
  main,   \* where main is
  i       \* the round

vars == <<mem, begin, end, pc, reg, main, i>>

Threads == {0, 1}

Own(t) == IF t = 0 THEN "x" ELSE "y"

Read(t) == IF t = 0 THEN "read0" ELSE "read1"

Cells == {"x", "y", "read0", "read1"}

Running == {"store", "load", "save", "post"}

TypeInvariant ==
  /\ mem \in [Cells -> {0, 1}]
  /\ begin \in [Threads -> Nat] /\ end \in Nat
  /\ pc \in [Threads -> Running \cup {"wait", "gone"}]
  /\ reg \in [Threads -> {0, 1}]
  /\ main \in {"reset_x", "reset_y", "post0", "post1", "wait1", "wait2",
               "check", "reported", "finished"}
  /\ i \in 0 .. ITERS

Init ==
  /\ mem = [c \in Cells |-> 0]
  /\ begin = [t \in Threads |-> 0] /\ end = 0
  /\ pc = [t \in Threads |-> "wait"]
  /\ reg = [t \in Threads |-> 0]
  /\ main = "reset_x" /\ i = 0

Wake(t) ==
  /\ pc[t] = "wait" /\ begin[t] > 0
  /\ begin' = [begin EXCEPT ![t] = @ - 1]
  /\ pc' = [pc EXCEPT ![t] = "store"]
  /\ UNCHANGED <<mem, end, reg, main, i>>

Store(t) ==
  /\ pc[t] = "store"
  /\ mem' = [mem EXCEPT ![Own(t)] = 1]
  /\ pc' = [pc EXCEPT ![t] = "load"]
  /\ UNCHANGED <<begin, end, reg, main, i>>

Load(t) ==
  /\ pc[t] = "load"
  /\ reg' = [reg EXCEPT ![t] = mem[Own(1 - t)]]
  /\ pc' = [pc EXCEPT ![t] = "save"]
  /\ UNCHANGED <<mem, begin, end, main, i>>

Save(t) ==
  /\ pc[t] = "save"
  /\ mem' = [mem EXCEPT ![Read(t)] = reg[t]]
  /\ pc' = [pc EXCEPT ![t] = "post"]
  /\ UNCHANGED <<begin, end, reg, main, i>>

PostEnd(t) ==
  /\ pc[t] = "post"
  /\ end' = end + 1
  /\ pc' = [pc EXCEPT ![t] = "wait"]
  /\ UNCHANGED <<mem, begin, reg, main, i>>

Reset(t, here, next) ==
  /\ main = here
  /\ mem' = [mem EXCEPT ![Own(t)] = 0]
  /\ main' = next
  /\ UNCHANGED <<begin, end, pc, reg, i>>

PostBegin(t, here, next) ==
  /\ main = here
  /\ begin' = [begin EXCEPT ![t] = @ + 1]
  /\ main' = next
  /\ UNCHANGED <<mem, end, pc, reg, i>>

WaitEnd(here, next) ==
  /\ main = here /\ end > 0
  /\ end' = end - 1
  /\ main' = next
  /\ UNCHANGED <<mem, begin, pc, reg, i>>

BothZero == mem["read0"] = 0 /\ mem["read1"] = 0

NextRound ==
  /\ main = "check" /\ ~BothZero /\ i + 1 < ITERS
  /\ main' = "reset_x" /\ i' = i + 1
  /\ UNCHANGED <<mem, begin, end, pc, reg>>

Finish ==
  /\ main = "check" /\ (BothZero \/ i + 1 = ITERS)
  /\ IF BothZero THEN main' = "reported" /\ UNCHANGED i
                 ELSE main' = "finished" /\ i' = i + 1
  /\ pc' = [t \in Threads |-> "gone"]
  /\ UNCHANGED <<mem, begin, end, reg>>

ThreadStep(t) == Wake(t) \/ Store(t) \/ Load(t) \/ Save(t) \/ PostEnd(t)

MainStep ==
  \/ Reset(0, "reset_x", "reset_y") \/ Reset(1, "reset_y", "post0")
  \/ PostBegin(0, "post0", "post1") \/ PostBegin(1, "post1", "wait1")
  \/ WaitEnd("wait1", "wait2") \/ WaitEnd("wait2", "check")
  \/ NextRound \/ Finish

Next == MainStep \/ \E t \in Threads : ThreadStep(t)

Program == Init /\ [][Next]_vars

Spec == Program /\ WF_vars(MainStep) /\ \A t \in Threads : WF_vars(ThreadStep(t))

-----------------------------------------------------------------------------
(* Why a round never ends with two zeros.                                  *)

(* Thread t has been told to run in this round, and has ended it.          *)
Posted(t) == \/ main \in {"wait1", "wait2", "check"}
             \/ main = "post1" /\ t = 0

Ended(t) == Posted(t) /\ pc[t] = "wait" /\ begin[t] = 0

Count(b) == IF b THEN 1 ELSE 0

Consumed == CASE main = "wait2" -> 1 [] main = "check" -> 2 [] OTHER -> 0

(* Each thread has one token per round, and main takes both back.          *)
Tokens ==
  IF main \in {"reported", "finished"}
  THEN \A t \in Threads : pc[t] = "gone"
  ELSE
    /\ \A t \in Threads :
         /\ pc[t] # "gone"
         /\ ~Posted(t) => pc[t] = "wait" /\ begin[t] = 0
         /\ Posted(t)  => begin[t] = Count(pc[t] = "wait" /\ ~Ended(t))
    /\ end + Consumed = Count(Ended(0)) + Count(Ended(1))

Stored(t) == Posted(t) /\ (pc[t] \in {"load", "save", "post"} \/ Ended(t))

Loaded(t) == Posted(t) /\ (pc[t] \in {"save", "post"} \/ Ended(t))

Got(t) == IF pc[t] = "save" THEN reg[t] ELSE mem[Read(t)]

(* The thread that loads second sees the store of the first.               *)
SecondSees ==
  /\ \A t \in Threads : Stored(t) => mem[Own(t)] = 1
  /\ Loaded(0) /\ Loaded(1) => Got(0) = 1 \/ Got(1) = 1

NotReported == main # "reported"

RoundInvariant == TypeInvariant /\ Tokens /\ SecondSees /\ NotReported

=============================================================================
