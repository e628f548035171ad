------------------------- MODULE CpuReorderingProofs -------------------------
(* cpu-reordering.c on a processor with store buffers implements Litmus,   *)
(* for any number of rounds, and so never reports a reordering.            *)
EXTENDS CpuReordering, SequenceTheorems, TLAPS

P == INSTANCE LitmusProofs WITH pc <- PcBar, main <- MainBar

TSOInvariant == TypeOK /\ Buffers /\ P!RoundInvariant

(* Sequences of one and of two.                                            *)
LEMMA One ==
  ASSUME NEW a
  PROVE  /\ Append(<<>>, a) = <<a>> /\ Tail(<<a>>) = <<>>
         /\ Head(<<a>>) = a /\ Len(<<a>>) = 1 /\ <<a>> # <<>>
OBVIOUS

LEMMA Two ==
  ASSUME NEW a, NEW b
  PROVE  /\ Append(<<a>>, b) = <<a, b>> /\ Tail(<<a, b>>) = <<b>>
         /\ Head(<<a, b>>) = a /\ Len(<<a, b>>) = 2 /\ <<a, b>> # <<>>
<1> DEFINE S == {a, b}
<1>1. <<a>> \in Seq(S) /\ <<a, b>> \in Seq(S)
  OBVIOUS
<1>2. /\ Append(<<a>>, b) \in Seq(S) /\ Len(Append(<<a>>, b)) = 2
      /\ Append(<<a>>, b)[1] = a /\ Append(<<a>>, b)[2] = b
  BY <1>1
<1>3. Len(<<a, b>>) = 2
  OBVIOUS
<1>4. \A k \in 1 .. 2 : Append(<<a>>, b)[k] = <<a, b>>[k]
  BY <1>2
<1> HIDE DEF S
<1>5. Append(<<a>>, b) = <<a, b>>
  BY <1>1, <1>2, <1>3, <1>4, SeqEqual
<1>6. Tail(<<a, b>>) = <<b>>
  OBVIOUS
<1>7. Head(<<a, b>>) = a /\ <<a, b>> # <<>>
  OBVIOUS
<1> QED
  BY <1>3, <1>5, <1>6, <1>7

LEMMA Pair ==
  ASSUME NEW a, NEW b
  PROVE  <<a, b>>[1] = a /\ <<a, b>>[2] = b
OBVIOUS

LEMMA None == Len(<<>>) = 0 /\ DOMAIN <<>> = {}
OBVIOUS

(* A round is over for both threads when main looks at their results.      *)
LEMMA CheckIsQuiet ==
  ASSUME TSOInvariant, MainBar \in {"check", "reset_x", "reset_y", "post0"}
  PROVE  /\ \A t \in Threads : pc[t] = "wait" /\ begin[t] = 0 /\ buf[t] = <<>>
         /\ end = 0
<1>1. \A t \in Threads : PcBar[t] = "wait" /\ begin[t] = 0
  BY DEF TSOInvariant, P!RoundInvariant, P!TypeInvariant, P!Tokens, P!Posted,
         P!Ended, P!Count, P!Consumed, P!Threads, Threads, P!Running
<1>2. end = 0
  BY <1>1 DEF TSOInvariant, P!RoundInvariant, P!TypeInvariant, P!Tokens, P!Posted,
         P!Ended, P!Count, P!Consumed, P!Threads, Threads
<1>3. \A t \in Threads : pc[t] = "wait" /\ buf[t] = <<>>
  BY <1>1 DEF PcBar, TSOInvariant, Buffers, TypeOK
<1> QED
  BY <1>1, <1>2, <1>3

(* A load with an empty buffer reads memory.                               *)
LEMMA SilentLoad ==
  ASSUME NEW p, buf[p] = <<>>, NEW c
  PROVE  Value(p, c) = mem[c]
BY None DEF Value

(* What a thread does is a step of Litmus or leaves it where it is.        *)
LEMMA ThreadStepMaps ==
  ASSUME TSOInvariant, NEW t \in Threads, ThreadStep(t)
  PROVE  TypeOK' /\ Buffers' /\ [P!Next]_P!vars
<1> USE DEF TSOInvariant, TypeOK, Buffers, Threads, Processors, MAIN, Cells
<1>0. t # MAIN /\ 1 - t \in Threads /\ t \in P!Threads
  BY DEF P!Threads
<1>1. CASE Wake(t)
  <2>1. TypeOK' /\ Buffers'
    BY <1>1, <1>0 DEF Wake, Drained
  <2>2. MainBar' = MainBar
    BY <1>1 DEF Wake, MainBar
  <2>3. PcBar[t] = "wait" /\ PcBar' = [PcBar EXCEPT ![t] = "store"]
    BY <1>1 DEF Wake, PcBar
  <2>4. P!Wake(t)
    BY <1>1, <2>2, <2>3 DEF Wake, P!Wake
  <2> QED
    BY <1>0, <2>1, <2>4 DEF P!Next, P!ThreadStep
<1>2. CASE Store(t)
  <2>1. buf[t] = <<>>
    BY <1>2 DEF Store
  <2>2. buf' = [buf EXCEPT ![t] = << <<Own(t), 1>> >>]
    BY <1>2, <2>1, One DEF Store, Buffered
  <2>3. TypeOK' /\ Buffers'
    BY <1>2, <1>0, <2>2, One DEF Store, Own
  <2>4. MainBar' = MainBar
    BY <1>2, <1>0, <2>2 DEF Store, MainBar
  <2>5. PcBar' = PcBar
    BY <1>2, <2>2, One DEF Store, PcBar
  <2> QED
    BY <1>2, <2>3, <2>4, <2>5 DEF Store, P!vars
<1>3. CASE Fence(t)
  <2>1. TypeOK' /\ Buffers'
    BY <1>3, <1>0 DEF Fence, MFence, Drained
  <2>2. MainBar' = MainBar /\ PcBar' = PcBar
    BY <1>3 DEF Fence, MFence, Drained, MainBar, PcBar
  <2> QED
    BY <1>3, <2>1, <2>2 DEF Fence, P!vars
<1>4. CASE Load(t)
  <2>1. buf[t] = <<>>
    BY <1>4 DEF Load
  <2>2. reg' = [reg EXCEPT ![t] = mem[Own(1 - t)]]
    BY <1>4, <2>1, SilentLoad DEF Load
  <2>3. mem[Own(1 - t)] \in {0, 1}
    BY <1>0 DEF Own
  <2>4. TypeOK' /\ Buffers'
    BY <1>4, <1>0, <2>1, <2>2, <2>3 DEF Load
  <2>5. MainBar' = MainBar
    BY <1>4 DEF Load, MainBar
  <2>6. PcBar[t] = "load" /\ PcBar' = [PcBar EXCEPT ![t] = "save"]
    BY <1>4, <2>1 DEF Load, PcBar
  <2>7. P!Load(t)
    BY <1>4, <2>2, <2>5, <2>6 DEF Load, P!Load, Own, P!Own
  <2> QED
    BY <1>0, <2>4, <2>7 DEF P!Next, P!ThreadStep
<1>5. CASE Save(t)
  <2>1. buf[t] = <<>>
    BY <1>5 DEF Save
  <2>2. buf' = [buf EXCEPT ![t] = << <<Read(t), reg[t]>> >>]
    BY <1>5, <2>1, One DEF Save, Buffered
  <2>3. TypeOK' /\ Buffers'
    BY <1>5, <1>0, <2>2, One DEF Save, Read
  <2>4. MainBar' = MainBar
    BY <1>5, <1>0, <2>2 DEF Save, MainBar
  <2>5. PcBar' = PcBar
    BY <1>5, <2>1, <2>2, One DEF Save, PcBar
  <2> QED
    BY <1>5, <2>3, <2>4, <2>5 DEF Save, P!vars
<1>6. CASE PostEnd(t)
  <2>1. TypeOK' /\ Buffers'
    BY <1>6, <1>0 DEF PostEnd, Drained
  <2>2. MainBar' = MainBar
    BY <1>6 DEF PostEnd, MainBar
  <2>3. PcBar[t] = "post" /\ PcBar' = [PcBar EXCEPT ![t] = "wait"]
    BY <1>6 DEF PostEnd, PcBar, Drained
  <2>4. P!PostEnd(t)
    BY <1>6, <2>2, <2>3 DEF PostEnd, P!PostEnd
  <2> QED
    BY <1>0, <2>1, <2>4 DEF P!Next, P!ThreadStep
<1> QED
  BY <1>1, <1>2, <1>3, <1>4, <1>5, <1>6 DEF ThreadStep

(* A store of Litmus happens when the buffered one reaches memory.         *)
LEMMA FlushMaps ==
  ASSUME TSOInvariant, NEW p \in Processors, Flush(p)
  PROVE  TypeOK' /\ Buffers' /\ [P!Next]_P!vars
<1> USE DEF TSOInvariant, TypeOK, Buffers, Threads, Processors, MAIN, Cells
<1>1. ASSUME NEW t \in Threads, p = t, pc[t] = "fence",
             buf[t] = << <<Own(t), 1>> >>
      PROVE  TypeOK' /\ Buffers' /\ P!Store(t)
  <2>1. /\ mem' = [mem EXCEPT ![Own(t)] = 1] /\ buf' = [buf EXCEPT ![t] = <<>>]
    <3>1. Head(buf[t]) = <<Own(t), 1>> /\ Tail(buf[t]) = <<>>
      BY <1>1, One
    <3>2. Head(buf[p])[1] = Own(t) /\ Head(buf[p])[2] = 1
      BY <1>1, <3>1, Pair
    <3>3. mem' = [mem EXCEPT ![Own(t)] = 1]
      BY <3>2 DEF Flush
    <3>4. buf' = [buf EXCEPT ![t] = <<>>]
      BY <1>1, <3>1 DEF Flush
    <3> QED
      BY <3>3, <3>4
  <2>2. TypeOK' /\ Buffers'
    BY <1>1, <2>1, None DEF Flush, Own
  <2>3. MainBar' = MainBar
    BY <1>1, <2>1 DEF Flush, MainBar
  <2>4. PcBar[t] = "store" /\ PcBar' = [PcBar EXCEPT ![t] = "load"]
    <3>1. buf[t] # <<>> /\ buf'[t] = <<>> /\ pc' = pc
      BY <1>1, <2>1, One DEF Flush
    <3> QED
      BY <1>1, <2>1, <3>1 DEF PcBar
  <2> QED
    BY <1>1, <2>1, <2>2, <2>3, <2>4 DEF Flush, P!Store, Own, P!Own
<1>2. ASSUME NEW t \in Threads, p = t, pc[t] = "post",
             buf[t] = << <<Read(t), reg[t]>> >>
      PROVE  TypeOK' /\ Buffers' /\ P!Save(t)
  <2>1. /\ mem' = [mem EXCEPT ![Read(t)] = reg[t]] /\ buf' = [buf EXCEPT ![t] = <<>>]
    <3>1. Head(buf[t]) = <<Read(t), reg[t]>> /\ Tail(buf[t]) = <<>>
      BY <1>2, One
    <3>2. Head(buf[p])[1] = Read(t) /\ Head(buf[p])[2] = reg[t]
      BY <1>2, <3>1, Pair
    <3>3. mem' = [mem EXCEPT ![Read(t)] = reg[t]]
      BY <3>2 DEF Flush
    <3>4. buf' = [buf EXCEPT ![t] = <<>>]
      BY <1>2, <3>1 DEF Flush
    <3> QED
      BY <3>3, <3>4
  <2>2. TypeOK' /\ Buffers'
    BY <1>2, <2>1, None DEF Flush, Read
  <2>3. MainBar' = MainBar
    BY <1>2, <2>1 DEF Flush, MainBar
  <2>4. PcBar[t] = "save" /\ PcBar' = [PcBar EXCEPT ![t] = "post"]
    <3>1. buf[t] # <<>> /\ buf'[t] = <<>> /\ pc' = pc
      BY <1>2, <2>1, One DEF Flush
    <3> QED
      BY <1>2, <2>1, <3>1 DEF PcBar
  <2> QED
    BY <1>2, <2>1, <2>2, <2>3, <2>4 DEF Flush, P!Save, Read, P!Read
<1>3. CASE p = MAIN
  <2>1. PcBar' = PcBar
    BY <1>3 DEF Flush, PcBar
  <2>2. CASE main = "reset_y" /\ buf[MAIN] = << <<"x", 0>> >>
    <3>1. mem' = [mem EXCEPT !["x"] = 0] /\ buf' = [buf EXCEPT ![MAIN] = <<>>]
      <4>1. Head(buf[MAIN]) = <<"x", 0>> /\ Tail(buf[MAIN]) = <<>>
        BY <2>2, One
      <4>2. Head(buf[p])[1] = "x" /\ Head(buf[p])[2] = 0
        BY <1>3, <4>1, Pair
      <4>3. mem' = [mem EXCEPT !["x"] = 0]
        BY <4>2 DEF Flush
      <4>4. buf' = [buf EXCEPT ![MAIN] = <<>>]
        BY <1>3, <4>1 DEF Flush
      <4> QED
        BY <4>3, <4>4
    <3>2. TypeOK' /\ Buffers'
      BY <1>3, <2>2, <3>1, None DEF Flush
    <3>3. MainBar = "reset_x" /\ MainBar' = "reset_y"
      BY <1>3, <2>2, <3>1, None, One DEF Flush, MainBar
    <3>4. P!Reset(0, "reset_x", "reset_y")
      BY <1>3, <2>1, <3>1, <3>3 DEF Flush, P!Reset, P!Own
    <3> QED
      BY <3>2, <3>4 DEF P!Next, P!MainStep
  <2>3. CASE main = "post0" /\ buf[MAIN] = << <<"x", 0>>, <<"y", 0>> >>
    <3>1. /\ mem' = [mem EXCEPT !["x"] = 0]
          /\ buf' = [buf EXCEPT ![MAIN] = << <<"y", 0>> >>]
      <4>1. Head(buf[MAIN]) = <<"x", 0>> /\ Tail(buf[MAIN]) = << <<"y", 0>> >>
        BY <2>3, Two
      <4>2. Head(buf[p])[1] = "x" /\ Head(buf[p])[2] = 0
        BY <1>3, <4>1, Pair
      <4>3. mem' = [mem EXCEPT !["x"] = 0]
        BY <4>2 DEF Flush
      <4>4. buf' = [buf EXCEPT ![MAIN] = << <<"y", 0>> >>]
        BY <1>3, <4>1 DEF Flush
      <4> QED
        BY <4>3, <4>4
    <3>2. TypeOK' /\ Buffers'
      BY <1>3, <2>3, <3>1, One DEF Flush
    <3>3. MainBar = "reset_x" /\ MainBar' = "reset_y"
      BY <1>3, <2>3, <3>1, Two, One DEF Flush, MainBar
    <3>4. P!Reset(0, "reset_x", "reset_y")
      BY <1>3, <2>1, <3>1, <3>3 DEF Flush, P!Reset, P!Own
    <3> QED
      BY <3>2, <3>4 DEF P!Next, P!MainStep
  <2>4. CASE main = "post0" /\ buf[MAIN] = << <<"y", 0>> >>
    <3>1. mem' = [mem EXCEPT !["y"] = 0] /\ buf' = [buf EXCEPT ![MAIN] = <<>>]
      <4>1. Head(buf[MAIN]) = <<"y", 0>> /\ Tail(buf[MAIN]) = <<>>
        BY <2>4, One
      <4>2. Head(buf[p])[1] = "y" /\ Head(buf[p])[2] = 0
        BY <1>3, <4>1, Pair
      <4>3. mem' = [mem EXCEPT !["y"] = 0]
        BY <4>2 DEF Flush
      <4>4. buf' = [buf EXCEPT ![MAIN] = <<>>]
        BY <1>3, <4>1 DEF Flush
      <4> QED
        BY <4>3, <4>4
    <3>2. TypeOK' /\ Buffers'
      BY <1>3, <2>4, <3>1, None DEF Flush
    <3>3. MainBar = "reset_y" /\ MainBar' = "post0"
      BY <1>3, <2>4, <3>1, None, One DEF Flush, MainBar
    <3>4. P!Reset(1, "reset_y", "post0")
      <4>1. P!Own(1) = "y"
        BY DEF P!Own
      <4> QED
        BY <1>3, <2>1, <3>1, <3>3, <4>1 DEF Flush, P!Reset
    <3> QED
      BY <3>2, <3>4 DEF P!Next, P!MainStep
  <2> QED
    BY <1>3, <2>2, <2>3, <2>4 DEF Flush
<1>4. CASE p \in Threads
  BY <1>1, <1>2, <1>4 DEF Flush, P!Next, P!ThreadStep, P!Threads
<1> QED
  BY <1>3, <1>4

(* What main does is a step of Litmus or leaves it where it is.            *)
LEMMA MainStepMaps ==
  ASSUME TSOInvariant, MainStep
  PROVE  TypeOK' /\ Buffers' /\ [P!Next]_P!vars
<1> USE DEF TSOInvariant, TypeOK, Buffers, Threads, Processors, MAIN, Cells
<1>1. CASE Reset(0, "reset_x", "reset_y")
  <2>1. buf[MAIN] = <<>> /\ buf' = [buf EXCEPT ![MAIN] = << <<"x", 0>> >>]
    BY <1>1, One DEF Reset, Buffered, Own
  <2>2. TypeOK' /\ Buffers'
    BY <1>1, <2>1, One DEF Reset
  <2>3. PcBar' = PcBar
    BY <1>1, <2>1 DEF Reset, PcBar
  <2>4. MainBar = "reset_x" /\ MainBar' = "reset_x"
    BY <1>1, <2>1, None, One DEF Reset, MainBar
  <2> QED
    BY <1>1, <2>2, <2>3, <2>4 DEF Reset, P!vars
<1>2. CASE Reset(1, "reset_y", "post0")
  <2>0. Own(1) = "y"
    BY DEF Own
  <2>1. CASE buf[MAIN] = <<>>
    <3>1. buf' = [buf EXCEPT ![MAIN] = << <<"y", 0>> >>]
      BY <1>2, <2>0, <2>1, One DEF Reset, Buffered
    <3>2. TypeOK' /\ Buffers'
      BY <1>2, <3>1, One DEF Reset
    <3>3. PcBar' = PcBar
      BY <1>2, <3>1 DEF Reset, PcBar
    <3>4. MainBar = "reset_y" /\ MainBar' = "reset_y"
      BY <1>2, <2>1, <3>1, None, One DEF Reset, MainBar
    <3> QED
      BY <1>2, <3>2, <3>3, <3>4 DEF Reset, P!vars
  <2>2. CASE buf[MAIN] = << <<"x", 0>> >>
    <3>0. Append(buf[MAIN], <<Own(1), 0>>) = << <<"x", 0>>, <<"y", 0>> >>
      <4> HIDE DEF TypeOK, Buffers, TSOInvariant
      <4>1. <<Own(1), 0>> = <<"y", 0>>
        BY <2>0
      <4>2. Append(<< <<"x", 0>> >>, <<"y", 0>>) = << <<"x", 0>>, <<"y", 0>> >>
        BY Two
      <4> QED
        BY <2>2, <4>1, <4>2
    <3>1. buf' = [buf EXCEPT ![MAIN] = << <<"x", 0>>, <<"y", 0>> >>]
      BY <1>2, <3>0 DEF Reset, Buffered
    <3>2. TypeOK' /\ Buffers'
      BY <1>2, <3>1, Two DEF Reset
    <3>3. PcBar' = PcBar
      BY <1>2, <3>1 DEF Reset, PcBar
    <3>4. MainBar = "reset_x" /\ MainBar' = "reset_x"
      BY <1>2, <2>2, <3>1, One, Two DEF Reset, MainBar
    <3> QED
      BY <1>2, <3>2, <3>3, <3>4 DEF Reset, P!vars
  <2> QED
    BY <1>2, <2>1, <2>2 DEF Reset
<1>3. ASSUME NEW t \in Threads, NEW here, NEW next, PostBegin(t, here, next),
             <<here, next>> \in {<<"post0", "post1">>, <<"post1", "wait1">>}
      PROVE  TypeOK' /\ Buffers' /\ P!PostBegin(t, here, next)
  <2>1. here \in {"post0", "post1"} /\ next \in {"post1", "wait1"}
    BY <1>3
  <2>2. TypeOK' /\ Buffers'
    BY <1>3, <2>1, None DEF PostBegin, Drained
  <2>3. PcBar' = PcBar
    BY <1>3 DEF PostBegin, PcBar
  <2>4. MainBar = here /\ MainBar' = next
    <3>1. main = here /\ main' = next /\ buf[MAIN] = <<>> /\ buf' = buf
      BY <1>3 DEF PostBegin, Drained
    <3>2. Len(buf[MAIN]) = 0 /\ Len(buf'[MAIN]) = 0
      BY <3>1, None
    <3>3. MainBar = main
      BY <3>2 DEF MainBar
    <3>4. MainBar' = main'
      BY <3>2 DEF MainBar
    <3> QED
      BY <3>1, <3>3, <3>4
  <2> QED
    BY <1>3, <2>2, <2>3, <2>4 DEF PostBegin, P!PostBegin
<1>4. ASSUME NEW here, NEW next, WaitEnd(here, next),
             <<here, next>> \in {<<"wait1", "wait2">>, <<"wait2", "check">>}
      PROVE  TypeOK' /\ Buffers' /\ P!WaitEnd(here, next)
  <2>1. here \in {"wait1", "wait2"} /\ next \in {"wait2", "check"}
    BY <1>4
  <2>2. TypeOK' /\ Buffers'
    BY <1>4, <2>1, None DEF WaitEnd, Drained
  <2>3. PcBar' = PcBar
    BY <1>4 DEF WaitEnd, PcBar
  <2>4. MainBar = here /\ MainBar' = next
    BY <1>4, None DEF WaitEnd, Drained, MainBar
  <2> QED
    BY <1>4, <2>2, <2>3, <2>4 DEF WaitEnd, P!WaitEnd
<1>5. ASSUME main = "check"
      PROVE  /\ MainBar = "check" /\ P!BothZero = BothZero
             /\ \A p \in Processors : buf[p] = <<>>
  <2>1. buf[MAIN] = <<>>
    BY <1>5
  <2>2. MainBar = "check"
    BY <1>5, <2>1, None DEF MainBar
  <2>3. \A t \in Threads : buf[t] = <<>>
    BY <2>2, CheckIsQuiet
  <2>4. P!BothZero = BothZero
    BY <2>1, SilentLoad DEF BothZero, P!BothZero
  <2> QED
    BY <2>1, <2>2, <2>3, <2>4
<1>6. CASE NextRound
  <2>1. TypeOK' /\ Buffers'
    BY <1>5, <1>6, ItersAssumption DEF NextRound
  <2>2. MainBar' = "reset_x"
    BY <1>5, <1>6, None DEF NextRound, MainBar
  <2>3. PcBar' = PcBar
    BY <1>5, <1>6 DEF NextRound, PcBar
  <2>4. P!NextRound
    BY <1>5, <1>6, <2>2, <2>3 DEF NextRound, P!NextRound
  <2> QED
    BY <2>1, <2>4 DEF P!Next, P!MainStep
<1>7. CASE Finish
  <2>1. TypeOK' /\ Buffers'
    BY <1>5, <1>7, ItersAssumption DEF Finish
  <2>2. MainBar' = IF BothZero THEN "reported" ELSE "finished"
    BY <1>5, <1>7, None DEF Finish, MainBar
  <2>3. PcBar' = [t \in Threads |-> "gone"]
    BY <1>5, <1>7 DEF Finish, PcBar
  <2>4. P!Finish
    BY <1>5, <1>7, <2>2, <2>3 DEF Finish, P!Finish, P!Threads
  <2> QED
    BY <2>1, <2>4 DEF P!Next, P!MainStep
<1> QED
  BY <1>1, <1>2, <1>3, <1>4, <1>6, <1>7
  DEF MainStep, StartBoth, WaitBoth, P!Next, P!MainStep

(* Every step keeps the invariant and maps to a step of Litmus.            *)
LEMMA StepMaps ==
  ASSUME TSOInvariant, [Next]_vars
  PROVE  TSOInvariant' /\ [P!Next]_P!vars
<1>1. TypeOK' /\ Buffers' /\ [P!Next]_P!vars
  <2>1. CASE UNCHANGED vars
    <3>1. TypeOK' /\ Buffers'
      BY <2>1 DEF vars, TSOInvariant, TypeOK, Buffers
    <3>2. PcBar' = PcBar /\ MainBar' = MainBar
      BY <2>1 DEF vars, PcBar, MainBar
    <3> QED
      BY <2>1, <3>1, <3>2 DEF vars, P!vars
  <2> QED
    BY <2>1, ThreadStepMaps, FlushMaps, MainStepMaps DEF Next
<1>2. P!RoundInvariant'
  BY <1>1, P!RoundStep, ItersAssumption DEF TSOInvariant
<1> QED
  BY <1>1, <1>2 DEF TSOInvariant

LEMMA InitMaps == Init => TSOInvariant /\ P!Init
<1> SUFFICES ASSUME Init PROVE TSOInvariant /\ P!Init
  OBVIOUS
<1>1. TypeOK /\ Buffers
  BY None, ItersAssumption DEF Init, TypeOK, Buffers, Threads, Processors, MAIN, Cells
<1>2. PcBar = [t \in Threads |-> "wait"] /\ MainBar = "reset_x"
  BY None DEF Init, PcBar, MainBar, Processors, MAIN
<1>3. P!Init
  BY <1>2 DEF Init, P!Init, Cells, P!Cells, Threads, P!Threads
<1>4. P!RoundInvariant
  BY <1>2, ItersAssumption
  DEF Init, P!RoundInvariant, P!TypeInvariant, P!Tokens, P!SecondSees,
      P!NotReported, P!Threads, Threads, Cells, P!Cells, P!Running, P!Posted,
      P!Ended, P!Stored, P!Loaded, P!Count, P!Consumed
<1> QED
  BY <1>1, <1>3, <1>4 DEF TSOInvariant

(* The fenced program implements Litmus: each of its behaviours is one     *)
(* that a machine without store buffers could have shown.                  *)
THEOREM Refinement == Spec => P!Program
<1>1. [](TSOInvariant) /\ [][Next]_vars => [][P!Next]_P!vars
  <2>1. TSOInvariant /\ [Next]_vars => [P!Next]_P!vars
    BY StepMaps
  <2> QED
    BY <2>1, PTL
<1>2. TSOInvariant /\ [Next]_vars => TSOInvariant'
  BY StepMaps
<1> QED
  BY <1>1, <1>2, InitMaps, PTL DEF Spec, P!Program

(* The invariant of the fenced program.                                    *)
THEOREM InvariantHolds == Spec => []TSOInvariant
<1>1. TSOInvariant /\ [Next]_vars => TSOInvariant'
  BY StepMaps
<1> QED
  BY <1>1, InitMaps, PTL DEF Spec

(* The variables have their types.                                         *)
THEOREM TypeCorrect == Spec => []TypeOK
BY InvariantHolds, PTL DEF TSOInvariant

(* No reordering is reported, whatever the number of rounds.               *)
THEOREM NoReordering == Spec => []NeverReordered
<1>1. TSOInvariant => NeverReordered
  BY None DEF TSOInvariant, Buffers, MainBar, P!RoundInvariant, P!NotReported,
              NeverReordered
<1> QED
  BY <1>1, InvariantHolds, PTL

(* Nothing of a round is left when main looks at its results and starts    *)
(* the next one.                                                           *)
THEOREM RoundsStayApart == Spec => []RoundsApart
<1>1. TSOInvariant => RoundsApart
  <2> SUFFICES ASSUME TSOInvariant, main \in {"check", "reset_x", "reset_y", "post0"}
               PROVE  /\ \A t \in Threads : pc[t] = "wait" /\ begin[t] = 0 /\ buf[t] = <<>>
                      /\ end = 0
    BY DEF RoundsApart
  <2>1. MainBar \in {"check", "reset_x", "reset_y", "post0"}
    BY DEF MainBar
  <2> QED
    BY <2>1, CheckIsQuiet
<1> QED
  BY <1>1, InvariantHolds, PTL

=============================================================================
