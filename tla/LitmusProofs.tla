---------------------------- MODULE LitmusProofs ----------------------------
(* The round invariant of Litmus, for any number of rounds.                *)
EXTENDS Litmus, TLAPS

(* The steps of main that post and wait keep the types.                    *)
LEMMA MainTyped ==
  ASSUME TypeInvariant,
         \/ PostBegin(0, "post0", "post1") \/ PostBegin(1, "post1", "wait1")
         \/ WaitEnd("wait1", "wait2") \/ WaitEnd("wait2", "check")
  PROVE  TypeInvariant' /\ NotReported'
<1>1. CASE PostBegin(0, "post0", "post1")
  BY <1>1 DEF TypeInvariant, NotReported, PostBegin, Threads
<1>2. CASE PostBegin(1, "post1", "wait1")
  BY <1>2 DEF TypeInvariant, NotReported, PostBegin, Threads
<1>3. CASE WaitEnd("wait1", "wait2") \/ WaitEnd("wait2", "check")
  BY <1>3 DEF TypeInvariant, NotReported, WaitEnd
<1> QED
  BY <1>1, <1>2, <1>3

(* main posts to the first thread: both have been waiting, and one begins. *)
LEMMA FirstPost ==
  ASSUME RoundInvariant, PostBegin(0, "post0", "post1")
  PROVE  Tokens' /\ SecondSees'
<1>1. /\ main = "post0" /\ main' = "post1"
      /\ begin' = [begin EXCEPT ![0] = @ + 1]
      /\ pc' = pc /\ mem' = mem /\ end' = end /\ reg' = reg
  BY DEF PostBegin
<1>2. \A t \in Threads : pc[t] = "wait" /\ begin[t] = 0
  BY <1>1 DEF RoundInvariant, Tokens, Posted
<1>3. end = 0
  BY <1>1 DEF RoundInvariant, TypeInvariant, Tokens, Ended, Posted, Count, Consumed
<1>4. begin'[0] = 1 /\ begin'[1] = 0
  BY <1>1, <1>2 DEF RoundInvariant, TypeInvariant, Threads
<1>5. Posted(0)' /\ ~Posted(1)' /\ ~Ended(0)' /\ ~Ended(1)'
  BY <1>1, <1>4 DEF Posted, Ended
<1>6. pc'[0] = "wait" /\ pc'[1] = "wait"
  BY <1>1, <1>2 DEF Threads
<1>7. Tokens'
  BY <1>1, <1>3, <1>4, <1>5, <1>6 DEF Tokens, Count, Consumed, Threads
<1>8. SecondSees'
  BY <1>5, <1>6 DEF SecondSees, Stored, Loaded, Threads
<1> QED
  BY <1>7, <1>8

(* main posts to the second thread, and the first may be anywhere.         *)
LEMMA SecondPost ==
  ASSUME RoundInvariant, PostBegin(1, "post1", "wait1")
  PROVE  Tokens' /\ SecondSees'
<1>1. /\ main = "post1" /\ main' = "wait1"
      /\ begin' = [begin EXCEPT ![1] = @ + 1]
      /\ pc' = pc /\ mem' = mem /\ end' = end /\ reg' = reg
  BY DEF PostBegin
<1>2. /\ Posted(0) /\ ~Posted(1) /\ Posted(0)' /\ Posted(1)'
      /\ pc[1] = "wait" /\ begin[1] = 0
  BY <1>1 DEF RoundInvariant, Tokens, Posted, Threads
<1>3. begin'[1] = 1 /\ begin'[0] = begin[0]
  BY <1>1, <1>2 DEF RoundInvariant, TypeInvariant, Threads
<1>4. /\ ~Ended(1) /\ ~Ended(1)' /\ (Ended(0)' <=> Ended(0))
  BY <1>1, <1>2, <1>3 DEF Ended
<1>5. Tokens'
  BY <1>1, <1>2, <1>3, <1>4
  DEF RoundInvariant, Tokens, Count, Consumed, Threads
<1>6. /\ (Stored(0)' <=> Stored(0)) /\ (Loaded(0)' <=> Loaded(0))
      /\ ~Stored(1)' /\ ~Loaded(1)'
  BY <1>1, <1>2, <1>4 DEF Stored, Loaded
<1>7. SecondSees'
  BY <1>1, <1>6 DEF RoundInvariant, SecondSees, Threads, Own
<1> QED
  BY <1>5, <1>7

(* Each step of the program keeps the round invariant.                     *)
LEMMA RoundStep ==
  ASSUME ITERS \in Nat, RoundInvariant, [Next]_vars
  PROVE  RoundInvariant'
<1>11. TypeInvariant
  BY DEF RoundInvariant
<1> USE DEF RoundInvariant, TypeInvariant, Tokens, SecondSees, NotReported,
            Threads, Cells, Own, Read, Running, Posted, Ended, Stored, Loaded,
            Got, Count, Consumed
<1>1. CASE UNCHANGED vars
  BY <1>1 DEF vars
<1>2. ASSUME NEW t \in Threads, Wake(t) PROVE RoundInvariant'
  <2>1. TypeInvariant'
    BY <1>2 DEF Wake
  <2>2. Posted(t) /\ ~Ended(t)
    BY <1>2 DEF Wake
  <2>3. begin[t] = 1
    BY <1>2, <2>2 DEF Wake
  <2>4. Tokens'
    BY <1>2, <2>2, <2>3 DEF Wake
  <2>5. SecondSees'
    BY <1>2, <2>2, <2>3 DEF Wake
  <2> QED
    BY <1>2, <2>1, <2>4, <2>5 DEF Wake
<1>3. ASSUME NEW t \in Threads, Store(t) PROVE RoundInvariant'
  BY <1>3 DEF Store
<1>4. ASSUME NEW t \in Threads, Load(t) PROVE RoundInvariant'
  BY <1>4 DEF Load
<1>5. ASSUME NEW t \in Threads, Save(t) PROVE RoundInvariant'
  BY <1>5 DEF Save
<1>6. ASSUME NEW t \in Threads, PostEnd(t) PROVE RoundInvariant'
  BY <1>6 DEF PostEnd
<1>7. ASSUME Reset(0, "reset_x", "reset_y") \/ Reset(1, "reset_y", "post0")
      PROVE  RoundInvariant'
  BY <1>7 DEF Reset
<1>8. ASSUME PostBegin(0, "post0", "post1") \/ PostBegin(1, "post1", "wait1")
      PROVE  RoundInvariant'
  <2>1. TypeInvariant' /\ NotReported'
    BY <1>8, <1>11, MainTyped
  <2>2. Tokens' /\ SecondSees'
    BY <1>8, FirstPost, SecondPost
  <2> HIDE DEF Tokens, SecondSees, TypeInvariant, NotReported
  <2> QED
    BY <2>1, <2>2
<1>9. ASSUME WaitEnd("wait1", "wait2") \/ WaitEnd("wait2", "check")
      PROVE  RoundInvariant'
  <2>1. CASE WaitEnd("wait1", "wait2")
    <3>1. TypeInvariant' /\ NotReported'
      BY <1>11, <2>1, MainTyped
    <3>2. Tokens' /\ SecondSees'
      BY <2>1 DEF WaitEnd
    <3> QED
      BY <3>1, <3>2
  <2>2. CASE WaitEnd("wait2", "check")
    <3>1. TypeInvariant' /\ NotReported'
      BY <1>11, <2>2, MainTyped
    <3>2. Tokens' /\ SecondSees'
      BY <2>2 DEF WaitEnd
    <3> QED
      BY <3>1, <3>2
  <2> QED
    BY <1>9, <2>1, <2>2
<1>10. ASSUME NextRound \/ Finish PROVE RoundInvariant'
  BY <1>10 DEF NextRound, Finish, BothZero
<1> QED
  BY <1>1, <1>2, <1>3, <1>4, <1>5, <1>6, <1>7, <1>8, <1>9, <1>10
  DEF Next, MainStep, ThreadStep

(* Where every store takes effect at once, no round ends with two zeros.   *)
THEOREM NeverBothZero ==
  ASSUME ITERS \in Nat
  PROVE  Program => []RoundInvariant
<1>1. Init => RoundInvariant
  BY DEF Init, RoundInvariant, TypeInvariant, Tokens, SecondSees, NotReported,
         Threads, Cells, Own, Read, Running, Posted, Ended, Stored, Loaded,
         Got, Count, Consumed
<1>2. RoundInvariant /\ [Next]_vars => RoundInvariant'
  BY RoundStep
<1> QED
  BY <1>1, <1>2, PTL DEF Program

=============================================================================
