--------------------------- MODULE SemaphoreProofs ----------------------------
(***************************************************************************)
(* Processes and threads that take turns by a semaphore or a mutex.        *)
(*                                                                         *)
(* The semaphores of PingPong, for arrays of any size and any number of    *)
(* changes and sessions: the tokens of a session are balanced, and one     *)
(* that finds the semaphores at zero implements Echo.                      *)
(*                                                                         *)
(* The mutex of MutexPrint, for words of any length and any number of      *)
(* iterations: the letters of a word stay together.                        *)
(***************************************************************************)
EXTENDS PingPong, MutexPrint, SequenceTheorems, TLAPS

-----------------------------------------------------------------------------
(* PingPong: the invariant.                                                *)

Counts == [child : Nat, parent : Nat]

TypeOK ==
  /\ arr \in [Index -> Nat] /\ input \in Index \X Nat
  /\ sem \in Counts /\ left \in Counts
  /\ cpc \in {"gone", "scan", "change", "post", "wait"}
  /\ ppc \in {"gone", "wait", "print", "post"}
  /\ line \in Seq(Nat)
  /\ made \in Seq([Index -> Nat]) /\ shown \in Seq(Seq(Nat))

Number(b) == IF b THEN 1 ELSE 0

(* What the parent has taken and not given back is what the child has      *)
(* given and not got back; of a child that is gone this is not known.      *)
Tokens ==
  sem.child + sem.parent + Number(ppc \in {"print", "post"})
    <= left.child + left.parent + Number(cpc \in {"wait", "gone"})

(* A session that has found the semaphores at zero: a token, or the parent *)
(* at work, says whether the last change has been printed.                 *)
Turns ==
  left = NONE =>
    /\ Len(made) \in {Len(shown), Len(shown) + 1}
    /\ sem.child > 0 \/ ppc = "print" \/ cpc = "post" => Len(made) = Len(shown) + 1
    /\ sem.parent > 0 \/ ppc = "post" \/ cpc \in {"scan", "change"}
         => Len(made) = Len(shown)
    /\ made # <<>> => arr = made[Len(made)]

(* The parent prints the array that is in memory.                          *)
LineKept ==
  /\ ppc = "print" => Len(line) < SIZE
  /\ left = NONE /\ ppc = "print" =>
       \A k \in 1 .. Len(line) : line[k] = arr[k - 1]

IInv == TypeOK /\ Tokens /\ Turns /\ LineKept

(* Sequences grow at their end.                                            *)
LEMMA AppendFront ==
  ASSUME NEW T, NEW q \in Seq(T), NEW e \in T
  PROVE  /\ Append(q, e) \in Seq(T) /\ Append(q, e) # <<>>
         /\ Len(Append(q, e)) = Len(q) + 1 /\ Append(q, e)[Len(q) + 1] = e
         /\ \A k \in 1 .. Len(q) : Append(q, e)[k] = q[k]
         /\ SubSeq(Append(q, e), 1, Len(Append(q, e)) - 1) = q
<1>1. /\ Append(q, e) \in Seq(T) /\ Append(q, e) # <<>>
      /\ Len(Append(q, e)) = Len(q) + 1 /\ Append(q, e)[Len(q) + 1] = e
      /\ \A k \in 1 .. Len(q) : Append(q, e)[k] = q[k]
  BY AppendProperties
<1>2. Len(q) \in Nat
  BY LenProperties
<1> DEFINE f == SubSeq(Append(q, e), 1, Len(q))
<1>3. /\ f \in Seq(T) /\ Len(f) = Len(q)
      /\ \A k \in 1 .. Len(q) : f[k] = q[k]
  <2>1. \A k \in 1 .. Len(q) : Append(q, e)[k] \in T
    BY <1>1, ElementOfSeq
  <2>2. 1 \in Int /\ Len(q) \in Int
    BY <1>2
  <2> HIDE DEF f
  <2>3. /\ f \in Seq(T) /\ Len(f) = IF 1 <= Len(q) THEN Len(q) - 1 + 1 ELSE 0
        /\ \A k \in 1 .. Len(q) - 1 + 1 : f[k] = Append(q, e)[1 + k - 1]
    BY <2>1, <2>2, SubSeqProperties DEF f
  <2> QED
    BY <1>1, <1>2, <2>3
<1>4. f = q
  BY <1>2, <1>3, SeqEqual
<1> QED
  BY <1>1, <1>2, <1>4

-----------------------------------------------------------------------------
(* Each step keeps the invariant.                                          *)

LEMMA InitInv ==
  ASSUME PingInit
  PROVE  IInv
BY PingPongAssumption DEF PingInit, IInv, TypeOK, Tokens, Turns, LineKept, Counts, Number,
       Index, NONE

LEMMA StartInv ==
  ASSUME IInv, Start
  PROVE  IInv'
<1>1. TypeOK'
  BY DEF Start, IInv, TypeOK, Index
<1>2. Tokens'
  BY DEF Start, IInv, TypeOK, Tokens, Counts, Number
<1>3. Turns' /\ LineKept'
  BY DEF Start, IInv, TypeOK, Turns, LineKept, Counts, NONE
<1> QED
  BY <1>1, <1>2, <1>3 DEF IInv

LEMMA ScanInv ==
  ASSUME IInv, Scan
  PROVE  IInv'
<1> USE DEF Scan, session, IInv
<1>1. TypeOK'
  BY PingPongAssumption DEF TypeOK
<1>2. Tokens' /\ Turns' /\ LineKept'
  BY DEF Tokens, Turns, LineKept, Number
<1> QED
  BY <1>1, <1>2

LEMMA ChangeInv ==
  ASSUME IInv, change_arr
  PROVE  IInv'
<1> USE DEF IInv
<1>1. /\ cpc = "change" /\ cpc' = "post"
      /\ arr' = [arr EXCEPT ![input[1]] = input[2]] /\ made' = Append(made, arr')
      /\ UNCHANGED <<sem, ppc, input, line, shown, left>>
  BY DEF change_arr, session
<1>2. arr' \in [Index -> Nat]
  BY <1>1 DEF TypeOK
<1>3. TypeOK'
  BY <1>1, <1>2, AppendFront DEF TypeOK
<1>4. Tokens'
  BY <1>1 DEF Tokens, Number
<1>5. ASSUME left = NONE
      PROVE  /\ Len(made) = Len(shown) /\ Len(shown) \in Nat /\ Len(made') = Len(made) + 1
             /\ made'[Len(made) + 1] = arr'
             /\ sem.child = 0 /\ sem.parent = 0 /\ ppc \notin {"print", "post"}
  <2>1. /\ Len(made) = Len(shown) /\ Len(shown) \in Nat /\ Len(made') = Len(made) + 1
        /\ made'[Len(made) + 1] = arr'
    BY <1>1, <1>2, <1>5, AppendFront, LenProperties DEF TypeOK, Turns
  <2>2. sem.child = 0 /\ sem.parent = 0 /\ ppc \notin {"print", "post"}
    BY <1>1, <1>5 DEF TypeOK, Tokens, Number, Counts, NONE
  <2> QED
    BY <2>1, <2>2
<1>6. Turns' /\ LineKept'
  BY <1>1, <1>5 DEF Turns, LineKept, NONE
<1> QED
  BY <1>3, <1>4, <1>6
(* One semaphore changes by one, the other one stays.                      *)
LEMMA CountsMove ==
  ASSUME NEW c \in Counts
  PROVE  /\ LET d == [c EXCEPT !.child = @ + 1]
            IN  d \in Counts /\ d.child = c.child + 1 /\ d.parent = c.parent
         /\ LET d == [c EXCEPT !.parent = @ + 1]
            IN  d \in Counts /\ d.child = c.child /\ d.parent = c.parent + 1
         /\ c.child > 0 =>
              LET d == [c EXCEPT !.child = @ - 1]
              IN  d \in Counts /\ d.child = c.child - 1 /\ d.parent = c.parent
         /\ c.parent > 0 =>
              LET d == [c EXCEPT !.parent = @ - 1]
              IN  d \in Counts /\ d.child = c.child /\ d.parent = c.parent - 1
BY DEF Counts

LEMMA TokenInv ==
  ASSUME IInv,
         PostChild \/ WaitParent \/ WaitChild \/ PostParent
  PROVE  IInv'
<1> USE DEF IInv
<1>1. Len(made) \in Nat /\ Len(shown) \in Nat
  BY LenProperties DEF TypeOK
<1>2. CASE PostChild
  <2>0. sem' \in Counts /\ sem'.child = sem.child + 1 /\ sem'.parent = sem.parent
    BY <1>2, CountsMove DEF PostChild, TypeOK
  <2>1. TypeOK'
    BY <1>2, <2>0 DEF PostChild, session, TypeOK
  <2>2. Tokens'
    BY <1>2, <2>0
    DEF PostChild, session, TypeOK, Tokens, Number, Counts
  <2>3. left = NONE =>
          sem.child + sem.parent + Number(ppc \in {"print", "post"}) <= 0
    BY <1>2 DEF PostChild, TypeOK, Tokens, Number, Counts, NONE
  <2>4. Turns' /\ LineKept'
    BY <1>1, <1>2, <2>0, <2>3
    DEF PostChild, session, TypeOK, Turns, LineKept, Number, Counts, NONE
  <2> QED
    BY <2>1, <2>2, <2>4
<1>3. CASE WaitParent
  <2>0. sem' \in Counts /\ sem'.parent = sem.parent - 1 /\ sem'.child = sem.child
    BY <1>3, CountsMove DEF WaitParent, TypeOK
  <2>1. TypeOK'
    BY <1>3, <2>0 DEF WaitParent, session, TypeOK
  <2>2. Tokens'
    <3>1. /\ cpc = "wait" /\ cpc' = "scan" /\ ppc' = ppc /\ left' = left
          /\ Number(ppc \in {"print", "post"}) \in Nat
      BY <1>3 DEF WaitParent, session, Number
    <3>2. /\ sem.child \in Nat /\ sem.parent \in Nat /\ left.child \in Nat
          /\ left.parent \in Nat
      BY DEF TypeOK, Counts
    <3> QED
      BY <2>0, <3>1, <3>2 DEF Tokens, Number
  <2>3. left = NONE =>
          sem.child + sem.parent + Number(ppc \in {"print", "post"}) <= 1
    BY <1>3 DEF WaitParent, TypeOK, Tokens, Number, Counts, NONE
  <2>4. Turns' /\ LineKept'
    BY <1>1, <1>3, <2>0, <2>3
    DEF WaitParent, session, TypeOK, Turns, LineKept, Number, Counts, NONE
  <2> QED
    BY <2>1, <2>2, <2>4
<1>4. CASE WaitChild
  <2>0. sem' \in Counts /\ sem'.child = sem.child - 1 /\ sem'.parent = sem.parent
    BY <1>4, CountsMove DEF WaitChild, TypeOK
  <2>1. TypeOK'
    BY <1>4, <2>0 DEF WaitChild, session, TypeOK
  <2>2. Tokens' /\ Turns'
    BY <1>1, <1>4, <2>0
    DEF WaitChild, session, TypeOK, Tokens, Turns, Number,
        Counts, NONE
  <2>3. LineKept'
    BY <1>4, PingPongAssumption DEF WaitChild, LineKept
  <2> QED
    BY <2>1, <2>2, <2>3
<1>5. CASE PostParent
  <2>0. sem' \in Counts /\ sem'.parent = sem.parent + 1 /\ sem'.child = sem.child
    BY <1>5, CountsMove DEF PostParent, TypeOK
  <2>1. TypeOK'
    BY <1>5, <2>0 DEF PostParent, session, TypeOK
  <2>2. Tokens' /\ Turns' /\ LineKept'
    BY <1>1, <1>5, <2>0
    DEF PostParent, session, TypeOK, Tokens, Turns, LineKept, Number,
        Counts, NONE
  <2> QED
    BY <2>1, <2>2
<1> QED
  BY <1>2, <1>3, <1>4, <1>5

(* What the parent prints next, and what its line is then.                 *)
LEMMA LineGrows ==
  ASSUME IInv, PrintElement
  PROVE  /\ Len(line) \in 0 .. SIZE - 1 /\ Len(line') = Len(line) + 1
         /\ line' \in Seq(Nat)
         /\ line'[Len(line) + 1] = arr[Len(line)]
         /\ \A k \in 1 .. Len(line) : line'[k] = line[k]
<1>1. line \in Seq(Nat) /\ Len(line) < SIZE
  BY DEF IInv, TypeOK, LineKept, PrintElement
<1>2. Len(line) \in 0 .. SIZE - 1
  BY <1>1, LenProperties, PingPongAssumption
<1>3. arr[Len(line)] \in Nat
  BY <1>2 DEF IInv, TypeOK, Index
<1>4. line' = Append(line, arr[Len(line)])
  BY DEF PrintElement
<1> QED
  BY <1>1, <1>2, <1>3, <1>4, AppendFront

LEMMA PrintInv ==
  ASSUME IInv, PrintElement
  PROVE  IInv'
<1>1. /\ ppc = "print" /\ UNCHANGED <<arr, sem, cpc, input, made, left>>
      /\ \/ Len(line') < SIZE /\ ppc' = "print" /\ shown' = shown
         \/ Len(line') >= SIZE /\ ppc' = "post" /\ shown' = Append(shown, line')
  BY LineGrows, PingPongAssumption DEF PrintElement, session
<1>2. Len(made) \in Nat /\ Len(shown) \in Nat
  BY LenProperties DEF IInv, TypeOK
<1>3. TypeOK'
  <2>1. shown' \in Seq(Seq(Nat))
    <3>1. shown \in Seq(Seq(Nat)) /\ line' \in Seq(Nat)
      BY LineGrows DEF IInv, TypeOK
    <3>2. Append(shown, line') \in Seq(Seq(Nat))
      BY <3>1, AppendProperties
    <3> QED
      BY <1>1, <3>1, <3>2
  <2> QED
    BY <1>1, <2>1, LineGrows DEF IInv, TypeOK
<1>4. Tokens'
  BY <1>1 DEF IInv, Tokens, Number
<1>5. Turns'
  <2>1. CASE shown' = shown /\ ppc' = "print"
    BY <1>1, <2>1 DEF IInv, Turns
  <2>2. CASE shown' = Append(shown, line') /\ ppc' = "post"
    <3>1. Len(shown') = Len(shown) + 1
      BY <2>2, LineGrows, AppendFront DEF IInv, TypeOK
    <3>2. ASSUME left = NONE
          PROVE  Len(made) = Len(shown) + 1 /\ sem.child = 0 /\ sem.parent = 0 /\ cpc # "post"
                 /\ cpc \in {"wait", "gone"}
      BY <1>1, <3>2
      DEF IInv, TypeOK, Tokens, Turns, Number, Counts, NONE
    <3> QED
      BY <1>1, <1>2, <2>2, <3>1, <3>2 DEF IInv, Turns, NONE
  <2> QED
    BY <1>1, <2>1, <2>2
<1>6. LineKept'
  <2>1. ASSUME left = NONE, NEW k \in 1 .. Len(line')
        PROVE  line'[k] = arr[k - 1]
    <3>1. k \in 1 .. Len(line) \/ k = Len(line) + 1
      BY LineGrows
    <3> QED
      BY <1>1, <2>1, <3>1, LineGrows DEF IInv, LineKept
  <2> QED
    BY <1>1, <2>1 DEF LineKept, NONE
<1> QED
  BY <1>3, <1>4, <1>5, <1>6 DEF IInv

LEMMA LeaveInv ==
  ASSUME IInv,
         ChildFaults \/ ParentFaults \/ KillChild \/ KillParent
  PROVE  IInv'
<1>1. /\ UNCHANGED <<arr, sem, input, line, made, shown, left>>
      /\ \/ cpc' = "gone" /\ ppc' = ppc
         \/ ppc' = "gone" /\ cpc' = cpc
  BY DEF ChildFaults, ParentFaults, KillChild, KillParent, session
<1>2. TypeOK'
  BY <1>1 DEF IInv, TypeOK
<1>3. Tokens'
  BY <1>1 DEF IInv, TypeOK, Tokens, Number, Counts
<1>4. Turns' /\ LineKept'
  BY <1>1 DEF IInv, Turns, LineKept, NONE
<1> QED
  BY <1>2, <1>3, <1>4 DEF IInv

LEMMA StepInv ==
  ASSUME IInv, [PingNext]_(ping_vars)
  PROVE  IInv'
<1>1. CASE UNCHANGED ping_vars
  BY <1>1
  DEF ping_vars, session, IInv, TypeOK, Tokens, Turns, LineKept, Counts,
      NONE
<1> QED
  BY <1>1, StartInv, ScanInv, ChangeInv, TokenInv, PrintInv, LeaveInv
  DEF PingNext, Child, Parent

(* The invariant holds in every session, wherever its processes are killed *)
(* and whatever the semaphores were left with (semaphore.c:31-51).         *)
THEOREM InvariantHolds == PingSpec => []IInv
<1>1. PingInit => IInv
  BY InitInv
<1>2. IInv /\ [PingNext]_(ping_vars) => IInv'
  BY StepInv
<1> QED
  BY <1>1, <1>2, PTL DEF PingSpec

(* A session leaves the semaphores at most one higher than it found them.  *)
THEOREM SessionLeavesOneToken == PingSpec => []OneTokenPerSession
<1>1. IInv => OneTokenPerSession
  BY DEF IInv, TypeOK, Tokens, Number, Counts, OneTokenPerSession
<1> QED
  BY <1>1, InvariantHolds, PTL
-----------------------------------------------------------------------------
(* The lines printed are the changes made.                                 *)

(* A session that has not found the semaphores at zero maps to an Echo     *)
(* that has not begun.                                                     *)
MadeBar == IF left = NONE THEN made ELSE <<>>

ShownBar == IF left = NONE THEN lines ELSE <<>>

LEMMA Mapped ==
  /\ E!Init <=> MadeBar = <<>> /\ ShownBar = <<>>
  /\ E!Restart <=> MadeBar' = <<>> /\ ShownBar' = <<>>
  /\ E!Change <=> /\ MadeBar' # <<>> /\ SubSeq(MadeBar', 1, Len(MadeBar') - 1) = MadeBar
                      /\ ShownBar' = ShownBar
  /\ E!Show <=> /\ Len(ShownBar) < Len(MadeBar)
                    /\ ShownBar' = Append(ShownBar, MadeBar[Len(ShownBar) + 1])
                    /\ MadeBar' = MadeBar
  /\ MadeBar' = MadeBar /\ ShownBar' = ShownBar => UNCHANGED E!vars
BY DEF MadeBar, ShownBar, E!Init, E!Restart, E!Change, E!Show, E!vars,
       E!Front, NONE

(* A whole line appended to the lines.                                     *)
LEMMA LinesGrow ==
  ASSUME NEW q \in Seq(Seq(Nat)), NEW l \in Seq(Nat),
         NEW r, r = Append(q, l)
  PROVE  LET Lines(x) == [k \in 1 .. Len(x) |-> Shown(x[k])]
         IN  /\ Len(Lines(q)) = Len(q)
             /\ Lines(r) = Append(Lines(q), Shown(l))
<1> DEFINE T == {Shown(x) : x \in Seq(Nat)}
           Lines(x) == [k \in 1 .. Len(x) |-> Shown(x[k])]
<1>1. Len(q) \in Nat
  BY LenProperties
<1>2. /\ r \in Seq(Seq(Nat)) /\ Len(r) = Len(q) + 1
      /\ r[Len(q) + 1] = l /\ \A k \in 1 .. Len(q) : r[k] = q[k]
  BY AppendProperties
<1>3. ASSUME NEW x \in Seq(Seq(Nat))
      PROVE  Lines(x) \in Seq(T) /\ Len(Lines(x)) = Len(x)
  <2>1. Len(x) \in Nat
    BY LenProperties
  <2>2. \A k \in 1 .. Len(x) : Shown(x[k]) \in T
    BY ElementOfSeq
  <2> QED
    BY <2>1, <2>2
<1>4. Shown(l) \in T
  OBVIOUS
<1>5. /\ Append(Lines(q), Shown(l)) \in Seq(T)
      /\ Len(Append(Lines(q), Shown(l))) = Len(q) + 1
      /\ \A k \in 1 .. Len(q) : Append(Lines(q), Shown(l))[k] = Lines(q)[k]
      /\ Append(Lines(q), Shown(l))[Len(q) + 1] = Shown(l)
  <2> HIDE DEF Lines, T
  <2> QED
    BY <1>3, <1>4, AppendProperties
<1>6. ASSUME NEW k \in 1 .. Len(q) + 1
      PROVE  Lines(r)[k] = Append(Lines(q), Shown(l))[k]
  <2>1. CASE k \in 1 .. Len(q)
    BY <1>2, <1>5, <2>1
  <2>2. CASE k = Len(q) + 1
    BY <1>1, <1>2, <1>5, <2>2
  <2> QED
    BY <1>1, <2>1, <2>2
<1>7. Lines(r) = Append(Lines(q), Shown(l))
  <2>1. Lines(r) \in Seq(T) /\ Len(Lines(r)) = Len(q) + 1
    BY <1>2, <1>3
  <2> HIDE DEF Lines, T
  <2> QED
    BY <1>5, <1>6, <2>1, SeqEqual
<1> QED
  BY <1>3, <1>7

(* A change is a Change.                                                   *)
LEMMA ChangeMaps ==
  ASSUME IInv, change_arr
  PROVE  E!Change \/ UNCHANGED E!vars
<1>1. /\ arr' = [arr EXCEPT ![input[1]] = input[2]] /\ made' = Append(made, arr')
      /\ UNCHANGED <<shown, left>>
  BY DEF change_arr, session
<1>2. ShownBar' = ShownBar
  BY <1>1 DEF ShownBar, lines, Shown, NONE
<1>3. CASE left = NONE
  <2>1. made \in Seq([Index -> Nat]) /\ arr' \in [Index -> Nat]
    BY <1>1 DEF IInv, TypeOK
  <2>2. made' # <<>> /\ SubSeq(made', 1, Len(made') - 1) = made
    BY <1>1, <2>1, AppendFront
  <2>3. MadeBar = made /\ MadeBar' = made'
    BY <1>1, <1>3 DEF MadeBar, NONE
  <2> QED
    BY <1>2, <2>2, <2>3, Mapped
<1>4. CASE left # NONE
  <2>1. MadeBar' = MadeBar
    BY <1>1, <1>4 DEF MadeBar, NONE
  <2> QED
    BY <1>2, <2>1, Mapped
<1> QED
  BY <1>3, <1>4

(* The last element of a line is a Show: the line is the array as the last *)
(* change has left it.                                                     *)
LEMMA PrintMaps ==
  ASSUME IInv, PrintElement
  PROVE  E!Show \/ UNCHANGED E!vars
<1>1. /\ ppc = "print" /\ UNCHANGED <<arr, made, left>>
      /\ \/ Len(line') < SIZE /\ shown' = shown
         \/ Len(line') >= SIZE /\ shown' = Append(shown, line')
  BY LineGrows, PingPongAssumption DEF PrintElement, session
<1>2. MadeBar' = MadeBar
  BY <1>1 DEF MadeBar, NONE
<1>3. CASE left # NONE \/ shown' = shown
  <2>1. ShownBar' = ShownBar
    BY <1>1, <1>3 DEF ShownBar, lines, Shown, NONE
  <2> QED
    BY <1>2, <2>1, Mapped
<1>4. CASE left = NONE /\ Len(line') >= SIZE /\ shown' = Append(shown, line')
  <2>1. Len(line') = SIZE
    BY <1>4, LineGrows, PingPongAssumption
  <2>2. \A k \in 1 .. SIZE : line'[k] = arr[k - 1]
    <3>1. ASSUME NEW k \in 1 .. SIZE PROVE line'[k] = arr[k - 1]
      <4>1. k \in 1 .. Len(line) \/ k = Len(line) + 1
        BY <2>1, LineGrows
      <4> QED
        BY <1>1, <1>4, <4>1, LineGrows DEF IInv, LineKept
    <3> QED
      BY <3>1
  <2>3. Shown(line') = arr
    <3>1. arr = [k \in Index |-> arr[k]]
      BY DEF IInv, TypeOK
    <3>2. \A k \in Index : line'[k + 1] = arr[k]
      BY <2>2, PingPongAssumption DEF Index
    <3> QED
      BY <3>1, <3>2 DEF Shown
  <2>4. /\ Len(made) = Len(shown) + 1 /\ arr = made[Len(made)] /\ Len(shown) \in Nat
    <3>1. made # <<>>
      BY <1>1, <1>4, LenProperties, EmptySeq DEF IInv, TypeOK, Turns
    <3> QED
      BY <1>1, <1>4, <3>1, LenProperties DEF IInv, TypeOK, Turns
  <2>5. Len(lines) = Len(shown) /\ lines' = Append(lines, Shown(line'))
    BY <1>4, LinesGrow, LineGrows DEF IInv, TypeOK, lines
  <2>6. ShownBar = lines /\ ShownBar' = lines' /\ MadeBar = made
    BY <1>1, <1>4 DEF ShownBar, MadeBar, NONE
  <2> QED
    BY <1>2, <2>3, <2>4, <2>5, <2>6, Mapped
<1> QED
  BY <1>1, <1>3, <1>4

LEMMA StepMaps ==
  ASSUME IInv, [PingNext]_(ping_vars)
  PROVE  [E!Next]_(E!vars)
<1>1. CASE Start
  <2>1. MadeBar' = <<>> /\ ShownBar' = <<>>
    BY <1>1 DEF Start, MadeBar, ShownBar, lines, Shown, NONE
  <2> QED
    BY <2>1, Mapped DEF E!Next
<1>2. CASE UNCHANGED <<made, shown, left>>
  <2>1. MadeBar' = MadeBar /\ ShownBar' = ShownBar
    BY <1>2 DEF MadeBar, ShownBar, lines, Shown, NONE
  <2> QED
    BY <2>1, Mapped
<1>3. CASE change_arr
  BY <1>3, ChangeMaps DEF E!Next
<1>4. CASE PrintElement
  BY <1>4, PrintMaps DEF E!Next
<1>5. \/ Start \/ change_arr \/ PrintElement \/ UNCHANGED <<made, shown, left>>
  BY DEF PingNext, Child, Parent, Scan, PostChild, WaitParent,
         ChildFaults, WaitChild, PostParent, ParentFaults,
         KillChild, KillParent, session, ping_vars
<1> QED
  BY <1>1, <1>2, <1>3, <1>4, <1>5

(* A session that finds the semaphores at zero prints each change once,    *)
(* whole and in order, however often the program is killed and started     *)
(* (semaphore.c:42-51).                                                    *)
THEOREM EchoesChanges == PingSpec => Echoes
<1>1. PingInit => E!Init
  BY Mapped DEF PingInit, MadeBar, ShownBar, lines
<1>2. IInv /\ [PingNext]_(ping_vars) => [E!Next]_(E!vars)
  BY StepMaps
<1> QED
  BY <1>1, <1>2, InvariantHolds, PTL DEF PingSpec, Echoes, E!Spec

-----------------------------------------------------------------------------
(* MutexPrint, whose threads take turns by a mutex.                        *)

(* The types.                                                              *)
PrintTyped ==
  /\ m \in Printers \cup {FREE}
  /\ print_pc \in [Printers -> {"none", "lock", "print", "unlock", "sleep", "done"}]
  /\ s \in [Printers -> Nat] /\ out \in Seq(Printers \X Nat)

(* A thread that prints, or is about to unlock, has the mutex, and one     *)
(* that has not been created does neither.                                 *)
MutexKept ==
  /\ \A t \in Printers : print_pc[t] \in {"print", "unlock"} <=> m = t
  /\ print_main = "create1" => print_pc[1] = "none"
  /\ print_main \in {"create1", "create2"} => print_pc[2] = "none"

(* The last letter is the last one of its word.                            *)
WordEnded == out = <<>> \/ out[Len(out)][2] = LENGTH[out[Len(out)][1]]

(* Who prints goes on where the last letter is; else a word has ended.     *)
LetterNext ==
  /\ \A t \in Printers : print_pc[t] = "print" =>
       /\ s[t] \in 1 .. LENGTH[t] + 1
       /\ IF s[t] = 1 THEN WordEnded
                      ELSE out # <<>> /\ out[Len(out)] = <<t, s[t] - 1>>
  /\ (\A t \in Printers : print_pc[t] # "print") => WordEnded

MutexInv == PrintTyped /\ MutexKept /\ LetterNext /\ WordsWhole

(* A letter is printed, or the word is at its end.                         *)
LEMMA LetterPrinted ==
  ASSUME MutexInv, NEW t \in Printers, bad_print(t)
  PROVE  MutexInv'
<1>1. /\ print_pc[t] = "print" /\ s' = [s EXCEPT ![t] = @ + 1] /\ m' = m /\ print_main' = print_main
      /\ LENGTH \in [Printers -> Nat \ {0}] /\ s[t] \in 1 .. LENGTH[t] + 1
      /\ IF s[t] = 1 THEN WordEnded
                     ELSE out # <<>> /\ out[Len(out)] = <<t, s[t] - 1>>
      /\ LENGTH[t] \in Nat \ {0} /\ s[t] \in Nat
  BY MutexPrintAssumption DEF MutexInv, LetterNext, bad_print
<1>2. \A u \in Printers \ {t} : print_pc[u] \notin {"print", "unlock"}
  BY <1>1 DEF MutexInv, MutexKept
<1>3. s' \in [Printers -> Nat]
  BY <1>1 DEF MutexInv, PrintTyped
<1>4. CASE s[t] <= LENGTH[t]
  <2>1. out' = Append(out, <<t, s[t]>>) /\ print_pc' = print_pc
    BY <1>4 DEF bad_print
  <2>2. out \in Seq(Printers \X Nat) /\ <<t, s[t]>> \in Printers \X Nat
    BY <1>1 DEF MutexInv, PrintTyped
  <2>3. /\ Len(out) \in Nat /\ out' \in Seq(Printers \X Nat) /\ out' # <<>>
        /\ Len(out') = Len(out) + 1 /\ out'[Len(out) + 1] = <<t, s[t]>>
        /\ \A k \in 1 .. Len(out) : out'[k] = out[k]
    BY <2>1, <2>2, AppendProperties, LenProperties
  <2>4. PrintTyped' /\ MutexKept'
    BY <1>1, <1>3, <2>1, <2>3 DEF MutexInv, PrintTyped, MutexKept
  <2>5. s'[t] = s[t] + 1 /\ s'[t] \in 1 .. LENGTH[t] + 1 /\ s'[t] # 1
    BY <1>1, <1>4 DEF MutexInv, PrintTyped
  <2>6. LetterNext'
    <3>1. out'[Len(out')] = <<t, s'[t] - 1>>
      BY <1>1, <2>3, <2>5
    <3> QED
      BY <1>1, <1>2, <2>1, <2>3, <2>5, <3>1 DEF LetterNext
  <2>7. WordsWhole'
    <3> SUFFICES ASSUME NEW n \in 1 .. Len(out)
                 PROVE  IF out'[n][2] = LENGTH[out'[n][1]] THEN out'[n + 1][2] = 1
                        ELSE out'[n + 1] = <<out'[n][1], out'[n][2] + 1>>
      <4>1. 1 .. Len(out') - 1 = 1 .. Len(out)
        BY <2>3
      <4> QED
        BY <4>1 DEF WordsWhole
    <3>0. n \in Nat /\ Len(out) \in Nat /\ n <= Len(out)
      BY <2>3
    <3>1. CASE n < Len(out)
      <4>1. n \in 1 .. Len(out) - 1 /\ out'[n] = out[n] /\ out'[n + 1] = out[n + 1]
        <5>1. n \in 1 .. Len(out) - 1 /\ n + 1 \in 1 .. Len(out)
          BY <3>0, <3>1
        <5> QED
          BY <2>3, <5>1
      <4> QED
        BY <4>1 DEF MutexInv, WordsWhole
    <3>2. CASE n = Len(out)
      <4>1. out'[n] = out[n] /\ out'[n + 1] = <<t, s[t]>> /\ out # <<>>
        BY <2>2, <2>3, <3>2
      <4>2. CASE s[t] = 1
        BY <1>1, <3>2, <4>1, <4>2 DEF WordEnded
      <4>3. CASE s[t] # 1
        <5>1. out[n] = <<t, s[t] - 1>> /\ s[t] - 1 # LENGTH[t] /\ (s[t] - 1) + 1 = s[t]
          BY <1>1, <1>4, <3>2, <4>3
        <5> QED
          BY <4>1, <5>1
      <4> QED
        BY <4>2, <4>3
    <3> QED
      BY <3>0, <3>1, <3>2
  <2> QED
    BY <2>4, <2>6, <2>7 DEF MutexInv
<1>5. CASE ~(s[t] <= LENGTH[t])
  <2>1. out' = out /\ print_pc' = [print_pc EXCEPT ![t] = "unlock"]
    BY <1>5 DEF bad_print
  <2>2. out # <<>> /\ out[Len(out)] = <<t, LENGTH[t]>>
    <3>1. s[t] # 1 /\ s[t] - 1 = LENGTH[t]
      BY <1>1, <1>5
    <3> QED
      BY <1>1, <3>1
  <2>3. WordEnded
    BY <2>2 DEF WordEnded
  <2>4. PrintTyped' /\ MutexKept'
    BY <1>1, <1>3, <2>1 DEF MutexInv, PrintTyped, MutexKept
  <2>5. LetterNext' /\ WordsWhole'
    BY <1>1, <1>2, <2>1, <2>3 DEF MutexInv, PrintTyped, LetterNext, WordEnded, WordsWhole
  <2> QED
    BY <2>4, <2>5 DEF MutexInv
<1> QED
  BY <1>4, <1>5

(* Each step of the program keeps the invariant.                           *)
LEMMA PrintStep ==
  ASSUME MutexInv, [PrintNext]_print_vars
  PROVE  MutexInv'
<1>0. LENGTH \in [Printers -> Nat \ {0}] /\ 1 \in Printers /\ 2 \in Printers
  BY MutexPrintAssumption DEF Printers
<1>1. ASSUME NEW t \in Printers, Lock(t) PROVE MutexInv'
  <2>1. /\ m = FREE /\ m' = t /\ print_pc[t] = "lock" /\ print_pc' = [print_pc EXCEPT ![t] = "print"]
        /\ s' = [s EXCEPT ![t] = 1] /\ out' = out /\ print_main' = print_main /\ t # FREE
    BY <1>1 DEF Lock, Printers, FREE
  <2>2. \A u \in Printers : print_pc[u] \notin {"print", "unlock"}
    BY <2>1 DEF MutexInv, MutexKept, Printers, FREE
  <2>3. WordEnded
    BY <2>2 DEF MutexInv, LetterNext
  <2>4. PrintTyped' /\ MutexKept'
    BY <2>1, <2>2 DEF MutexInv, PrintTyped, MutexKept
  <2>5. s'[t] = 1 /\ 1 \in 1 .. LENGTH[t] + 1
    BY <1>0, <2>1 DEF MutexInv, PrintTyped
  <2>6. LetterNext' /\ WordsWhole'
    BY <2>1, <2>2, <2>3, <2>5 DEF MutexInv, PrintTyped, LetterNext, WordEnded, WordsWhole
  <2> QED
    BY <2>4, <2>6 DEF MutexInv
<1>2. ASSUME NEW t \in Printers, bad_print(t) PROVE MutexInv'
  BY <1>2, LetterPrinted
<1>3. ASSUME NEW t \in Printers, Unlock(t) PROVE MutexInv'
  <2>1. /\ m' = FREE /\ print_pc[t] = "unlock" /\ print_pc' = [print_pc EXCEPT ![t] = "sleep"]
        /\ s' = s /\ out' = out /\ print_main' = print_main /\ t # FREE
    BY <1>3 DEF Unlock, Printers, FREE
  <2>2. m = t /\ \A u \in Printers : print_pc'[u] \notin {"print", "unlock"} /\ print_pc[u] # "print"
    BY <2>1 DEF MutexInv, PrintTyped, MutexKept
  <2>3. PrintTyped' /\ MutexKept'
    BY <2>1, <2>2 DEF MutexInv, PrintTyped, MutexKept, Printers, FREE
  <2>4. LetterNext' /\ WordsWhole'
    BY <2>1, <2>2 DEF MutexInv, LetterNext, WordEnded, WordsWhole
  <2> QED
    BY <2>3, <2>4 DEF MutexInv
(* Nothing is printed, and the mutex stays where it is.                    *)
<1>4. ASSUME NEW t \in Printers, NEW here, here \notin {"print", "unlock"}, print_pc[t] = here,
             NEW there, there \in {"lock", "done"}, print_pc' = [print_pc EXCEPT ![t] = there],
             here = "none" => there = "lock",
             UNCHANGED <<m, s, out>>,
             print_main' = "create1" => print_main = "create1" /\ here # "none",
             print_main' = "create2" => \/ print_main = "create2" /\ here # "none"
                                        \/ print_main = "create1" /\ t = 1
      PROVE  MutexInv'
  <2>1. PrintTyped'
    BY <1>4 DEF MutexInv, PrintTyped
  <2>2. MutexKept'
    BY <1>4, <1>0 DEF MutexInv, PrintTyped, MutexKept, Printers
  <2>3. \A u \in Printers : print_pc'[u] = "print" <=> print_pc[u] = "print"
    BY <1>4 DEF MutexInv, PrintTyped
  <2>4. LetterNext' /\ WordsWhole'
    BY <1>4, <2>3 DEF MutexInv, LetterNext, WordEnded, WordsWhole
  <2> QED
    BY <2>1, <2>2, <2>4 DEF MutexInv
<1>5. ASSUME NEW t \in Printers, Sleep(t) \/ Return(t) PROVE MutexInv'
  BY <1>4, <1>5 DEF Sleep, Return
<1>6. CASE Create(1, "create1", "create2") \/ Create(2, "create2", "join1")
  BY <1>0, <1>4, <1>6 DEF Create, MutexInv, MutexKept
<1>7. CASE Join \/ Destroy \/ UNCHANGED print_vars
  <2>1. /\ m' = m /\ print_pc' = print_pc /\ s' = s /\ out' = out
        /\ print_main' \in {print_main, "join2", "destroy", "exit"}
    BY <1>7 DEF Join, Destroy, print_vars
  <2> QED
    BY <2>1 DEF MutexInv, PrintTyped, MutexKept, LetterNext, WordEnded, WordsWhole
<1> QED
  BY <1>1, <1>2, <1>3, <1>5, <1>6, <1>7 DEF PrintNext, Main, my_thread

(* task05.c:25-31: however the two threads take turns, for words of any    *)
(* length and any number of iterations, no letter of one word is printed   *)
(* into another.                                                           *)
THEOREM WordsStayWhole == PrintSpec => []WordsWhole
<1>1. PrintInit => MutexInv
  BY DEF PrintInit, MutexInv, PrintTyped, MutexKept, LetterNext, WordEnded, WordsWhole,
         Printers, FREE
<1>2. MutexInv /\ [PrintNext]_print_vars => MutexInv'
  BY PrintStep
<1>3. MutexInv => WordsWhole
  BY DEF MutexInv
<1> QED
  BY <1>1, <1>2, <1>3, PTL DEF PrintSpec

===============================================================================
