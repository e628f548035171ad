------------------------------ MODULE MutexPrint ------------------------------
(***************************************************************************)
(* seminar8/task05/task05.c.  Two threads print a word each, letter by     *)
(* letter, PRINTS times; a mutex keeps the letters of a word together.     *)
(* main creates the threads, joins them, and destroys the mutex.  A letter *)
(* is the thread whose word it belongs to, and its place in the word.      *)
(***************************************************************************)
EXTENDS Naturals, Sequences, FiniteSets

CONSTANTS
  LENGTH,   \* the lengths of the words: 6 and 7 in the program
  PRINTS    \* how often a word is printed: ITERS, 10, in the program

Printers == {1, 2}

ASSUME MutexPrintAssumption ==
  LENGTH \in [Printers -> Nat \ {0}] /\ PRINTS \in Nat

VARIABLES
  m,           \* the mutex: the thread that holds it, or FREE
  print_pc,    \* where each thread is
  iteration,   \* i of each thread
  s,           \* the place of each thread in its word
  print_main,  \* where main is
  out          \* what has been printed

print_vars == <<m, print_pc, iteration, s, print_main, out>>

FREE == 0

PrintInit ==
  /\ m = FREE /\ print_main = "create1"
  /\ print_pc = [t \in Printers |-> "none"]
  /\ iteration = [t \in Printers |-> 0] /\ s = [t \in Printers |-> 1]
  /\ out = <<>>

-----------------------------------------------------------------------------
(* my_thread.                                                              *)

(* Slip: the thread does not lock.                                         *)
NoLock(t) ==
  /\ print_pc[t] = "lock" /\ iteration[t] < PRINTS
  /\ print_pc' = [print_pc EXCEPT ![t] = "print"] /\ s' = [s EXCEPT ![t] = 1]
  /\ UNCHANGED <<m, iteration, print_main, out>>

Lock(t) ==
  /\ print_pc[t] = "lock" /\ iteration[t] < PRINTS /\ m = FREE
  /\ m' = t
  /\ print_pc' = [print_pc EXCEPT ![t] = "print"] /\ s' = [s EXCEPT ![t] = 1]
  /\ UNCHANGED <<iteration, print_main, out>>

(* A letter, which is flushed at once, or the end of the word.             *)
bad_print(t) ==
  /\ print_pc[t] = "print"
  /\ s' = [s EXCEPT ![t] = @ + 1]
  /\ IF s[t] <= LENGTH[t]
     THEN out' = Append(out, <<t, s[t]>>) /\ UNCHANGED print_pc
     ELSE print_pc' = [print_pc EXCEPT ![t] = "unlock"] /\ UNCHANGED out
  /\ UNCHANGED <<m, iteration, print_main>>

(* Slip: the thread keeps the mutex.                                       *)
NoUnlock(t) ==
  /\ print_pc[t] = "unlock"
  /\ print_pc' = [print_pc EXCEPT ![t] = "sleep"]
  /\ UNCHANGED <<m, iteration, s, print_main, out>>

Unlock(t) ==
  /\ print_pc[t] = "unlock"
  /\ m' = FREE
  /\ print_pc' = [print_pc EXCEPT ![t] = "sleep"]
  /\ UNCHANGED <<iteration, s, print_main, out>>

Sleep(t) ==
  /\ print_pc[t] = "sleep"
  /\ iteration' = [iteration EXCEPT ![t] = @ + 1]
  /\ print_pc' = [print_pc EXCEPT ![t] = "lock"]
  /\ UNCHANGED <<m, s, print_main, out>>

Return(t) ==
  /\ print_pc[t] = "lock" /\ iteration[t] = PRINTS
  /\ print_pc' = [print_pc EXCEPT ![t] = "done"]
  /\ UNCHANGED <<m, iteration, s, print_main, out>>

-----------------------------------------------------------------------------
(* main.                                                                   *)

Create(t, here, next) ==
  /\ print_main = here /\ print_main' = next
  /\ print_pc' = [print_pc EXCEPT ![t] = "lock"]
  /\ UNCHANGED <<m, iteration, s, out>>

Join ==
  /\ \/ print_main = "join1" /\ print_pc[1] = "done" /\ print_main' = "join2"
     \/ print_main = "join2" /\ print_pc[2] = "done" /\ print_main' = "destroy"
  /\ UNCHANGED <<m, print_pc, iteration, s, out>>

(* pthread_exit ends main; the process ends with its last thread.          *)
Destroy ==
  /\ print_main = "destroy"
  /\ print_main' = "exit"
  /\ UNCHANGED <<m, print_pc, iteration, s, out>>

my_thread(t) ==
  Lock(t) \/ bad_print(t) \/ Unlock(t) \/ Sleep(t) \/ Return(t)

Main == \/ Create(1, "create1", "create2") \/ Create(2, "create2", "join1")
        \/ Join \/ Destroy

PrintNext == Main \/ \E t \in Printers : my_thread(t)

PrintSpec ==
  /\ PrintInit /\ [][PrintNext]_print_vars
  /\ WF_print_vars(Main) /\ \A t \in Printers : WF_print_vars(my_thread(t))

-----------------------------------------------------------------------------
Ended == print_main = "exit" /\ \A t \in Printers : print_pc[t] = "done"

AllPrinted ==
  \A t \in Printers : \A k \in 1 .. LENGTH[t] :
             Cardinality({n \in DOMAIN out : out[n] = <<t, k>>}) = PRINTS

(* A letter is followed by the next one of its word, and a word by the     *)
(* beginning of a word: no thread prints into the word of the other.       *)
WordsWhole ==
  \A n \in 1 .. Len(out) - 1 :
    LET t == out[n][1] IN
      IF out[n][2] = LENGTH[t] THEN out[n + 1][2] = 1
                               ELSE out[n + 1] = <<t, out[n][2] + 1>>

(* Both threads and main end, and then every word has been printed PRINTS  *)
(* times, to its last letter (lines 25-31).                                *)
AllIsPrinted == <>(Ended /\ AllPrinted)

=============================================================================
