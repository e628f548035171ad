------------------------------ MODULE IOLibrary -------------------------------
(***************************************************************************)
(* "IO Library ASM/lib.inc" and its copy "Dictionary ASM/lib.asm": reading *)
(* a word or a line into a buffer, one character at a time, and numbers to *)
(* and from text.  Characters are their ASCII codes, numbers are machine   *)
(* words, r9 is the register.                                              *)
(*                                                                         *)
(* lib.inc has no program of its own.  The client here reads words up to   *)
(* the first that is refused, parses each as a signed number, and may      *)
(* print it before it reads the next one.                                  *)
(***************************************************************************)
EXTENDS Integers, SequencesExt

CONSTANTS
  Texts,        \* what the user may send: sequences of codes
  BUFFER_SIZE,  \* 256
  WORD          \* 2 ^ 64

NUL == 0
NL == 10
Blank == {9, NL, 32}
PLUS == 43
MINUS == 45
Digit == 48 .. 57

QWORD == 8   \* bytes that a store of rax writes

ASSUME LibraryAssumption ==
  /\ Texts \subseteq Seq(1 .. 127)
  /\ BUFFER_SIZE \in Nat \ {0}
  /\ WORD \in Nat /\ WORD % 2 = 0 /\ WORD > 10

VARIABLES
  text,    \* what the user sends in all
  at,      \* how many characters of it are read
  lib_pc,  \* where the program is
  buffer,  \* the buffer and what lies behind it
  length,  \* r14, then rdx
  words,   \* calls of the reading procedure that have returned an address
  number,  \* what parse_int has returned
  printed, \* what print_int has written last
  r9

library_vars == <<text, at, lib_pc, buffer, length, words, number, printed, r9>>

(* What belongs to somebody else, as long as nobody has written over it.   *)
FOREIGN == -1

Memory == 0 .. 2 * (BUFFER_SIZE + QWORD)

-----------------------------------------------------------------------------
(* Characters and strings.                                                 *)

(* The end of the input is answered with NUL, as often as it is asked for. *)
read_char == IF at < Len(text) THEN text[at + 1] ELSE NUL

Advance == at' = IF at < Len(text) THEN at + 1 ELSE at

(* Slip: only the character is stored.                                     *)
StoreByte(i, c) == buffer' = [buffer EXCEPT ![i] = c]

(* mov [r12 + r14], rax: the character and seven zeros.                    *)
Store(i, c) ==
  buffer' = [k \in Memory |-> IF k = i THEN c
                              ELSE IF k \in i + 1 .. i + QWORD - 1 THEN NUL
                              ELSE buffer[k]]

string_length == CHOOSE n \in Memory : /\ buffer[n] = NUL
                                       /\ \A k \in 0 .. n - 1 : buffer[k] # NUL

(* The null-terminated string in the buffer.                               *)
String == [k \in 1 .. string_length |-> buffer[k - 1]]

-----------------------------------------------------------------------------
(* read_word.                                                              *)

skipping_loop ==
  /\ lib_pc = "skip"
  /\ IF read_char \in Blank THEN Advance /\ UNCHANGED lib_pc
                            ELSE lib_pc' = "word" /\ UNCHANGED at
  /\ UNCHANGED <<text, buffer, length, words, number, printed, r9>>

(* .success and .err.                                                      *)
WordEnd ==
  /\ lib_pc = "word" /\ read_char \in Blank \cup {NUL}
  /\ Advance
  /\ IF length = 0
     THEN lib_pc' = "ended" /\ UNCHANGED <<buffer, words>>
     ELSE /\ buffer' = [buffer EXCEPT ![length + 1] = NUL]
          /\ words' = words + 1
          /\ lib_pc' = "parse"
  /\ UNCHANGED <<text, length, number, printed, r9>>

(* Slip: the size is not checked.                                          *)
WordCharUnchecked ==
  /\ lib_pc = "word" /\ read_char \notin Blank \cup {NUL}
  /\ Advance
  /\ Store(length, read_char) /\ length' = length + 1
  /\ UNCHANGED <<text, lib_pc, words, number, printed, r9>>

WordChar ==
  /\ lib_pc = "word" /\ read_char \notin Blank \cup {NUL}
  /\ Advance
  /\ IF length > BUFFER_SIZE - 1
     THEN lib_pc' = "ended" /\ UNCHANGED <<buffer, length>>
     ELSE /\ Store(length, read_char) /\ length' = length + 1
          /\ UNCHANGED lib_pc
  /\ UNCHANGED <<text, words, number, printed, r9>>

read_word == skipping_loop \/ WordEnd \/ WordChar

-----------------------------------------------------------------------------
(* Numbers.                                                                *)

(* How many digits s begins with.                                          *)
Digits(s) ==
  CHOOSE n \in 0 .. Len(s) : /\ \A i \in 1 .. n : s[i] \in Digit
                             /\ n < Len(s) => s[n + 1] \notin Digit

(* r9 is left with the last digit.                                         *)
parse_uint(s) ==
  LET rax[n \in 0 .. Len(s)] ==
        IF n = 0 THEN 0 ELSE (rax[n - 1] * 10 + s[n] - 48) % WORD
      rdx == Digits(s)
  IN  [rax |-> rax[rdx], rdx |-> rdx, r9 |-> IF rdx = 0 THEN 0 ELSE s[rdx] - 48]

Neg(n) == (-n) % WORD

(* Slip: the sign is counted, and forgotten.                               *)
parse_int_unsigned(s, reg9) ==
  IF s[1] \in {PLUS, MINUS}
  THEN LET u == parse_uint(Tail(s))
       IN  [rax |-> u.rax, rdx |-> IF u.rdx = 0 THEN 0 ELSE u.rdx + 1,
            r9 |-> IF s[1] = MINUS THEN 1 ELSE reg9]
  ELSE parse_uint(s)

(* reg9 is r9 at the call: only a minus sets it.                           *)
parse_int(s, reg9) ==
  IF s[1] \in {PLUS, MINUS}
  THEN LET u    == parse_uint(Tail(s))
           sign == IF s[1] = MINUS THEN 1 ELSE reg9
       IN  [rax |-> IF sign = 1 THEN Neg(u.rax) ELSE u.rax,
            rdx |-> IF u.rdx = 0 THEN 0 ELSE u.rdx + 1,
            r9  |-> sign]
  ELSE parse_uint(s)

print_uint(n) ==
  LET digits[k \in 0 .. WORD] ==
        IF k < 10 THEN <<48 + k>> ELSE Append(digits[k \div 10], 48 + (k % 10))
  IN  digits[n]

(* Numbers from WORD \div 2 on are the negative ones.                      *)
print_int(n) ==
  IF n < WORD \div 2 THEN print_uint(n) ELSE <<MINUS>> \o print_uint(Neg(n))

-----------------------------------------------------------------------------
(* The client.                                                             *)
Parse ==
  /\ lib_pc = "parse"
  /\ LET p == parse_int(String, r9)
     IN  number' = p.rax /\ r9' = p.r9
  /\ lib_pc' = "parsed"
  /\ UNCHANGED <<text, at, buffer, length, words, printed>>

(* print_uint leaves its divisor in r9.                                    *)
PrintNumber ==
  /\ lib_pc = "parsed"
  /\ printed' = print_int(number) /\ r9' = 10
  /\ lib_pc' = "printed"
  /\ UNCHANGED <<text, at, buffer, length, words, number>>

ReadNext ==
  /\ lib_pc \in {"parsed", "printed"}
  /\ lib_pc' = "skip" /\ length' = 0
  /\ UNCHANGED <<text, at, buffer, words, number, printed, r9>>

(* A buffer in .bss, registers as they are after exec.                     *)
Fresh ==
  /\ text \in Texts /\ at = 0
  /\ buffer = [k \in Memory |-> IF k < BUFFER_SIZE THEN NUL ELSE FOREIGN]
  /\ length = 0 /\ words = 0 /\ number = 0 /\ printed = <<>> /\ r9 = 0

LibraryInit == Fresh /\ lib_pc = "skip"

LibraryNext == read_word \/ Parse \/ PrintNumber \/ ReadNext

-----------------------------------------------------------------------------
(* Properties.                                                             *)

(* The words of the text, in order.                                        *)
Starts == {i \in 1 .. Len(text) : /\ text[i] \notin Blank
                                  /\ i > 1 => text[i - 1] \in Blank}

WordAt(i) ==
  SubSeq(text, i, CHOOSE j \in i .. Len(text) :
                    /\ \A k \in i .. j : text[k] \notin Blank
                    /\ j < Len(text) => text[j + 1] \in Blank)

Words ==
  [n \in 1 .. Cardinality(Starts) |->
     WordAt(CHOOSE i \in Starts : Cardinality({j \in Starts : j < i}) = n - 1)]

(* The n-th word that read_word accepts is the n-th word of the text: it   *)
(* begins at the buffer, ends with a NUL, whatever longer word was there   *)
(* before, and its length is returned (line 135 of lib.inc).  The          *)
(* terminator is written a byte too far (lines 176-178); it is the store   *)
(* of eight bytes for one character that ends the string.  Where the NUL   *)
(* lies is another question: see WordFits.                                 *)
WordReadWhole ==
  lib_pc = "parse" => String = Words[words] /\ length = Len(Words[words])

(* A word is accepted only if it fits into the buffer with its terminator: *)
(* lines 134 and 145 of lib.inc.  The code does not keep this: `jg' (line  *)
(* 166) accepts one character more, and the NUL of a word of the buffer's  *)
(* size lies behind the buffer.                                            *)
WordFits == lib_pc = "parse" => string_length < BUFFER_SIZE

(* Nothing is written behind the buffer, whose size the caller has given:  *)
(* lines 132-134 of lib.inc, 156-158 of lib.asm.  The code does not keep   *)
(* this: a character is stored as eight bytes (167 and 176), and the last  *)
(* seven places of the buffer are too few for them.                        *)
BufferKept == \A k \in Memory : k >= BUFFER_SIZE => buffer[k] = FOREIGN

(* The number that s stands for, as a machine word: a sign, then digits.   *)
Size(s) ==
  LET size[n \in 0 .. Len(s)] == IF n = 0 THEN 0 ELSE size[n - 1] * 10 + s[n] - 48
  IN  size[Digits(s)]

Value(s) == (IF s[1] = MINUS THEN -Size(Tail(s))
             ELSE IF s[1] = PLUS THEN Size(Tail(s)) ELSE Size(s)) % WORD

(* A number is read as it is written, whatever was read or printed before  *)
(* it: lines 217-220 of lib.inc.  The code does not keep this: a plus      *)
(* leaves r9 as it is (line 225), and a 1 in it, from a minus or from a    *)
(* last digit of an earlier number, negates the number.                    *)
NumberAsWritten == lib_pc = "parsed" => number = Value(Words[words])

(* parse_int has met a plus while there was a 1 in r9.                     *)
SignLeft == Words[words][1] = PLUS /\ r9 = 1

(* What the code does keep: every other number is read as it is written.   *)
NumberReadRight ==
  lib_pc = "parsed" /\ ~SignLeft => number = Value(Words[words])

(* What print_int writes is read back as the same number, the smallest one *)
(* (which is its own negative) included: lines 51-91 of lib.inc.           *)
PrintedReadsBack == lib_pc = "printed" => Value(printed) = number

(* Numbers survive the way in, but for a plus that finds 1 in r9, and the  *)
(* way out again.                                                          *)
NumbersRight == NumberReadRight /\ PrintedReadsBack

=============================================================================
