------------------------------ MODULE Dictionary ------------------------------
(***************************************************************************)
(* "Dictionary ASM": _start of main.asm reads a line, looks it up in the   *)
(* list that the macro colon builds, and prints the value or a message.    *)
(***************************************************************************)
EXTENDS IOLibrary

CONSTANT
  Entries   \* <<key, value>>, in the order of words.inc

ASSUME DictionaryAssumption ==
  Entries \in Seq(Seq(1 .. 127) \X STRING)

VARIABLES
  entry,    \* the entry that find_word compares next, 0 at the end
  answer    \* <<the stream written to, what is written>>

dictionary == <<library_vars, entry, answer>>

(* colon: each entry points to the one before it, the last is the head.    *)
head == Len(Entries)

-----------------------------------------------------------------------------
(* read_line.                                                              *)

(* Slip: only a newline ends a line.                                       *)
LineEndNewline ==
  /\ lib_pc = "line" /\ read_char = NL
  /\ Advance
  /\ IF length = 0
     THEN lib_pc' = "clear" /\ UNCHANGED <<buffer, words, entry>>
     ELSE /\ buffer' = [buffer EXCEPT ![length + 1] = NUL]
          /\ words' = words + 1
          /\ entry' = head /\ lib_pc' = "find"
  /\ UNCHANGED <<text, length, number, printed, r9, answer>>

(* .success and .err: an empty line takes the next one with it.            *)
LineEnd ==
  /\ lib_pc = "line" /\ read_char \in {NL, NUL}
  /\ Advance
  /\ IF length = 0
     THEN lib_pc' = "clear" /\ UNCHANGED <<buffer, words, entry>>
     ELSE /\ buffer' = [buffer EXCEPT ![length + 1] = NUL]
          /\ words' = words + 1
          /\ entry' = head /\ lib_pc' = "find"
  /\ UNCHANGED <<text, length, number, printed, r9, answer>>

LineChar ==
  /\ lib_pc = "line" /\ read_char \notin {NL, NUL}
  /\ Advance
  /\ Store(length, read_char) /\ length' = length + 1
  /\ lib_pc' = IF length' > BUFFER_SIZE - 1 THEN "clear" ELSE "line"
  /\ UNCHANGED <<text, words, number, printed, r9, entry, answer>>

(* At the end of the input this reads on for ever.                         *)
clear_stdin ==
  /\ lib_pc = "clear"
  /\ Advance
  /\ lib_pc' = IF read_char = NL THEN "overflow" ELSE "clear"
  /\ UNCHANGED <<text, buffer, length, words, number, printed, r9, entry, answer>>

read_line == LineEnd \/ LineChar \/ clear_stdin

-----------------------------------------------------------------------------
(* The rest of _start.                                                     *)

(* Slip: the comparison ends with the key.                                 *)
string_equals_prefix(s, key) == IsPrefix(key, s)

string_equals(s, key) == s = key

find_word ==
  /\ lib_pc = "find" /\ entry # 0
  /\ IF string_equals(String, Entries[entry][1])
     THEN /\ answer' = <<"stdout", Entries[entry][2]>> /\ lib_pc' = "ended"
          /\ UNCHANGED entry
     ELSE entry' = entry - 1 /\ UNCHANGED <<lib_pc, answer>>
  /\ UNCHANGED <<text, at, buffer, length, words, number, printed, r9>>

error ==
  /\ \/ lib_pc = "find" /\ entry = 0 /\ answer' = <<"stderr", "not_found_msg">>
     \/ lib_pc = "overflow" /\ answer' = <<"stderr", "overflow_msg">>
  /\ lib_pc' = "ended"
  /\ UNCHANGED <<text, at, buffer, length, words, number, printed, r9, entry>>

Start == Fresh /\ lib_pc = "line" /\ entry = 0 /\ answer = <<>>

_start == read_line \/ find_word \/ error

(* The dictionary, or the client of the library.                           *)
ProgramInit == Start \/ (LibraryInit /\ entry = 0 /\ answer = <<>>)

ProgramNext == _start \/ (LibraryNext /\ UNCHANGED <<entry, answer>>)

(* There is one process, and the user sends what he sends.                 *)
ProgramSpec == /\ ProgramInit /\ [][ProgramNext]_dictionary
               /\ WF_dictionary(ProgramNext)

-----------------------------------------------------------------------------
(* Properties.                                                             *)

(* The first line of the text.                                             *)
Line == LET ends == {i \in 1 .. Len(text) : text[i] = NL}
        IN  IF ends = {} THEN text
            ELSE SubSeq(text, 1, (CHOOSE i \in ends : \A j \in ends : i <= j) - 1)

(* The answer to a line is the value that the list has for it, of two with *)
(* the same key the later one; a line of the buffer's size less one is     *)
(* still a key, and one that is longer, or empty, is refused: main.asm:38, *)
(* test.py:7-8 and README.md:100-103.                                      *)
AnsweredRight ==
  answer # <<>> =>
    answer = IF Len(Line) \notin 1 .. BUFFER_SIZE - 1 THEN <<"stderr", "overflow_msg">>
             ELSE LET with == {e \in DOMAIN Entries : Entries[e][1] = Line}
                  IN  IF with = {} THEN <<"stderr", "not_found_msg">>
                      ELSE <<"stdout", Entries[CHOOSE e \in with :
                                                 \A d \in with : d <= e][2]>>

(* The program comes to an end, unless the end of the input comes where    *)
(* clear_stdin waits for a newline: behind a line that is too long, or     *)
(* behind an empty one, whose own newline is gone (lib.asm:146-152,        *)
(* 181-194).                                                               *)
Lines == {i \in 1 .. Len(text) : text[i] = NL}

Waits == Len(Line) \notin 1 .. BUFFER_SIZE - 1 /\ Lines \subseteq {1}

EndsUnlessItWaits == <>(lib_pc = "ended" \/ (lib_pc = "clear" /\ Waits))

=============================================================================
