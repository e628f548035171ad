----------------------------- MODULE MCDictionary -----------------------------
(* Texts and entries for the dictionary and the library.                   *)
EXTENDS Dictionary

a == 97
b == 98

(* Texts of up to six characters with two letters for the dictionary, of   *)
(* up to five with signs and two digits for the numbers.                   *)
MCTexts == SeqOf({a, b, NL}, 6) \cup SeqOf({PLUS, MINUS, 49, 56, 32}, 5)

(* One word, shorter and longer than a buffer of nine bytes.               *)
Letters == {[k \in 1 .. n |-> a] : n \in 1 .. 12}

(* Two numbers with or without a sign.                                     *)
Signed == {<<49>>, <<53>>} \cup {<<sign, 53>> : sign \in {PLUS, MINUS}}

Pairs == {m \o <<32>> \o n : m, n \in Signed}

(* Three words, one of them twice, and one too long to be asked for.       *)
MCEntries == << << <<a>>, "1st">>, << <<b, b>>, "2nd">>, << <<a, b>>, "3rd">>,
                << <<a>>, "4th">>, << <<a, b, b>>, "5th">> >>

=============================================================================
