------------------------------ MODULE TeNames ------------------------------
(***************************************************************************)
(* The table of builtin functions of tinyexpr.c and the comparison that    *)
(* find_builtin makes of a name in the text with an entry of the table.    *)
(* Names are sequences of characters; the text goes on after a name, so    *)
(* that its length is what ends it.                                        *)
(***************************************************************************)
EXTENDS Integers, Sequences

\* The characters of names, in the order of their codes.
Alphabet == <<"0", "1", "2", "_", "a", "b", "c", "d", "e", "f", "g", "h", "i", "j",
              "k", "l", "m", "n", "o", "p", "q", "r", "s", "t", "u", "v", "w", "x",
              "y", "z">>

Code == [c \in {Alphabet[i] : i \in DOMAIN Alphabet} |->
           CHOOSE i \in DOMAIN Alphabet : Alphabet[i] = c]

\* functions[], without the entry that ends it.
functions ==
  <<<<"a", "b", "s">>, <<"a", "c", "o", "s">>, <<"a", "s", "i", "n">>,
    <<"a", "t", "a", "n">>, <<"a", "t", "a", "n", "2">>, <<"c", "e", "i", "l">>,
    <<"c", "o", "s">>, <<"c", "o", "s", "h">>, <<"e">>, <<"e", "x", "p">>,
    <<"f", "a", "c">>, <<"f", "l", "o", "o", "r">>, <<"l", "n">>,
    <<"l", "o", "g">>, <<"l", "o", "g", "1", "0">>, <<"n", "c", "r">>,
    <<"n", "p", "r">>, <<"p", "i">>, <<"p", "o", "w">>, <<"s", "i", "n">>,
    <<"s", "i", "n", "h">>, <<"s", "q", "r", "t">>, <<"t", "a", "n">>,
    <<"t", "a", "n", "h">>>>

\* Character k of a C string; its end is 0.
At(s, k) == IF k <= Len(s) THEN Code[s[k]] ELSE 0

\* strncmp(name, entry, len), where len is the length of the name.
Differ(name, entry) == {k \in 1..Len(name) : At(name, k) # At(entry, k)}

strncmp(name, entry) ==
  LET D == Differ(name, entry)
  IN IF D = {} THEN 0
     ELSE LET k == CHOOSE k \in D : \A j \in D : k <= j
          IN At(name, k) - At(entry, k)

\* The value of c: if the first len characters agree, '\0' - entry[len].
Compare(name, entry) ==
  LET c == strncmp(name, entry) IN IF c # 0 THEN c ELSE 0 - At(entry, Len(name) + 1)

=============================================================================
