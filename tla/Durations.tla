----------------------------- MODULE Durations -----------------------------
(***************************************************************************)
(* parseDuration of internal/api/handler.go, which prepares the text of a  *)
(* `since` parameter for time.ParseDuration.                               *)
(*                                                                         *)
(* A text is an optional minus sign and a sequence of terms, a number and  *)
(* the word after it; a number is a whole one and a word one of Words.     *)
(* Other words, as compounds of these, Go's units below a millisecond, or  *)
(* any word in "d", which parseDuration takes for days, are left out.      *)
(* Durations are counted in milliseconds and are signed numbers of limited *)
(* width: Limit stands for the 2^63 nanoseconds of Go's type.              *)
(***************************************************************************)
EXTENDS Integers, Sequences, SequencesExt

CONSTANTS
    Limit,
    Invalid     \* the result of a text that is refused

ASSUME DurationsAssumption == Limit \in Nat \ {0} /\ Invalid \notin Int

Second == 1000
Minute == 60 * Second
Hour == 60 * Minute

Words ==
    {"ms", "msec", "s", "sec", "second", "seconds", "m", "min", "mins", "minute", "minutes",
     "h", "hour", "hours", "d", "day", "days", "week"}

SinceText == [negative : BOOLEAN, terms : Seq([number : Nat, letters : Words])]

\* The units of time.ParseDuration among them.
Units == [ms |-> 1, s |-> Second, m |-> Minute, h |-> Hour]

\* The values a time.Duration can hold.
Duration == -Limit..(Limit - 1)

Wrap(n) == ((n + Limit) % (2 * Limit)) - Limit

\* What the four calls of ReplaceAll, in their order, make of a word; the others
\* of Words stay, or become words that are refused just the same.
Replaced(letters) ==
    CASE letters = "min"            -> "m"
      [] letters \in {"mins", "msec"} -> "ms"
      [] letters \in {"hour", "day"}  -> "h"
      [] letters = "sec"            -> "s"
      [] letters = "second"         -> "sond"
      [] OTHER                      -> letters

Signed(text, n) == IF text.negative THEN -n ELSE n

Length(terms) == FoldSeq(LAMBDA t, n : n + t.number * Units[t.letters], 0, terms)

\* time.ParseDuration refuses other units, an empty text and what does not fit.
ParseGoDuration(text) ==
    LET known == \A i \in DOMAIN text.terms : text.terms[i].letters \in DOMAIN Units
        sum   == Length(text.terms)
    IN  IF text.terms = <<>> \/ ~known THEN Invalid
        ELSE IF sum >= Limit THEN Invalid
        ELSE Signed(text, sum)

\* Mutant: texts go to ParseDuration as they are.
ParseUnprepared(text) == ParseGoDuration(text)

EndsInD(letters) == letters \in {"d", "sond"}

\* A text that ends in "d" is its first number in days, whatever stands between;
\* the product of days and hours wraps.
ParseDuration(text) ==
    LET terms == [i \in DOMAIN text.terms |->
                    [text.terms[i] EXCEPT !.letters = Replaced(@)]]
    IN  IF terms # <<>> /\ EndsInD(Last(terms).letters)
        THEN Wrap(Signed(text, terms[1].number * 24 * Hour))
        ELSE ParseGoDuration([text EXCEPT !.terms = terms])

=============================================================================
