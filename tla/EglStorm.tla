------------------------------ MODULE EglStorm ------------------------------
(***************************************************************************)
(* egl_storm_detector.cpp: decides when the lines the engine writes to     *)
(* stderr amount to a storm of context-lost errors.  The text comes off a  *)
(* pipe in chunks that end anywhere; OnBytes puts the lines together.      *)
(*                                                                         *)
(* Text is a sequence of symbols: "a" followed by "b" is one of the        *)
(* needles, "o" is anything else, "n" ends a line.                         *)
(***************************************************************************)
EXTENDS Naturals, Sequences

CONSTANTS MinMatches, WindowLength, Cooldown, MaxCarry

ASSUME StormConstants ==
  /\ MinMatches \in Nat \ {0} /\ WindowLength \in Nat
  /\ Cooldown \in Nat /\ MaxCarry \in Nat

\* kMaxCarryBytes is 4096, and "both needles fit in the first 120 bytes of
\* their real lines": a line that is cut has no needle behind the cut.
ASSUME NeedlesFit == MaxCarry >= 2

Symbol == {"a", "b", "o", "n"}

\* age: since window_start_ms_; quiet: until quiet_until_ms_.
Detector ==
  [matches : 0 .. MinMatches, age : 0 .. WindowLength + 1,
   quiet : 0 .. Cooldown, carry : Seq(Symbol)]

NewDetector == [matches |-> 0, age |-> 0, quiet |-> 0, carry |-> <<>>]

\* Time passes; past the window the age no longer matters.
AgeDetector(d) ==
  [d EXCEPT !.age = IF d.matches = 0 \/ @ > WindowLength THEN @ ELSE @ + 1,
            !.quiet = IF @ = 0 THEN 0 ELSE @ - 1]

LineMatches(line) ==
  \E i \in 1 .. Len(line) - 1 : line[i] = "a" /\ line[i + 1] = "b"

\* The detector after a line and whether it declares a storm.
OnLine(d, line) ==
  LET fresh == d.matches = 0 \/ d.age > WindowLength
      matches == IF fresh THEN 1 ELSE d.matches + 1
  IN IF d.quiet > 0 \/ ~LineMatches(line)
       THEN [detector |-> d, fired |-> FALSE]
     ELSE IF matches >= MinMatches
       THEN [detector |-> [d EXCEPT !.matches = 0, !.age = 0,
                                    !.quiet = Cooldown],
             fired |-> TRUE]
     ELSE [detector |-> [d EXCEPT !.matches = matches,
                                  !.age = IF fresh THEN 0 ELSE @],
           fired |-> FALSE]

\* Feeds what is carried and forgets it.
FeedCarry(s) ==
  LET line == OnLine(s.detector, s.detector.carry)
  IN [detector |-> [line.detector EXCEPT !.carry = <<>>],
      fired |-> s.fired \/ line.fired]

TakeSymbol(s, c) ==
  IF c = "n" THEN FeedCarry(s)
  ELSE [s EXCEPT !.detector.carry = Append(@, c)]

\* The detector after the first i symbols of the chunk, for each i.
Feeding(d, data) ==
  LET fed[i \in 0 .. Len(data)] ==
        IF i = 0 THEN [detector |-> d, fired |-> FALSE]
        ELSE TakeSymbol(fed[i - 1], data[i])
  IN fed

\* Every chunk starts a line of its own: nothing is carried over.
OnBytesUncarried(d, data) == FeedCarry(Feeding(d, data)[Len(data)])

OnBytes(d, data) ==
  LET fed == Feeding(d, data)[Len(data)]
  IN IF Len(fed.detector.carry) > MaxCarry THEN FeedCarry(fed) ELSE fed
=============================================================================
