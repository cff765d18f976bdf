------------------------- MODULE RunnerProcessProofs -------------------------
(***************************************************************************)
(* Theorems about RunnerProcess: what its types are, that a log is kept    *)
(* for as many starts as archives, that the storm detector sees lines      *)
(* whatever the chunks, that a crash leaves one record, that drop targets  *)
(* are balanced and that a closed application stays closed.                *)
(*                                                                         *)
(* Each property has an invariant of its own; they share the types.        *)
(***************************************************************************)
EXTENDS RunnerProcess, TLAPS, SequenceTheorems, WellFoundedInduction

\* A thread that has something to say.
Thread ==
  [pc : Pc, line : Line \cup {Record, <<>>}, holds : BOOLEAN]

Storm == [detector : Detector, lines : Detector, line : Seq(Symbol)]

\* What TypeOK needs to be inductive, but for the drop targets.
TypeInv ==
  /\ disk \in [Generation -> 0 .. MaxBoots] /\ boot \in 0 .. MaxBoots
  /\ proc \in Process /\ station \in Station
  /\ threads \in [Threads -> Thread]
  /\ \A t \in Threads :
       threads[t].pc \in {"lock", "logging", "writing"} =>
         threads[t].line \in Line
  /\ pipe \in Seq(Symbol) /\ Len(pipe) <= PipeRoom
  /\ chunk \in Seq(Symbol) /\ Len(chunk) <= ReadMax
  /\ pump \in 0 .. PumpRoom
  /\ storm \in Storm /\ paused \in BOOLEAN

\* The targets while a plugin lives: its own, registered with the window.
Holding(d, t) ==
  /\ d \in DropState
  /\ \A u \in Target : d.refs[u] = IF u = t THEN 2 ELSE 0
  /\ d.registered = t /\ d.plugin = t
  /\ d.use_after_free = FALSE /\ d.leaked = FALSE

Free(d) ==
  /\ d \in DropState
  /\ \A u \in Target : d.refs[u] = 0
  /\ d.registered = NoTarget /\ d.plugin = NoTarget
  /\ d.use_after_free = FALSE /\ d.leaked = FALSE

DropInv ==
  IF Running THEN \E t \in Target : Holding(drop, t) ELSE Free(drop)

\* The stages a record is written in.
InReport == {"stderr", "file", "event", "trace", "dump"}

\* One thread at most is in a report, and what was reported is its.
CrashInv ==
  /\ proc.reported # {} => proc.latch
  /\ \A t \in Threads : threads[t].pc \in InReport =>
       /\ proc.latch
       /\ \A u \in Threads : threads[u].pc \in InReport => u = t
       /\ \A x \in proc.reported : x[1] = t
  /\ OneCrashRecord

\* A process that is off has no thread that says or reports anything.
RestInv ==
  proc.phase = "off" => \A t \in Threads : threads[t].pc = "idle"

\* Whoever is closed has tried to withdraw the request to be started again.
CloseInv ==
  /\ proc.closed => proc.phase = "closing" /\ proc.restart # "granted"
  /\ station.closed => station.restart # "granted"
  /\ station.restart \in RestartRequest

\* The steps a rotation has left when r files are still to move, and one more
\* when the oldest has not been deleted.
Renames(r) == [i \in 1 .. r |-> Rename(r - i)]

Remaining(r) ==
  IF r = station.archives + 1 THEN PlanRotation(station.archives)
  ELSE Renames(r)

\* The runs whose logs are owed to the operator.
Due ==
  {b \in station.logged : b >= station.held /\ boot - b <= station.archives}

\* The log of run b has not come further than the starts after it moved it,
\* when the generations below r are still to move.
Placed(b, r) ==
  \E g \in Generation :
    /\ disk[g] = b /\ g <= boot - b
    /\ g < r => g + 1 <= boot - b

RotationInv ==
  /\ station.logged \subseteq 1 .. boot /\ station.held <= boot
  /\ proc.held # NothingHeld => station.held = boot
  /\ proc.phase = "rotating" => boot # 0 /\ boot \notin station.logged
  /\ \E r \in 0 .. station.archives + 1 :
       /\ IF proc.phase = "rotating" THEN proc.ops = Remaining(r) ELSE r = 0
       /\ proc.phase = "rotating" /\ r <= station.archives
            /\ proc.held = NothingHeld => disk[r] = 0
       /\ \A b \in Due : Placed(b, r)

\* Symbols as they follow one another in what threads write.
Follows ==
  {<<"n", "a">>, <<"n", "o">>, <<"a", "b">>, <<"b", "n">>, <<"o", "o">>,
   <<"o", "n">>}

\* The last symbol of a text, and c if there is none.
LastOf(c, text) == IF text = <<>> THEN c ELSE text[Len(text)]

\* The text reads on from symbol c.
ReadsOn(c, text) ==
  /\ text # <<>> => <<c, text[1]>> \in Follows
  /\ \A i \in 1 .. Len(text) - 1 : <<text[i], text[i + 1]>> \in Follows

\* Lines are written whole: what is read of one, what the reader of the pipe
\* has in hand and what is in the pipe are one text, and it ends a line.
WholeLines ==
  LET read == LastOf("n", storm.line)
      held == LastOf(read, chunk)
  IN /\ ReadsOn(read, chunk) /\ ReadsOn(held, pipe)
     /\ LastOf(held, pipe) = "n"

\* The beginning of a line.
Begun(line) ==
  \/ \A i \in 1 .. Len(line) : line[i] = "o"
  \/ Len(line) = 1 /\ line[1] = "a"
  \/ Len(line) = 2 /\ line[1] = "a" /\ line[2] = "b"

\* The detector carries the line, or it has cut one in which there is nothing
\* to be found any more.
Agrees(detector, lines, line) ==
  /\ detector.matches = lines.matches /\ detector.age = lines.age
  /\ detector.quiet = lines.quiet
  /\ Begun(line)
  /\ Len(line) <= 2 => detector.carry = line
  /\ Len(line) > 2 =>
       \A i \in 1 .. Len(detector.carry) : detector.carry[i] # "b"

StormInv == WholeLines /\ Agrees(storm.detector, storm.lines, storm.line)

-----------------------------------------------------------------------------
(***************************************************************************)
(* The storm detector, symbol by symbol.                                   *)
(***************************************************************************)
\* Induction over the natural numbers, as a fact about sets.
LEMMA AllNaturals ==
  ASSUME NEW S, S \subseteq Nat, 0 \in S, \A n \in S : n + 1 \in S
  PROVE  S = Nat
<1> SUFFICES ASSUME Nat \ S # {} PROVE FALSE
  OBVIOUS
<1> DEFINE R == {ss \in Nat \X Nat : ss[1] < ss[2]}
<1>1. IsWellFoundedOn(R, Nat)
  BY NatLessThanWellFounded DEF OpToRel
<1>2. PICK x \in Nat \ S : \A y \in Nat \ S : ~(<<y, x>> \in R)
  <2> HIDE DEF R
  <2>1. Nat \ S \subseteq Nat
    OBVIOUS
  <2> QED BY <1>1, <2>1, WFMin
<1>3. x # 0 /\ x - 1 \in Nat
  OBVIOUS
<1>4. x - 1 \in S
  <2>1. <<x - 1, x>> \in R
    BY <1>3
  <2> HIDE DEF R
  <2> QED BY <1>2, <1>3, <2>1
<1> QED BY <1>4, <1>3

\* What n steps come to, one after the other, step i being F[i].
Results(n, X, base, F) ==
  {f \in [0 .. n -> X] :
     f[0] = base /\ \A i \in 1 .. n : f[i] = F[i][f[i - 1]]}

\* Whatever the steps, they have results.
LEMMA StepsExist ==
  ASSUME NEW n \in Nat, NEW X, NEW base \in X,
         NEW F \in [1 .. n -> [X -> X]]
  PROVE  \E f : f \in Results(n, X, base, F)
<1> DEFINE Good(m, f) ==
             f[0] = base /\ \A i \in 1 .. m : f[i] = F[i][f[i - 1]]
           S == {m \in Nat : m <= n => \E f \in [0 .. m -> X] : Good(m, f)}
<1>1. 0 \in S
  <2> DEFINE f == [i \in 0 .. 0 |-> base]
  <2>1. f \in [0 .. 0 -> X] /\ Good(0, f)
    OBVIOUS
  <2> HIDE DEF f
  <2> QED BY <2>1
<1>2. \A m \in S : m + 1 \in S
  <2> SUFFICES ASSUME NEW m \in S, m + 1 <= n
               PROVE  \E f \in [0 .. m + 1 -> X] : Good(m + 1, f)
    <3> HIDE DEF Good
    <3> QED OBVIOUS
  <2>1. PICK f \in [0 .. m -> X] : Good(m, f)
    OBVIOUS
  <2> DEFINE g == [i \in 0 .. m + 1 |->
                     IF i = m + 1 THEN F[m + 1][f[m]] ELSE f[i]]
  <2>2. F[m + 1][f[m]] \in X
    OBVIOUS
  <2>3. g \in [0 .. m + 1 -> X]
    BY <2>2
  <2>4. Good(m + 1, g)
    <3>1. g[0] = base
      BY <2>1
    <3>2. ASSUME NEW i \in 1 .. m + 1 PROVE g[i] = F[i][g[i - 1]]
      <4>1. CASE i = m + 1
        <5>1. g[m + 1] = F[m + 1][f[m]] /\ g[m] = f[m]
          OBVIOUS
        <5>2. (m + 1) - 1 = m
          OBVIOUS
        <5> HIDE DEF g
        <5> QED BY <4>1, <5>1, <5>2
      <4>2. CASE i # m + 1
        <5>1. i \in 1 .. m /\ i - 1 \in 0 .. m /\ i - 1 # m + 1
          BY <4>2
        <5>2. g[i] = f[i] /\ g[i - 1] = f[i - 1]
          BY <4>2, <5>1
        <5> QED BY <2>1, <5>1, <5>2
      <4> QED BY <4>1, <4>2
    <3> QED BY <3>1, <3>2
  <2> HIDE DEF g
  <2> QED BY <2>3, <2>4
<1>3. S = Nat
  <2>1. S \subseteq Nat
    OBVIOUS
  <2> HIDE DEF S
  <2> QED BY <1>1, <1>2, <2>1, AllNaturals
<1>4. n \in S /\ n <= n
  BY <1>3
<1>5. PICK f \in [0 .. n -> X] : Good(n, f)
  <2> HIDE DEF Good
  <2> QED BY <1>4
<1> QED BY <1>5 DEF Results

Fed == [detector : Detector, fired : BOOLEAN]

\* What a line does to the detector, and what it declares.
LEMMA OnLineType ==
  ASSUME NEW d \in Detector, NEW line
  PROVE  OnLine(d, line) \in Fed
<1> DEFINE fresh == d.matches = 0 \/ d.age > WindowLength
           m == IF fresh THEN 1 ELSE d.matches + 1
<1>1. /\ d.matches \in 0 .. MinMatches /\ d.age \in 0 .. WindowLength + 1
      /\ d.quiet \in 0 .. Cooldown
      /\ MinMatches \in Nat \ {0} /\ WindowLength \in Nat /\ Cooldown \in Nat
  BY StormConstants DEF Detector
<1>2. ASSUME NEW k \in 0 .. MinMatches, NEW e \in 0 .. WindowLength + 1
      PROVE  [d EXCEPT !.matches = k, !.age = e] \in Detector
  BY DEF Detector
<1>7. ASSUME NEW k \in 0 .. MinMatches, NEW e \in 0 .. WindowLength + 1,
             NEW q \in 0 .. Cooldown
      PROVE  [d EXCEPT !.matches = k, !.age = e, !.quiet = q] \in Detector
  BY DEF Detector
<1>3. 0 \in 0 .. MinMatches /\ 0 \in 0 .. WindowLength + 1
      /\ Cooldown \in 0 .. Cooldown
  BY <1>1
<1>4. CASE d.quiet > 0 \/ ~LineMatches(line)
  BY <1>4 DEF OnLine, Fed
<1>5. CASE ~(d.quiet > 0 \/ ~LineMatches(line)) /\ m >= MinMatches
  <2>1. OnLine(d, line) =
          [detector |-> [d EXCEPT !.matches = 0, !.age = 0, !.quiet = Cooldown],
           fired |-> TRUE]
    BY <1>5 DEF OnLine
  <2>2. [d EXCEPT !.matches = 0, !.age = 0, !.quiet = Cooldown] \in Detector
    BY <1>3, <1>7
  <2> QED BY <2>1, <2>2 DEF Fed
<1>6. CASE ~(d.quiet > 0 \/ ~LineMatches(line)) /\ ~(m >= MinMatches)
  <2> DEFINE e == IF fresh THEN 0 ELSE d.age
  <2>1. m \in 0 .. MinMatches /\ e \in 0 .. WindowLength + 1
    BY <1>1, <1>3, <1>6
  <2>2. OnLine(d, line) =
          [detector |-> [d EXCEPT !.matches = m, !.age = e], fired |-> FALSE]
    BY <1>6 DEF OnLine
  <2> HIDE DEF m, e
  <2>3. [d EXCEPT !.matches = m, !.age = e] \in Detector
    BY <1>2, <2>1
  <2> QED BY <2>2, <2>3 DEF Fed
<1> QED BY <1>4, <1>5, <1>6

\* What feeding the carried line leaves.
LEMMA FeedCarryType ==
  ASSUME NEW s \in Fed
  PROVE  FeedCarry(s) \in Fed
<1> DEFINE l == OnLine(s.detector, s.detector.carry)
<1>1. s.detector \in Detector /\ l \in Fed
  BY OnLineType DEF Fed
<1> HIDE DEF l
<1>2. FeedCarry(s) = [detector |-> [l.detector EXCEPT !.carry = <<>>],
                      fired |-> s.fired \/ l.fired]
  BY DEF FeedCarry, l
<1>3. <<>> \in Seq(Symbol)
  OBVIOUS
<1>4. [l.detector EXCEPT !.carry = <<>>] \in Detector
  BY <1>1, <1>3 DEF Fed, Detector
<1> QED BY <1>1, <1>2, <1>4 DEF Fed

\* What a symbol leaves.
LEMMA TakeSymbolType ==
  ASSUME NEW s \in Fed, NEW c \in Symbol
  PROVE  TakeSymbol(s, c) \in Fed
<1>1. s.detector.carry \in Seq(Symbol)
  BY DEF Fed, Detector
<1>2. Append(s.detector.carry, c) \in Seq(Symbol)
  BY <1>1
<1>3. [s EXCEPT !.detector.carry = Append(@, c)] \in Fed
  BY <1>2 DEF Fed, Detector
<1> QED BY <1>3, FeedCarryType DEF TakeSymbol

\* Feeding is the chunk symbol by symbol.
LEMMA FeedingSteps ==
  ASSUME NEW d \in Detector, NEW data \in Seq(Symbol)
  PROVE  LET f == Feeding(d, data)
         IN /\ \A i \in 0 .. Len(data) : f[i] \in Fed
            /\ f[0] = [detector |-> d, fired |-> FALSE]
            /\ \A i \in 1 .. Len(data) : f[i] = TakeSymbol(f[i - 1], data[i])
<1> DEFINE n == Len(data)
           base == [detector |-> d, fired |-> FALSE]
           body(f) == [i \in 0 .. n |-> IF i = 0 THEN base
                                        ELSE TakeSymbol(f[i - 1], data[i])]
           F == [i \in 1 .. n |-> [s \in Fed |-> TakeSymbol(s, data[i])]]
           f == Feeding(d, data)
<1>1. n \in Nat /\ base \in Fed /\ \A i \in 1 .. n : data[i] \in Symbol
  BY DEF Fed
<1>2. F \in [1 .. n -> [Fed -> Fed]]
  BY <1>1, TakeSymbolType
<1>3. PICK g : g \in Results(n, Fed, base, F)
  <2> HIDE DEF F, n, base
  <2> QED BY <1>1, <1>2, StepsExist
<1>4. g \in [0 .. n -> Fed] /\ g[0] = base
      /\ \A i \in 1 .. n : g[i] = TakeSymbol(g[i - 1], data[i])
  <2>1. g \in [0 .. n -> Fed] /\ g[0] = base
        /\ \A i \in 1 .. n : g[i] = F[i][g[i - 1]]
    <3> HIDE DEF F, n, base
    <3> QED BY <1>3 DEF Results
  <2>2. ASSUME NEW i \in 1 .. n PROVE g[i] = TakeSymbol(g[i - 1], data[i])
    <3>1. g[i - 1] \in Fed
      <4>1. i - 1 \in 0 .. n
        BY <1>1
      <4> HIDE DEF F, n, base
      <4> QED BY <2>1, <4>1
    <3>2. F[i][g[i - 1]] = TakeSymbol(g[i - 1], data[i])
      BY <3>1
    <3> HIDE DEF F, n, base
    <3> QED BY <2>1, <3>2
  <2> HIDE DEF F, n, base
  <2> QED BY <2>1, <2>2
<1>5. g = body(g)
  <2> HIDE DEF base, F
  <2>1. \A i \in 0 .. n : g[i] = body(g)[i]
    BY <1>1, <1>4
  <2> QED BY <1>4, <2>1
<1>6. f = CHOOSE h : h = body(h)
  BY DEF Feeding
<1>7. f = body(f)
  <2> HIDE DEF body, f
  <2> QED BY <1>5, <1>6
<1> DEFINE S == {i \in Nat : i <= n => f[i] = g[i]}
<1>8. S = Nat
  <2> HIDE DEF f, n, base
  <2>1. 0 \in S
    BY <1>1, <1>4, <1>7
  <2>2. ASSUME NEW i \in S PROVE i + 1 \in S
    <3> SUFFICES ASSUME i + 1 <= n PROVE f[i + 1] = g[i + 1]
      OBVIOUS
    <3>1. i + 1 \in 1 .. n /\ (i + 1) - 1 = i /\ f[i] = g[i] /\ i + 1 # 0
      BY <1>1
    <3>2. f[i + 1] = TakeSymbol(f[i], data[i + 1])
      BY <1>1, <1>7, <3>1
    <3> QED BY <1>4, <3>1, <3>2
  <2>3. S \subseteq Nat
    OBVIOUS
  <2> HIDE DEF S
  <2> QED BY <2>1, <2>2, <2>3, AllNaturals
<1>9. \A i \in 0 .. n : f[i] = g[i]
  <2> HIDE DEF f, n
  <2> QED BY <1>1, <1>8
<1>10. \A i \in 1 .. n : i - 1 \in 0 .. n /\ i \in 0 .. n
  BY <1>1
<1>11. 0 \in 0 .. n
  BY <1>1
<1>12. /\ \A i \in 0 .. n : f[i] \in Fed
       /\ f[0] = base
       /\ \A i \in 1 .. n : f[i] = TakeSymbol(f[i - 1], data[i])
  <2> HIDE DEF f, n, base
  <2> QED BY <1>4, <1>9, <1>10, <1>11
<1> QED BY <1>12, Zenon

\* What a symbol leaves of the reader of lines.
LEMMA ReadsLinesType ==
  ASSUME NEW s \in Storm, NEW c \in Symbol
  PROVE  ReadsLines(s, c) \in Storm
<1> DEFINE l == OnLine(s.lines, s.line).detector
<1>1. s.lines \in Detector /\ s.line \in Seq(Symbol)
  BY DEF Storm
<1>2. l \in Detector
  BY <1>1, OnLineType DEF Fed
<1> HIDE DEF l
<1>3. <<>> \in Seq(Symbol) /\ Append(s.line, c) \in Seq(Symbol)
  BY <1>1
<1>4. [s EXCEPT !.lines = l, !.line = <<>>] \in Storm
  BY <1>2, <1>3 DEF Storm
<1>5. [s EXCEPT !.line = Append(@, c)] \in Storm
  BY <1>3 DEF Storm
<1> QED BY <1>4, <1>5 DEF ReadsLines, l

\* And so is what the reader of lines makes of it.
LEMMA ReadingSteps ==
  ASSUME NEW s \in Storm, NEW data \in Seq(Symbol)
  PROVE  LET f == Reading(s, data)
         IN /\ \A i \in 0 .. Len(data) : f[i] \in Storm
            /\ f[0] = s
            /\ \A i \in 1 .. Len(data) : f[i] = ReadsLines(f[i - 1], data[i])
<1> DEFINE n == Len(data)
           base == s
           body(f) == [i \in 0 .. n |-> IF i = 0 THEN base
                                        ELSE ReadsLines(f[i - 1], data[i])]
           F == [i \in 1 .. n |-> [x \in Storm |-> ReadsLines(x, data[i])]]
           f == Reading(s, data)
<1>1. n \in Nat /\ base \in Storm /\ \A i \in 1 .. n : data[i] \in Symbol
  OBVIOUS
<1>2. F \in [1 .. n -> [Storm -> Storm]]
  BY <1>1, ReadsLinesType
<1>3. PICK g : g \in Results(n, Storm, base, F)
  <2> HIDE DEF F, n, base
  <2> QED BY <1>1, <1>2, StepsExist
<1>4. g \in [0 .. n -> Storm] /\ g[0] = base
      /\ \A i \in 1 .. n : g[i] = ReadsLines(g[i - 1], data[i])
  <2>1. g \in [0 .. n -> Storm] /\ g[0] = base
        /\ \A i \in 1 .. n : g[i] = F[i][g[i - 1]]
    <3> HIDE DEF F, n, base
    <3> QED BY <1>3 DEF Results
  <2>2. ASSUME NEW i \in 1 .. n PROVE g[i] = ReadsLines(g[i - 1], data[i])
    <3>1. g[i - 1] \in Storm
      <4>1. i - 1 \in 0 .. n
        BY <1>1
      <4> HIDE DEF F, n, base
      <4> QED BY <2>1, <4>1
    <3>2. F[i][g[i - 1]] = ReadsLines(g[i - 1], data[i])
      BY <3>1
    <3> HIDE DEF F, n, base
    <3> QED BY <2>1, <3>2
  <2> HIDE DEF F, n, base
  <2> QED BY <2>1, <2>2
<1>5. g = body(g)
  <2> HIDE DEF base, F
  <2>1. \A i \in 0 .. n : g[i] = body(g)[i]
    BY <1>1, <1>4
  <2> QED BY <1>4, <2>1
<1>6. f = CHOOSE h : h = body(h)
  BY DEF Reading
<1>7. f = body(f)
  <2> HIDE DEF body, f
  <2> QED BY <1>5, <1>6
<1> DEFINE S == {i \in Nat : i <= n => f[i] = g[i]}
<1>8. S = Nat
  <2> HIDE DEF f, n, base
  <2>1. 0 \in S
    BY <1>1, <1>4, <1>7
  <2>2. ASSUME NEW i \in S PROVE i + 1 \in S
    <3> SUFFICES ASSUME i + 1 <= n PROVE f[i + 1] = g[i + 1]
      OBVIOUS
    <3>1. i + 1 \in 1 .. n /\ (i + 1) - 1 = i /\ f[i] = g[i] /\ i + 1 # 0
      BY <1>1
    <3>2. f[i + 1] = ReadsLines(f[i], data[i + 1])
      BY <1>1, <1>7, <3>1
    <3> QED BY <1>4, <3>1, <3>2
  <2>3. S \subseteq Nat
    OBVIOUS
  <2> HIDE DEF S
  <2> QED BY <2>1, <2>2, <2>3, AllNaturals
<1>9. \A i \in 0 .. n : f[i] = g[i]
  <2> HIDE DEF f, n
  <2> QED BY <1>1, <1>8
<1>10. \A i \in 1 .. n : i - 1 \in 0 .. n /\ i \in 0 .. n
  BY <1>1
<1>11. 0 \in 0 .. n
  BY <1>1
<1>12. /\ \A i \in 0 .. n : f[i] \in Storm
       /\ f[0] = base
       /\ \A i \in 1 .. n : f[i] = ReadsLines(f[i - 1], data[i])
  <2> HIDE DEF f, n, base
  <2> QED BY <1>4, <1>9, <1>10, <1>11
<1> QED BY <1>12, Zenon

SameCounters(d, e) ==
  d.matches = e.matches /\ d.age = e.age /\ d.quiet = e.quiet

\* A line counts the same for detectors that count the same.
LEMMA OnLineAgrees ==
  ASSUME NEW d \in Detector, NEW e \in Detector, SameCounters(d, e),
         NEW x, NEW y, LineMatches(x) <=> LineMatches(y)
  PROVE  SameCounters(OnLine(d, x).detector, OnLine(e, y).detector)
<1> DEFINE Fresh(k) == k.matches = 0 \/ k.age > WindowLength
           M(k) == IF Fresh(k) THEN 1 ELSE k.matches + 1
           E(k) == IF Fresh(k) THEN 0 ELSE k.age
           After(k, z) ==
             IF k.quiet > 0 \/ ~LineMatches(z) THEN k
             ELSE IF M(k) >= MinMatches
               THEN [k EXCEPT !.matches = 0, !.age = 0, !.quiet = Cooldown]
             ELSE [k EXCEPT !.matches = M(k), !.age = E(k)]
<1>1. OnLine(d, x).detector = After(d, x) /\ OnLine(e, y).detector = After(e, y)
  BY DEF OnLine
<1>2. M(d) = M(e) /\ E(d) = E(e) /\ d.quiet = e.quiet
  BY DEF SameCounters
<1>3. ASSUME NEW k \in Detector, NEW m, NEW a, NEW q
      PROVE  /\ [k EXCEPT !.matches = m, !.age = a].matches = m
             /\ [k EXCEPT !.matches = m, !.age = a].age = a
             /\ [k EXCEPT !.matches = m, !.age = a].quiet = k.quiet
             /\ [k EXCEPT !.matches = m, !.age = a, !.quiet = q].matches = m
             /\ [k EXCEPT !.matches = m, !.age = a, !.quiet = q].age = a
             /\ [k EXCEPT !.matches = m, !.age = a, !.quiet = q].quiet = q
  BY DEF Detector
<1>4. SameCounters(After(d, x), After(e, y))
  <2> HIDE DEF M, E
  <2> QED BY <1>2, <1>3 DEF SameCounters
<1> QED BY <1>1, <1>4

\* What is carried is no counter.
LEMMA CarryAside ==
  ASSUME NEW d \in Detector, NEW carry
  PROVE  /\ SameCounters([d EXCEPT !.carry = carry], d)
         /\ [d EXCEPT !.carry = carry].carry = carry
  BY DEF SameCounters, Detector

\* A line without the second symbol of the needle does not match.
LEMMA NoNeedle ==
  ASSUME NEW line \in Seq(Symbol),
         \A i \in 1 .. Len(line) : line[i] # "b"
  PROVE  ~LineMatches(line)
<1>1. \A i \in 1 .. Len(line) - 1 : i + 1 \in 1 .. Len(line)
  OBVIOUS
<1> QED BY <1>1 DEF LineMatches

\* The line that is carried matches when the line does.
LEMMA CarryMatches ==
  ASSUME NEW d \in Detector, NEW e, NEW line \in Seq(Symbol),
         Agrees(d, e, line)
  PROVE  LineMatches(d.carry) <=> LineMatches(line)
<1>1. d.carry \in Seq(Symbol)
  BY DEF Detector
<1>2. CASE Len(line) <= 2
  BY <1>2 DEF Agrees
<1>3. CASE ~(Len(line) <= 2)
  <2> DEFINE k == Len(line)
  <2>1. k \in Nat /\ ~(k <= 2)
    BY <1>3
  <2>2. k > 2 /\ k # 1 /\ k # 2
    <3> HIDE DEF k
    <3> QED BY <2>1
  <2>3. \A i \in 1 .. Len(d.carry) : d.carry[i] # "b"
    BY <2>2 DEF Agrees
  <2>4. \A i \in 1 .. Len(line) : line[i] # "b"
    <3>1. \A i \in 1 .. Len(line) : line[i] = "o"
      BY <2>2 DEF Agrees, Begun
    <3> QED BY <3>1
  <2>5. ~LineMatches(d.carry) /\ ~LineMatches(line)
    BY <1>1, <2>3, <2>4, NoNeedle
  <2> QED BY <2>5
<1> QED BY <1>2, <1>3

\* The beginning of a line goes on as one.
LEMMA LineGoesOn ==
  ASSUME NEW line \in Seq(Symbol), Begun(line), NEW c \in Symbol, c # "n",
         <<LastOf("n", line), c>> \in Follows
  PROVE  /\ Begun(Append(line, c))
         /\ Len(line) >= 2 =>
              c = "o" /\ \A i \in 1 .. Len(line) : line[i] = "o"
<1> DEFINE k == Len(line)
           next == Append(line, c)
           last == LastOf("n", line)
<1>1. /\ k \in Nat /\ Len(next) = k + 1 /\ next[k + 1] = c
      /\ \A i \in 1 .. k : next[i] = line[i]
  OBVIOUS
<1>2. last = IF k = 0 THEN "n" ELSE line[k]
  BY DEF LastOf
<1>3. \A i \in 1 .. k + 1 : i # k + 1 => i \in 1 .. k
  BY <1>1
<1> HIDE DEF next, k, last
<1>4. CASE k = 0
  <2>1. c \in {"a", "o"}
    BY <1>2, <1>4 DEF Follows, last
  <2> QED BY <1>1, <1>4, <2>1 DEF Begun, k, next
<1>5. CASE k # 0 /\ \A i \in 1 .. k : line[i] = "o"
  <2>1. k \in 1 .. k
    BY <1>1, <1>5
  <2>2. c = "o"
    BY <1>2, <1>5, <2>1 DEF Follows, last
  <2>3. \A i \in 1 .. k + 1 : next[i] = "o"
    BY <1>1, <1>3, <1>5, <2>2
  <2> QED BY <1>1, <1>5, <2>2, <2>3 DEF Begun, k, next
<1>6. CASE k = 1 /\ line[1] = "a"
  <2>1. c = "b"
    BY <1>2, <1>6 DEF Follows, last
  <2>2. 1 \in 1 .. k
    BY <1>6
  <2>3. Len(next) = 2 /\ next[1] = "a" /\ next[2] = "b"
    BY <1>1, <1>6, <2>1, <2>2
  <2> QED BY <1>6, <2>3 DEF Begun, k, next
<1>7. CASE k = 2 /\ line[1] = "a" /\ line[2] = "b"
  <2>1. FALSE
    BY <1>2, <1>7 DEF Follows, last
  <2> QED BY <2>1
<1>8. \/ k # 0 /\ \A i \in 1 .. k : line[i] = "o"
      \/ k = 1 /\ line[1] = "a"
      \/ k = 0
      \/ k = 2 /\ line[1] = "a" /\ line[2] = "b"
  BY DEF Begun, k
<1> QED BY <1>4, <1>5, <1>6, <1>7, <1>8

\* A symbol of a text of whole lines leaves the detector agreeing.
LEMMA SymbolTaken ==
  ASSUME NEW f \in Fed, NEW s \in Storm, NEW c \in Symbol,
         Agrees(f.detector, s.lines, s.line),
         <<LastOf("n", s.line), c>> \in Follows
  PROVE  /\ Agrees(TakeSymbol(f, c).detector, ReadsLines(s, c).lines,
                   ReadsLines(s, c).line)
         /\ LastOf("n", ReadsLines(s, c).line) = c
<1> DEFINE d == f.detector
<1>1. /\ d \in Detector /\ s.lines \in Detector /\ s.line \in Seq(Symbol)
      /\ d.carry \in Seq(Symbol) /\ SameCounters(d, s.lines)
  BY DEF Fed, Storm, Detector, Agrees, SameCounters
<1>3. CASE c = "n"
  <2> DEFINE x == OnLine(d, d.carry).detector
             y == OnLine(s.lines, s.line).detector
             cut == [x EXCEPT !.carry = <<>>]
  <2>1. x \in Detector /\ y \in Detector
    BY <1>1, OnLineType DEF Fed
  <2>2. SameCounters(x, y)
    <3>1. LineMatches(d.carry) <=> LineMatches(s.line)
      BY <1>1, CarryMatches
    <3> QED BY <1>1, <3>1, OnLineAgrees
  <2>3. TakeSymbol(f, c).detector = cut
    BY <1>3 DEF TakeSymbol, FeedCarry
  <2>4. ReadsLines(s, c).lines = y /\ ReadsLines(s, c).line = <<>>
    BY <1>3 DEF ReadsLines, Storm
  <2> HIDE DEF x, y
  <2>5. SameCounters(cut, x) /\ cut.carry = <<>>
    BY <2>1, CarryAside
  <2> HIDE DEF cut
  <2>6. Agrees(cut, y, <<>>)
    BY <2>2, <2>5 DEF Agrees, SameCounters, Begun
  <2> QED BY <1>3, <2>3, <2>4, <2>6 DEF LastOf
<1>4. CASE c # "n"
  <2> DEFINE carry == Append(d.carry, c)
             line == Append(s.line, c)
             k == Len(s.line)
             e == TakeSymbol(f, c).detector
  <2>1. e = [d EXCEPT !.carry = carry]
    BY <1>4 DEF TakeSymbol, Fed
  <2>2. SameCounters(e, d) /\ e.carry = carry
    <3> HIDE DEF e, carry, d
    <3> QED BY <1>1, <2>1, CarryAside
  <2>3. ReadsLines(s, c).lines = s.lines /\ ReadsLines(s, c).line = line
    BY <1>4 DEF ReadsLines, Storm
  <2>4. /\ k \in Nat /\ Len(line) = k + 1 /\ line[k + 1] = c /\ line # <<>>
        /\ Len(carry) = Len(d.carry) + 1 /\ Len(d.carry) \in Nat
        /\ \A i \in 1 .. Len(d.carry) : carry[i] = d.carry[i]
        /\ carry[Len(d.carry) + 1] = c
    <3>1. d.carry \in Seq(Symbol) /\ s.line \in Seq(Symbol)
      BY <1>1
    <3> HIDE DEF d
    <3> QED BY <3>1
  <2>5. /\ Begun(line)
        /\ k >= 2 => c = "o" /\ \A i \in 1 .. k : s.line[i] = "o"
    BY <1>1, <1>4, LineGoesOn DEF Agrees
  <2>6. Len(line) <= 2 => carry = line
    <3>1. Len(line) <= 2 => k <= 2
      <4> HIDE DEF k, line
      <4> QED BY <2>4
    <3> QED BY <3>1 DEF Agrees
  <2>7. ASSUME Len(line) > 2
        PROVE  \A i \in 1 .. Len(carry) : carry[i] # "b"
    <3>1. k >= 2
      <4> HIDE DEF k, line
      <4> QED BY <2>4, <2>7
    <3>2. \A i \in 1 .. Len(d.carry) : d.carry[i] # "b"
      <4>1. CASE k = 2
        <5>1. d.carry = s.line
          BY <4>1 DEF Agrees
        <5> QED BY <2>5, <3>1, <5>1
      <4>2. CASE k > 2
        BY <4>2 DEF Agrees
      <4>3. k = 2 \/ k > 2
        <5> HIDE DEF k
        <5> QED BY <2>4, <3>1
      <4> QED BY <4>1, <4>2, <4>3
    <3> SUFFICES ASSUME NEW i \in 1 .. Len(carry) PROVE carry[i] # "b"
      OBVIOUS
    <3>3. i \in 1 .. Len(d.carry) \/ i = Len(d.carry) + 1
      <4> HIDE DEF carry
      <4> QED BY <2>4
    <3> HIDE DEF carry, k, line
    <3> QED BY <2>4, <2>5, <3>1, <3>2, <3>3
  <2>8. LastOf("n", line) = c
    <3> HIDE DEF line, k
    <3> QED BY <2>4 DEF LastOf
  <2>9. Agrees(e, s.lines, line)
    <3> HIDE DEF e, d, carry, line
    <3> QED BY <1>1, <2>2, <2>5, <2>6, <2>7 DEF Agrees, SameCounters
  <2> QED BY <2>3, <2>8, <2>9
<1> QED BY <1>3, <1>4

\* A chunk that reads on from what went before leaves the detector where the
\* reader of lines is, and the line where the chunk ends.
LEMMA ChunkTaken ==
  ASSUME NEW s \in Storm, NEW data \in Seq(Symbol),
         Agrees(s.detector, s.lines, s.line),
         ReadsOn(LastOf("n", s.line), data)
  PROVE  LET fed == Feeding(s.detector, data)[Len(data)]
             read == Reading(s, data)[Len(data)]
         IN /\ fed \in Fed /\ read \in Storm
            /\ Agrees(fed.detector, read.lines, read.line)
            /\ LastOf("n", read.line) = LastOf(LastOf("n", s.line), data)
<1> DEFINE n == Len(data)
           d == s.detector
           f == Feeding(d, data)
           r == Reading(s, data)
           before == LastOf("n", s.line)
           At(i) == IF i = 0 THEN before ELSE data[i]
           Good(i) == /\ Agrees(f[i].detector, r[i].lines, r[i].line)
                      /\ LastOf("n", r[i].line) = At(i)
           S == {i \in Nat : i <= n => Good(i)}
<1>1. n \in Nat /\ d \in Detector /\ \A i \in 1 .. n : data[i] \in Symbol
  BY DEF Storm
<1>2. /\ \A i \in 0 .. n : f[i] \in Fed /\ r[i] \in Storm
      /\ f[0] = [detector |-> d, fired |-> FALSE] /\ r[0] = s
      /\ \A i \in 1 .. n : /\ f[i] = TakeSymbol(f[i - 1], data[i])
                           /\ r[i] = ReadsLines(r[i - 1], data[i])
  BY <1>1, FeedingSteps, ReadingSteps
<1>3. \A i \in 1 .. n : <<At(i - 1), data[i]>> \in Follows
  <2> SUFFICES ASSUME NEW i \in 1 .. n
               PROVE  <<At(i - 1), data[i]>> \in Follows
    OBVIOUS
  <2>1. CASE i = 1
    <3>1. data # <<>>
      OBVIOUS
    <3> QED BY <2>1, <3>1 DEF ReadsOn
  <2>2. CASE i # 1
    <3> DEFINE j == i - 1
    <3>1. j \in 1 .. Len(data) - 1 /\ i = j + 1 /\ j # 0
      BY <1>1, <2>2
    <3>2. <<data[j], data[j + 1]>> \in Follows
      BY <3>1 DEF ReadsOn
    <3> QED BY <3>1, <3>2
  <2> QED BY <2>1, <2>2
<1>4. S = Nat
  <2> HIDE DEF n, d, f, r, before
  <2>1. 0 \in S
    BY <1>1, <1>2 DEF d, before
  <2>2. ASSUME NEW i \in S, i + 1 <= n PROVE Good(i + 1)
    <3>1. /\ i + 1 \in 1 .. n /\ i \in 0 .. n /\ i + 1 # 0
          /\ (i + 1) - 1 = i
      BY <1>1, <2>2
    <3>2. Good(i)
      BY <2>2, <3>1
    <3>3. <<At(i), data[i + 1]>> \in Follows
      BY <1>3, <3>1
    <3> DEFINE c == data[i + 1]
    <3>4. c \in Symbol /\ f[i] \in Fed /\ r[i] \in Storm
      BY <1>1, <1>2, <3>1
    <3>5. f[i + 1] = TakeSymbol(f[i], c) /\ r[i + 1] = ReadsLines(r[i], c)
      BY <1>2, <3>1
    <3>6. At(i + 1) = c
      BY <3>1
    <3> HIDE DEF c, At
    <3> QED BY <3>2, <3>3, <3>4, <3>5, <3>6, SymbolTaken DEF c
  <2>3. S \subseteq Nat /\ \A i \in S : i + 1 \in S
    BY <2>2
  <2> HIDE DEF S
  <2> QED BY <2>1, <2>3, AllNaturals
<1>5. Good(n)
  <2> HIDE DEF n, Good
  <2> QED BY <1>1, <1>4
<1>6. At(n) = LastOf(before, data)
  <2>1. n = 0 <=> data = <<>>
    BY DEF n
  <2> HIDE DEF before
  <2> QED BY <2>1 DEF LastOf
<1>7. n \in 0 .. n
  BY <1>1
<1> HIDE DEF f, r, d, before
<1> QED BY <1>2, <1>5, <1>6, <1>7 DEF f, r, d, before

\* Cutting a line that is carried too far loses nothing.
LEMMA ChunkSeen ==
  ASSUME NEW d \in Detector, NEW data \in Seq(Symbol), NEW e \in Detector,
         NEW l \in Seq(Symbol), Feeding(d, data)[Len(data)] \in Fed,
         Agrees(Feeding(d, data)[Len(data)].detector, e, l)
  PROVE  /\ OnBytes(d, data).detector \in Detector
         /\ Agrees(OnBytes(d, data).detector, e, l)
<1> DEFINE fed == Feeding(d, data)[Len(data)]
           f == fed.detector
<1>1. f \in Detector /\ f.carry \in Seq(Symbol) /\ FeedCarry(fed) \in Fed
  BY FeedCarryType DEF Fed, Detector
<1>2. CASE ~(Len(f.carry) > MaxCarry)
  BY <1>1, <1>2 DEF OnBytes
<1>3. CASE Len(f.carry) > MaxCarry
  <2> DEFINE k == OnLine(f, f.carry).detector
             cut == [k EXCEPT !.carry = <<>>]
  <2>1. Len(l) > 2
    <3>1. Len(l) \in Nat /\ Len(f.carry) \in Nat
      BY <1>1
    <3>2. Len(l) <= 2 => f.carry = l
      BY DEF Agrees
    <3> QED BY <1>3, <3>1, <3>2, NeedlesFit, StormConstants
  <2>2. LineMatches(f.carry) = FALSE
    BY <1>1, <2>1, NoNeedle DEF Agrees
  <2>3. k = f
    BY <2>2 DEF OnLine
  <2>4. OnBytes(d, data).detector = cut
    BY <1>3 DEF OnBytes, FeedCarry
  <2>5. SameCounters(cut, f) /\ cut.carry = <<>>
    BY <1>1, <2>3, CarryAside
  <2>6. OnBytes(d, data).detector \in Detector
    BY <1>1, <1>3 DEF OnBytes, Fed
  <2>7. Len(<<>>) = 0 /\ ~(Len(l) <= 2)
    BY <2>1
  <2>8. Agrees(cut, e, l)
    <3> HIDE DEF cut
    <3> QED BY <2>5, <2>7 DEF Agrees, SameCounters
  <2> QED BY <2>4, <2>6, <2>8
<1> QED BY <1>2, <1>3

-----------------------------------------------------------------------------
(***************************************************************************)
(* The types.                                                              *)
(***************************************************************************)
\* The renames of a rotation are file operations.
LEMMA RenamesType ==
  ASSUME NEW r \in 0 .. MaxArchives
  PROVE  Renames(r) \in Seq(FileOp) /\ Len(Renames(r)) = r
<1>1. ASSUME NEW i \in 1 .. r PROVE Rename(r - i) \in FileOp
  <2>1. r - i \in Generation /\ r - i + 1 \in Generation
    BY ArchivesAssumption DEF Generation
  <2> QED BY <2>1 DEF Rename, FileOp
<1>2. r \in Nat
  BY ArchivesAssumption
<1> DEFINE s == [i \in 1 .. r |-> Rename(r - i)]
<1>3. s \in [1 .. r -> FileOp]
  BY <1>1
<1> HIDE DEF s
<1>4. s \in Seq(FileOp) /\ Len(s) = r
  BY <1>2, <1>3, SeqDef, LenProperties
<1> QED BY <1>4 DEF s, Renames

\* Deleting is a file operation.
LEMMA DeleteType ==
  ASSUME NEW g \in Generation
  PROVE  Delete(g) \in FileOp /\ <<Delete(g)>> \in Seq(FileOp)
<1>1. Delete(g) \in FileOp
  BY DEF Delete, FileOp
<1> QED BY <1>1

\* A plan is a sequence of file operations.
LEMMA PlanType ==
  ASSUME NEW a \in 0 .. MaxArchives
  PROVE  PlanRotation(a) \in Seq(FileOp)
<1> DEFINE s == [i \in 1 .. a |-> Rename(a - i)]
<1>1. s \in Seq(FileOp)
  BY RenamesType DEF Renames
<1>2. <<Delete(0)>> \in Seq(FileOp) /\ <<Delete(a)>> \in Seq(FileOp)
  BY DeleteType, ArchivesAssumption DEF Generation
<1>3. <<Delete(a)>> \o s \in Seq(FileOp)
  <2> HIDE DEF s
  <2> QED BY <1>1, <1>2
<1> QED BY <1>2, <1>3 DEF PlanRotation

\* A file operation is a deletion or a rename.
LEMMA FileOpShape ==
  ASSUME NEW step \in FileOp
  PROVE  /\ step.from \in Generation
         /\ step.op = "delete" \/ (step.op = "rename" /\ step.to \in Generation)
  BY DEF FileOp

\* A file operation leaves a disk.
LEMMA RotateFileType ==
  ASSUME NEW d \in [Generation -> 0 .. MaxBoots], NEW step \in FileOp,
         NEW held
  PROVE  RotateFile(d, step, held) \in [Generation -> 0 .. MaxBoots]
<1>1. 0 \in 0 .. MaxBoots
  BY ProcessConstants
<1>2. d[step.from] \in 0 .. MaxBoots
  BY FileOpShape
<1>3. [d EXCEPT ![step.from] = 0] \in [Generation -> 0 .. MaxBoots]
  BY <1>1, FileOpShape
<1>4. ASSUME step.to \in Generation
      PROVE  [d EXCEPT ![step.to] = d[step.from], ![step.from] = 0]
               \in [Generation -> 0 .. MaxBoots]
  BY <1>1, <1>2, <1>4, FileOpShape
<1> QED BY <1>3, <1>4, FileOpShape DEF RotateFile

\* The process that is off.
LEMMA OffType == Off \in Process
<1>1. <<>> \in Seq(FileOp) /\ 0 \in Nat /\ NothingHeld \in Held
  BY DEF Held
<1>2. {} \in SUBSET (Threads \X {"file", "event", "dump"})
  OBVIOUS
<1> QED BY <1>1, <1>2 DEF Off, Process, RestartRequest

Phase == {"off", "rotating", "installing", "creating", "running", "closing"}
Out == {"inherited", "tee", "file"}
Handlers == {"none", "stderr", "file"}
Reported == SUBSET (Threads \X {"file", "event", "dump"})

\* A process, with the sets of its fields by name.
ProcessRecord ==
  [phase : Phase, ops : Seq(FileOp), held : Held, out : Out,
   console : BOOLEAN, wants_file : BOOLEAN, logs : BOOLEAN,
   handlers : Handlers, interposed : BOOLEAN, restart : RestartRequest,
   closed : BOOLEAN, latch : BOOLEAN, reported : Reported, lines : Nat]

\* It is a process.
LEMMA ProcessIs == Process = ProcessRecord
BY DEF Process, ProcessRecord, Phase, Out, Handlers, Reported

\* What main.cpp decides afterwards, a few fields at a time.
LEMMA ProcessUpdates ==
  ASSUME NEW p \in Process
  PROVE  /\ \A ops \in Seq(FileOp) : [p EXCEPT !.ops = ops] \in Process
         /\ \A phase \in Phase : [p EXCEPT !.phase = phase] \in Process
         /\ \A r \in RestartRequest : [p EXCEPT !.restart = r] \in Process
         /\ \A b \in BOOLEAN : [p EXCEPT !.interposed = b] \in Process
         /\ \A b \in BOOLEAN : [p EXCEPT !.latch = b] \in Process
         /\ \A h \in {"none", "stderr", "file"} :
              [p EXCEPT !.handlers = h] \in Process
         /\ \A r \in SUBSET (Threads \X {"file", "event", "dump"}) :
              [p EXCEPT !.reported = r] \in Process
         /\ \A n \in Nat : [p EXCEPT !.lines = n] \in Process
<1>0. p \in ProcessRecord
  BY ProcessIs
<1> USE <1>0 DEF ProcessRecord
<1>1. \A ops \in Seq(FileOp) : [p EXCEPT !.ops = ops] \in ProcessRecord
  OBVIOUS
<1>2. \A phase \in Phase : [p EXCEPT !.phase = phase] \in ProcessRecord
  OBVIOUS
<1>3. \A r \in RestartRequest : [p EXCEPT !.restart = r] \in ProcessRecord
  OBVIOUS
<1>4. \A b \in BOOLEAN : [p EXCEPT !.interposed = b] \in ProcessRecord
  OBVIOUS
<1>5. \A b \in BOOLEAN : [p EXCEPT !.latch = b] \in ProcessRecord
  OBVIOUS
<1>6. \A h \in Handlers : [p EXCEPT !.handlers = h] \in ProcessRecord
  OBVIOUS
<1>7. \A r \in Reported : [p EXCEPT !.reported = r] \in ProcessRecord
  OBVIOUS
<1>8. \A n \in Nat : [p EXCEPT !.lines = n] \in ProcessRecord
  OBVIOUS
<1> HIDE <1>0 DEF ProcessRecord
<1>9. \A x \in ProcessRecord : x \in Process
  BY ProcessIs
<1> QED BY <1>1, <1>2, <1>3, <1>4, <1>5, <1>6, <1>7, <1>8, <1>9, Zenon
           DEF Handlers, Reported

\* And several at a time.
LEMMA ProcessMoves ==
  ASSUME NEW p \in Process, NEW phase \in Phase, NEW b \in BOOLEAN,
         NEW c \in BOOLEAN, NEW e \in BOOLEAN
  PROVE  /\ [p EXCEPT !.phase = phase, !.logs = b, !.wants_file = c,
                      !.console = e] \in Process
         /\ \A r \in RestartRequest :
              [p EXCEPT !.closed = b, !.phase = phase, !.restart = r]
                \in Process
         /\ \A out \in Out, held \in Held :
              [p EXCEPT !.out = out, !.held = held, !.console = b,
                        !.phase = phase] \in Process
<1>0. p \in ProcessRecord
  BY ProcessIs
<1>1. [p EXCEPT !.phase = phase, !.logs = b, !.wants_file = c,
                !.console = e] \in ProcessRecord
  BY <1>0 DEF ProcessRecord
<1>2. ASSUME NEW r \in RestartRequest
      PROVE  [p EXCEPT !.closed = b, !.phase = phase, !.restart = r]
               \in ProcessRecord
  BY <1>0 DEF ProcessRecord
<1>3. ASSUME NEW out \in Out, NEW held \in Held
      PROVE  [p EXCEPT !.out = out, !.held = held, !.console = b,
                       !.phase = phase] \in ProcessRecord
  BY <1>0 DEF ProcessRecord
<1> QED BY <1>1, <1>2, <1>3, ProcessIs

\* What a launch decides.
LEMMA StartTyped ==
  ASSUME TypeInv, NEW l \in Launch, NEW held \in Held
  PROVE  StartProcess(l, held) \in Process
<1>1. /\ l.stdout \in BOOLEAN /\ l.debug \in BOOLEAN /\ l.named \in BOOLEAN
      /\ l.appdata \in BOOLEAN /\ l.parent \in BOOLEAN
      /\ l.debugger \in BOOLEAN
  BY DEF Launch
<1> DEFINE file == ChooseOutputTarget(l) = "file"
           rotates == file /\ HasLogPath(l)
           phase == IF rotates THEN "rotating" ELSE "installing"
           ops == IF rotates THEN PlanRotation(station.archives) ELSE <<>>
           console == GetsConsole(l)
           out == IF file /\ ~GetsConsole(l) THEN "file" ELSE "inherited"
<1>2. file \in BOOLEAN /\ rotates \in BOOLEAN /\ console \in BOOLEAN
  BY <1>1, Zenon DEF GetsConsole
<1>3. ops \in Seq(FileOp)
  <2>1. station.archives \in 0 .. MaxArchives
    BY ProcessConstants DEF TypeInv, Station
  <2> QED BY <2>1, PlanType
<1>4. phase \in Phase /\ out \in Out
  BY DEF Phase, Out
<1>5. StartProcess(l, held) =
        [Off EXCEPT !.phase = phase, !.ops = ops, !.held = held, !.out = out,
           !.console = console, !.wants_file = file, !.logs = rotates]
  BY DEF StartProcess
<1> HIDE DEF file, rotates, phase, ops, console, out
<1>6. [Off EXCEPT !.phase = phase, !.ops = ops, !.held = held, !.out = out,
         !.console = console, !.wants_file = file, !.logs = rotates]
        \in ProcessRecord
  <2>1. Off \in ProcessRecord
    BY OffType, ProcessIs
  <2> QED BY <1>2, <1>3, <1>4, <2>1 DEF ProcessRecord
<1> QED BY <1>5, <1>6, ProcessIs

\* How a start comes to be.
LEMMA StartsWith ==
  ASSUME TypeInv, NEW who, Starts(who)
  PROVE  \E l \in Launch, held \in Held :
           /\ proc' = StartProcess(l, held)
           /\ held # NothingHeld => proc'.logs /\ disk[held] # 0
           /\ station' = [station EXCEPT !.started = who,
                            !.held = IF held = NothingHeld THEN @ ELSE boot + 1]
<1>1. PICK held \in Held : \E p \in {StartProcess(l, held) : l \in Launch} :
        /\ held # NothingHeld => p.logs /\ disk[held] # 0
        /\ proc' = p
        /\ station' = [station EXCEPT !.started = who,
                         !.held = IF held = NothingHeld THEN @ ELSE boot + 1]
  BY DEF Starts
<1>2. PICK l \in Launch : proc' = StartProcess(l, held)
  BY <1>1
<1> QED BY <1>1, <1>2

\* A start keeps the types.
LEMMA StartsTyped ==
  ASSUME TypeInv, NEW who \in {"operator", "windows"}, Starts(who)
  PROVE  TypeInv'
<1>1. PICK l \in Launch, held \in Held :
        /\ proc' = StartProcess(l, held)
        /\ station' = [station EXCEPT !.started = who,
                         !.held = IF held = NothingHeld THEN @ ELSE boot + 1]
  BY StartsWith
<1>2. proc' \in Process
  BY <1>1, StartTyped
<1>3. boot' \in 0 .. MaxBoots /\ boot + 1 \in Nat
  BY ProcessConstants DEF Starts, TypeInv
<1>4. ASSUME NEW h \in Nat
      PROVE  [station EXCEPT !.started = who, !.held = h] \in Station
  BY DEF TypeInv, Station
<1>5. station' \in Station
  <2> DEFINE h == IF held = NothingHeld THEN station.held ELSE boot + 1
  <2>1. h \in Nat
    BY <1>3 DEF TypeInv, Station
  <2>2. station' = [station EXCEPT !.started = who, !.held = h]
    BY <1>1
  <2> HIDE DEF h
  <2> QED BY <1>4, <2>1, <2>2
<1> QED BY <1>2, <1>3, <1>5 DEF Starts, TypeInv, streams

\* So does a file operation of the rotation.
LEMMA RotateLogsTyped ==
  ASSUME TypeInv, RotateLogs
  PROVE  TypeInv'
<1>1. proc.ops \in Seq(FileOp) /\ proc.ops # <<>> /\ proc.held \in Held
  BY DEF TypeInv, Process, RotateLogs
<1>2. Head(proc.ops) \in FileOp /\ Tail(proc.ops) \in Seq(FileOp)
  BY <1>1
<1>3. disk' \in [Generation -> 0 .. MaxBoots]
  BY <1>2, RotateFileType DEF TypeInv, RotateLogs
<1>4. proc' \in Process
  BY <1>2, ProcessUpdates DEF TypeInv, RotateLogs
<1> QED BY <1>3, <1>4 DEF RotateLogs, TypeInv, streams

\* So does leading the streams to the log.
LEMMA RedirectTyped ==
  ASSUME TypeInv, RedirectIOToFile
  PROVE  TypeInv'
<1>1. PICK out \in RedirectOutcomes(proc), opened \in BOOLEAN :
        /\ disk' = IF opened THEN [disk EXCEPT ![0] = boot] ELSE disk
        /\ station' = IF opened THEN [station EXCEPT !.logged = @ \cup {boot}]
                      ELSE station
        /\ proc' = [proc EXCEPT !.out = out, !.held = NothingHeld,
                               !.console = FALSE, !.phase = "installing"]
  BY DEF RedirectIOToFile
<1>2. out \in Out /\ "installing" \in Phase
  <2>1. proc.out \in Out
    BY ProcessIs DEF TypeInv, ProcessRecord
  <2> QED BY <2>1 DEF Out, Phase, RedirectOutcomes
<1>3. NothingHeld \in Held
  BY DEF Held
<1>4. proc' \in Process
  BY <1>1, <1>2, <1>3, ProcessMoves DEF TypeInv
<1>5. boot \in Nat /\ boot \in 0 .. MaxBoots
  BY ProcessConstants DEF TypeInv
<1>6. disk' \in [Generation -> 0 .. MaxBoots]
  BY <1>1, <1>5 DEF TypeInv
<1>7. ASSUME NEW logged \in SUBSET Nat
      PROVE  [station EXCEPT !.logged = logged] \in Station
  BY DEF TypeInv, Station
<1>8. station' \in Station
  <2>1. station.logged \cup {boot} \in SUBSET Nat
    BY <1>5 DEF TypeInv, Station
  <2> QED BY <1>1, <1>7, <2>1 DEF TypeInv
<1> QED BY <1>4, <1>6, <1>8 DEF RedirectIOToFile, TypeInv, streams

\* So does installing the crash handlers.
LEMMA SetUpTyped ==
  ASSUME TypeInv, SetUp
  PROVE  TypeInv'
<1> DEFINE h == CASE proc.logs -> "file"
                  [] ~proc.wants_file -> "stderr"
                  [] OTHER -> "none"
           p == InstallCrashHandlers(proc)
           q(r) == ConfigureUnattendedOperation(p, r)
<1>1. h \in {"none", "stderr", "file"}
  OBVIOUS
<1>2. p \in Process
  BY <1>1, ProcessUpdates DEF InstallCrashHandlers, TypeInv
<1>3. \A r \in RestartRequest : q(r) \in Process
  BY <1>2, ProcessUpdates DEF ConfigureUnattendedOperation
<1>4. PICK r \in {"none", "granted"} :
        proc' = [q(r) EXCEPT !.phase = "creating", !.logs = FALSE,
                             !.wants_file = FALSE, !.console = FALSE]
  BY Zenon DEF SetUp
<1>5. r \in RestartRequest
  BY DEF RestartRequest
<1> HIDE DEF q
<1>6. proc' \in Process
  BY <1>3, <1>4, <1>5, ProcessMoves DEF Phase
<1> QED BY <1>6 DEF SetUp, TypeInv, streams

\* So does creating the window.
LEMMA CreateWindowTyped ==
  ASSUME TypeInv, CreateWindow
  PROVE  TypeInv'
<1>1. PICK done \in BOOLEAN :
        proc' = [InstallInterposer(proc, done) EXCEPT !.phase = "running"]
  BY DEF CreateWindow
<1>2. InstallInterposer(proc, done) \in Process
  BY ProcessUpdates DEF InstallInterposer, TypeInv
<1>3. proc' \in Process
  BY <1>1, <1>2, ProcessUpdates DEF Phase
<1> QED BY <1>3 DEF CreateWindow, TypeInv, streams

\* Threads that have nothing to say.
LEMMA IdleTyped ==
  /\ Idle \in [Threads -> Thread]
  /\ \A t \in Threads : Idle[t].pc = "idle"
  /\ \A t \in Threads : Idle[t] \in Thread
  BY DEF Idle, Thread, Pc

\* A detector that has seen nothing.
LEMMA NewStormTyped == NewStorm \in Storm
<1>1. /\ 0 \in 0 .. MinMatches /\ 0 \in 0 .. WindowLength + 1
      /\ 0 \in 0 .. Cooldown
  BY StormConstants
<1>2. <<>> \in Seq(Symbol)
  OBVIOUS
<1> QED BY <1>1, <1>2 DEF NewStorm, NewDetector, Detector, Storm

\* The end of the process keeps the types.
LEMMA EndsTyped ==
  ASSUME TypeInv, NEW how \in {"done", "crash"}, Ends(how)
  PROVE  TypeInv'
<1>1. proc' \in Process
  BY OffType DEF Ends
<1>2. proc.closed \in BOOLEAN /\ proc.restart \in RestartRequest
  BY DEF TypeInv, Process
<1>3. ASSUME NEW c \in BOOLEAN, NEW r \in RestartRequest
      PROVE  [station EXCEPT !.ended = how, !.closed = c, !.restart = r]
               \in Station
  BY DEF TypeInv, Station
<1>4. station' \in Station
  BY <1>2, <1>3 DEF Ends
<1>5. /\ threads' \in [Threads -> Thread]
      /\ \A t \in Threads : threads'[t].pc = "idle"
  BY IdleTyped DEF Ends, NoStreams
<1>6. /\ pipe' \in Seq(Symbol) /\ Len(pipe') <= PipeRoom
      /\ chunk' \in Seq(Symbol) /\ Len(chunk') <= ReadMax
      /\ pump' \in 0 .. PumpRoom
  BY ProcessConstants DEF Ends, NoStreams
<1>7. storm' \in Storm
  BY NewStormTyped DEF Ends, NoStreams
<1> QED BY <1>1, <1>4, <1>5, <1>6, <1>7 DEF Ends, TypeInv

\* The places a record goes to, one after the other.
LEMMA Stages ==
  /\ NextStage("stderr") = "file" /\ NextStage("file") = "event"
  /\ NextStage("event") = "trace" /\ NextStage("trace") = "dump"
  /\ NextStage("dump") = "terminate"
<1>1. /\ CrashStage[1] = "stderr" /\ CrashStage[2] = "file"
      /\ CrashStage[3] = "event" /\ CrashStage[4] = "trace"
      /\ CrashStage[5] = "dump" /\ CrashStage[6] = "terminate"
  BY DEF CrashStage
<1>2. \A i \in 1 .. 5 : i = 1 \/ i = 2 \/ i = 3 \/ i = 4 \/ i = 5
  OBVIOUS
<1>3. ASSUME NEW k \in 1 .. 5
      PROVE  (CHOOSE i \in 1 .. 5 : CrashStage[i] = CrashStage[k]) = k
  BY <1>1, <1>2
<1>4. /\ (CHOOSE i \in 1 .. 5 : CrashStage[i] = "stderr") = 1
      /\ (CHOOSE i \in 1 .. 5 : CrashStage[i] = "file") = 2
      /\ (CHOOSE i \in 1 .. 5 : CrashStage[i] = "event") = 3
      /\ (CHOOSE i \in 1 .. 5 : CrashStage[i] = "trace") = 4
      /\ (CHOOSE i \in 1 .. 5 : CrashStage[i] = "dump") = 5
  BY <1>1, <1>3
<1> QED BY <1>1, <1>4 DEF NextStage

\* Where a thread can be.
LEMMA PcType ==
  Pc = {"idle", "lock", "logging", "writing", "stderr", "file", "event",
        "trace", "dump", "terminate"}
<1>1. /\ CrashStage[1] = "stderr" /\ CrashStage[2] = "file"
      /\ CrashStage[3] = "event" /\ CrashStage[4] = "trace"
      /\ CrashStage[5] = "dump" /\ CrashStage[6] = "terminate"
  BY DEF CrashStage
<1>2. \A i \in 1 .. 6 : i = 1 \/ i = 2 \/ i = 3 \/ i = 4 \/ i = 5 \/ i = 6
  OBVIOUS
<1>3. {CrashStage[i] : i \in 1 .. 6} =
        {"stderr", "file", "event", "trace", "dump", "terminate"}
  BY <1>1, <1>2
<1> QED BY <1>3 DEF Pc

\* A line is a text.
LEMMA LineType ==
  ASSUME NEW line \in Line \cup {Record}
  PROVE  line \in Seq(Symbol)
<1>1. /\ <<"a", "b", "n">> \in Seq(Symbol) /\ <<"o", "n">> \in Seq(Symbol)
      /\ <<"o", "o", "o", "n">> \in Seq(Symbol)
  BY DEF Symbol
<1> QED BY <1>1 DEF Line, Record

\* What the actions make of a thread.
LEMMA ThreadUpdates ==
  ASSUME threads \in [Threads -> Thread], NEW t \in Threads
  PROVE  /\ \A pc \in Pc : [threads EXCEPT ![t].pc = pc] \in [Threads -> Thread]
         /\ \A pc \in Pc, line \in Line \cup {Record, <<>>} :
              [threads EXCEPT ![t].pc = pc, ![t].line = line]
                \in [Threads -> Thread]
         /\ \A pc \in Pc : [threads EXCEPT ![t].pc = pc, ![t].holds = TRUE]
                             \in [Threads -> Thread]
         /\ [threads EXCEPT ![t] = Idle[t]] \in [Threads -> Thread]
<1>1. ASSUME NEW th \in Thread, NEW pc \in Pc,
             NEW line \in Line \cup {Record, <<>>}
      PROVE  /\ [th EXCEPT !.pc = pc] \in Thread
             /\ [th EXCEPT !.pc = pc, !.line = line] \in Thread
             /\ [th EXCEPT !.pc = pc, !.holds = TRUE] \in Thread
  BY DEF Thread
<1>2. \A pc \in Pc : [threads EXCEPT ![t].pc = pc] \in [Threads -> Thread]
  BY <1>1
<1>3. ASSUME NEW pc \in Pc, NEW line \in Line \cup {Record, <<>>}
      PROVE  [threads EXCEPT ![t].pc = pc, ![t].line = line]
                \in [Threads -> Thread]
  BY DEF Thread
<1>4. ASSUME NEW pc \in Pc
      PROVE  [threads EXCEPT ![t].pc = pc, ![t].holds = TRUE]
                             \in [Threads -> Thread]
  BY DEF Thread
<1>5. [threads EXCEPT ![t] = Idle[t]] \in [Threads -> Thread]
  BY IdleTyped
<1> QED BY <1>2, <1>3, <1>4, <1>5

\* A line that is accepted fits.
LEMMA PutTyped ==
  ASSUME TypeInv, NEW line \in Line \cup {Record}, StderrAccepts(line),
         PutOnStderr(line)
  PROVE  /\ pipe' \in Seq(Symbol) /\ Len(pipe') <= PipeRoom
         /\ pump' \in 0 .. PumpRoom
<1>1. line \in Seq(Symbol) /\ pipe \in Seq(Symbol) /\ Len(pipe) <= PipeRoom
      /\ pump \in 0 .. PumpRoom
  BY LineType DEF TypeInv
<1>2. CASE proc.interposed
  <2>1. pipe' = pipe \o line /\ pump' = pump
    BY <1>2 DEF PutOnStderr
  <2>2. Len(pipe) + Len(line) <= PipeRoom
    BY <1>2 DEF StderrAccepts
  <2> QED BY <1>1, <2>1, <2>2
<1>3. CASE ~proc.interposed
  <2>1. pump' = (IF proc.out = "tee" THEN pump + 1 ELSE pump) /\ pipe' = pipe
    BY <1>3 DEF PutOnStderr
  <2>2. proc.out = "tee" => pump < PumpRoom
    BY <1>3 DEF StderrAccepts, SinkAccepts
  <2> QED BY <1>1, <2>1, <2>2, ProcessConstants
<1> QED BY <1>2, <1>3

\* Having something to say keeps the types.
LEMMA WritesLineTyped ==
  ASSUME TypeInv, NEW t \in Threads, WritesLine(t)
  PROVE  TypeInv'
<1>1. PICK line \in Line, pc \in {"lock", "writing"} :
        threads' = [threads EXCEPT ![t].pc = pc, ![t].line = line]
  BY DEF WritesLine
<1>2. threads \in [Threads -> Thread] /\ pc \in Pc
  BY PcType DEF TypeInv
<1>3. threads' \in [Threads -> Thread]
  BY <1>1, <1>2, ThreadUpdates
<1>4. \A u \in Threads :
        threads'[u].pc \in {"lock", "logging", "writing"} =>
          threads'[u].line \in Line
  BY <1>1, <1>2 DEF TypeInv, Thread
<1>5. proc' \in Process
  <2>1. proc.lines + 1 \in Nat
    BY DEF TypeInv, Process
  <2> QED BY <2>1, ProcessUpdates DEF TypeInv, WritesLine
<1> QED BY <1>3, <1>4, <1>5 DEF WritesLine, TypeInv

\* So does taking the lock of the log.
LEMMA TakesLockTyped ==
  ASSUME TypeInv, NEW t \in Threads, TakesLock(t)
  PROVE  TypeInv'
<1>1. threads \in [Threads -> Thread] /\ "logging" \in Pc
  BY PcType DEF TypeInv
<1>2. threads' = [threads EXCEPT ![t].pc = "logging", ![t].holds = TRUE]
  BY DEF TakesLock
<1>3. threads' \in [Threads -> Thread]
  BY <1>1, <1>2, ThreadUpdates
<1>4. \A u \in Threads :
        threads'[u].pc \in {"lock", "logging", "writing"} =>
          threads'[u].line \in Line
  <2>1. threads[t].line \in Line
    BY DEF TakesLock, TypeInv
  <2> QED BY <1>1, <1>2, <2>1 DEF TypeInv, Thread
<1> QED BY <1>3, <1>4 DEF TakesLock, TypeInv

\* So does writing the line.
LEMMA LineWrittenTyped ==
  ASSUME TypeInv, NEW t \in Threads, LineWritten(t)
  PROVE  TypeInv'
<1>1. threads \in [Threads -> Thread] /\ threads[t].line \in Line
  BY DEF TypeInv, LineWritten
<1>2. threads' = [threads EXCEPT ![t] = Idle[t]]
  BY DEF LineWritten
<1>3. threads' \in [Threads -> Thread]
  BY <1>1, <1>2, ThreadUpdates
<1>4. \A u \in Threads :
        threads'[u].pc \in {"lock", "logging", "writing"} =>
          threads'[u].line \in Line
  BY <1>1, <1>2, IdleTyped DEF TypeInv
<1>5. /\ pipe' \in Seq(Symbol) /\ Len(pipe') <= PipeRoom
      /\ pump' \in 0 .. PumpRoom
  BY <1>1, PutTyped DEF LineWritten
<1> QED BY <1>3, <1>4, <1>5 DEF LineWritten, TypeInv

\* So does a read of the pipe, which takes no more than there is.
LEMMA ReaderReadsTyped ==
  ASSUME TypeInv, ReaderReads
  PROVE  TypeInv'
<1>1. PICK k \in 1 .. ReadMax :
        /\ k <= Len(pipe)
        /\ chunk' = SubSeq(pipe, 1, k)
        /\ pipe' = SubSeq(pipe, k + 1, Len(pipe))
  BY DEF ReaderReads
<1>2. /\ pipe \in Seq(Symbol) /\ Len(pipe) \in Nat /\ Len(pipe) <= PipeRoom
      /\ k \in Nat /\ k >= 1 /\ k <= ReadMax /\ ReadMax \in Nat
      /\ PipeRoom \in Nat
  BY ProcessConstants DEF TypeInv
<1>3. chunk' \in Seq(Symbol) /\ Len(chunk') = k
  BY <1>1, <1>2, SubSeqProperties
<1>4. pipe' \in Seq(Symbol) /\ Len(pipe') <= Len(pipe)
  BY <1>1, <1>2, SubSeqProperties
<1>5. Len(pipe') <= PipeRoom
  BY <1>2, <1>4
<1>6. Len(chunk') <= ReadMax
  BY <1>2, <1>3
<1> QED BY <1>3, <1>4, <1>5, <1>6 DEF ReaderReads, TypeInv

\* A sink that accepts a chunk has room for it.
LEMMA SinkTyped ==
  ASSUME TypeInv, SinkAccepts
  PROVE  (IF proc.out = "tee" THEN pump + 1 ELSE pump) \in 0 .. PumpRoom
  BY ProcessConstants DEF TypeInv, SinkAccepts

\* The console's pipe is emptied a chunk at a time.
LEMMA PumpForwardsTyped ==
  ASSUME TypeInv, PumpForwards
  PROVE  TypeInv'
<1>1. pump' \in 0 .. PumpRoom
  BY ProcessConstants DEF TypeInv, PumpForwards
<1> QED BY <1>1 DEF TypeInv, PumpForwards

\* A detector grows old within its bounds.
LEMMA AgeType ==
  ASSUME NEW d \in Detector
  PROVE  AgeDetector(d) \in Detector
<1> DEFINE a == IF d.matches = 0 \/ d.age > WindowLength THEN d.age
                ELSE d.age + 1
           q == IF d.quiet = 0 THEN 0 ELSE d.quiet - 1
<1>1. a \in 0 .. WindowLength + 1 /\ q \in 0 .. Cooldown
  BY StormConstants DEF Detector
<1>2. AgeDetector(d) = [d EXCEPT !.age = a, !.quiet = q]
  BY DEF AgeDetector
<1> HIDE DEF a, q
<1>3. [d EXCEPT !.age = a, !.quiet = q] \in Detector
  BY <1>1 DEF Detector
<1> QED BY <1>2, <1>3

\* Time keeps the types.
LEMMA TimePassesTyped ==
  ASSUME TypeInv, TimePasses
  PROVE  TypeInv'
<1>1. storm \in Storm /\ storm.detector \in Detector /\ storm.lines \in Detector
  BY DEF TypeInv, Storm
<1>2. ASSUME NEW d \in Detector, NEW e \in Detector
      PROVE  [storm EXCEPT !.detector = d, !.lines = e] \in Storm
  BY <1>1 DEF Storm
<1>3. storm' \in Storm
  BY <1>1, <1>2, AgeType DEF TimePasses
<1> QED BY <1>3 DEF TimePasses, TypeInv

\* So does selecting text.
LEMMA OperatorSelectsTyped ==
  ASSUME TypeInv, OperatorSelects
  PROVE  TypeInv'
  BY DEF OperatorSelects, TypeInv, streams

\* So does a rebuild of the engine.
LEMMA EngineRebuiltTyped ==
  ASSUME TypeInv, EngineRebuilt
  PROVE  TypeInv'
  BY DEF EngineRebuilt, TypeInv, streams

\* So does a fault.
LEMMA FaultsTyped ==
  ASSUME TypeInv, NEW t \in Threads, Faults(t)
  PROVE  TypeInv'
<1>1. threads \in [Threads -> Thread] /\ Enter(proc) \in {"stderr", "terminate"}
  BY DEF TypeInv, Enter
<1>2. threads' = [threads EXCEPT ![t].pc = Enter(proc), ![t].line = Record]
  BY DEF Faults
<1>3. threads' \in [Threads -> Thread]
  <2>1. Enter(proc) \in Pc /\ Record \in Line \cup {Record, <<>>}
    BY <1>1, PcType
  <2> QED BY <1>1, <1>2, <2>1, ThreadUpdates, Zenon
<1>4. \A u \in Threads :
        threads'[u].pc \in {"lock", "logging", "writing"} =>
          threads'[u].line \in Line
  BY <1>1, <1>2 DEF TypeInv, Thread
<1>5. proc' \in Process
  BY ProcessUpdates DEF TypeInv, Faults
<1> QED BY <1>3, <1>4, <1>5 DEF Faults, TypeInv

\* A thread in a report goes to the next place.
LEMMA NextStageTyped ==
  ASSUME TypeInv, NEW t \in Threads, threads[t].pc \in InReport,
         threads' = [threads EXCEPT ![t].pc = NextStage(@)]
  PROVE  /\ threads' \in [Threads -> Thread]
         /\ \A u \in Threads :
              threads'[u].pc \in {"lock", "logging", "writing"} =>
                threads'[u].line \in Line
<1> DEFINE next == NextStage(threads[t].pc)
<1>1. next \in {"file", "event", "trace", "dump", "terminate"} /\ next \in Pc
  BY Stages, PcType DEF InReport
<1>2. threads \in [Threads -> Thread]
      /\ threads' = [threads EXCEPT ![t].pc = next]
  BY DEF TypeInv
<1> HIDE DEF next
<1>3. threads' \in [Threads -> Thread]
  <2>1. \A pc \in Pc : [threads EXCEPT ![t].pc = pc] \in [Threads -> Thread]
    BY <1>2, ThreadUpdates
  <2> QED BY <1>1, <1>2, <2>1
<1>4. \A u \in Threads :
        threads'[u].pc \in {"lock", "logging", "writing"} =>
          threads'[u].line \in Line
  BY <1>1, <1>2 DEF TypeInv, Thread
<1> QED BY <1>3, <1>4

\* So does a line of the report.
LEMMA PutRecordTyped ==
  ASSUME TypeInv, NEW t \in Threads, threads[t].pc \in InReport, PutRecord(t)
  PROVE  TypeInv'
<1>1. /\ threads' \in [Threads -> Thread]
      /\ \A u \in Threads :
           threads'[u].pc \in {"lock", "logging", "writing"} =>
             threads'[u].line \in Line
  BY NextStageTyped DEF PutRecord
<1>2. /\ pipe' \in Seq(Symbol) /\ Len(pipe') <= PipeRoom
      /\ pump' \in 0 .. PumpRoom
  BY PutTyped DEF PutRecord
<1> QED BY <1>1, <1>2 DEF PutRecord, TypeInv

\* So does a record in one of the other places.
LEMMA ReportTyped ==
  ASSUME TypeInv, NEW t \in Threads,
         threads[t].pc \in {"file", "event", "dump"},
         NEW had \in BOOLEAN, Report(t, had)
  PROVE  TypeInv'
<1>1. /\ threads' \in [Threads -> Thread]
      /\ \A u \in Threads :
           threads'[u].pc \in {"lock", "logging", "writing"} =>
             threads'[u].line \in Line
  BY NextStageTyped DEF Report, InReport
<1>2. proc.reported \cup {<<t, threads[t].pc>>}
        \in SUBSET (Threads \X {"file", "event", "dump"})
  BY DEF TypeInv, Process
<1>3. [proc EXCEPT !.reported = @ \cup {<<t, threads[t].pc>>}] \in Process
  BY <1>2, ProcessUpdates DEF TypeInv
<1>4. proc' \in Process
  BY <1>3 DEF Report, TypeInv
<1> QED BY <1>1, <1>4 DEF Report, TypeInv

\* So does closing the window.
LEMMA CloseWindowTyped ==
  ASSUME TypeInv, CloseWindow
  PROVE  TypeInv'
<1>1. PICK left \in {"none", "kept"} : proc' = WindowDestroyed(proc, left)
  BY DEF CloseWindow
<1>2. left \in RestartRequest
  BY DEF RestartRequest
<1>3. proc' \in Process
  BY <1>1, <1>2, ProcessMoves DEF WindowDestroyed, TypeInv, Phase
<1> QED BY <1>3 DEF CloseWindow, TypeInv, streams

\* What closing the window decides, and what it leaves alone.
LEMMA CloseDecides ==
  ASSUME TypeInv, CloseWindow
  PROVE  /\ proc'.phase = "closing" /\ proc'.restart # "granted"
         /\ proc'.held = proc.held /\ proc'.latch = proc.latch
         /\ proc'.reported = proc.reported
<1>1. PICK left \in {"none", "kept"} : proc' = WindowDestroyed(proc, left)
  BY DEF CloseWindow
<1> QED BY <1>1 DEF WindowDestroyed, TypeInv, Process

\* The detector after a chunk.
LEMMA OnBytesType ==
  ASSUME NEW d \in Detector, NEW data \in Seq(Symbol)
  PROVE  OnBytes(d, data).detector \in Detector
<1> DEFINE fed == Feeding(d, data)[Len(data)]
<1>1. Len(data) \in 0 .. Len(data)
  OBVIOUS
<1>2. fed \in Fed
  BY <1>1, FeedingSteps
<1>3. OnBytes(d, data) \in Fed
  BY <1>2, FeedCarryType DEF OnBytes
<1> QED BY <1>3 DEF Fed

\* The reader of lines after a chunk.
LEMMA ReadType ==
  ASSUME NEW s \in Storm, NEW data \in Seq(Symbol)
  PROVE  Reading(s, data)[Len(data)] \in Storm
<1>1. Len(data) \in 0 .. Len(data)
  OBVIOUS
<1> QED BY <1>1, ReadingSteps

\* Forwarding a chunk keeps the types.
LEMMA ReaderForwardsTyped ==
  ASSUME TypeInv, ReaderForwards
  PROVE  TypeInv'
<1>1. storm \in Storm /\ storm.detector \in Detector /\ chunk \in Seq(Symbol)
  BY DEF TypeInv, Storm
<1>2. ASSUME NEW s \in Storm, NEW d \in Detector
      PROVE  [s EXCEPT !.detector = d] \in Storm
  BY DEF Storm
<1>3. storm' \in Storm
  BY <1>1, <1>2, OnBytesType, ReadType DEF ReaderForwards
<1>4. chunk' = <<>> /\ chunk' \in Seq(Symbol) /\ Len(chunk') <= ReadMax
  BY ProcessConstants DEF ReaderForwards
<1>5. pump' \in 0 .. PumpRoom
  BY SinkTyped DEF ReaderForwards
<1> QED BY <1>3, <1>4, <1>5 DEF ReaderForwards, TypeInv

\* The types hold at first.
LEMMA InitTyped == Init => TypeInv
<1> SUFFICES ASSUME Init PROVE TypeInv
  OBVIOUS
<1>1. disk \in [Generation -> 0 .. MaxBoots] /\ boot \in 0 .. MaxBoots
  BY ProcessConstants DEF Init
<1>2. proc \in Process /\ storm \in Storm
  BY OffType, NewStormTyped DEF Init
<1>3. station \in Station
  <2>1. station \in [archives : Archives, ended : {"never"}, closed : {FALSE},
                     restart : {"none"}, started : {"operator"}, held : {0},
                     logged : {{}}]
    BY DEF Init
  <2>2. /\ station.archives \in Archives /\ station.ended \in {"never"}
        /\ station.closed \in BOOLEAN /\ station.restart \in RestartRequest
        /\ station.started \in {"operator"} /\ station.held \in Nat
        /\ station.logged \in SUBSET Nat
    <3>1. /\ station.archives \in Archives /\ station.ended \in {"never"}
          /\ station.started \in {"operator"} /\ station.held \in {0}
          /\ station.logged \in {{}} /\ station.restart \in {"none"}
      BY <2>1
    <3>2. station.closed \in {FALSE}
      BY <2>1, Zenon
    <3>3. station.closed \in BOOLEAN
      BY <3>2, Zenon
    <3> QED BY <3>1, <3>3 DEF RestartRequest
  <2>3. station = [archives |-> station.archives, ended |-> station.ended,
                   closed |-> station.closed, restart |-> station.restart,
                   started |-> station.started, held |-> station.held,
                   logged |-> station.logged]
    BY <2>1
  <2> QED BY <2>2, <2>3 DEF Station
<1>4. /\ threads \in [Threads -> Thread]
      /\ \A t \in Threads : threads[t].pc = "idle"
  BY IdleTyped DEF Init
<1>5. /\ pipe \in Seq(Symbol) /\ Len(pipe) <= PipeRoom
      /\ chunk \in Seq(Symbol) /\ Len(chunk) <= ReadMax
      /\ pump \in 0 .. PumpRoom /\ paused \in BOOLEAN
  <2>1. pipe = <<>> /\ chunk = <<>> /\ pump = 0 /\ paused = FALSE
    BY DEF Init
  <2>2. /\ <<>> \in Seq(Symbol) /\ Len(<<>>) = 0
        /\ PipeRoom \in Nat /\ ReadMax \in Nat /\ PumpRoom \in Nat
    BY ProcessConstants
  <2>3. paused \in BOOLEAN
    BY <2>1, Zenon
  <2>4. pipe \in Seq(Symbol) /\ Len(pipe) <= PipeRoom
    BY <2>1, <2>2
  <2>5. chunk \in Seq(Symbol) /\ Len(chunk) <= ReadMax
    BY <2>1, <2>2
  <2>6. pump \in 0 .. PumpRoom
    BY <2>1, <2>2
  <2> QED BY <2>3, <2>4, <2>5, <2>6
<1> QED BY <1>1, <1>2, <1>3, <1>4, <1>5 DEF TypeInv

\* What leaves the state alone keeps the types.
LEMMA StutterTyped ==
  ASSUME TypeInv, UNCHANGED vars
  PROVE  TypeInv'
  BY DEF TypeInv, vars

\* Every step keeps the types.
LEMMA StepTyped ==
  ASSUME TypeInv, [Next]_vars
  PROVE  TypeInv'
<1>1. CASE Starting
  <2> USE <1>1 DEF Starting
  <2>1. CASE OperatorStarts
    BY <2>1, StartsTyped DEF OperatorStarts
  <2>2. CASE WindowsRestarts
    BY <2>2, StartsTyped DEF WindowsRestarts
  <2>3. CASE CreateFails
    BY <2>3, EndsTyped DEF CreateFails
  <2> QED BY <2>1, <2>2, <2>3, RotateLogsTyped, RedirectTyped, SetUpTyped,
             CreateWindowTyped
<1>2. CASE Streaming
  <2> USE <1>2 DEF Streaming
  <2>1. ASSUME NEW t \in Threads,
               WritesLine(t) \/ TakesLock(t) \/ LineWritten(t)
        PROVE  TypeInv'
    BY <2>1, WritesLineTyped, TakesLockTyped, LineWrittenTyped
  <2> QED BY <2>1, ReaderReadsTyped, ReaderForwardsTyped, PumpForwardsTyped,
             TimePassesTyped, OperatorSelectsTyped, EngineRebuiltTyped
<1>3. CASE Ending
  <2>1. ASSUME NEW t \in Threads, WriteRecord(t) \/ WriteStackTrace(t)
        PROVE  TypeInv'
    BY <2>1, PutRecordTyped DEF WriteRecord, WriteStackTrace, InReport
  <2>2. ASSUME NEW t \in Threads,
               AppendToLogFile(t) \/ ReportToEventLog(t) \/ WriteMinidump(t)
        PROVE  TypeInv'
    BY <2>2, ReportTyped
    DEF AppendToLogFile, ReportToEventLog, WriteMinidump
  <2>3. ASSUME NEW t \in Threads, Faults(t) \/ Terminates(t)
        PROVE  TypeInv'
    BY <2>3, FaultsTyped, EndsTyped DEF Terminates
  <2>4. ASSUME FailsFast \/ Killed \/ LoopEnds
        PROVE  TypeInv'
    BY <2>4, EndsTyped DEF FailsFast, Killed, LoopEnds
  <2> QED BY <1>3, <2>1, <2>2, <2>3, <2>4, CloseWindowTyped DEF Ending
<1> QED BY <1>1, <1>2, <1>3, StutterTyped DEF Next

-----------------------------------------------------------------------------
(***************************************************************************)
(* The drop targets.                                                       *)
(***************************************************************************)
\* Where no target is, a plugin gets one of its own.
LEMMA TargetCreated ==
  ASSUME NEW d, Free(d)
  PROVE  \E t \in Target : Holding(CreateTarget(d), t)
<1> DEFINE t == CHOOSE new \in Target :
                  d.refs[new] = 0 /\ new \notin {d.registered, d.plugin}
           slot == [d EXCEPT !.registered = t]
           once == AddRef(slot, t)
           twice == AddRef(once, t)
           e == [twice EXCEPT !.plugin = t]
<1>1. /\ d \in DropState /\ d.registered = 0 /\ d.plugin = 0
      /\ \A u \in Target : d.refs[u] = 0
      /\ d.use_after_free = FALSE /\ d.leaked = FALSE
      /\ d.refs \in [Target -> 0 .. 2]
  BY DEF Free, NoTarget, DropState
<1>2. t \in Target
  <2>1. 1 \in Target /\ d.refs[1] = 0 /\ 1 \notin {d.registered, d.plugin}
    BY <1>1, TargetsAssumption DEF Target
  <2> QED BY <2>1
<1> HIDE DEF t
<1>3. CreateTarget(d) = e
  BY <1>1 DEF CreateTarget, NoTarget, t
<1>4. slot \in DropState /\ slot.refs = d.refs /\ slot.registered = t
      /\ slot.use_after_free = FALSE /\ slot.leaked = FALSE
  BY <1>1, <1>2 DEF DropState
<1> HIDE DEF slot
<1>5. /\ once \in DropState /\ once.registered = t
      /\ once.use_after_free = FALSE /\ once.leaked = FALSE
      /\ \A u \in Target : once.refs[u] = IF u = t THEN 1 ELSE 0
  <2>1. slot.refs[t] + 1 = 1 /\ 1 \in 0 .. 2
    BY <1>1, <1>2, <1>4
  <2>2. once = [slot EXCEPT !.refs[t] = 1]
    BY <2>1 DEF AddRef
  <2> QED BY <1>1, <1>2, <1>4, <2>1, <2>2 DEF DropState
<1> HIDE DEF once
<1>6. /\ twice \in DropState /\ twice.registered = t
      /\ twice.use_after_free = FALSE /\ twice.leaked = FALSE
      /\ \A u \in Target : twice.refs[u] = IF u = t THEN 2 ELSE 0
  <2>1. once.refs[t] + 1 = 2 /\ 2 \in 0 .. 2
    BY <1>2, <1>5
  <2>2. twice = [once EXCEPT !.refs[t] = 2]
    BY <2>1 DEF AddRef
  <2> QED BY <1>2, <1>5, <2>1, <2>2 DEF DropState
<1> HIDE DEF twice
<1>7. Holding(e, t)
  BY <1>2, <1>6 DEF Holding, DropState
<1> QED BY <1>2, <1>3, <1>7

\* A target that one plugin holds is revoked, released and gone.
LEMMA TargetDestroyed ==
  ASSUME NEW d, NEW t \in Target, Holding(d, t)
  PROVE  Free(DestroyTarget(d))
<1> DEFINE slot == [d EXCEPT !.registered = NoTarget]
           clean == [slot EXCEPT !.refs[t] = 1]
           none == [clean EXCEPT !.refs[t] = 0]
           gone == [none EXCEPT !.plugin = NoTarget]
           end == [gone EXCEPT !.leaked = @ \/ gone.registered # NoTarget]
<1>1. /\ d \in DropState /\ d.registered = t /\ d.plugin = t
      /\ \A u \in Target : d.refs[u] = IF u = t THEN 2 ELSE 0
      /\ d.use_after_free = FALSE /\ d.leaked = FALSE
      /\ t # NoTarget
  BY TargetsAssumption DEF Holding, Target, NoTarget
<1>2. /\ slot \in DropState /\ slot.registered = NoTarget /\ slot.plugin = t
      /\ \A u \in Target : slot.refs[u] = IF u = t THEN 2 ELSE 0
      /\ slot.use_after_free = FALSE /\ slot.leaked = FALSE
  BY <1>1 DEF DropState
<1>3. Revoke(d) = Release(slot, t)
  BY <1>1 DEF Revoke
<1> HIDE DEF slot
<1>4. /\ clean \in DropState /\ clean.registered = NoTarget /\ clean.plugin = t
      /\ \A u \in Target : clean.refs[u] = IF u = t THEN 1 ELSE 0
      /\ clean.use_after_free = FALSE /\ clean.leaked = FALSE
  BY <1>2 DEF DropState
<1>5. Release(slot, t) = clean
  <2>1. slot.refs[t] = 2 /\ slot.refs[t] - 1 = 1
    BY <1>2
  <2>2. ReleaseOnce(slot, t) = clean
    BY <2>1 DEF ReleaseOnce
  <2> QED BY <1>1, <2>1, <2>2 DEF Release
<1> HIDE DEF clean
<1>6. /\ none \in DropState /\ none.registered = NoTarget /\ none.plugin = t
      /\ \A u \in Target : none.refs[u] = 0
      /\ none.use_after_free = FALSE /\ none.leaked = FALSE
  BY <1>4 DEF DropState
<1>7. Release(clean, t) = none
  <2>1. clean.refs[t] = 1 /\ clean.refs[t] - 1 = 0
    BY <1>4
  <2>2. ReleaseOnce(clean, t) = none
    BY <2>1 DEF ReleaseOnce
  <2> QED BY <1>1, <1>6, <2>1, <2>2 DEF Release
<1> HIDE DEF none
<1>8. /\ gone \in DropState /\ gone.registered = NoTarget
      /\ gone.plugin = NoTarget /\ \A u \in Target : gone.refs[u] = 0
      /\ gone.use_after_free = FALSE /\ gone.leaked = FALSE
  BY <1>6 DEF DropState
<1>9. DestroyTarget(d) = end
  BY <1>1, <1>3, <1>4, <1>5, <1>7 DEF DestroyTarget
<1> HIDE DEF gone
<1>10. Free(end)
  BY <1>8 DEF Free, DropState
<1> QED BY <1>9, <1>10

\* No target to begin with.
LEMMA InitFree == Free(NoDropTargets)
<1>1. [t \in Target |-> 0] \in [Target -> 0 .. 2]
  OBVIOUS
<1> QED BY <1>1 DEF Free, NoDropTargets, DropState, NoTarget

\* The end of the process frees all targets.
LEMMA EndsDrop ==
  ASSUME NEW how, Ends(how)
  PROVE  DropInv'
<1>1. drop' = NoDropTargets /\ ~Running'
  BY DEF Ends, Off, Running
<1> QED BY <1>1, InitFree DEF DropInv

\* What leaves the targets and whether the application runs alone.
LEMMA DropsAlone ==
  ASSUME TypeInv, DropInv, drop' = drop, Running' <=> Running
  PROVE  DropInv'
<1>1. CASE Running
  BY <1>1 DEF DropInv
<1>2. CASE ~Running
  BY <1>2 DEF DropInv
<1> QED BY <1>1, <1>2

\* Where the steps of a start lead.
LEMMA StartingPhases ==
  ASSUME TypeInv
  PROVE  /\ \A l \in Launch, held \in Held :
              StartProcess(l, held).phase \in {"rotating", "installing"}
         /\ RotateLogs => proc'.phase = "rotating"
         /\ RedirectIOToFile => proc'.phase = "installing"
         /\ SetUp => proc'.phase = "creating"
         /\ CreateWindow => proc'.phase = "running"
  BY DEF StartProcess, RotateLogs, RedirectIOToFile, SetUp, CreateWindow,
         TypeInv, Process, Off, InstallInterposer,
         ConfigureUnattendedOperation, InstallCrashHandlers

\* What a report writes leaves the rest of the process alone.
Kept ==
  /\ proc'.phase = proc.phase /\ proc'.ops = proc.ops
  /\ proc'.held = proc.held /\ proc'.closed = proc.closed
  /\ proc'.restart = proc.restart

\* Which actions leave the phase, and what was decided at the start, alone.
LEMMA PhaseKept ==
  ASSUME TypeInv
  PROVE  /\ Streaming => Kept
         /\ Ending => (CloseWindow \/ Kept
                         \/ \E how \in {"done", "crash"} : Ends(how))
<1> USE DEF TypeInv, Process, Kept
<1>1. ASSUME Streaming
      PROVE  Kept
  BY <1>1 DEF Streaming, WritesLine, TakesLock, LineWritten, ReaderReads,
       ReaderForwards, PumpForwards, TimePasses, OperatorSelects, EngineRebuilt
<1>2. ASSUME NEW t \in Threads, Faults(t)
      PROVE  Kept
  BY <1>2 DEF Faults
<1>3. ASSUME NEW t \in Threads, WriteRecord(t) \/ WriteStackTrace(t)
      PROVE  Kept
  BY <1>3 DEF WriteRecord, WriteStackTrace, PutRecord
<1>4. ASSUME NEW t \in Threads,
             AppendToLogFile(t) \/ ReportToEventLog(t) \/ WriteMinidump(t)
      PROVE  Kept
  <2>1. PICK had : Report(t, had)
    BY <1>4 DEF AppendToLogFile, ReportToEventLog, WriteMinidump
  <2> QED BY <2>1 DEF Report
<1>5. ASSUME NEW t \in Threads, Terminates(t)
      PROVE  \E how \in {"done", "crash"} : Ends(how)
  BY <1>5 DEF Terminates
<1>6. ASSUME FailsFast \/ Killed \/ LoopEnds
      PROVE  \E how \in {"done", "crash"} : Ends(how)
  BY <1>6 DEF FailsFast, Killed, LoopEnds
<1> HIDE DEF Kept
<1> QED BY <1>1, <1>2, <1>3, <1>4, <1>5, <1>6 DEF Ending

\* No target is leaked or freed twice over starts, rebuilds and ends.
LEMMA StepDrops ==
  ASSUME TypeInv, DropInv, [Next]_vars
  PROVE  DropInv'
<1>1. CASE \E how \in {"done", "crash"} : Ends(how)
  BY <1>1, EndsDrop
<1>2. ASSUME NEW who, Starts(who)
      PROVE  DropInv'
  <2>1. drop' = drop /\ ~Running
    BY <1>2 DEF Starts, Running
  <2>2. PICK l \in Launch, held \in Held : proc' = StartProcess(l, held)
    BY <1>2, StartsWith
  <2>3. ~Running'
    BY <2>2, StartingPhases DEF Running
  <2> QED BY <2>1, <2>3, DropsAlone
<1>3. CASE RotateLogs \/ RedirectIOToFile \/ SetUp
  <2>1. drop' = drop /\ ~Running /\ ~Running'
    BY <1>3, StartingPhases
    DEF Running, RotateLogs, RedirectIOToFile, SetUp
  <2> QED BY <2>1, DropsAlone
<1>4. CASE CreateWindow
  <2>1. Free(drop) /\ drop' = CreateTarget(drop)
    BY <1>4 DEF CreateWindow, DropInv, Running
  <2>2. Running'
    BY <1>4, StartingPhases DEF Running
  <2>3. PICK t \in Target : Holding(drop', t)
    BY <2>1, TargetCreated
  <2> QED BY <2>2, <2>3 DEF DropInv
<1>5. CASE EngineRebuilt
  <2>1. PICK t \in Target : Holding(drop, t)
    BY <1>5 DEF EngineRebuilt, DropInv, Running
  <2>2. Free(DestroyTarget(drop))
    BY <2>1, TargetDestroyed
  <2>3. \E u \in Target : Holding(drop', u)
    BY <1>5, <2>2, TargetCreated DEF EngineRebuilt
  <2>4. Running'
    BY <1>5 DEF EngineRebuilt, Running
  <2> QED BY <2>3, <2>4 DEF DropInv
<1>6. CASE CloseWindow
  <2>1. drop' = drop /\ Running /\ Running'
    BY <1>6, CloseDecides DEF CloseWindow, Running
  <2> QED BY <2>1, DropsAlone
<1>7. ASSUME proc'.phase = proc.phase, drop' = drop
      PROVE  DropInv'
  BY <1>7, DropsAlone DEF Running
<1>8. CASE Streaming
  BY <1>5, <1>7, <1>8, PhaseKept
  DEF Streaming, WritesLine, TakesLock, LineWritten, ReaderReads,
      ReaderForwards, PumpForwards, TimePasses, OperatorSelects, Kept
<1>9. CASE Starting
  BY <1>1, <1>2, <1>3, <1>4, <1>9
  DEF Starting, OperatorStarts, WindowsRestarts, CreateFails
<1>10. CASE Ending
  <2>1. ASSUME NEW t \in Threads,
               Faults(t) \/ WriteRecord(t) \/ AppendToLogFile(t)
               \/ ReportToEventLog(t) \/ WriteStackTrace(t) \/ WriteMinidump(t)
        PROVE  drop' = drop
    BY <2>1 DEF Faults, WriteRecord, AppendToLogFile, ReportToEventLog,
         WriteStackTrace, WriteMinidump, Report, PutRecord
  <2> QED BY <1>1, <1>6, <1>7, <1>10, <2>1, PhaseKept
          DEF Ending, Terminates, FailsFast, Killed, LoopEnds, Kept
<1>11. CASE UNCHANGED vars
  BY <1>7, <1>11 DEF vars
<1> QED BY <1>8, <1>9, <1>10, <1>11 DEF Next

\* Nor is there one before the first start.
LEMMA InitDrops == Init => DropInv
  BY InitFree DEF Init, DropInv, Running, Off

-----------------------------------------------------------------------------
(***************************************************************************)
(* One record of a crash.                                                  *)
(***************************************************************************)
\* What neither reports nor moves a thread into a report.
LEMMA CrashAside ==
  ASSUME CrashInv, proc'.latch = proc.latch, proc'.reported = proc.reported,
         \A t \in Threads : threads'[t].pc \in InReport =>
                              threads[t].pc \in InReport
  PROVE  CrashInv'
  BY DEF CrashInv, OneCrashRecord

\* A process in which nobody has faulted.
LEMMA CrashFresh ==
  ASSUME proc'.reported = {}, \A t \in Threads : threads'[t].pc \notin InReport
  PROVE  CrashInv'
  BY DEF CrashInv, OneCrashRecord

\* The end of the process leaves such a one.
LEMMA EndsCrash ==
  ASSUME NEW how, Ends(how)
  PROVE  CrashInv'
<1>1. proc'.reported = {}
  BY DEF Ends, Off
<1>2. \A t \in Threads : threads'[t].pc \notin InReport
  BY IdleTyped DEF Ends, NoStreams, InReport
<1> QED BY <1>1, <1>2, CrashFresh

\* The first thread that faults reports, a later one goes straight to the end.
LEMMA FaultsCrash ==
  ASSUME TypeInv, CrashInv, NEW t \in Threads, Faults(t)
  PROVE  CrashInv'
<1>1. /\ proc'.latch = TRUE /\ proc'.reported = proc.reported
      /\ threads' = [threads EXCEPT ![t].pc = Enter(proc), ![t].line = Record]
      /\ threads \in [Threads -> Thread]
  BY DEF Faults, TypeInv, Process
<1>2. /\ threads'[t].pc = Enter(proc)
      /\ \A u \in Threads : u # t => threads'[u] = threads[u]
  BY <1>1 DEF Thread
<1>3. CASE proc.latch
  <2>1. Enter(proc) = "terminate"
    BY <1>3 DEF Enter
  <2>2. \A u \in Threads : threads'[u].pc \in InReport =>
                             threads[u].pc \in InReport
    BY <1>2, <2>1 DEF InReport
  <2> QED BY <1>1, <2>2, <1>3 DEF CrashInv, OneCrashRecord
<1>4. CASE ~proc.latch
  <2>1. proc.reported = {} /\ \A u \in Threads : threads[u].pc \notin InReport
    BY <1>4 DEF CrashInv
  <2>2. \A u \in Threads : threads'[u].pc \in InReport => u = t
    BY <1>2, <2>1
  <2> QED BY <1>1, <2>1, <2>2 DEF CrashInv, OneCrashRecord
<1> QED BY <1>3, <1>4

\* A report that goes on is the same report.
LEMMA ReportGoesOn ==
  ASSUME TypeInv, NEW t \in Threads, threads[t].pc \in InReport,
         threads' = [threads EXCEPT ![t].pc = NextStage(@)]
  PROVE  \A u \in Threads : threads'[u].pc \in InReport =>
                              threads[u].pc \in InReport
<1>1. threads \in [Threads -> Thread]
  BY DEF TypeInv
<1>2. \A u \in Threads : u # t => threads'[u] = threads[u]
  BY <1>1
<1> QED BY <1>2

\* A line of the report is written by the one who reports.
LEMMA PutRecordCrash ==
  ASSUME TypeInv, CrashInv, NEW t \in Threads, threads[t].pc \in InReport,
         PutRecord(t)
  PROVE  CrashInv'
  BY ReportGoesOn, CrashAside DEF PutRecord

\* So is a record.
LEMMA ReportCrash ==
  ASSUME TypeInv, CrashInv, NEW t \in Threads, threads[t].pc \in InReport,
         NEW had, Report(t, had)
  PROVE  CrashInv'
<1>1. \A u \in Threads : threads'[u].pc \in InReport =>
                           threads[u].pc \in InReport
  BY ReportGoesOn DEF Report
<1>2. CASE ~had
  BY <1>1, <1>2, CrashAside DEF Report
<1>3. CASE had
  <2>1. /\ proc'.reported = proc.reported \cup {<<t, threads[t].pc>>}
        /\ proc'.latch = proc.latch
    BY <1>3 DEF Report, TypeInv, Process
  <2>2. proc.latch /\ (\A u \in Threads : threads[u].pc \in InReport => u = t)
        /\ \A x \in proc.reported : x[1] = t
    BY DEF CrashInv
  <2>3. \A x \in proc'.reported : x[1] = t
    BY <2>1, <2>2
  <2> QED BY <1>1, <2>1, <2>2, <2>3 DEF CrashInv, OneCrashRecord
<1> QED BY <1>2, <1>3

\* What a start and the steps after it leave alone.
LEMMA StartingProc ==
  ASSUME TypeInv
  PROVE  /\ \A l \in Launch, held \in Held :
              /\ StartProcess(l, held).reported = {}
              /\ StartProcess(l, held).latch = FALSE
              /\ StartProcess(l, held).closed = FALSE
              /\ StartProcess(l, held).held = held
         /\ RotateLogs \/ RedirectIOToFile \/ SetUp \/ CreateWindow =>
              /\ proc'.reported = proc.reported /\ proc'.latch = proc.latch
              /\ proc'.closed = proc.closed
<1>1. ASSUME NEW l \in Launch, NEW held \in Held
      PROVE  /\ StartProcess(l, held).reported = {}
             /\ StartProcess(l, held).latch = FALSE
             /\ StartProcess(l, held).closed = FALSE
             /\ StartProcess(l, held).held = held
  BY DEF StartProcess, Off
<1>2. ASSUME RotateLogs \/ RedirectIOToFile \/ SetUp \/ CreateWindow
      PROVE  /\ proc'.reported = proc.reported /\ proc'.latch = proc.latch
             /\ proc'.closed = proc.closed
  BY <1>2
  DEF RotateLogs, RedirectIOToFile, SetUp, CreateWindow, TypeInv, Process,
      InstallInterposer, ConfigureUnattendedOperation, InstallCrashHandlers
<1> QED BY <1>1, <1>2

\* The end of the process is the end of its threads.
LEMMA EndsRest ==
  ASSUME NEW how, Ends(how)
  PROVE  RestInv'
  BY IdleTyped DEF Ends, NoStreams, RestInv

\* A process that has been started is not off.
LEMMA StartingRest ==
  ASSUME TypeInv, Starting
  PROVE  RestInv'
<1>1. ASSUME NEW who, Starts(who)
      PROVE  proc'.phase # "off"
  <2>1. PICK l \in Launch, held \in Held : proc' = StartProcess(l, held)
    BY <1>1, StartsWith
  <2> QED BY <2>1, StartingPhases
<1>2. RotateLogs \/ RedirectIOToFile \/ SetUp \/ CreateWindow =>
        proc'.phase # "off"
  BY StartingPhases
<1> QED BY <1>1, <1>2, EndsRest
        DEF Starting, OperatorStarts, WindowsRestarts, CreateFails, RestInv

\* No thread of a process that is off does anything.
LEMMA StepRest ==
  ASSUME TypeInv, RestInv, [Next]_vars
  PROVE  RestInv'
<1>1. ASSUME proc'.phase = proc.phase,
             proc.phase = "off" => threads' = threads
      PROVE  RestInv'
  BY <1>1 DEF RestInv
<1>2. CASE Streaming
  <2>1. proc.phase = "off" => threads' = threads
    BY <1>2 DEF Streaming, WritesLine, TakesLock, LineWritten, ReaderReads,
         ReaderForwards, PumpForwards, TimePasses, OperatorSelects,
         EngineRebuilt, streams, RestInv
  <2> QED BY <1>1, <1>2, <2>1, PhaseKept DEF Kept
<1>3. CASE Ending
  <2>1. CASE CloseWindow
    BY <2>1, CloseDecides DEF RestInv
  <2>2. CASE \E how \in {"done", "crash"} : Ends(how)
    BY <2>2, EndsRest
  <2>3. CASE ~CloseWindow /\ ~\E how \in {"done", "crash"} : Ends(how)
    <3>1. proc'.phase = proc.phase
      BY <1>3, <2>3, PhaseKept DEF Kept
    <3>2. proc.phase # "off"
      BY <1>3, <2>3
      DEF Ending, Faults, WriteRecord, AppendToLogFile, ReportToEventLog,
          WriteStackTrace, WriteMinidump, Terminates, FailsFast, Killed,
          LoopEnds, RestInv
    <3> QED BY <1>1, <3>1, <3>2
  <2> QED BY <2>1, <2>2, <2>3
<1>4. CASE UNCHANGED vars
  BY <1>1, <1>4 DEF vars
<1> QED BY <1>2, <1>3, <1>4, StartingRest DEF Next

\* A start begins with no record.
LEMMA StartsCrash ==
  ASSUME TypeInv, RestInv, CrashInv, NEW who, Starts(who)
  PROVE  CrashInv'
<1>1. PICK l \in Launch, held \in Held : proc' = StartProcess(l, held)
  BY StartsWith
<1>2. proc'.reported = {} /\ threads' = threads /\ proc.phase = "off"
  BY <1>1, StartingProc DEF Starts, streams
<1>3. \A t \in Threads : threads'[t].pc \notin InReport
  BY <1>2 DEF RestInv, InReport
<1> QED BY <1>2, <1>3, CrashFresh

\* At most one thread reports a crash.
LEMMA StepCrash ==
  ASSUME TypeInv, RestInv, CrashInv, [Next]_vars
  PROVE  CrashInv'
<1>1. ASSUME proc' = proc, threads' = threads
      PROVE  CrashInv'
  BY <1>1, CrashAside
<1>2. CASE Starting
  <2>1. CASE RotateLogs \/ RedirectIOToFile \/ SetUp \/ CreateWindow
    <3>1. threads' = threads
      BY <2>1 DEF RotateLogs, RedirectIOToFile, SetUp, CreateWindow, streams
    <3> QED BY <2>1, <3>1, StartingProc, CrashAside
  <2> QED BY <1>2, <2>1, StartsCrash, EndsCrash
          DEF Starting, OperatorStarts, WindowsRestarts, CreateFails
<1>3. CASE Streaming
  <2>1. ASSUME NEW t \in Threads, WritesLine(t)
        PROVE  CrashInv'
    <3>1. PICK line \in Line, pc \in {"lock", "writing"} :
            threads' = [threads EXCEPT ![t].pc = pc, ![t].line = line]
      BY <2>1 DEF WritesLine
    <3>2. threads \in [Threads -> Thread]
      BY DEF TypeInv
    <3>3. /\ threads'[t].pc = pc
          /\ \A u \in Threads : u # t => threads'[u] = threads[u]
      BY <3>1, <3>2 DEF Thread
    <3>4. proc'.latch = proc.latch /\ proc'.reported = proc.reported
      BY <2>1 DEF WritesLine, TypeInv, Process
    <3>5. \A u \in Threads : threads'[u].pc \in InReport =>
                                 threads[u].pc \in InReport
      BY <3>3 DEF InReport
    <3> QED BY <3>4, <3>5, CrashAside
  <2>2. ASSUME NEW t \in Threads, TakesLock(t) \/ LineWritten(t)
        PROVE  CrashInv'
    <3>1. threads \in [Threads -> Thread]
      BY DEF TypeInv
    <3>2. threads' = [threads EXCEPT ![t].pc = "logging", ![t].holds = TRUE]
          \/ threads' = [threads EXCEPT ![t] = Idle[t]]
      BY <2>2 DEF TakesLock, LineWritten
    <3>3. \A u \in Threads : u # t => threads'[u] = threads[u]
      BY <3>1, <3>2
    <3>4. threads'[t].pc \in {"logging", "idle"}
      BY <3>1, <3>2, IdleTyped DEF Thread
    <3>5. \A u \in Threads : threads'[u].pc \in InReport =>
                                 threads[u].pc \in InReport
      BY <3>3, <3>4 DEF InReport
    <3>6. proc' = proc
      BY <2>2 DEF TakesLock, LineWritten
    <3> QED BY <3>5, <3>6, CrashAside
  <2>3. CASE ReaderReads \/ ReaderForwards \/ PumpForwards \/ TimePasses
             \/ OperatorSelects \/ EngineRebuilt
    BY <1>1, <2>3 DEF ReaderReads, ReaderForwards, PumpForwards, TimePasses,
         OperatorSelects, EngineRebuilt, streams
  <2> QED BY <1>3, <2>1, <2>2, <2>3 DEF Streaming
<1>4. CASE Ending
  <2>1. ASSUME NEW t \in Threads, WriteRecord(t) \/ WriteStackTrace(t)
        PROVE  CrashInv'
    BY <2>1, PutRecordCrash DEF WriteRecord, WriteStackTrace, InReport
  <2>2. ASSUME NEW t \in Threads,
               AppendToLogFile(t) \/ ReportToEventLog(t) \/ WriteMinidump(t)
        PROVE  CrashInv'
    BY <2>2, ReportCrash
    DEF AppendToLogFile, ReportToEventLog, WriteMinidump, InReport
  <2>3. CASE CloseWindow
    <3>1. /\ threads' = threads /\ proc'.latch = proc.latch
          /\ proc'.reported = proc.reported
      BY <2>3, CloseDecides DEF CloseWindow, streams
    <3> QED BY <3>1, CrashAside
  <2> QED BY <1>4, <2>1, <2>2, <2>3, FaultsCrash, EndsCrash
          DEF Ending, Terminates, FailsFast, Killed, LoopEnds
<1>5. CASE UNCHANGED vars
  BY <1>1, <1>5 DEF vars
<1> QED BY <1>2, <1>3, <1>4, <1>5 DEF Next

\* Nobody has faulted at first.
LEMMA InitCrash == Init => RestInv /\ CrashInv
<1> SUFFICES ASSUME Init PROVE RestInv /\ CrashInv
  OBVIOUS
<1>1. proc.reported = {} /\ \A t \in Threads : threads[t].pc = "idle"
  BY IdleTyped DEF Init, Off
<1> QED BY <1>1 DEF RestInv, CrashInv, OneCrashRecord, InReport

-----------------------------------------------------------------------------
(***************************************************************************)
(* A closed application stays closed.                                      *)
(***************************************************************************)
\* What the end of the process leaves with the station.
LEMMA EndsClosed ==
  ASSUME TypeInv, CloseInv, NEW how, Ends(how)
  PROVE  CloseInv'
<1>1. proc'.closed = FALSE
  BY DEF Ends, Off
<1>2. /\ station'.closed = proc.closed /\ station'.restart = proc.restart
  BY DEF Ends, TypeInv, Station
<1>3. proc.restart \in RestartRequest
  BY DEF TypeInv, Process
<1> QED BY <1>1, <1>2, <1>3 DEF CloseInv

\* What neither closes nor starts anything.
LEMMA CloseAside ==
  ASSUME CloseInv, Kept, station' = station
  PROVE  CloseInv'
  BY DEF CloseInv, Kept

\* A start begins with nothing closed.
LEMMA StartsClosed ==
  ASSUME TypeInv, CloseInv, NEW who, Starts(who)
  PROVE  CloseInv'
<1>1. PICK l \in Launch, held \in Held :
        /\ proc' = StartProcess(l, held)
        /\ station' = [station EXCEPT !.started = who,
                         !.held = IF held = NothingHeld THEN @ ELSE boot + 1]
  BY StartsWith
<1>2. proc'.closed = FALSE
  BY <1>1, StartingProc
<1>3. station'.closed = station.closed /\ station'.restart = station.restart
  BY <1>1 DEF TypeInv, Station
<1> QED BY <1>2, <1>3 DEF CloseInv

\* The withdrawal is tried before the window goes, and a request comes back
\* with a start only.
LEMMA StepClosed ==
  ASSUME TypeInv, CloseInv, [Next]_vars
  PROVE  CloseInv'
<1>1. CASE Starting
  <2>1. CASE RotateLogs \/ RedirectIOToFile \/ SetUp \/ CreateWindow
    <3>1. proc.phase # "closing"
      BY <2>1 DEF RotateLogs, RedirectIOToFile, SetUp, CreateWindow
    <3>2. proc'.closed = proc.closed /\ ~proc.closed
      BY <2>1, <3>1, StartingProc DEF CloseInv
    <3>3. station'.closed = station.closed /\ station'.restart = station.restart
      BY <2>1 DEF RotateLogs, RedirectIOToFile, SetUp, CreateWindow, TypeInv,
           Station
    <3> QED BY <3>2, <3>3 DEF CloseInv
  <2> QED BY <1>1, <2>1, StartsClosed, EndsClosed
          DEF Starting, OperatorStarts, WindowsRestarts, CreateFails
<1>2. CASE Streaming
  <2>1. station' = station
    <3>1. ASSUME NEW t \in Threads,
                 WritesLine(t) \/ TakesLock(t) \/ LineWritten(t)
          PROVE  station' = station
      BY <3>1 DEF WritesLine, TakesLock, LineWritten
    <3>2. CASE ReaderReads \/ ReaderForwards \/ PumpForwards
      BY <3>2 DEF ReaderReads, ReaderForwards, PumpForwards
    <3>3. CASE TimePasses \/ OperatorSelects \/ EngineRebuilt
      BY <3>3 DEF TimePasses, OperatorSelects, EngineRebuilt
    <3> QED BY <1>2, <3>1, <3>2, <3>3 DEF Streaming
  <2> QED BY <1>2, <2>1, PhaseKept, CloseAside
<1>3. CASE Ending
  <2>1. CASE CloseWindow
    <3>1. /\ proc'.phase = "closing" /\ proc'.restart # "granted"
          /\ station' = station
      BY <2>1, CloseDecides DEF CloseWindow
    <3> QED BY <3>1 DEF CloseInv
  <2>2. ASSUME NEW t \in Threads,
               Faults(t) \/ WriteRecord(t) \/ AppendToLogFile(t)
               \/ ReportToEventLog(t) \/ WriteStackTrace(t) \/ WriteMinidump(t)
        PROVE  station' = station
    BY <2>2 DEF Faults, WriteRecord, AppendToLogFile, ReportToEventLog,
         WriteStackTrace, WriteMinidump, Report, PutRecord
  <2> QED BY <1>3, <2>1, <2>2, PhaseKept, CloseAside, EndsClosed
          DEF Ending, Terminates, FailsFast, Killed, LoopEnds
<1>4. CASE UNCHANGED vars
  <2>1. proc' = proc /\ station' = station
    BY <1>4, Zenon DEF vars
  <2> QED BY <2>1, Zenon DEF CloseInv
<1> QED BY <1>1, <1>2, <1>3, <1>4 DEF Next

\* Windows starts what its operator closed only if it kept the request.
LEMMA StepStaysClosed ==
  ASSUME TypeInv, CloseInv, [Next]_vars, boot' # boot,
         station'.started = "windows", station.closed
  PROVE  station.restart = "kept" /\ station.ended = "crash"
<1>1. OperatorStarts \/ WindowsRestarts
  <2>1. ASSUME NEW t \in Threads,
               WritesLine(t) \/ TakesLock(t) \/ LineWritten(t)
        PROVE  boot' = boot
    BY <2>1 DEF WritesLine, TakesLock, LineWritten
  <2>2. CASE Streaming
    BY <2>1, <2>2 DEF Streaming, ReaderReads, ReaderForwards, PumpForwards,
         TimePasses, OperatorSelects, EngineRebuilt
  <2>3. ASSUME NEW how, Ends(how) PROVE boot' = boot
    BY <2>3 DEF Ends
  <2>4. ASSUME NEW t \in Threads,
               Faults(t) \/ WriteRecord(t) \/ AppendToLogFile(t)
               \/ ReportToEventLog(t) \/ WriteStackTrace(t) \/ WriteMinidump(t)
        PROVE  boot' = boot
    BY <2>4 DEF Faults, WriteRecord, AppendToLogFile, ReportToEventLog,
         WriteStackTrace, WriteMinidump, Report, PutRecord
  <2>5. CASE CloseWindow
    BY <2>5 DEF CloseWindow
  <2>6. CASE Ending
    BY <2>3, <2>4, <2>5, <2>6
       DEF Ending, Terminates, FailsFast, Killed, LoopEnds
  <2>7. CASE RotateLogs \/ RedirectIOToFile \/ SetUp
    BY <2>7 DEF RotateLogs, RedirectIOToFile, SetUp
  <2>8. CASE CreateWindow \/ CreateFails
    BY <2>3, <2>8 DEF CreateWindow, CreateFails
  <2>9. CASE UNCHANGED vars
    BY <2>9, Zenon DEF vars
  <2> QED BY <2>2, <2>6, <2>7, <2>8, <2>9 DEF Next, Starting
<1>2. CASE OperatorStarts
  <2>1. PICK held \in Held :
          station' = [station EXCEPT !.started = "operator",
                         !.held = IF held = NothingHeld THEN @ ELSE boot + 1]
    BY <1>2, StartsWith DEF OperatorStarts
  <2>2. station'.started = "operator"
    BY <2>1 DEF TypeInv, Station
  <2> QED BY <2>2
<1>3. CASE WindowsRestarts
  BY <1>3 DEF WindowsRestarts, CloseInv, RestartRequest
<1> QED BY <1>1, <1>2, <1>3

\* Nothing has been closed at first.
LEMMA InitClosed == Init => CloseInv
<1> SUFFICES ASSUME Init PROVE CloseInv
  OBVIOUS
<1>1. station.closed \in {FALSE} /\ proc.closed = FALSE
  BY DEF Init, Off
<1>2. station.restart \in {"none"}
  BY DEF Init
<1> QED BY <1>1, <1>2 DEF CloseInv, RestartRequest

-----------------------------------------------------------------------------
(***************************************************************************)
(* Logs that are moved aside.                                              *)
(***************************************************************************)
\* What the renames of a rotation begin with and leave.
LEMMA RenamesShape ==
  ASSUME NEW r \in 0 .. MaxArchives
  PROVE  /\ r = 0 => Renames(r) = <<>>
         /\ r # 0 => /\ Renames(r) # <<>>
                     /\ Head(Renames(r)) = Rename(r - 1)
                     /\ Tail(Renames(r)) = Renames(r - 1)
<1>1. r \in Nat /\ Renames(r) \in Seq(FileOp) /\ Len(Renames(r)) = r
  BY RenamesType, ArchivesAssumption
<1>2. ASSUME r = 0 PROVE Renames(r) = <<>>
  BY <1>1, <1>2, EmptySeq
<1>3. ASSUME r # 0
      PROVE  /\ Renames(r) # <<>>
             /\ Head(Renames(r)) = Rename(r - 1)
             /\ Tail(Renames(r)) = Renames(r - 1)
  <2>1. Renames(r) # <<>>
    BY <1>1, <1>3
  <2>2. Renames(r)[1] = Rename(r - 1)
    BY <1>1, <1>3 DEF Renames
  <2>3. Head(Renames(r)) = Rename(r - 1)
    BY <1>1, <2>1, <2>2
  <2>4. r - 1 \in 0 .. MaxArchives
    BY <1>1, <1>3, ArchivesAssumption
  <2>5. Renames(r - 1) \in Seq(FileOp) /\ Len(Renames(r - 1)) = r - 1
    BY <2>4, RenamesType
  <2>6. Tail(Renames(r)) \in Seq(FileOp) /\ Len(Tail(Renames(r))) = r - 1
    BY <1>1, <2>1
  <2>7. \A i \in 1 .. r - 1 : Tail(Renames(r))[i] = Renames(r - 1)[i]
    <3> SUFFICES ASSUME NEW i \in 1 .. r - 1
                 PROVE  Tail(Renames(r))[i] = Renames(r - 1)[i]
      OBVIOUS
    <3>1. Tail(Renames(r))[i] = Renames(r)[i + 1]
      BY <1>1, <2>1
    <3>2. i + 1 \in 1 .. r /\ r - (i + 1) = (r - 1) - i
      BY <1>1
    <3>3. Renames(r)[i + 1] = Rename(r - (i + 1))
      BY <3>2 DEF Renames
    <3>4. Renames(r - 1)[i] = Rename((r - 1) - i)
      BY DEF Renames
    <3> QED BY <3>1, <3>2, <3>3, <3>4
  <2>8. Tail(Renames(r)) = Renames(r - 1)
    BY <2>5, <2>6, <2>7, SeqEqual
  <2> QED BY <2>1, <2>3, <2>8
<1> QED BY <1>2, <1>3

\* A plan deletes the oldest log and moves the rest.
LEMMA PlanShape ==
  ASSUME NEW a \in 0 .. MaxArchives
  PROVE  /\ PlanRotation(a) # <<>> /\ Head(PlanRotation(a)) = Delete(a)
         /\ Tail(PlanRotation(a)) = Renames(a)
<1>1. Delete(a) \in FileOp
  BY DeleteType, ArchivesAssumption DEF Generation
<1>2. CASE a = 0
  <2>1. PlanRotation(a) = <<Delete(a)>> /\ Renames(a) = <<>>
    BY <1>2, RenamesShape DEF PlanRotation
  <2> QED BY <1>1, <2>1
<1>3. CASE a # 0
  <2>1. PlanRotation(a) = <<Delete(a)>> \o Renames(a)
    BY <1>3 DEF PlanRotation, Renames
  <2>2. Renames(a) \in Seq(FileOp)
    BY RenamesType
  <2>3. <<Delete(a)>> \in Seq(FileOp)
    BY <1>1
  <2> DEFINE s == <<Delete(a)>> \o Renames(a)
  <2>4. /\ s \in Seq(FileOp) /\ Len(s) = Len(Renames(a)) + 1
        /\ s[1] = Delete(a)
        /\ \A i \in 1 .. Len(Renames(a)) : s[i + 1] = Renames(a)[i]
    BY <2>2, <2>3
  <2> HIDE DEF s
  <2>5. s # <<>> /\ Head(s) = Delete(a)
    BY <2>2, <2>4
  <2>6. /\ Tail(s) \in Seq(FileOp) /\ Len(Tail(s)) = Len(Renames(a))
        /\ \A i \in 1 .. Len(Tail(s)) : Tail(s)[i] = s[i + 1]
    BY <2>2, <2>4, <2>5
  <2>7. Tail(s) = Renames(a)
    BY <2>2, <2>4, <2>6, SeqEqual
  <2> QED BY <2>1, <2>5, <2>7 DEF s
<1> QED BY <1>2, <1>3

\* What is known of the station while logs are moved.
LEMMA RotationTypes ==
  ASSUME TypeInv
  PROVE  /\ station.archives \in 0 .. MaxArchives
         /\ station.held \in Nat /\ station.logged \in SUBSET Nat
         /\ boot \in Nat /\ disk \in [Generation -> 0 .. MaxBoots]
         /\ proc.held \in Held
         /\ NothingHeld \notin Generation /\ 0 \in Generation
         /\ \A g \in Generation : g \in Nat
<1>1. station.archives \in Archives /\ Archives \subseteq 0 .. MaxArchives
  BY ProcessConstants DEF TypeInv, Station
<1>2. station.held \in Nat /\ station.logged \in SUBSET Nat
  BY DEF TypeInv, Station
<1>3. boot \in Nat /\ disk \in [Generation -> 0 .. MaxBoots]
  BY ProcessConstants DEF TypeInv
<1>4. proc.held \in Held
  BY DEF TypeInv, Process
<1>5. /\ NothingHeld \notin Generation /\ 0 \in Generation
      /\ \A g \in Generation : g \in Nat
  BY ArchivesAssumption DEF NothingHeld, Generation
<1> QED BY <1>1, <1>2, <1>3, <1>4, <1>5

\* No log is owed while a file is held open.
LEMMA NothingDue ==
  ASSUME TypeInv, station.logged \subseteq 1 .. boot, station.held = boot,
         boot \notin station.logged
  PROVE  Due = {}
<1> SUFFICES ASSUME NEW b \in Due PROVE FALSE
  OBVIOUS
<1>1. b \in station.logged /\ b >= station.held
  BY DEF Due
<1>2. b \in 1 .. boot /\ b # boot /\ boot \in Nat
  BY <1>1, RotationTypes
<1> QED BY <1>1, <1>2

\* The oldest log is deleted.
LEMMA OldestDeleted ==
  ASSUME TypeInv, NEW a \in Generation, NEW d, NEW held,
         d = RotateFile(disk, Delete(a), held)
  PROVE  /\ held = NothingHeld => d[a] = 0
         /\ \A g \in Generation : g # a => d[g] = disk[g]
<1>1. Delete(a).op = "delete" /\ Delete(a).from = a
  BY DEF Delete
<1>2. d = IF held = a \/ disk[a] = 0 THEN disk ELSE [disk EXCEPT ![a] = 0]
  BY <1>1 DEF RotateFile
<1> QED BY <1>2, RotationTypes

\* A log moves one generation up, where nothing is.
LEMMA LogRenamed ==
  ASSUME TypeInv, NEW g \in Generation, g + 1 \in Generation, NEW d,
         d = RotateFile(disk, Rename(g), NothingHeld), disk[g + 1] = 0
  PROVE  /\ d[g] = 0 /\ d[g + 1] = disk[g]
         /\ \A x \in Generation : x # g /\ x # g + 1 => d[x] = disk[x]
<1>1. /\ Rename(g).op = "rename" /\ Rename(g).from = g
      /\ Rename(g).to = g + 1
  BY DEF Rename
<1>2. NothingHeld # g /\ NothingHeld # g + 1 /\ g # g + 1
  BY RotationTypes
<1>3. d = IF disk[g] = 0 THEN disk
          ELSE [disk EXCEPT ![g + 1] = disk[g], ![g] = 0]
  BY <1>1, <1>2 DEF RotateFile
<1> QED BY <1>2, <1>3, RotationTypes

\* A file operation of the rotation, carried out or not, loses no log that is
\* owed.
LEMMA RotateLogsPlaced ==
  ASSUME TypeInv, RotationInv, RotateLogs
  PROVE  RotationInv'
<1> DEFINE a == station.archives
<1>1. PICK r \in 0 .. a + 1 :
        /\ proc.ops = Remaining(r)
        /\ r <= a /\ proc.held = NothingHeld => disk[r] = 0
        /\ \A b \in Due : Placed(b, r)
  BY DEF RotationInv, RotateLogs
<1>2. /\ proc.phase = "rotating" /\ proc.ops # <<>>
      /\ disk' = RotateFile(disk, Head(proc.ops), proc.held)
      /\ boot' = boot /\ station' = station
  BY DEF RotateLogs
<1>3. /\ proc'.phase = "rotating" /\ proc'.ops = Tail(proc.ops)
      /\ proc'.held = proc.held
  BY DEF RotateLogs, TypeInv, Process
<1>4. a \in 0 .. MaxArchives /\ a \in Generation /\ a \in Nat /\ r \in Nat
      /\ a # a + 1
  BY RotationTypes, ArchivesAssumption DEF Generation
<1>5. Due' = Due
  BY <1>2 DEF Due
<1>6. ASSUME NEW q \in 0 .. a, proc'.ops = Renames(q),
             proc.held = NothingHeld => disk'[q] = 0,
             \A b \in Due : Placed(b, q)'
      PROVE  RotationInv'
  <2>1. q \in 0 .. a + 1 /\ q # a + 1 /\ station'.archives = a
    BY <1>2, <1>4
  <2>2. proc'.ops = Remaining(q)'
    BY <1>6, <2>1 DEF Remaining
  <2>3. /\ proc'.phase = "rotating" /\ q <= station'.archives
             /\ proc'.held = NothingHeld => disk'[q] = 0
        /\ \A b \in Due' : Placed(b, q)'
    BY <1>3, <1>5, <1>6
  <2>4. /\ station'.logged \subseteq 1 .. boot' /\ station'.held <= boot'
        /\ proc'.held # NothingHeld => station'.held = boot'
        /\ boot' # 0 /\ boot' \notin station'.logged
    BY <1>2, <1>3 DEF RotationInv
  <2> QED BY <1>3, <2>1, <2>2, <2>3, <2>4 DEF RotationInv
<1>7. CASE r = a + 1
  <2>1. proc.ops = PlanRotation(a)
    BY <1>1, <1>7 DEF Remaining
  <2>2. proc'.ops = Renames(a) /\ Head(proc.ops) = Delete(a)
    BY <1>3, <1>4, <2>1, PlanShape
  <2>3. /\ proc.held = NothingHeld => disk'[a] = 0
        /\ \A g \in Generation : g # a => disk'[g] = disk[g]
    BY <1>2, <1>4, <2>2, OldestDeleted
  <2>4. ASSUME NEW b \in Due PROVE Placed(b, a)'
    <3>1. PICK g \in Generation :
            /\ disk[g] = b /\ g <= boot - b
            /\ g < a + 1 => g + 1 <= boot - b
      BY <1>1, <1>7 DEF Placed
    <3>2. b \in Nat /\ boot - b <= a /\ boot \in Nat /\ g \in Nat
      BY RotationTypes DEF Due
    <3>3. g < a /\ g + 1 <= boot - b
      BY <1>4, <3>1, <3>2
    <3>4. disk'[g] = b /\ g <= boot' - b /\ g + 1 <= boot' - b
      BY <1>2, <1>4, <2>3, <3>1, <3>2, <3>3
    <3> QED BY <3>4 DEF Placed
  <2>5. PICK q : q = a
    OBVIOUS
  <2>6. q \in 0 .. a /\ proc'.ops = Renames(q)
    BY <1>4, <2>2, <2>5
  <2>7. proc.held = NothingHeld => disk'[q] = 0
    BY <2>3, <2>5
  <2>8. \A b \in Due : Placed(b, q)'
    BY <1>2, <2>4, <2>5 DEF Placed
  <2> QED BY <1>6, <2>6, <2>7, <2>8
<1>8. CASE r # a + 1
  <2> DEFINE g == r - 1
  <2>1. proc.ops = Renames(r) /\ r <= a /\ r \in 0 .. MaxArchives
    BY <1>1, <1>4, <1>8, ArchivesAssumption DEF Remaining
  <2>2. r # 0 /\ Head(proc.ops) = Rename(g) /\ Tail(proc.ops) = Renames(g)
    BY <1>2, <2>1, RenamesShape
  <2>3. /\ g \in 0 .. a /\ g \in Generation /\ g + 1 = r
        /\ g + 1 \in Generation /\ g \in Nat
    BY <1>4, <2>1, <2>2, ArchivesAssumption DEF Generation
  <2> HIDE DEF g
  <2>4. CASE proc.held # NothingHeld
    <3>1. Due = {}
      BY <1>2, <2>4, NothingDue DEF RotationInv
    <3>2. \A b \in Due : Placed(b, g)'
      BY <3>1
    <3>3. proc'.ops = Renames(g)
      BY <1>3, <2>2
    <3> QED BY <1>6, <2>3, <2>4, <3>2, <3>3
  <2>5. CASE proc.held = NothingHeld
    <3>1. disk[g + 1] = 0
      BY <1>1, <2>1, <2>3, <2>5
    <3>2. /\ disk'[g] = 0 /\ disk'[g + 1] = disk[g]
          /\ \A x \in Generation :
               x # g /\ x # g + 1 => disk'[x] = disk[x]
      BY <1>2, <2>2, <2>3, <2>5, <3>1, LogRenamed
    <3>3. ASSUME NEW b \in Due PROVE Placed(b, g)'
      <4>1. PICK x \in Generation :
              /\ disk[x] = b /\ x <= boot - b
              /\ x < r => x + 1 <= boot - b
        BY <1>1 DEF Placed
      <4>2. b \in 1 .. boot
        BY DEF Due, RotationInv
      <4>3. x # g + 1 /\ x \in Nat /\ boot \in Nat
        BY <3>1, <4>1, <4>2, RotationTypes
      <4>4. CASE x = g
        <5>1. disk'[g + 1] = b /\ g + 1 <= boot - b /\ ~(g + 1 < g)
          BY <2>3, <3>2, <4>1, <4>4
        <5> QED BY <1>2, <2>3, <5>1 DEF Placed
      <4>5. CASE x # g
        <5>1. /\ disk'[x] = b /\ x <= boot - b
              /\ x < g => x + 1 <= boot - b
          BY <2>3, <3>2, <4>1, <4>3, <4>5
        <5> QED BY <1>2, <5>1 DEF Placed
      <4> QED BY <4>4, <4>5
    <3>4. proc'.ops = Renames(g)
      BY <1>3, <2>2
    <3> QED BY <1>6, <2>3, <3>2, <3>3, <3>4
  <2> QED BY <2>4, <2>5
<1> QED BY <1>7, <1>8

\* Opening the new log truncates a file that nothing is owed of.
LEMMA RedirectPlaced ==
  ASSUME TypeInv, RotationInv, RedirectIOToFile
  PROVE  RotationInv'
<1>1. PICK opened \in BOOLEAN :
        /\ disk' = IF opened THEN [disk EXCEPT ![0] = boot] ELSE disk
        /\ station' = IF opened THEN [station EXCEPT !.logged = @ \cup {boot}]
                      ELSE station
  BY DEF RedirectIOToFile
<1>2. /\ proc.phase = "rotating" /\ proc.ops = <<>> /\ boot' = boot
      /\ proc'.held = NothingHeld /\ proc'.phase = "installing"
  BY DEF RedirectIOToFile, TypeInv, Process
<1>3. PICK r \in 0 .. station.archives + 1 :
        /\ proc.ops = Remaining(r)
        /\ r <= station.archives /\ proc.held = NothingHeld => disk[r] = 0
        /\ \A b \in Due : Placed(b, r)
  BY <1>2 DEF RotationInv
<1>4. r = 0
  <2>1. r # station.archives + 1
    BY <1>2, <1>3, RotationTypes, PlanShape DEF Remaining
  <2>2. r \in 0 .. MaxArchives /\ proc.ops = Renames(r)
    BY <1>3, <2>1, RotationTypes, ArchivesAssumption DEF Remaining
  <2> QED BY <1>2, <2>2, RenamesShape
<1>5. /\ station.logged \subseteq 1 .. boot /\ station.held <= boot
      /\ boot # 0 /\ boot \notin station.logged /\ boot \in Nat
      /\ proc.held # NothingHeld => station.held = boot
  BY <1>2, RotationTypes DEF RotationInv
<1>6. /\ station'.archives = station.archives /\ station'.held = station.held
      /\ station'.logged = IF opened THEN station.logged \cup {boot}
                           ELSE station.logged
  BY <1>1 DEF TypeInv, Station
<1>7. station.archives \in Nat /\ station.held \in Nat /\ 0 \in Generation
  BY RotationTypes
<1>8. ASSUME NEW b \in Due' PROVE Placed(b, 0)'
  <2>1. /\ b \in station'.logged /\ b >= station.held
        /\ boot - b <= station.archives
    BY <1>2, <1>6 DEF Due
  <2>2. CASE b = boot
    <3>1. opened
      BY <1>5, <1>6, <2>1, <2>2
    <3>2. disk'[0] = b /\ 0 <= boot' - b /\ ~(0 < 0)
      BY <1>1, <1>2, <1>5, <2>2, <3>1, RotationTypes
    <3> QED BY <1>7, <3>2 DEF Placed
  <2>3. CASE b # boot
    <3>1. b \in Due
      BY <1>6, <2>1, <2>3 DEF Due
    <3>2. proc.held = NothingHeld
      BY <1>5, <3>1, NothingDue
    <3>3. disk[0] = 0
      BY <1>3, <1>4, <1>7, <3>2
    <3>4. PICK g \in Generation : disk[g] = b /\ g <= boot - b
      BY <1>3, <3>1 DEF Placed
    <3>5. b \in 1 .. boot
      BY <1>5, <3>1 DEF Due
    <3>6. g # 0 /\ g \in Nat
      BY <3>3, <3>4, <3>5, RotationTypes
    <3>7. disk'[g] = b /\ g <= boot' - b /\ ~(g < 0)
      BY <1>1, <1>2, <3>4, <3>6, RotationTypes
    <3> QED BY <3>7 DEF Placed
  <2> QED BY <2>2, <2>3
<1>9. station'.logged \subseteq 1 .. boot' /\ station'.held <= boot'
  BY <1>2, <1>5, <1>6
<1>10. 0 \in 0 .. station'.archives + 1
  BY <1>6, <1>7
<1> QED BY <1>2, <1>8, <1>9, <1>10 DEF RotationInv

\* A start gives every log one more generation to go to.
LEMMA StartsPlaced ==
  ASSUME TypeInv, RotationInv, NEW who, Starts(who)
  PROVE  RotationInv'
<1>1. PICK l \in Launch, held \in Held :
        /\ proc' = StartProcess(l, held)
        /\ held # NothingHeld => proc'.logs /\ disk[held] # 0
        /\ station' = [station EXCEPT !.started = who,
                         !.held = IF held = NothingHeld THEN @ ELSE boot + 1]
  BY StartsWith
<1>2. proc.phase = "off" /\ boot' = boot + 1 /\ disk' = disk
  BY DEF Starts
<1>3. /\ proc'.held = held
      /\ proc'.phase = "rotating" => proc'.ops = PlanRotation(station.archives)
      /\ proc'.phase = IF proc'.logs THEN "rotating" ELSE "installing"
  BY <1>1 DEF StartProcess, Off
<1>4. /\ station'.archives = station.archives
      /\ station'.logged = station.logged
      /\ station'.held = IF held = NothingHeld THEN station.held ELSE boot + 1
  BY <1>1 DEF TypeInv, Station
<1>5. /\ station.logged \subseteq 1 .. boot /\ station.held <= boot
      /\ boot \in Nat /\ station.held \in Nat /\ station.archives \in Nat
  BY RotationTypes DEF RotationInv
<1>6. \A b \in Due : Placed(b, 0)
  BY <1>2 DEF RotationInv
<1>7. ASSUME NEW b \in Due', NEW r \in Nat PROVE Placed(b, r)'
  <2>1. b \in station.logged /\ b >= station'.held
        /\ boot + 1 - b <= station.archives
    <3>1. /\ b \in station'.logged /\ b >= station'.held
          /\ boot' - b <= station'.archives
      BY DEF Due
    <3>2. /\ station'.logged = station.logged
          /\ station'.archives = station.archives
      BY <1>4
    <3>3. boot' - b <= station.archives
      BY <3>1, <3>2, Zenon
    <3>4. boot + 1 - b <= station.archives
      <4>1. boot' = boot + 1 /\ b \in Nat
        BY <1>2, <1>5, <3>1, <3>2, RotationTypes
      <4> QED BY <1>5, <3>3, <4>1
    <3> QED BY <3>1, <3>2, <3>4, Zenon
  <2>2. b \in 1 .. boot
    BY <1>5, <2>1
  <2>3. held = NothingHeld
    BY <1>4, <1>5, <2>1, <2>2
  <2>4. b \in Due
    BY <1>4, <1>5, <2>1, <2>2, <2>3 DEF Due
  <2>5. PICK g \in Generation : disk[g] = b /\ g <= boot - b
    BY <1>6, <2>4 DEF Placed
  <2>6. g \in Nat
    BY RotationTypes
  <2>7. disk'[g] = b /\ g <= boot' - b /\ g + 1 <= boot' - b
    BY <1>2, <1>5, <2>2, <2>5, <2>6
  <2> QED BY <2>7 DEF Placed
<1>8. /\ station'.logged \subseteq 1 .. boot' /\ station'.held <= boot'
      /\ boot' # 0 /\ boot' \notin station'.logged
      /\ proc'.held # NothingHeld => station'.held = boot'
  BY <1>2, <1>3, <1>4, <1>5
<1>9. CASE proc'.phase = "rotating"
  <2>1. PICK r : r = station.archives + 1
    OBVIOUS
  <2>2. /\ r \in 0 .. station'.archives + 1 /\ r \in Nat
        /\ ~(r <= station'.archives)
    BY <1>4, <1>5, <2>1
  <2>3. proc'.ops = Remaining(r)'
    BY <1>3, <1>4, <1>9, <2>1 DEF Remaining
  <2>4. \A b \in Due' : Placed(b, r)'
    BY <1>7, <2>2
  <2> QED BY <1>8, <1>9, <2>2, <2>3, <2>4 DEF RotationInv
<1>10. CASE proc'.phase # "rotating"
  <2>1. 0 \in 0 .. station'.archives + 1 /\ 0 \in Nat
    BY <1>4, <1>5
  <2>2. \A b \in Due' : Placed(b, 0)'
    BY <1>7, <2>1
  <2> QED BY <1>8, <1>10, <2>1, <2>2 DEF RotationInv
<1> QED BY <1>9, <1>10

\* The station as far as logs go, left alone.
LogsKept ==
  /\ disk' = disk /\ boot' = boot
  /\ station'.archives = station.archives /\ station'.held = station.held
  /\ station'.logged = station.logged

\* What leaves the logs and the rotation alone.
LEMMA RotationAside ==
  ASSUME RotationInv, LogsKept, Kept
  PROVE  RotationInv'
<1>1. Due' = Due
  BY DEF Due, LogsKept
<1>2. \A b, r : Placed(b, r)' <=> Placed(b, r)
  BY DEF Placed, LogsKept
<1>3. \A r : Remaining(r)' = Remaining(r)
  BY DEF Remaining, LogsKept
<1> QED BY <1>1, <1>2, <1>3 DEF RotationInv, LogsKept, Kept

\* A rotation that is over, or is given up in the middle.
LEMMA RotationDone ==
  ASSUME TypeInv, RotationInv, LogsKept, proc'.phase # "rotating",
         proc'.held \in {NothingHeld, proc.held}
  PROVE  RotationInv'
<1>1. Due' = Due
  BY DEF Due, LogsKept
<1>2. PICK r : \A b \in Due : Placed(b, r)
  BY DEF RotationInv
<1>3. ASSUME NEW b \in Due PROVE Placed(b, 0)'
  <2>1. PICK g \in Generation : disk[g] = b /\ g <= boot - b
    BY <1>2 DEF Placed
  <2>2. ~(g < 0)
    BY RotationTypes
  <2> QED BY <2>1, <2>2 DEF Placed, LogsKept
<1>4. 0 \in 0 .. station'.archives + 1
  BY RotationTypes DEF LogsKept
<1>5. /\ station'.logged \subseteq 1 .. boot' /\ station'.held <= boot'
      /\ proc'.held # NothingHeld => station'.held = boot'
  BY DEF RotationInv, LogsKept
<1> QED BY <1>1, <1>3, <1>4, <1>5 DEF RotationInv

\* No step loses a log before its time.
LEMMA StepRotation ==
  ASSUME TypeInv, RotationInv, [Next]_vars
  PROVE  RotationInv'
<1>1. ASSUME NEW how, Ends(how)
      PROVE  RotationInv'
  <2>1. /\ proc'.phase = "off" /\ proc'.held = NothingHeld
        /\ disk' = disk /\ boot' = boot
    BY <1>1 DEF Ends, Off
  <2>2. LogsKept
    BY <1>1, <2>1 DEF Ends, LogsKept, TypeInv, Station
  <2> QED BY <2>1, <2>2, RotationDone
<1>2. CASE SetUp \/ CreateWindow \/ CloseWindow
  <2>1. LogsKept
    BY <1>2 DEF SetUp, CreateWindow, CloseWindow, LogsKept
  <2>2. proc'.phase \in {"creating", "running", "closing"}
    BY <1>2, StartingPhases, CloseDecides
  <2>3. proc'.held = proc.held
    BY <1>2, CloseDecides DEF SetUp, CreateWindow, TypeInv, Process,
         InstallInterposer, ConfigureUnattendedOperation, InstallCrashHandlers
  <2> QED BY <2>1, <2>2, <2>3, RotationDone
<1>3. CASE Starting
  BY <1>1, <1>2, <1>3, StartsPlaced, RotateLogsPlaced, RedirectPlaced
  DEF Starting, OperatorStarts, WindowsRestarts, CreateFails
<1>4. CASE Streaming
  <2>1. LogsKept
    BY <1>4 DEF Streaming, WritesLine, TakesLock, LineWritten, ReaderReads,
         ReaderForwards, PumpForwards, TimePasses, OperatorSelects,
         EngineRebuilt, LogsKept
  <2> QED BY <1>4, <2>1, PhaseKept, RotationAside
<1>5. CASE Ending
  <2>1. ASSUME NEW t \in Threads,
               Faults(t) \/ WriteRecord(t) \/ AppendToLogFile(t)
               \/ ReportToEventLog(t) \/ WriteStackTrace(t) \/ WriteMinidump(t)
        PROVE  LogsKept
    BY <2>1 DEF Faults, WriteRecord, AppendToLogFile, ReportToEventLog,
         WriteStackTrace, WriteMinidump, Report, PutRecord, LogsKept
  <2> QED BY <1>1, <1>2, <1>5, <2>1, PhaseKept, RotationAside
          DEF Ending, Terminates, FailsFast, Killed, LoopEnds
<1>6. CASE UNCHANGED vars
  BY <1>6, RotationAside DEF vars, LogsKept, Kept
<1> QED BY <1>3, <1>4, <1>5, <1>6 DEF Next

\* No log is owed at first.
LEMMA InitRotation == Init => RotationInv
<1> SUFFICES ASSUME Init PROVE RotationInv
  OBVIOUS
<1>1. boot = 0 /\ proc.phase = "off" /\ proc.held = NothingHeld
  BY DEF Init, Off
<1>2. station \in [archives : Archives, ended : {"never"}, closed : {FALSE},
                   restart : {"none"}, started : {"operator"}, held : {0},
                   logged : {{}}]
  BY DEF Init
<1>3. station.archives \in Archives /\ station.held = 0 /\ station.logged = {}
  BY <1>2
<1>4. Due = {}
  BY <1>3 DEF Due
<1>5. station.archives \in Nat
  <2>1. station.archives \in 0 .. MaxArchives
    BY <1>3, ProcessConstants
  <2> QED BY <2>1
<1>6. 0 \in 0 .. station.archives + 1
  BY <1>5
<1> QED BY <1>1, <1>3, <1>4, <1>6 DEF RotationInv

\* What is owed is on the disk.
LEMMA RotationKeeps ==
  ASSUME RotationInv
  PROVE  KeptForItsStarts
<1> SUFFICES ASSUME NEW b \in station.logged, b >= station.held,
                    boot - b <= station.archives
             PROVE  \E g \in Generation : disk[g] = b
  BY DEF KeptForItsStarts
<1>1. b \in Due
  BY DEF Due
<1> QED BY <1>1 DEF RotationInv, Placed

-----------------------------------------------------------------------------
(***************************************************************************)
(* The storm detector sees lines.                                          *)
(***************************************************************************)
\* A line is a text that begins after one and ends one.
LEMMA LinesReadOn ==
  ASSUME NEW line \in Line \cup {Record}
  PROVE  /\ line \in Seq(Symbol) /\ ReadsOn("n", line)
         /\ \A c \in Symbol : LastOf(c, line) = "n"
<1>1. line \in Seq(Symbol)
  BY LineType
<1>2. CASE line = <<"a", "b", "n">>
  <2>1. /\ Len(line) = 3 /\ line # <<>>
        /\ line[1] = "a" /\ line[2] = "b" /\ line[3] = "n"
    BY <1>2
  <2>2. \A i \in 1 .. 3 - 1 : i = 1 \/ i = 2
    OBVIOUS
  <2> HIDE <1>2
  <2>3. \A i \in 1 .. Len(line) - 1 : <<line[i], line[i + 1]>> \in Follows
    BY <2>1, <2>2 DEF Follows
  <2> QED BY <1>1, <2>1, <2>3 DEF ReadsOn, LastOf, Follows
<1>3. CASE line = <<"o", "n">>
  <2>1. Len(line) = 2 /\ line # <<>> /\ line[1] = "o" /\ line[2] = "n"
    BY <1>3
  <2>2. \A i \in 1 .. 2 - 1 : i = 1
    OBVIOUS
  <2> HIDE <1>3
  <2>3. \A i \in 1 .. Len(line) - 1 : <<line[i], line[i + 1]>> \in Follows
    BY <2>1, <2>2 DEF Follows
  <2> QED BY <1>1, <2>1, <2>3 DEF ReadsOn, LastOf, Follows
<1>4. CASE line = <<"o", "o", "o", "n">>
  <2>1. /\ Len(line) = 4 /\ line # <<>> /\ line[1] = "o" /\ line[2] = "o"
        /\ line[3] = "o" /\ line[4] = "n"
    BY <1>4
  <2>2. \A i \in 1 .. 4 - 1 : i = 1 \/ i = 2 \/ i = 3
    OBVIOUS
  <2> HIDE <1>4
  <2>3. \A i \in 1 .. Len(line) - 1 : <<line[i], line[i + 1]>> \in Follows
    BY <2>1, <2>2 DEF Follows
  <2> QED BY <1>1, <2>1, <2>3 DEF ReadsOn, LastOf, Follows
<1> QED BY <1>2, <1>3, <1>4 DEF Line, Record

\* A text that reads on from another makes one text with it.
LEMMA TextsJoin ==
  ASSUME NEW c \in Symbol, NEW p \in Seq(Symbol), NEW q \in Seq(Symbol),
         ReadsOn(c, p), ReadsOn(LastOf(c, p), q)
  PROVE  /\ ReadsOn(c, p \o q)
         /\ LastOf(c, p \o q) = LastOf(LastOf(c, p), q)
<1> DEFINE s == p \o q
           m == Len(p)
           n == Len(q)
<1>1. /\ m \in Nat /\ n \in Nat /\ s \in Seq(Symbol) /\ Len(s) = m + n
      /\ \A i \in 1 .. m : s[i] = p[i]
      /\ \A i \in m + 1 .. m + n : s[i] = q[i - m]
  BY ConcatProperties
<1>2. (p = <<>> <=> m = 0) /\ (q = <<>> <=> n = 0)
  BY EmptySeq
<1> HIDE DEF s, m, n
<1>3. s = <<>> <=> m = 0 /\ n = 0
  BY <1>1, EmptySeq
<1>4. LastOf(c, p) = IF m = 0 THEN c ELSE p[m]
  BY <1>2 DEF LastOf, m
<1>5. CASE n = 0
  <2>1. q = <<>> /\ Len(s) = m /\ \A i \in 1 .. m : s[i] = p[i]
    BY <1>1, <1>2, <1>5
  <2>2. s = p
    BY <1>1, <2>1, SeqEqual DEF m
  <2> QED BY <2>1, <2>2 DEF LastOf, s
<1>6. CASE n # 0
  <2>1. LastOf(c, s) = q[n] /\ LastOf(LastOf(c, p), q) = q[n]
    <3>1. s[m + n] = q[n] /\ m + n # 0
      BY <1>1, <1>6
    <3> QED BY <1>1, <1>2, <1>3, <1>6, <3>1 DEF LastOf, n
  <2>2. <<LastOf(c, p), q[1]>> \in Follows
    BY <1>2, <1>6 DEF ReadsOn
  <2>3. s[m + 1] = q[1]
    BY <1>1, <1>6
  <2>4. <<c, s[1]>> \in Follows
    <3>1. CASE m = 0
      BY <1>4, <2>2, <2>3, <3>1
    <3>2. CASE m # 0
      <4>1. s[1] = p[1]
        BY <1>1, <3>2
      <4> QED BY <1>2, <3>2, <4>1 DEF ReadsOn
    <3> QED BY <3>1, <3>2
  <2>5. ASSUME NEW i \in 1 .. Len(s) - 1
        PROVE  <<s[i], s[i + 1]>> \in Follows
    <3>1. i \in Nat /\ i >= 1 /\ i <= m + n - 1
      BY <1>1
    <3>2. CASE i < m
      <4>1. s[i] = p[i] /\ s[i + 1] = p[i + 1] /\ i \in 1 .. m - 1
        BY <1>1, <3>1, <3>2
      <4> QED BY <4>1 DEF ReadsOn, m
    <3>3. CASE i = m
      <4>1. s[i] = LastOf(c, p)
        BY <1>1, <1>4, <3>1, <3>3
      <4> QED BY <2>2, <2>3, <3>3, <4>1
    <3>4. CASE i > m
      <4> DEFINE j == i - m
      <4>1. /\ j \in 1 .. n - 1 /\ i \in m + 1 .. m + n
            /\ i + 1 \in m + 1 .. m + n /\ (i + 1) - m = j + 1
        BY <1>1, <3>1, <3>4
      <4>2. s[i] = q[j] /\ s[i + 1] = q[j + 1]
        <5>1. s[i] = q[j]
          BY <1>1, <4>1
        <5>2. s[i + 1] = q[(i + 1) - m]
          BY <1>1, <4>1
        <5> HIDE DEF j
        <5> QED BY <4>1, <5>1, <5>2
      <4> HIDE DEF j
      <4> QED BY <4>1, <4>2 DEF ReadsOn, n
    <3> QED BY <1>1, <3>1, <3>2, <3>3, <3>4
  <2> QED BY <2>1, <2>4, <2>5 DEF ReadsOn, s
<1> QED BY <1>5, <1>6

\* A text that is cut in two reads on over the cut.
LEMMA TextSplits ==
  ASSUME NEW c \in Symbol, NEW s \in Seq(Symbol), NEW k \in 1 .. Len(s),
         ReadsOn(c, s)
  PROVE  LET p == SubSeq(s, 1, k)
             q == SubSeq(s, k + 1, Len(s))
         IN /\ ReadsOn(c, p) /\ ReadsOn(LastOf(c, p), q)
            /\ LastOf(LastOf(c, p), q) = LastOf(c, s)
<1> DEFINE p == SubSeq(s, 1, k)
           q == SubSeq(s, k + 1, Len(s))
           n == Len(s)
<1>1. n \in Nat /\ k \in Nat /\ k >= 1 /\ k <= n
  OBVIOUS
<1>2. /\ p \in Seq(Symbol) /\ Len(p) = k /\ \A i \in 1 .. k : p[i] = s[i]
      /\ q \in Seq(Symbol) /\ Len(q) = n - k
      /\ \A i \in 1 .. n - k : q[i] = s[k + i]
  <2>1. /\ p \in Seq(Symbol) /\ Len(p) = k /\ \A i \in 1 .. k : p[i] = s[i]
    BY <1>1, SubSeqProperties
  <2>2. /\ q \in Seq(Symbol) /\ Len(q) = n - k
        /\ \A i \in 1 .. n - k : q[i] = s[k + i]
    BY <1>1
  <2> QED BY <2>1, <2>2
<1>3. \A i \in 1 .. n - 1 : <<s[i], s[i + 1]>> \in Follows
  BY DEF ReadsOn
<1>4. s # <<>> /\ <<c, s[1]>> \in Follows
  BY <1>1 DEF ReadsOn
<1> HIDE DEF p, q
<1>5. ReadsOn(c, p) /\ LastOf(c, p) = s[k]
  <2>1. p # <<>> /\ p[k] = s[k] /\ p[1] = s[1]
    BY <1>1, <1>2
  <2>2. \A i \in 1 .. k - 1 : <<p[i], p[i + 1]>> \in Follows
    BY <1>1, <1>2, <1>3
  <2> QED BY <1>2, <1>4, <2>1, <2>2 DEF ReadsOn, LastOf
<1>6. CASE k = n
  <2>1. q = <<>>
    BY <1>1, <1>2, <1>6, EmptySeq
  <2>2. LastOf(c, s) = s[n]
    BY <1>4 DEF LastOf
  <2>3. ReadsOn(LastOf(c, p), q)
    BY <2>1 DEF ReadsOn
  <2> QED BY <1>5, <1>6, <2>1, <2>2, <2>3 DEF LastOf, p, q
<1>7. CASE k # n
  <2>1. n - k \in Nat /\ n - k >= 1 /\ k + (n - k) = n
    BY <1>1, <1>7
  <2>2. q # <<>> /\ q[n - k] = s[n] /\ q[1] = s[k + 1]
    <3>1. n - k \in 1 .. n - k /\ 1 \in 1 .. n - k
      BY <2>1
    <3>2. q[n - k] = s[k + (n - k)] /\ q[1] = s[k + 1]
      BY <1>2, <3>1
    <3>3. Len(q) # 0
      BY <1>2, <2>1
    <3> QED BY <1>2, <2>1, <3>2, <3>3
  <2>3. \A i \in 1 .. (n - k) - 1 : <<q[i], q[i + 1]>> \in Follows
    <3> SUFFICES ASSUME NEW i \in 1 .. (n - k) - 1
                 PROVE  <<q[i], q[i + 1]>> \in Follows
      OBVIOUS
    <3>1. /\ i \in 1 .. n - k /\ i + 1 \in 1 .. n - k
          /\ k + i \in 1 .. n - 1 /\ k + (i + 1) = (k + i) + 1
      BY <1>1, <2>1
    <3>2. q[i] = s[k + i]
      BY <1>2, <3>1
    <3>3. q[i + 1] = s[k + (i + 1)]
      BY <1>2, <3>1
    <3>4. <<s[k + i], s[(k + i) + 1]>> \in Follows
      BY <1>3, <3>1
    <3> QED BY <3>1, <3>2, <3>3, <3>4
  <2>4. <<s[k], q[1]>> \in Follows
    BY <1>1, <1>3, <1>7, <2>2
  <2>5. ReadsOn(s[k], q)
    BY <1>2, <2>3, <2>4 DEF ReadsOn
  <2>6. LastOf(s[k], q) = s[n] /\ LastOf(c, s) = s[n]
    BY <1>2, <1>4, <2>2 DEF LastOf
  <2> QED BY <1>5, <2>5, <2>6 DEF p, q
<1> QED BY <1>6, <1>7

\* What is read, in hand and in the pipe, as far as lines go.
LEMMA StormTypes ==
  ASSUME TypeInv
  PROVE  /\ storm \in Storm /\ storm.line \in Seq(Symbol)
         /\ pipe \in Seq(Symbol) /\ chunk \in Seq(Symbol)
         /\ LastOf("n", storm.line) \in Symbol
         /\ LastOf(LastOf("n", storm.line), chunk) \in Symbol
<1>1. /\ storm \in Storm /\ storm.line \in Seq(Symbol)
      /\ pipe \in Seq(Symbol) /\ chunk \in Seq(Symbol)
  BY DEF TypeInv, Storm
<1>2. ASSUME NEW c \in Symbol, NEW s \in Seq(Symbol)
      PROVE  LastOf(c, s) \in Symbol
  <2>1. s # <<>> => Len(s) \in 1 .. Len(s)
    OBVIOUS
  <2> QED BY <2>1 DEF LastOf
<1>3. "n" \in Symbol
  BY DEF Symbol
<1> QED BY <1>1, <1>2, <1>3

\* Whoever writes, writes a line.
LEMMA PutStorm ==
  ASSUME TypeInv, StormInv, NEW line \in Line \cup {Record},
         PutOnStderr(line), chunk' = chunk, storm' = storm
  PROVE  StormInv'
<1>1. CASE pipe' = pipe
  BY <1>1 DEF StormInv, WholeLines
<1>2. CASE pipe' = pipe \o line
  <2> DEFINE held == LastOf(LastOf("n", storm.line), chunk)
  <2>1. ReadsOn(held, pipe) /\ LastOf(held, pipe) = "n"
    BY DEF StormInv, WholeLines
  <2>2. /\ line \in Seq(Symbol) /\ ReadsOn("n", line)
        /\ LastOf("n", line) = "n"
    BY LinesReadOn DEF Symbol
  <2>3. held \in Symbol /\ pipe \in Seq(Symbol)
    BY StormTypes
  <2> HIDE DEF held
  <2>4. ReadsOn(held, pipe') /\ LastOf(held, pipe') = "n"
    BY <1>2, <2>1, <2>2, <2>3, TextsJoin
  <2> QED BY <2>4 DEF StormInv, WholeLines, held
<1> QED BY <1>1, <1>2 DEF PutOnStderr

\* The reader of the pipe takes the beginning of what is in it.
LEMMA ReadsStorm ==
  ASSUME TypeInv, StormInv, ReaderReads
  PROVE  StormInv'
<1>1. PICK k \in 1 .. ReadMax :
        /\ k <= Len(pipe)
        /\ chunk' = SubSeq(pipe, 1, k)
        /\ pipe' = SubSeq(pipe, k + 1, Len(pipe))
  BY DEF ReaderReads
<1> DEFINE read == LastOf("n", storm.line)
<1>2. read \in Symbol /\ pipe \in Seq(Symbol) /\ k \in 1 .. Len(pipe)
  BY <1>1, StormTypes, ProcessConstants
<1>3. ReadsOn(read, pipe) /\ LastOf(read, pipe) = "n"
  <2>1. chunk = <<>> /\ LastOf(read, chunk) = read
    BY DEF ReaderReads, LastOf
  <2> QED BY <2>1 DEF StormInv, WholeLines
<1>4. /\ ReadsOn(read, chunk') /\ ReadsOn(LastOf(read, chunk'), pipe')
      /\ LastOf(LastOf(read, chunk'), pipe') = "n"
  <2> HIDE DEF read
  <2> QED BY <1>1, <1>2, <1>3, TextSplits
<1>5. storm' = storm
  BY DEF ReaderReads
<1> QED BY <1>4, <1>5 DEF StormInv, WholeLines

\* What the detector is given is what a reader of lines would read.
LEMMA ForwardsStorm ==
  ASSUME TypeInv, StormInv, ReaderForwards
  PROVE  StormInv'
<1> DEFINE fed == Feeding(storm.detector, chunk)[Len(chunk)]
           read == Reading(storm, chunk)[Len(chunk)]
           d == OnBytes(storm.detector, chunk).detector
           before == LastOf("n", storm.line)
<1>1. /\ storm \in Storm /\ chunk \in Seq(Symbol) /\ storm.detector \in Detector
  BY StormTypes DEF Storm
<1>2. /\ Agrees(storm.detector, storm.lines, storm.line)
      /\ ReadsOn(before, chunk)
      /\ ReadsOn(LastOf(before, chunk), pipe)
      /\ LastOf(LastOf(before, chunk), pipe) = "n"
  BY DEF StormInv, WholeLines
<1>3. /\ fed \in Fed /\ read \in Storm
      /\ Agrees(fed.detector, read.lines, read.line)
      /\ LastOf("n", read.line) = LastOf(before, chunk)
  BY <1>1, <1>2, ChunkTaken
<1>4. read.lines \in Detector /\ read.line \in Seq(Symbol)
  <2> HIDE DEF read
  <2> QED BY <1>3 DEF Storm
<1>5. d \in Detector /\ Agrees(d, read.lines, read.line)
  <2> HIDE DEF read
  <2> QED BY <1>1, <1>3, <1>4, ChunkSeen
<1>6. /\ storm' = [read EXCEPT !.detector = d] /\ chunk' = <<>> /\ pipe' = pipe
  BY DEF ReaderForwards
<1> HIDE DEF read, d, fed, before
<1>7. /\ storm'.detector = d /\ storm'.lines = read.lines
      /\ storm'.line = read.line
  BY <1>3, <1>6 DEF Storm
<1>8. Agrees(storm.detector, storm.lines, storm.line)'
  BY <1>5, <1>7 DEF Agrees
<1>9. /\ LastOf("n", storm'.line) = LastOf(before, chunk)
      /\ LastOf(LastOf("n", storm'.line), chunk') = LastOf(before, chunk)
  BY <1>3, <1>6, <1>7 DEF LastOf
<1>10. ReadsOn(LastOf("n", storm'.line), chunk')
  BY <1>6 DEF ReadsOn
<1>11. WholeLines'
  BY <1>2, <1>6, <1>9, <1>10 DEF WholeLines
<1> QED BY <1>8, <1>11 DEF StormInv

\* Both counters grow old together.
LEMMA AgesStorm ==
  ASSUME TypeInv, StormInv, TimePasses
  PROVE  StormInv'
<1> DEFINE d == storm.detector
           e == storm.lines
           A(k) == IF k.matches = 0 \/ k.age > WindowLength THEN k.age
                   ELSE k.age + 1
           Q(k) == IF k.quiet = 0 THEN 0 ELSE k.quiet - 1
<1>1. storm \in Storm /\ d \in Detector /\ e \in Detector
  BY StormTypes DEF Storm
<1>2. /\ storm' = [storm EXCEPT !.detector = AgeDetector(@),
                                !.lines = AgeDetector(@)]
      /\ pipe' = pipe /\ chunk' = chunk
  BY DEF TimePasses
<1>3. /\ storm'.detector = AgeDetector(d) /\ storm'.lines = AgeDetector(e)
      /\ storm'.line = storm.line
  BY <1>1, <1>2 DEF Storm
<1>4. ASSUME NEW k \in Detector
      PROVE  /\ AgeDetector(k).matches = k.matches
             /\ AgeDetector(k).age = A(k) /\ AgeDetector(k).quiet = Q(k)
             /\ AgeDetector(k).carry = k.carry
  BY DEF AgeDetector, Detector
<1>5. Agrees(d, e, storm.line) /\ WholeLines
  BY DEF StormInv
<1>6. A(d) = A(e) /\ Q(d) = Q(e) /\ d.matches = e.matches
  BY <1>5 DEF Agrees
<1> HIDE DEF A, Q, d, e
<1>7. Agrees(AgeDetector(d), AgeDetector(e), storm.line)
  BY <1>1, <1>4, <1>5, <1>6 DEF Agrees
<1>8. Agrees(storm.detector, storm.lines, storm.line)'
  BY <1>3, <1>7 DEF Agrees
<1>9. WholeLines'
  BY <1>2, <1>3, <1>5 DEF WholeLines
<1> QED BY <1>8, <1>9 DEF StormInv

\* Nothing has been read, and nothing is on its way.
LEMMA NothingRead ==
  ASSUME storm' = NewStorm, pipe' = <<>>, chunk' = <<>>
  PROVE  StormInv'
<1>1. /\ storm'.detector = storm'.lines /\ storm'.line = <<>>
      /\ storm'.detector.carry = <<>>
  BY DEF NewStorm, NewDetector
<1>2. WholeLines'
  BY <1>1 DEF WholeLines, LastOf, ReadsOn
<1>3. Agrees(storm.detector, storm.lines, storm.line)'
  BY <1>1 DEF Agrees, Begun
<1> QED BY <1>2, <1>3 DEF StormInv

\* What leaves the detector and the pipe alone.
LEMMA StormAside ==
  ASSUME StormInv, storm' = storm, pipe' = pipe, chunk' = chunk
  PROVE  StormInv'
  BY DEF StormInv, WholeLines

\* Whatever the chunks, the detector stays with the reader of lines.
LEMMA StepStorm ==
  ASSUME TypeInv, StormInv, [Next]_vars
  PROVE  StormInv'
<1>1. ASSUME NEW how, Ends(how)
      PROVE  StormInv'
  BY <1>1, NothingRead DEF Ends, NoStreams
<1>2. CASE Starting
  <2>1. CASE OperatorStarts \/ WindowsRestarts \/ RotateLogs
             \/ RedirectIOToFile \/ SetUp \/ CreateWindow
    BY <2>1, StormAside DEF OperatorStarts, WindowsRestarts, Starts,
         RotateLogs, RedirectIOToFile, SetUp, CreateWindow, streams
  <2> QED BY <1>1, <1>2, <2>1 DEF Starting, CreateFails
<1>3. CASE Streaming
  <2>1. ASSUME NEW t \in Threads, LineWritten(t)
        PROVE  StormInv'
    <3>1. threads[t].line \in Line
      BY <2>1 DEF LineWritten, TypeInv
    <3> QED BY <2>1, <3>1, PutStorm DEF LineWritten
  <2>2. ASSUME NEW t \in Threads, WritesLine(t) \/ TakesLock(t)
        PROVE  StormInv'
    BY <2>2, StormAside DEF WritesLine, TakesLock
  <2>3. CASE PumpForwards \/ OperatorSelects \/ EngineRebuilt
    BY <2>3, StormAside DEF PumpForwards, OperatorSelects, EngineRebuilt,
         streams
  <2> QED BY <1>3, <2>1, <2>2, <2>3, ReadsStorm, ForwardsStorm, AgesStorm
          DEF Streaming
<1>4. CASE Ending
  <2>1. ASSUME NEW t \in Threads, WriteRecord(t) \/ WriteStackTrace(t)
        PROVE  StormInv'
    BY <2>1, PutStorm DEF WriteRecord, WriteStackTrace, PutRecord
  <2>2. ASSUME NEW t \in Threads, Faults(t) \/ AppendToLogFile(t)
               \/ ReportToEventLog(t) \/ WriteMinidump(t)
        PROVE  StormInv'
    BY <2>2, StormAside DEF Faults, AppendToLogFile, ReportToEventLog,
         WriteMinidump, Report
  <2>3. CASE CloseWindow
    BY <2>3, StormAside DEF CloseWindow, streams
  <2> QED BY <1>1, <1>4, <2>1, <2>2, <2>3
          DEF Ending, Terminates, FailsFast, Killed, LoopEnds
<1>5. CASE UNCHANGED vars
  BY <1>5, StormAside DEF vars
<1> QED BY <1>2, <1>3, <1>4, <1>5 DEF Next

\* Nothing has been read at first.
LEMMA InitStorm == Init => StormInv
<1> SUFFICES ASSUME Init PROVE StormInv
  OBVIOUS
<1>1. storm = NewStorm /\ pipe = <<>> /\ chunk = <<>>
  BY DEF Init
<1>2. /\ storm.detector = storm.lines /\ storm.line = <<>>
      /\ storm.detector.carry = <<>>
  BY <1>1 DEF NewStorm, NewDetector
<1>3. WholeLines
  BY <1>1, <1>2 DEF WholeLines, LastOf, ReadsOn
<1>4. Agrees(storm.detector, storm.lines, storm.line)
  BY <1>2 DEF Agrees, Begun
<1> QED BY <1>3, <1>4 DEF StormInv

\* Detectors that agree count the same.
LEMMA StormSees == StormInv => DetectorSeesLines
  BY DEF StormInv, Agrees, DetectorSeesLines
-----------------------------------------------------------------------------
(***************************************************************************)
(* What is proved of every run of the process.                             *)
(***************************************************************************)
\* main.cpp and what it starts: whatever the steps, the state is one the types
\* allow; in particular nothing is put in a pipe that has no room for it.
THEOREM ProcessTypes == Spec => []TypeInv
<1>1. TypeInv /\ [Next]_vars => TypeInv'
  BY StepTyped
<1> QED BY <1>1, InitTyped, PTL DEF Spec

\* drag_drop_lifetime.cpp: over rebuilds of the engine and however the process
\* ends no drop target is released after it was freed, and none is leaked.
THEOREM TargetsBalanced == Spec => []DropTargetsBalanced
<1>1. TypeInv /\ DropInv /\ [Next]_vars => DropInv'
  BY StepDrops
<1>2. DropInv => DropTargetsBalanced
  BY DEF DropInv, Holding, Free, DropTargetsBalanced
<1> QED BY <1>1, <1>2, InitDrops, ProcessTypes, PTL DEF Spec

\* The types TLC checks, with the reference counts of the drop targets.
THEOREM ProcessTypesChecked == Spec => []TypeOK
<1>1. TypeInv /\ DropInv /\ [Next]_vars => DropInv'
  BY StepDrops
<1>2. TypeInv /\ DropInv => TypeOK
  <2> SUFFICES ASSUME TypeInv, DropInv PROVE TypeOK
    OBVIOUS
  <2>1. drop \in DropState
    BY DEF DropInv, Holding, Free
  <2>2. \A t \in Threads : threads[t].pc \in Pc
    BY DEF TypeInv, Thread
  <2>3. storm.detector \in Detector
    BY DEF TypeInv, Storm
  <2> QED BY <2>1, <2>2, <2>3 DEF TypeInv, TypeOK
<1> QED BY <1>1, <1>2, InitDrops, ProcessTypes, PTL DEF Spec

\* crash_handler.cpp: the latch lets one thread through to the places records
\* go to, also when the report itself faults.
THEOREM CrashReportedOnce == Spec => []OneCrashRecord
<1>1. TypeInv /\ RestInv /\ [Next]_vars => RestInv'
  BY StepRest
<1>2. TypeInv /\ RestInv /\ CrashInv /\ [Next]_vars => CrashInv'
  BY StepCrash
<1>3. CrashInv => OneCrashRecord
  BY DEF CrashInv
<1> QED BY <1>1, <1>2, <1>3, InitCrash, ProcessTypes, PTL DEF Spec

\* shutdown_policy.cpp: the withdrawal of the request to be started again comes
\* before anything of a closed window is taken down, so whatever fails then,
\* Windows starts it again only if that withdrawal itself failed, and only
\* after a crash no handler ended.
THEOREM ProcessStaysClosed == Spec => ClosedStaysClosed
<1>1. TypeInv /\ CloseInv /\ [Next]_vars => CloseInv'
  BY StepClosed
<1>2. TypeInv /\ CloseInv /\ [Next]_vars =>
        [boot' # boot /\ station'.started = "windows" /\ station.closed =>
           station.restart = "kept" /\ station.ended = "crash"]_vars
  BY StepStaysClosed
<1> QED BY <1>1, <1>2, InitClosed, ProcessTypes, PTL
        DEF Spec, ClosedStaysClosed

\* log_rotation.cpp: each file operation of a rotation may fail, and the start
\* may be killed between any two; a log stays for as many starts as archives
\* are kept, unless a file was held open from outside.
THEOREM LogsKeptForTheirStarts == Spec => []KeptForItsStarts
<1>1. TypeInv /\ RotationInv /\ [Next]_vars => RotationInv'
  BY StepRotation
<1>2. RotationInv => KeptForItsStarts
  BY RotationKeeps
<1> QED BY <1>1, <1>2, InitRotation, ProcessTypes, PTL DEF Spec

\* egl_storm_detector.cpp behind stderr_interposer.cpp: for every way the text
\* may be cut into chunks, and although a long line is not carried whole, the
\* detector counts what whole lines would have made it count.
THEOREM StormSeesLines == Spec => []DetectorSeesLines
<1>1. TypeInv /\ StormInv /\ [Next]_vars => StormInv'
  BY StepStorm
<1> QED BY <1>1, InitStorm, StormSees, ProcessTypes, PTL DEF Spec
=============================================================================
