-------------------------- MODULE SerialEchoProofs --------------------------
(***************************************************************************)
(* Proofs about the serial demos, for every size of their buffers and FIFOs  *)
(* and everything typed: what waits to be read, what the two tasks still     *)
(* have to write and what the ports were given follow one another in order,  *)
(* and the places that all of it may need are counted together.              *)
(***************************************************************************)
EXTENDS SerialEcho, TLAPS

\* How many characters of a port were read.
TakenOf(q) == typed[q] - Len(input[q])

\* A character a port was given: it showed it, or its FIFO holds it.
GivenTo(p, x) == x \in shown[p] \/ \E i \in 1 .. Len(output[p]) : output[p][i] = x

\* A character a task still has to write to a port.
StillToWrite(t, p, x) == \E i \in 1 .. Len(echo[t][p]) : echo[t][p][i] = x

\* The places some characters may still need at a port, a return counted as two.
Weight(chars) ==
  2 * Len(chars) - (IF chars # << >> /\ chars[1].char = "LF" THEN 1 ELSE 0)
Need(p) ==
  2 * (Len(input["first"]) + Len(input["second"]))
    + Weight(echo["first"][p]) + Weight(echo["second"][p]) + Len(output[p])

\* What waits to be read are the last characters typed at its port.
InputInv ==
  \A q \in Ports :
    /\ Len(input[q]) <= typed[q]
    /\ \A i \in 1 .. Len(input[q]) :
         /\ input[q][i].from = q /\ input[q][i].n = TakenOf(q) + i
         /\ input[q][i].char \in {"A", "a", "CR"}

\* A task echoes, in order, what it read of a port it reads.
WasRead(x) == x.from \in Ports => x.n \in 1 .. TakenOf(x.from)
TaskInv ==
  \A t, p \in Ports :
    /\ \A x \in Characters : StillToWrite(t, p, x) =>
         x.from \in Ports /\ TaskOf(x.from) = t /\ WasRead(x)
    /\ \A i \in 1 .. Len(echo[t][p]) :
         /\ echo[t][p][i].char = "LF" => i = 1
         /\ \A j \in 1 .. Len(echo[t][p]) : i < j => Precedes(echo[t][p][i], echo[t][p][j])

\* Of what a port was given: it was read, and comes before what is still to be written there.
BeforeRest(p, x) == \A t \in Ports : \A i \in 1 .. Len(echo[t][p]) : Precedes(x, echo[t][p][i])
GivenInv ==
  \A p \in Ports : \A x \in Characters : GivenTo(p, x) => WasRead(x) /\ BeforeRest(p, x)

\* For a patient host there is room for the echo of all that is under way, and no terminal
\* leaves before the end.
RoomInv == patient => \A p \in Echoing : Need(p) <= FifoSize
QuietInv ==
  patient /\ echoDemo = "web" /\ ~ cdc_connected => \A q \in Ports : typed[q] = 0

\* Of what was read nothing is lost.
Kept(p, q, n) ==
  \E x \in Characters :
    /\ x.from = q /\ x.n = n /\ x.char # "LF"
    /\ GivenTo(p, x) \/ StillToWrite(TaskOf(q), p, x)
KeptInv == patient => \A p \in Echoing, q \in Ports : \A n \in 1 .. TakenOf(q) : Kept(p, q, n)

EchoInv ==
  /\ EchoTypeOK /\ InputInv /\ TaskInv /\ EchoInOrder /\ GivenInv
  /\ RoomInv /\ QuietInv /\ KeptInv

LEMMA EchoConstants ==
  /\ EchoDemos \subseteq {"web", "dual", "single"} /\ Chars \subseteq {"A", "a", "CR"}
  /\ Chunk \in Nat \ {0} /\ FifoSize \in Nat \ {0} /\ MaxTyped \in Nat /\ MaxConnects \in Nat
BY EchoAssumption

\* Of a sequence: its beginning, the rest, and two one behind the other.
LEMMA BeginningOf ==
  \A s \in Seq(Characters), k \in Nat : k <= Len(s) =>
    /\ SubSeq(s, 1, k) \in Seq(Characters) /\ Len(SubSeq(s, 1, k)) = k
    /\ \A i \in 1 .. k : SubSeq(s, 1, k)[i] = s[i]
OBVIOUS

LEMMA RestOf ==
  \A s \in Seq(Characters), k \in Nat : k <= Len(s) =>
    /\ SubSeq(s, k + 1, Len(s)) \in Seq(Characters) /\ Len(SubSeq(s, k + 1, Len(s))) = Len(s) - k
    /\ \A i \in 1 .. Len(s) - k : SubSeq(s, k + 1, Len(s))[i] = s[k + i]
OBVIOUS

LEMMA OneBehindOther ==
  \A s, w \in Seq(Characters) :
    /\ s \o w \in Seq(Characters) /\ Len(s \o w) = Len(s) + Len(w)
    /\ \A i \in 1 .. Len(s) : (s \o w)[i] = s[i]
    /\ \A i \in 1 .. Len(w) : (s \o w)[Len(s) + i] = w[i]
OBVIOUS

\* What a character is made of, and the line feed behind a return.
LEMMA CharacterFacts ==
  /\ \A x \in Characters : x.n \in 0 .. MaxTyped /\ x.n \in Nat
  /\ \A x \in Characters :
       LET y == [x EXCEPT !.char = "LF"]
       IN y \in Characters /\ y.from = x.from /\ y.n = x.n /\ y.char = "LF"
  /\ Banner \in Characters /\ Banner.from \notin Ports
<1>1. MaxTyped \in Nat
  BY EchoConstants
<1>2. Banner = [from |-> "device", n |-> 0, char |-> "banner"]
  BY DEF Banner, Char
<1>3. Banner \in Characters /\ Banner.from \notin Ports
  BY <1>1, <1>2 DEF Characters, Ports
<1>4. \A x \in Characters : x.n \in 0 .. MaxTyped /\ x.n \in Nat
  BY <1>1 DEF Characters
<1>5. ASSUME NEW x \in Characters
      PROVE  LET y == [x EXCEPT !.char = "LF"]
             IN y \in Characters /\ y.from = x.from /\ y.n = x.n /\ y.char = "LF"
  BY DEF Characters
<1> QED
  BY <1>3, <1>4, <1>5

LEMMA EchoFacts ==
  ASSUME EchoTypeOK
  PROVE  /\ echoDemo \in {"web", "dual", "single"} /\ DOMAIN typed = Ports /\ DOMAIN input = Ports
         /\ DOMAIN echo = Ports /\ DOMAIN output = Ports /\ DOMAIN shown = Ports
         /\ \A p \in Ports : /\ typed[p] \in 0 .. MaxTyped /\ input[p] \in Seq(Characters)
                             /\ Len(input[p]) \in Nat /\ output[p] \in Seq(Characters)
                             /\ Len(output[p]) \in 0 .. FifoSize /\ shown[p] \subseteq Characters
         /\ \A t \in Ports : DOMAIN echo[t] = Ports
         /\ \A t, p \in Ports : echo[t][p] \in Seq(Characters) /\ Len(echo[t][p]) \in Nat
<1>1. echoDemo \in {"web", "dual", "single"}
  BY EchoConstants DEF EchoTypeOK
<1>2. \A p \in Ports : /\ typed[p] \in 0 .. MaxTyped /\ input[p] \in Seq(Characters)
                       /\ output[p] \in Seq(Characters) /\ Len(output[p]) <= FifoSize
                       /\ shown[p] \subseteq Characters
  BY DEF EchoTypeOK
<1>3. \A p \in Ports : Len(input[p]) \in Nat /\ Len(output[p]) \in Nat
  BY <1>2
<1>4. \A t, p \in Ports : echo[t][p] \in Seq(Characters)
  BY DEF EchoTypeOK
<1>5. \A t, p \in Ports : Len(echo[t][p]) \in Nat
  BY <1>4
<1>6. /\ DOMAIN typed = Ports /\ DOMAIN input = Ports /\ DOMAIN output = Ports
      /\ DOMAIN shown = Ports /\ DOMAIN echo = Ports /\ \A t \in Ports : DOMAIN echo[t] = Ports
  BY DEF EchoTypeOK
<1>7. FifoSize \in Nat
  BY EchoConstants
<1> QED
  BY <1>1, <1>2, <1>3, <1>4, <1>5, <1>6, <1>7

\* A write appends the characters there is room for, from the first on.
LEMMA PutFacts ==
  ASSUME EchoTypeOK, NEW p \in Ports, NEW chars \in Seq(Characters), Put(p, chars)
  PROVE  /\ output' \in [Ports -> Seq(Characters)] /\ \A q \in Ports : Len(output'[q]) <= FifoSize
         /\ \A q \in Ports : q # p => output'[q] = output[q]
         /\ \E k \in 0 .. Len(chars) :
              /\ Len(output'[p]) = Len(output[p]) + k
              /\ \A i \in 1 .. Len(output[p]) : output'[p][i] = output[p][i]
              /\ \A i \in 1 .. k : output'[p][Len(output[p]) + i] = chars[i]
              /\ Len(output[p]) + Len(chars) <= FifoSize => k = Len(chars)
<1>1. /\ output \in [Ports -> Seq(Characters)] /\ output[p] \in Seq(Characters)
      /\ \A q \in Ports : Len(output[q]) <= FifoSize
  BY DEF EchoTypeOK
<1>2. Len(output[p]) \in 0 .. FifoSize /\ Len(chars) \in Nat /\ FifoSize \in Nat
  BY EchoFacts, EchoConstants
<1> DEFINE room == FifoSize - Len(output[p])
           k == IF Len(chars) <= room THEN Len(chars) ELSE room
           w == SubSeq(chars, 1, k)
<1>3. output' = [output EXCEPT ![p] = output[p] \o w]
  BY DEF Put
<1>a. k = IF Len(chars) <= FifoSize - Len(output[p]) THEN Len(chars) ELSE FifoSize - Len(output[p])
  OBVIOUS
<1> HIDE DEF k
<1>4. /\ k \in 0 .. Len(chars) /\ Len(output[p]) + k <= FifoSize
      /\ Len(output[p]) + Len(chars) <= FifoSize => k = Len(chars)
  <2>1. CASE Len(chars) <= FifoSize - Len(output[p])
    <3>1. k = Len(chars)
      BY <1>a, <2>1
    <3> QED
      BY <1>2, <2>1, <3>1
  <2>2. CASE ~ (Len(chars) <= FifoSize - Len(output[p]))
    <3>1. k = FifoSize - Len(output[p])
      BY <1>a, <2>2
    <3> QED
      BY <1>2, <2>2, <3>1
  <2> QED
    BY <2>1, <2>2
<1>5. w \in Seq(Characters) /\ Len(w) = k /\ \A i \in 1 .. k : w[i] = chars[i]
  BY <1>4, BeginningOf
<1> HIDE DEF w
<1>6. /\ output[p] \o w \in Seq(Characters) /\ Len(output[p] \o w) = Len(output[p]) + k
      /\ \A i \in 1 .. Len(output[p]) : (output[p] \o w)[i] = output[p][i]
      /\ \A i \in 1 .. k : (output[p] \o w)[Len(output[p]) + i] = w[i]
  <2>1. /\ output[p] \o w \in Seq(Characters) /\ Len(output[p] \o w) = Len(output[p]) + Len(w)
        /\ \A i \in 1 .. Len(output[p]) : (output[p] \o w)[i] = output[p][i]
        /\ \A i \in 1 .. Len(w) : (output[p] \o w)[Len(output[p]) + i] = w[i]
    BY <1>1, <1>5, OneBehindOther
  <2> QED
    BY <1>5, <2>1
<1> DEFINE new == output[p] \o w
<1> HIDE DEF new
<1>7. output' = [output EXCEPT ![p] = new] /\ new \in Seq(Characters) /\ output'[p] = new
  BY <1>1, <1>3, <1>6 DEF new
<1>8. /\ output' \in [Ports -> Seq(Characters)]
      /\ \A q \in Ports : q # p => output'[q] = output[q]
  BY <1>1, <1>7
<1>9. /\ Len(output'[p]) = Len(output[p]) + k
      /\ \A i \in 1 .. Len(output[p]) : output'[p][i] = output[p][i]
      /\ \A i \in 1 .. k : output'[p][Len(output[p]) + i] = chars[i]
  BY <1>5, <1>6, <1>7 DEF new
<1>10. \A q \in Ports : Len(output'[q]) <= FifoSize
  BY <1>1, <1>4, <1>8, <1>9
<1> QED
  BY <1>4, <1>8, <1>9, <1>10

\* What is written keeps the order of a port, if it comes behind what the port was given and
\* before the rest.
LEMMA GivenGrows ==
  ASSUME EchoInv, NEW p \in Ports, NEW chars \in Seq(Characters), Put(p, chars),
         typed' = typed, input' = input, shown' = shown,
         \A i \in 1 .. Len(chars) : WasRead(chars[i]),
         \A x \in Characters : GivenTo(p, x) => \A i \in 1 .. Len(chars) : Precedes(x, chars[i]),
         \A i, j \in 1 .. Len(chars) : i < j => Precedes(chars[i], chars[j]),
         \A q \in Ports : \A x \in Characters : GivenTo(q, x) =>
           \A t \in Ports : \A j \in 1 .. Len(echo'[t][q]) : Precedes(x, echo'[t][q][j]),
         \A i \in 1 .. Len(chars) :
           \A t \in Ports : \A j \in 1 .. Len(echo'[t][p]) : Precedes(chars[i], echo'[t][p][j])
  PROVE  EchoInOrder' /\ GivenInv'
<1>1. PICK k \in 0 .. Len(chars) :
        /\ Len(output'[p]) = Len(output[p]) + k
        /\ \A i \in 1 .. Len(output[p]) : output'[p][i] = output[p][i]
        /\ \A i \in 1 .. k : output'[p][Len(output[p]) + i] = chars[i]
  BY PutFacts DEF EchoInv
<1>2. /\ output' \in [Ports -> Seq(Characters)]
      /\ \A q \in Ports : q # p => output'[q] = output[q]
  BY PutFacts DEF EchoInv
<1>3. /\ Len(output[p]) \in Nat /\ Len(chars) \in Nat
      /\ \A q \in Ports : output[q] \in Seq(Characters) /\ shown[q] \subseteq Characters
  BY EchoFacts DEF EchoInv
<1> DEFINE old == Len(output[p])
<1>4. \A i \in 1 .. Len(output'[p]) :
        \/ i \in 1 .. old /\ output'[p][i] = output[p][i]
        \/ \E m \in 1 .. Len(chars) : m <= k /\ i = old + m /\ output'[p][i] = chars[m]
  <2> SUFFICES ASSUME NEW i \in 1 .. Len(output'[p]), ~ (i \in 1 .. old)
               PROVE  \E m \in 1 .. Len(chars) : m <= k /\ i = old + m /\ output'[p][i] = chars[m]
    BY <1>1
  <2> DEFINE m == i - old
  <2>1. m \in 1 .. k /\ m \in 1 .. Len(chars) /\ m <= k /\ i = old + m
    BY <1>1, <1>3
  <2>2. output'[p][old + m] = chars[m]
    BY <1>1, <2>1
  <2> QED
    BY <2>1, <2>2
<1>5. \A i \in 1 .. old : output[p][i] \in Characters /\ GivenTo(p, output[p][i])
  BY <1>3 DEF GivenTo
<1>6. \A m \in 1 .. Len(chars) : chars[m] \in Characters
  OBVIOUS
<1>7. \A x \in Characters : GivenTo(p, x)' =>
        GivenTo(p, x) \/ \E m \in 1 .. Len(chars) : x = chars[m]
  <2> SUFFICES ASSUME NEW x \in Characters, GivenTo(p, x)', ~ GivenTo(p, x)
               PROVE  \E m \in 1 .. Len(chars) : x = chars[m]
    OBVIOUS
  <2>1. PICK i \in 1 .. Len(output'[p]) : output'[p][i] = x
    BY DEF GivenTo
  <2>2. ~ (i \in 1 .. old /\ output'[p][i] = output[p][i])
    BY <2>1 DEF GivenTo
  <2> QED
    BY <1>4, <2>1, <2>2
<1>8. \A q \in Ports : q # p => \A x \in Characters : GivenTo(q, x)' => GivenTo(q, x)
  BY <1>2 DEF GivenTo
<1>9. EchoInOrder'
  <2>1. ASSUME NEW q \in Ports, q # p, NEW i \in 1 .. Len(output'[q])
        PROVE  /\ \A x \in shown'[q] : Precedes(x, output'[q][i])
               /\ \A j \in 1 .. Len(output'[q]) : i < j => Precedes(output'[q][i], output'[q][j])
    <3>1. output'[q] = output[q] /\ shown'[q] = shown[q] /\ DOMAIN output[q] = 1 .. Len(output[q])
      BY <1>2, <1>3, <2>1
    <3> QED
      BY <2>1, <3>1 DEF EchoInv, EchoInOrder
  <2>2. \A i \in 1 .. old : \A x \in shown[p] : Precedes(x, output[p][i])
    BY <1>3 DEF EchoInv, EchoInOrder
  <2>3. \A i, j \in 1 .. old : i < j => Precedes(output[p][i], output[p][j])
    BY <1>3 DEF EchoInv, EchoInOrder
  <2>4. \A i \in 1 .. Len(output'[p]) : \A x \in shown[p] : Precedes(x, output'[p][i])
    <3>1. \A x \in shown[p] : x \in Characters /\ GivenTo(p, x)
      BY <1>3 DEF GivenTo
    <3> QED
      BY <1>4, <2>2, <3>1
  <2>5. ASSUME NEW i \in 1 .. Len(output'[p]), NEW j \in 1 .. Len(output'[p]), i < j
        PROVE  Precedes(output'[p][i], output'[p][j])
    <3>1. CASE j \in 1 .. old /\ output'[p][j] = output[p][j]
      <4>1. i \in 1 .. old /\ output'[p][i] = output[p][i]
        BY <1>1, <1>3, <2>5, <3>1
      <4> QED
        BY <2>3, <2>5, <3>1, <4>1
    <3>2. ASSUME NEW m \in 1 .. Len(chars), j = old + m, output'[p][j] = chars[m]
          PROVE  Precedes(output'[p][i], output'[p][j])
      <4>1. CASE i \in 1 .. old /\ output'[p][i] = output[p][i]
        BY <1>5, <3>2, <4>1
      <4>2. ASSUME NEW l \in 1 .. Len(chars), i = old + l, output'[p][i] = chars[l]
            PROVE  Precedes(output'[p][i], output'[p][j])
        <5>1. l < m
          BY <1>3, <2>5, <3>2, <4>2
        <5> QED
          BY <3>2, <4>2, <5>1
      <4> QED
        BY <1>4, <4>1, <4>2
    <3> QED
      BY <1>4, <3>1, <3>2
  <2>6. \A q \in Ports : DOMAIN output'[q] = 1 .. Len(output'[q])
    BY <1>2
  <2> QED
    BY <2>1, <2>4, <2>5, <2>6 DEF EchoInOrder
<1>10. GivenInv'
  <2>1. \A x : WasRead(x)' <=> WasRead(x)
    BY DEF WasRead, TakenOf
  <2>2. ASSUME NEW q \in Ports, NEW x \in Characters, GivenTo(q, x)
        PROVE  WasRead(x)' /\ BeforeRest(q, x)'
    <3>1. WasRead(x)
      BY <2>2 DEF EchoInv, GivenInv
    <3>2. BeforeRest(q, x)'
      BY <2>2 DEF BeforeRest
    <3> QED
      BY <2>1, <3>1, <3>2
  <2>3. ASSUME NEW m \in 1 .. Len(chars)
        PROVE  WasRead(chars[m])' /\ BeforeRest(p, chars[m])'
    BY <2>1 DEF BeforeRest
  <2> QED
    BY <1>7, <1>8, <2>2, <2>3 DEF GivenInv
<1> QED
  BY <1>9, <1>10

\* A write takes nothing back, and where there is room it gives all.
LEMMA GivenStays ==
  ASSUME EchoTypeOK, NEW p \in Ports, NEW chars \in Seq(Characters), Put(p, chars), shown' = shown
  PROVE  /\ \A q \in Ports, x \in Characters : GivenTo(q, x) => GivenTo(q, x)'
         /\ Len(output[p]) + Len(chars) <= FifoSize =>
              \A x \in Characters : (\E i \in 1 .. Len(chars) : chars[i] = x) => GivenTo(p, x)'
<1>1. PICK k \in 0 .. Len(chars) :
        /\ Len(output'[p]) = Len(output[p]) + k
        /\ \A i \in 1 .. Len(output[p]) : output'[p][i] = output[p][i]
        /\ \A i \in 1 .. k : output'[p][Len(output[p]) + i] = chars[i]
        /\ Len(output[p]) + Len(chars) <= FifoSize => k = Len(chars)
  BY PutFacts
<1>2. \A q \in Ports : q # p => output'[q] = output[q]
  BY PutFacts
<1>3. Len(output[p]) \in Nat /\ Len(chars) \in Nat
  BY EchoFacts
<1>4. ASSUME NEW q \in Ports, NEW x \in Characters, GivenTo(q, x)
      PROVE  GivenTo(q, x)'
  <2>1. CASE x \in shown[q]
    BY <2>1 DEF GivenTo
  <2>2. CASE q # p
    BY <1>2, <1>4, <2>2 DEF GivenTo
  <2>3. CASE q = p /\ \E i \in 1 .. Len(output[p]) : output[p][i] = x
    <3>1. PICK i \in 1 .. Len(output[p]) : output[p][i] = x
      BY <2>3
    <3>2. i \in 1 .. Len(output'[p]) /\ output'[p][i] = x
      BY <1>1, <1>3, <3>1
    <3> QED
      BY <2>3, <3>2 DEF GivenTo
  <2> QED
    BY <1>4, <2>1, <2>2, <2>3 DEF GivenTo
<1>5. ASSUME Len(output[p]) + Len(chars) <= FifoSize, NEW i \in 1 .. Len(chars),
             NEW x \in Characters, chars[i] = x
      PROVE  GivenTo(p, x)'
  <2>1. /\ Len(output[p]) + i \in 1 .. Len(output'[p])
        /\ output'[p][Len(output[p]) + i] = chars[i]
    BY <1>1, <1>3, <1>5
  <2> QED
    BY <1>5, <2>1 DEF GivenTo
<1> QED
  BY <1>4, <1>5

\* What is written of a chunk: the characters with another case, or nothing.
LEMMA WritesFacts ==
  ASSUME EchoTypeOK, NEW chars \in Seq(Characters),
         \A i \in 1 .. Len(chars) : chars[i].char \in {"A", "a", "CR"}
  PROVE  /\ Writes(chars) \in [Ports -> Seq(Characters)]
         /\ \A p \in Ports :
              /\ Len(Writes(chars)[p]) \in {0, Len(chars)}
              /\ p \in Echoing /\ (echoDemo = "web" => cdc_connected) =>
                   Len(Writes(chars)[p]) = Len(chars)
              /\ \A i \in 1 .. Len(Writes(chars)[p]) :
                   /\ Writes(chars)[p][i].from = chars[i].from
                   /\ Writes(chars)[p][i].n = chars[i].n
                   /\ Writes(chars)[p][i].char \in {"A", "a", "CR"}
<1> DEFINE w == Writes(chars)
           Alike(s) == /\ s \in Seq(Characters) /\ Len(s) = Len(chars)
                      /\ \A i \in 1 .. Len(s) :
                           /\ s[i].from = chars[i].from /\ s[i].n = chars[i].n
                           /\ s[i].char \in {"A", "a", "CR"}
           NoCharacter == << >>
<1>1. Alike(chars)
  OBVIOUS
<1>2. ASSUME NEW p \in Ports
      PROVE  Alike(echo_serial_port(p, chars))
  <2>1. \A x \in Characters : x.char \in {"A", "a", "CR"} =>
          /\ InCase(x, p) \in Characters /\ InCase(x, p).from = x.from /\ InCase(x, p).n = x.n
          /\ InCase(x, p).char \in {"A", "a", "CR"}
    BY DEF InCase, isupper, islower, Characters
  <2> DEFINE s == echo_serial_port(p, chars)
  <2>2. s = [i \in 1 .. Len(chars) |-> InCase(chars[i], p)]
    BY DEF echo_serial_port
  <2>3. \A i \in 1 .. Len(chars) : s[i] = InCase(chars[i], p) /\ chars[i] \in Characters
    BY <2>2
  <2>4. \A i \in 1 .. Len(chars) :
          /\ s[i] \in Characters /\ s[i].from = chars[i].from /\ s[i].n = chars[i].n
          /\ s[i].char \in {"A", "a", "CR"}
    BY <2>1, <2>3
  <2>5. s \in [1 .. Len(chars) -> Characters]
    BY <2>2, <2>4
  <2> HIDE DEF s
  <2>6. s \in Seq(Characters) /\ Len(s) = Len(chars)
    BY <2>5
  <2> QED
    BY <2>4, <2>6 DEF s
<1>3. NoCharacter \in Seq(Characters) /\ Len(NoCharacter) = 0 /\ Len(chars) \in Nat
  OBVIOUS
<1> HIDE DEF NoCharacter, Alike
<1>4. ASSUME NEW p \in Ports
      PROVE  /\ Alike(w[p]) \/ w[p] = NoCharacter
             /\ p \in Echoing /\ (echoDemo = "web" => cdc_connected) => Alike(w[p])
  <2>1. CASE echoDemo = "web"
    <3>1. w = [q \in Ports |-> IF web_serial_connected \/ (q = "first" /\ cdc_connected)
                               THEN chars ELSE NoCharacter]
      BY <2>1 DEF Writes, echo_all, NoCharacter
    <3> QED
      BY <1>1, <2>1, <3>1 DEF Echoing
  <2>2. CASE echoDemo = "dual"
    <3>1. w = [q \in Ports |-> echo_serial_port(q, chars)]
      BY <2>2 DEF Writes
    <3> QED
      BY <1>2, <3>1
  <2>3. CASE echoDemo = "single"
    <3>1. w = [q \in Ports |-> IF q = "first" THEN chars ELSE NoCharacter]
      BY <2>3 DEF Writes, NoCharacter
    <3> QED
      BY <1>1, <2>3, <3>1 DEF Echoing
  <2> QED
    BY <2>1, <2>2, <2>3, EchoFacts
<1>5. w \in [Ports -> Seq(Characters)]
  <2>1. \A p \in Ports : w[p] \in Seq(Characters)
    BY <1>3, <1>4 DEF Alike
  <2>2. w = [p \in Ports |-> w[p]]
    BY EchoFacts DEF Writes, echo_all
  <2> QED
    BY <2>1, <2>2
<1> HIDE DEF w
<1>6. ASSUME NEW p \in Ports
      PROVE  /\ Len(w[p]) \in {0, Len(chars)}
             /\ p \in Echoing /\ (echoDemo = "web" => cdc_connected) => Len(w[p]) = Len(chars)
             /\ \A i \in 1 .. Len(w[p]) :
                  /\ w[p][i].from = chars[i].from /\ w[p][i].n = chars[i].n
                  /\ w[p][i].char \in {"A", "a", "CR"}
  <2>1. CASE Alike(w[p])
    BY <2>1, <1>4 DEF Alike
  <2>2. CASE w[p] = NoCharacter
    BY <1>3, <1>4, <2>2 DEF Alike
  <2> QED
    BY <1>4, <2>1, <2>2
<1> QED
  BY <1>5, <1>6 DEF w

LEMMA WeightFacts ==
  \A s \in Seq(Characters) :
    /\ Weight(s) \in Nat /\ Len(s) <= Weight(s) /\ Weight(s) <= 2 * Len(s)
    /\ s = << >> => Weight(s) = 0
    /\ s # << >> => Weight(s) > 0
<1> SUFFICES ASSUME NEW s \in Seq(Characters)
             PROVE  /\ Weight(s) \in Nat /\ Len(s) <= Weight(s) /\ Weight(s) <= 2 * Len(s)
                    /\ s = << >> => Weight(s) = 0
                    /\ s # << >> => Weight(s) > 0
  OBVIOUS
<1>1. Len(s) \in Nat /\ (s = << >> <=> Len(s) = 0)
  OBVIOUS
<1>2. CASE s = << >>
  BY <1>1, <1>2 DEF Weight
<1>3. CASE s # << >> /\ s[1].char = "LF"
  <2>1. Weight(s) = 2 * Len(s) - 1
    BY <1>3, Zenon DEF Weight
  <2> QED
    BY <1>1, <1>3, <2>1
<1>4. CASE s # << >> /\ s[1].char # "LF"
  <2>1. Weight(s) = 2 * Len(s) - 0
    BY <1>4, Zenon DEF Weight
  <2> QED
    BY <1>1, <1>4, <2>1
<1> QED
  BY <1>2, <1>3, <1>4

\* What the places a port needs are made of.
LEMMA NeedSums ==
  \A i, j, a, b, v, w, n \in Nat :
    /\ v <= 2 * a /\ w <= 2 * b =>
         /\ 2 * (i + j) + v + w + n \in Nat /\ 2 * (i + j + a + b) + n \in Nat
         /\ 2 * (i + j) + v + w + n <= 2 * (i + j + a + b) + n
    /\ v + n <= 2 * (i + j) + v + w + n /\ w + n <= 2 * (i + j) + v + w + n
OBVIOUS

LEMMA NeedDiffers ==
  \A i, j, v, w, n, x, y, m, o, di, dw, dn \in Int :
    x + y <= i + j + di /\ m <= v + dw /\ o <= n + dn =>
      /\ 2 * (x + y) + m + w + o <= 2 * (i + j) + v + w + n + (2 * di + dw + dn)
      /\ 2 * (x + y) + w + m + o <= 2 * (i + j) + w + v + n + (2 * di + dw + dn)
      /\ 2 * (x + y) + m + w + o \in Int /\ 2 * (x + y) + w + m + o \in Int
OBVIOUS

LEMMA NeedFacts ==
  ASSUME EchoTypeOK
  PROVE  \A p \in Ports :
           /\ Need(p) \in Nat /\ Need(p) <= Pending(p) /\ Pending(p) \in Nat
           /\ \A t \in Ports : Weight(echo[t][p]) + Len(output[p]) <= Need(p)
<1> SUFFICES ASSUME NEW p \in Ports
             PROVE  /\ Need(p) \in Nat /\ Need(p) <= Pending(p) /\ Pending(p) \in Nat
                    /\ \A t \in Ports : Weight(echo[t][p]) + Len(output[p]) <= Need(p)
  OBVIOUS
<1>1. "first" \in Ports /\ "second" \in Ports /\ \A t \in Ports : t = "first" \/ t = "second"
  BY DEF Ports
<1>2. /\ Len(input["first"]) \in Nat /\ Len(input["second"]) \in Nat /\ Len(output[p]) \in Nat
      /\ Len(echo["first"][p]) \in Nat /\ Len(echo["second"][p]) \in Nat
  BY <1>1, EchoFacts
<1>3. /\ Weight(echo["first"][p]) \in Nat /\ Weight(echo["first"][p]) <= 2 * Len(echo["first"][p])
      /\ Weight(echo["second"][p]) \in Nat /\ Weight(echo["second"][p]) <= 2 * Len(echo["second"][p])
  <2>1. echo["first"][p] \in Seq(Characters) /\ echo["second"][p] \in Seq(Characters)
    BY <1>1, EchoFacts
  <2> QED
    BY <2>1, WeightFacts
<1> DEFINE i == Len(input["first"])
           j == Len(input["second"])
           k == Len(echo["first"][p])
           m == Len(echo["second"][p])
           v == Weight(echo["first"][p])
           w == Weight(echo["second"][p])
           n == Len(output[p])
<1>a. Need(p) = 2 * (i + j) + v + w + n /\ Pending(p) = 2 * (i + j + k + m) + n
  BY DEF Need, Pending
<1>b. /\ i \in Nat /\ j \in Nat /\ k \in Nat /\ m \in Nat /\ v \in Nat /\ w \in Nat /\ n \in Nat
      /\ v <= 2 * k /\ w <= 2 * m
  BY <1>2, <1>3
<1> HIDE DEF i, j, k, m, v, w, n
<1>4. Need(p) \in Nat /\ Need(p) <= Pending(p) /\ Pending(p) \in Nat
  BY <1>a, <1>b, NeedSums
<1>5. v + n <= Need(p) /\ w + n <= Need(p)
  BY <1>a, <1>b, NeedSums
<1> QED
  BY <1>1, <1>4, <1>5 DEF v, w, n

\* What one task's step does to the places that are needed.
LEMMA NeedChanges ==
  ASSUME EchoTypeOK, EchoTypeOK', NEW p \in Ports, NEW t \in Ports,
         NEW di \in Int, NEW dw \in Int, NEW dn \in Int,
         \A u \in Ports : u # t => echo'[u][p] = echo[u][p],
         Len(input'["first"]) + Len(input'["second"]) <= Len(input["first"]) + Len(input["second"]) + di,
         Weight(echo'[t][p]) <= Weight(echo[t][p]) + dw,
         Len(output'[p]) <= Len(output[p]) + dn
  PROVE  Need(p)' \in Int /\ Need(p)' <= Need(p) + (2 * di + dw + dn)
<1>1. "first" \in Ports /\ "second" \in Ports /\ \A u \in Ports : u = "first" \/ u = "second"
  BY DEF Ports
<1>2. /\ Len(input["first"]) \in Nat /\ Len(input["second"]) \in Nat /\ Len(output[p]) \in Nat
      /\ Weight(echo["first"][p]) \in Nat /\ Weight(echo["second"][p]) \in Nat
  <2>1. echo["first"][p] \in Seq(Characters) /\ echo["second"][p] \in Seq(Characters)
    BY <1>1, EchoFacts
  <2>2. Weight(echo["first"][p]) \in Nat /\ Weight(echo["second"][p]) \in Nat
    BY <2>1, WeightFacts
  <2> QED
    BY <1>1, <2>2, EchoFacts
<1>3. \A q \in Ports : input'[q] \in Seq(Characters) /\ output'[q] \in Seq(Characters)
  BY DEF EchoTypeOK
<1>4. \A u, q \in Ports : echo'[u][q] \in Seq(Characters)
  BY DEF EchoTypeOK
<1>5. /\ Len(input'["first"]) \in Nat /\ Len(input'["second"]) \in Nat /\ Len(output'[p]) \in Nat
      /\ Weight(echo'["first"][p]) \in Int /\ Weight(echo'["second"][p]) \in Int
  <2>1. /\ Len(input'["first"]) \in Nat /\ Len(input'["second"]) \in Nat /\ Len(output'[p]) \in Nat
    BY <1>1, <1>3
  <2>2. Weight(echo'["first"][p]) \in Nat /\ Weight(echo'["second"][p]) \in Nat
    BY <1>1, <1>4, WeightFacts
  <2> QED
    BY <2>1, <2>2
<1> DEFINE i1 == Len(input["first"])
           i2 == Len(input["second"])
           o1 == Len(output[p])
           wf == Weight(echo["first"][p])
           ws == Weight(echo["second"][p])
           j1 == Len(input'["first"])
           j2 == Len(input'["second"])
           o2 == Len(output'[p])
           xf == Weight(echo'["first"][p])
           xs == Weight(echo'["second"][p])
<1>6. Need(p) = 2 * (i1 + i2) + wf + ws + o1 /\ Need(p)' = 2 * (j1 + j2) + xf + xs + o2
  BY DEF Need
<1>7. /\ j1 + j2 <= i1 + i2 + di /\ o2 <= o1 + dn
      /\ t = "first" => xf <= wf + dw
      /\ t = "second" => xs <= ws + dw
  OBVIOUS
<1>8. t = "first" => xs = ws
  BY <1>1
<1>9. t = "second" => xf = wf
  BY <1>1
<1>10. /\ i1 \in Int /\ i2 \in Int /\ o1 \in Int /\ wf \in Int /\ ws \in Int
       /\ j1 \in Int /\ j2 \in Int /\ o2 \in Int /\ xf \in Int /\ xs \in Int
  BY <1>2, <1>5
<1> HIDE DEF i1, i2, o1, wf, ws, j1, j2, o2, xf, xs
<1>11. CASE t = "first"
  BY <1>6, <1>7, <1>8, <1>10, <1>11, NeedDiffers
<1>12. CASE t = "second"
  BY <1>6, <1>7, <1>9, <1>10, <1>12, NeedDiffers
<1> QED
  BY <1>1, <1>11, <1>12

LEMMA OneMore == \A i, j \in Nat : (i + 1) + j <= i + j + 1 /\ i + (j + 1) <= i + j + 1
OBVIOUS

LEMMA AppendedTo ==
  \A s \in Seq(Characters), x \in Characters :
    /\ Append(s, x) \in Seq(Characters) /\ Len(Append(s, x)) = Len(s) + 1
    /\ \A i \in 1 .. Len(s) : Append(s, x)[i] = s[i]
    /\ Append(s, x)[Len(s) + 1] = x
OBVIOUS

\* Without characters more to read a port needs no more places, and with one two of them.
LEMMA NeedFalls ==
  ASSUME EchoTypeOK, EchoTypeOK', NEW p \in Ports, NEW t \in Ports,
         \A u \in Ports : u # t => echo'[u][p] = echo[u][p],
         Len(input'["first"]) + Len(input'["second"]) <= Len(input["first"]) + Len(input["second"]),
         Weight(echo'[t][p]) <= Weight(echo[t][p]),
         Len(output'[p]) <= Len(output[p])
  PROVE  Need(p)' \in Int /\ Need(p)' <= Need(p)
<1>1. PICK z \in Int : z = 0
  OBVIOUS
<1>2. PICK echoed \in Seq(Characters) : echoed = echo[t][p]
  BY EchoFacts
<1>3. /\ Len(input["first"]) \in Nat /\ Len(input["second"]) \in Nat /\ Len(output[p]) \in Nat
      /\ Weight(echo[t][p]) \in Nat
  <2>1. Weight(echo[t][p]) \in Nat
    BY <1>2, WeightFacts
  <2> QED
    BY <2>1, EchoFacts DEF Ports
<1>4. /\ Len(input["first"]) + Len(input["second"]) + z = Len(input["first"]) + Len(input["second"])
      /\ Weight(echo[t][p]) + z = Weight(echo[t][p]) /\ Len(output[p]) + z = Len(output[p])
  BY <1>1, <1>3
<1>5. Need(p)' \in Int /\ Need(p)' <= Need(p) + (2 * z + z + z)
  BY <1>4, NeedChanges
<1> QED
  BY <1>1, <1>5, NeedFacts

LEMMA NeedByOne ==
  ASSUME EchoTypeOK, EchoTypeOK', NEW p \in Ports, NEW t \in Ports,
         \A u \in Ports : u # t => echo'[u][p] = echo[u][p],
         Len(input'["first"]) + Len(input'["second"]) <= Len(input["first"]) + Len(input["second"]) + 1,
         Weight(echo'[t][p]) <= Weight(echo[t][p]),
         Len(output'[p]) <= Len(output[p])
  PROVE  Need(p)' \in Int /\ Need(p)' <= Need(p) + 2
<1>1. PICK z \in Int : z = 0
  OBVIOUS
<1>2. PICK one \in Int : one = 1
  OBVIOUS
<1>3. PICK echoed \in Seq(Characters) : echoed = echo[t][p]
  BY EchoFacts
<1>4. /\ Len(output[p]) \in Nat /\ Weight(echo[t][p]) \in Nat
  <2>1. Weight(echo[t][p]) \in Nat
    BY <1>3, WeightFacts
  <2> QED
    BY <2>1, EchoFacts
<1>5. /\ Len(input'["first"]) + Len(input'["second"])
           <= Len(input["first"]) + Len(input["second"]) + one
      /\ Weight(echo[t][p]) + z = Weight(echo[t][p]) /\ Len(output[p]) + z = Len(output[p])
  <2>1. Len(input'["first"]) + Len(input'["second"])
          <= Len(input["first"]) + Len(input["second"]) + one
    BY <1>2
  <2>2. Weight(echo[t][p]) + z = Weight(echo[t][p]) /\ Len(output[p]) + z = Len(output[p])
    BY <1>1, <1>4
  <2> QED
    BY <2>1, <2>2
<1>6. Need(p)' \in Int /\ Need(p)' <= Need(p) + (2 * one + z + z)
  BY <1>5, NeedChanges
<1> QED
  BY <1>1, <1>2, <1>6, NeedFacts

LEMMA Zero == \E z \in Int : z = 0
OBVIOUS

LEMMA LessThanZero == \E z \in Int : z = 0 - 1
OBVIOUS

LEMMA FitsIn ==
  \A w, n, m, i, j \in Nat : w + n <= m /\ m <= j /\ i <= w => n + i <= j
OBVIOUS

LEMMA TakenFacts ==
  ASSUME EchoTypeOK, InputInv
  PROVE  \A q \in Ports : TakenOf(q) \in Nat /\ TakenOf(q) <= typed[q]
<1> SUFFICES ASSUME NEW q \in Ports
             PROVE  TakenOf(q) \in Nat /\ TakenOf(q) <= typed[q]
  OBVIOUS
<1>1. typed[q] \in Nat /\ Len(input[q]) \in Nat
  BY EchoFacts, EchoConstants
<1>2. Len(input[q]) <= typed[q]
  BY DEF InputInv
<1> QED
  BY <1>1, <1>2 DEF TakenOf

LEMMA Lesser ==
  \A i, j, k, m \in Nat :
    /\ i <= m => i - k <= m
    /\ (i - k) + j <= i + j + (0 - k) /\ j + (i - k) <= j + i + (0 - k)
OBVIOUS

LEMMA Behind == \A k, m \in Nat : \A i \in 1 .. m - k : k + i \in 1 .. m
OBVIOUS

LEMMA ReadChunkStep ==
  ASSUME EchoInv, NEW port \in Ports, ReadChunk(port)
  PROVE  EchoInv'
<1>2. EchoTypeOK /\ InputInv /\ TaskInv /\ EchoInOrder /\ GivenInv /\ RoomInv /\ QuietInv /\ KeptInv
  BY DEF EchoInv
<1>3. PICK t \in Ports : t = TaskOf(port)
  BY DEF TaskOf, Ports
<1>4. PICK k \in 1 .. Len(input[port]) : k = Count(port)
  <2>1. input[port] \in Seq(Characters) /\ Len(input[port]) \in Nat /\ Len(input[port]) # 0
    BY <1>2, EchoFacts DEF ReadChunk, ReadInto
  <2>2. Count(port) \in 1 .. Len(input[port])
    BY <2>1, EchoConstants DEF Count
  <2> QED
    BY <2>2
<1>5. /\ input[port] \in Seq(Characters) /\ Len(input[port]) \in Nat /\ typed[port] \in Nat
      /\ k \in Nat /\ k <= Len(input[port])
  BY <1>2, <1>4, EchoFacts
<1>6. PICK chars \in Seq(Characters) :
        /\ chars = SubSeq(input[port], 1, Count(port)) /\ Len(chars) = k
        /\ \A i \in 1 .. k : chars[i] = input[port][i]
  <2>1. /\ SubSeq(input[port], 1, k) \in Seq(Characters) /\ Len(SubSeq(input[port], 1, k)) = k
        /\ \A i \in 1 .. k : SubSeq(input[port], 1, k)[i] = input[port][i]
    BY <1>5, BeginningOf, Zenon
  <2> QED
    BY <1>4, <2>1
<1>7. PICK after \in Seq(Characters) :
        /\ after = SubSeq(input[port], Count(port) + 1, Len(input[port]))
        /\ Len(after) = Len(input[port]) - k
        /\ \A i \in 1 .. Len(input[port]) - k : after[i] = input[port][k + i]
  <2>1. /\ SubSeq(input[port], k + 1, Len(input[port])) \in Seq(Characters)
        /\ Len(SubSeq(input[port], k + 1, Len(input[port]))) = Len(input[port]) - k
        /\ \A i \in 1 .. Len(input[port]) - k :
             SubSeq(input[port], k + 1, Len(input[port]))[i] = input[port][k + i]
    BY <1>5, RestOf, Zenon
  <2> QED
    BY <1>4, <2>1
<1>8. \A i \in 1 .. k : /\ chars[i].from = port /\ chars[i].n = TakenOf(port) + i
                        /\ chars[i].char \in {"A", "a", "CR"}
  BY <1>2, <1>4, <1>5, <1>6 DEF InputInv
<1>9. PICK w \in [Ports -> Seq(Characters)] :
        /\ w = Writes(chars)
        /\ \A p \in Ports :
           /\ Len(w[p]) \in {0, k}
           /\ p \in Echoing /\ (echoDemo = "web" => cdc_connected) => Len(w[p]) = k
           /\ \A i \in 1 .. Len(w[p]) :
                /\ w[p][i].from = chars[i].from /\ w[p][i].n = chars[i].n
                /\ w[p][i].char \in {"A", "a", "CR"}
  <2>1. \A i \in 1 .. Len(chars) : chars[i].char \in {"A", "a", "CR"}
    BY <1>6, <1>8
  <2>2. /\ Writes(chars) \in [Ports -> Seq(Characters)]
        /\ \A p \in Ports :
             /\ Len(Writes(chars)[p]) \in {0, Len(chars)}
             /\ p \in Echoing /\ (echoDemo = "web" => cdc_connected) =>
                  Len(Writes(chars)[p]) = Len(chars)
             /\ \A i \in 1 .. Len(Writes(chars)[p]) :
                  /\ Writes(chars)[p][i].from = chars[i].from
                  /\ Writes(chars)[p][i].n = chars[i].n
                  /\ Writes(chars)[p][i].char \in {"A", "a", "CR"}
    BY <1>2, <2>1, WritesFacts
  <2> QED
    BY <1>6, <2>2
<1>1. /\ echo[t] = NoChars
      /\ input' = [input EXCEPT ![port] = after]
      /\ echo' = [echo EXCEPT ![t] = w]
      /\ echoDemo' = echoDemo /\ web_serial_connected' = web_serial_connected
      /\ cdc_connected' = cdc_connected /\ typed' = typed /\ output' = output /\ shown' = shown
      /\ patient' = patient /\ connects' = connects
  BY <1>3, <1>6, <1>7, <1>9 DEF ReadChunk, ReadInto
<1>10. \A p \in Ports : \A i \in 1 .. Len(w[p]) :
         /\ w[p][i] \in Characters /\ w[p][i].from = port /\ w[p][i].n = TakenOf(port) + i
         /\ i \in 1 .. k /\ w[p][i].char # "LF"
  <2> SUFFICES ASSUME NEW p \in Ports, NEW i \in 1 .. Len(w[p])
               PROVE  /\ w[p][i] \in Characters /\ w[p][i].from = port
                      /\ w[p][i].n = TakenOf(port) + i /\ i \in 1 .. k /\ w[p][i].char # "LF"
    OBVIOUS
  <2>1. i \in 1 .. k
    BY <1>5, <1>9
  <2>2. w[p] \in Seq(Characters) /\ w[p][i].char \in {"A", "a", "CR"}
    BY <1>9
  <2>3. w[p][i].from = chars[i].from /\ w[p][i].n = chars[i].n
    BY <1>9
  <2> QED
    BY <1>8, <2>1, <2>2, <2>3
<1>11. /\ TakenOf(port)' = TakenOf(port) + k /\ TakenOf(port) \in Nat
       /\ \A q \in Ports : q # port => TakenOf(q)' = TakenOf(q)
  <2>1. input'[port] = after /\ Len(input'[port]) = Len(input[port]) - k
    BY <1>1, <1>2, <1>7, EchoFacts
  <2>2. \A q \in Ports : q # port => input'[q] = input[q]
    BY <1>1, <1>2, EchoFacts
  <2>3. Len(input[port]) <= typed[port]
    BY <1>2 DEF InputInv
  <2> QED
    BY <1>1, <1>5, <2>1, <2>2, <2>3 DEF TakenOf
<1>12. \A q \in Ports : TakenOf(q) \in Nat /\ TakenOf(q)' \in Nat /\ TakenOf(q) <= TakenOf(q)'
  <2>1. \A q \in Ports : TakenOf(q) \in Nat
    BY <1>2, TakenFacts
  <2>2. TakenOf(port)' \in Nat /\ TakenOf(port) <= TakenOf(port)'
    BY <1>5, <1>11
  <2>3. \A q \in Ports : q # port => TakenOf(q)' \in Nat /\ TakenOf(q) <= TakenOf(q)'
    BY <1>11, <2>1
  <2> QED
    BY <2>1, <2>2, <2>3
<1>13. /\ echo'[t] = w /\ \A u \in Ports : u # t => echo'[u] = echo[u]
       /\ \A p \in Ports : echo[t][p] = << >>
  BY <1>1, <1>2, EchoFacts DEF NoChars
<1>14. EchoTypeOK'
  <2>1. input' \in [Ports -> Seq(Characters)]
    BY <1>1, <1>2, <1>7 DEF EchoTypeOK
  <2>2. echo' \in [Ports -> [Ports -> Seq(Characters)]]
    BY <1>1, <1>2, <1>9 DEF EchoTypeOK
  <2> QED
    BY <1>1, <1>2, <2>1, <2>2, Zenon DEF EchoTypeOK
<1>15. InputInv'
  <2> SUFFICES ASSUME NEW q \in Ports
               PROVE  /\ Len(input'[q]) <= typed'[q]
                      /\ \A i \in 1 .. Len(input'[q]) :
                           /\ input'[q][i].from = q /\ input'[q][i].n = TakenOf(q)' + i
                           /\ input'[q][i].char \in {"A", "a", "CR"}
    BY DEF InputInv
  <2>1. CASE q # port
    <3>1. input'[q] = input[q] /\ typed'[q] = typed[q] /\ TakenOf(q)' = TakenOf(q)
      BY <1>1, <1>2, <1>11, <2>1, EchoFacts
    <3> QED
      BY <1>2, <3>1 DEF InputInv
  <2>2. CASE q = port
    <3>1. input'[port] = after /\ typed'[port] = typed[port]
      BY <1>1, <1>2, EchoFacts
    <3>2. Len(input[port]) <= typed[port]
      BY <1>2 DEF InputInv
    <3>3. ASSUME NEW i \in 1 .. Len(after)
          PROVE  /\ after[i].from = port /\ after[i].n = TakenOf(port)' + i
                 /\ after[i].char \in {"A", "a", "CR"}
      <4>1. after[i] = input[port][k + i] /\ k + i \in 1 .. Len(input[port])
        <5>1. i \in 1 .. Len(input[port]) - k
          BY <1>7
        <5>2. after[i] = input[port][k + i]
          BY <1>7, <5>1
        <5>3. k + i \in 1 .. Len(input[port])
          BY <1>5, <5>1, Behind
        <5> QED
          BY <5>2, <5>3
      <4>2. /\ input[port][k + i].from = port /\ input[port][k + i].n = TakenOf(port) + (k + i)
            /\ input[port][k + i].char \in {"A", "a", "CR"}
        BY <1>2, <4>1 DEF InputInv
      <4> QED
        BY <1>5, <1>11, <4>1, <4>2
    <3>4. Len(after) <= typed[port]
      <4>1. Len(after) = Len(input[port]) - k
        BY <1>7
      <4> QED
        BY <1>5, <3>2, <4>1, Lesser
    <3> QED
      BY <2>2, <3>1, <3>3, <3>4
  <2> QED
    BY <2>1, <2>2
<1>16. /\ \A q : TaskOf(q)' = TaskOf(q)
       /\ \A x : x.n \in Nat /\ WasRead(x) => WasRead(x)'
  <2>1. \A q : TaskOf(q)' = TaskOf(q)
    BY <1>1 DEF TaskOf
  <2>2. ASSUME NEW x, x.n \in Nat, WasRead(x), x.from \in Ports
        PROVE  x.n \in 1 .. TakenOf(x.from)'
    <3>1. x.n \in 1 .. TakenOf(x.from)
      BY <2>2 DEF WasRead
    <3>2. /\ TakenOf(x.from) \in Nat /\ TakenOf(x.from)' \in Nat
          /\ TakenOf(x.from) <= TakenOf(x.from)'
      BY <1>12, <2>2
    <3> QED
      BY <3>1, <3>2
  <2> QED
    BY <2>1, <2>2 DEF WasRead
<1>17. TaskInv'
  <2>1. ASSUME NEW u \in Ports, u # t, NEW p \in Ports
        PROVE  /\ \A x \in Characters : StillToWrite(u, p, x)' =>
                    x.from \in Ports /\ TaskOf(x.from)' = u /\ WasRead(x)'
               /\ \A i \in 1 .. Len(echo'[u][p]) :
                    /\ echo'[u][p][i].char = "LF" => i = 1
                    /\ \A j \in 1 .. Len(echo'[u][p]) : i < j =>
                         Precedes(echo'[u][p][i], echo'[u][p][j])
    <3>1. echo'[u][p] = echo[u][p]
      BY <1>13, <2>1
    <3>2. \A x \in Characters : StillToWrite(u, p, x)' => StillToWrite(u, p, x)
      BY <3>1 DEF StillToWrite
    <3>3. \A x \in Characters : StillToWrite(u, p, x)' =>
            x.from \in Ports /\ TaskOf(x.from)' = u /\ WasRead(x)'
      BY <1>2, <1>16, <3>2, CharacterFacts DEF TaskInv
    <3> QED
      BY <1>2, <3>1, <3>3 DEF TaskInv
  <2>2. ASSUME NEW p \in Ports
        PROVE  /\ \A x \in Characters : StillToWrite(t, p, x)' =>
                    x.from \in Ports /\ TaskOf(x.from)' = t /\ WasRead(x)'
               /\ \A i \in 1 .. Len(echo'[t][p]) :
                    /\ echo'[t][p][i].char = "LF" => i = 1
                    /\ \A j \in 1 .. Len(echo'[t][p]) : i < j =>
                         Precedes(echo'[t][p][i], echo'[t][p][j])
    <3>1. echo'[t][p] = w[p]
      BY <1>13
    <3>2. ASSUME NEW x \in Characters, StillToWrite(t, p, x)'
          PROVE  x.from \in Ports /\ TaskOf(x.from)' = t /\ WasRead(x)'
      <4>1. PICK i \in 1 .. Len(w[p]) : w[p][i] = x
        BY <3>1, <3>2 DEF StillToWrite
      <4>2. x.from = port /\ x.n = TakenOf(port) + i /\ i \in 1 .. k
        BY <1>10, <4>1
      <4>3. x.n \in 1 .. TakenOf(port)'
        BY <1>5, <1>11, <4>2
      <4> QED
        BY <1>3, <1>16, <4>2, <4>3 DEF WasRead
    <3>3. ASSUME NEW i \in 1 .. Len(w[p]), NEW j \in 1 .. Len(w[p]), i < j
          PROVE  Precedes(w[p][i], w[p][j])
      <4>1. /\ w[p][i].from = port /\ w[p][i].n = TakenOf(port) + i
            /\ w[p][j].from = port /\ w[p][j].n = TakenOf(port) + j
        BY <1>10
      <4> QED
        BY <1>11, <3>3, <4>1 DEF Precedes
    <3> QED
      BY <1>10, <3>1, <3>2, <3>3
  <2> QED
    BY <2>1, <2>2 DEF TaskInv
<1>18. EchoInOrder'
  BY <1>1, <1>2 DEF EchoInOrder
<1>19. \A p \in Ports, x \in Characters : GivenTo(p, x)' <=> GivenTo(p, x)
  BY <1>1 DEF GivenTo
<1>20. GivenInv'
  <2> SUFFICES ASSUME NEW p \in Ports, NEW x \in Characters, GivenTo(p, x)
               PROVE  WasRead(x)' /\ BeforeRest(p, x)'
    BY <1>19 DEF GivenInv
  <2>1. WasRead(x) /\ BeforeRest(p, x) /\ x.n \in Nat
    BY <1>2, CharacterFacts DEF GivenInv
  <2>2. ASSUME NEW u \in Ports, NEW i \in 1 .. Len(echo'[u][p])
        PROVE  Precedes(x, echo'[u][p][i])
    <3>1. CASE u # t
      BY <1>13, <2>1, <2>2, <3>1 DEF BeforeRest
    <3>2. CASE u = t
      <4>1. echo'[u][p] = w[p] /\ i \in 1 .. Len(w[p])
        BY <1>13, <2>2, <3>2
      <4>2. w[p][i].from = port /\ w[p][i].n = TakenOf(port) + i
        BY <1>10, <4>1
      <4>3. x.from = port => x.n <= TakenOf(port)
        <5>1. x.from \in Ports => x.n \in 1 .. TakenOf(x.from)
          BY <2>1 DEF WasRead
        <5>2. x.from = port => x.n \in 1 .. TakenOf(port)
          BY <5>1
        <5> QED
          BY <5>2
      <4> QED
        BY <1>11, <2>1, <4>1, <4>2, <4>3 DEF Precedes
    <3> QED
      BY <3>1, <3>2
  <2> QED
    BY <1>16, <2>1, <2>2 DEF BeforeRest
<1>21. RoomInv'
  <2> SUFFICES ASSUME patient, NEW p \in Echoing
               PROVE  Need(p)' <= FifoSize
    BY <1>1 DEF RoomInv, Echoing
  <2>1. Need(p) <= FifoSize /\ p \in Ports
    BY <1>2 DEF RoomInv, Echoing, Ports
  <2>2. Need(p) \in Nat
    BY <1>2, <2>1, NeedFacts
  <2>3. Weight(echo'[t][p]) <= Weight(echo[t][p]) + 2 * k
    <3>1. w[p] \in Seq(Characters) /\ Len(w[p]) \in {0, k} /\ echo[t][p] \in Seq(Characters)
      BY <1>2, <1>9, <2>1, EchoFacts
    <3>2. Weight(w[p]) \in Nat /\ Weight(w[p]) <= 2 * Len(w[p]) /\ Weight(echo[t][p]) = 0
      BY <1>13, <2>1, <3>1, WeightFacts
    <3>3. echo'[t][p] = w[p]
      BY <1>13
    <3> QED
      BY <1>5, <3>1, <3>2, <3>3
  <2>4. Len(input'["first"]) + Len(input'["second"])
          <= Len(input["first"]) + Len(input["second"]) + (0 - k)
    <3>1. /\ Len(input'[port]) = Len(input[port]) - k
          /\ \A q \in Ports : q # port => input'[q] = input[q]
      BY <1>1, <1>2, <1>7, EchoFacts
    <3>2. \A q \in Ports : Len(input[q]) \in Nat
      BY <1>2, EchoFacts
    <3>3. ASSUME NEW a \in Ports, NEW b \in Ports, a # b, port = a
          PROVE  Len(input'[a]) + Len(input'[b]) <= Len(input[a]) + Len(input[b]) + (0 - k)
      <4>1. Len(input'[a]) = Len(input[a]) - k /\ Len(input'[b]) = Len(input[b])
        BY <3>1, <3>3
      <4> QED
        BY <1>5, <3>2, <4>1, Lesser
    <3>4. ASSUME NEW a \in Ports, NEW b \in Ports, a # b, port = b
          PROVE  Len(input'[a]) + Len(input'[b]) <= Len(input[a]) + Len(input[b]) + (0 - k)
      <4>1. Len(input'[b]) = Len(input[b]) - k /\ Len(input'[a]) = Len(input[a])
        BY <3>1, <3>4
      <4> QED
        BY <1>5, <3>2, <4>1, Lesser
    <3>5. "first" \in Ports /\ "second" \in Ports /\ (port = "first" \/ port = "second")
      BY DEF Ports
    <3> QED
      BY <3>3, <3>4, <3>5
  <2>5. Len(output'[p]) <= Len(output[p]) + 0
    BY <1>1, <1>2, <2>1, EchoFacts
  <2>6. \A u \in Ports : u # t => echo'[u][p] = echo[u][p]
    BY <1>13
  <2>7. Need(p)' \in Int /\ Need(p)' <= Need(p) + (2 * (0 - k) + 2 * k + 0)
    <3>1. (0 - k) \in Int /\ 2 * k \in Int /\ 0 \in Int
      BY <1>5
    <3> HIDE DEF Need
    <3> QED
      BY <1>2, <1>14, <2>1, <2>3, <2>4, <2>5, <2>6, <3>1, NeedChanges
  <2> QED
    BY <1>5, <2>1, <2>2, <2>7, EchoConstants
<1>22. QuietInv'
  BY <1>1, <1>2 DEF QuietInv
<1>23. KeptInv'
  <2> SUFFICES ASSUME patient, NEW p \in Echoing, NEW q \in Ports, NEW n \in 1 .. TakenOf(q)'
               PROVE  Kept(p, q, n)'
    BY <1>1 DEF KeptInv, Echoing
  <2>1. p \in Ports
    BY DEF Echoing, Ports
  <2>2. CASE n \in 1 .. TakenOf(q)
    <3>1. PICK x \in Characters :
            /\ x.from = q /\ x.n = n /\ x.char # "LF"
            /\ GivenTo(p, x) \/ StillToWrite(TaskOf(q), p, x)
      BY <1>2, <2>2 DEF KeptInv, Kept
    <3>2. TaskOf(q) \in Ports
      BY DEF TaskOf, Ports
    <3>3. CASE GivenTo(p, x)
      BY <1>19, <2>1, <3>1, <3>3 DEF Kept
    <3>4. CASE StillToWrite(TaskOf(q), p, x)
      <4>1. ASSUME TaskOf(q) = t
            PROVE  FALSE
        <5>1. 1 .. Len(echo[t][p]) = {}
          BY <1>13, <2>1
        <5> QED
          BY <3>4, <4>1, <5>1 DEF StillToWrite
      <4>2. StillToWrite(TaskOf(q), p, x)'
        BY <1>13, <1>16, <3>2, <3>4, <4>1 DEF StillToWrite
      <4> QED
        BY <3>1, <4>2 DEF Kept
    <3> QED
      BY <3>1, <3>3, <3>4
  <2>3. CASE ~ (n \in 1 .. TakenOf(q))
    <3>1. q = port /\ n - TakenOf(port) \in 1 .. k
      BY <1>5, <1>11, <1>12, <2>3
    <3>a. PICK i \in 1 .. k : n = TakenOf(port) + i
      BY <1>11, <3>1
    <3>2. typed[port] # 0
      BY <1>2, <1>4, <1>5 DEF InputInv
    <3>3. echoDemo = "web" => cdc_connected
      BY <1>2, <3>2 DEF QuietInv
    <3>4. i \in 1 .. Len(w[p])
      BY <1>9, <2>1, <3>3
    <3>5. PICK x \in Characters :
            x = w[p][i] /\ x.from = q /\ x.n = n /\ x.char # "LF"
      BY <1>10, <2>1, <3>1, <3>a, <3>4
    <3>6. echo'[t][p] = w[p] /\ TaskOf(q)' = t
      BY <1>3, <1>13, <1>16, <3>1
    <3>7. StillToWrite(t, p, x)'
      BY <3>4, <3>5, <3>6 DEF StillToWrite
    <3> QED
      BY <3>5, <3>6, <3>7 DEF Kept
  <2> QED
    BY <2>2, <2>3
<1> QED
  BY <1>14, <1>15, <1>17, <1>18, <1>20, <1>21, <1>22, <1>23 DEF EchoInv

\* The host takes what it has: what a port was given stays the same.
LEMMA ShowStep ==
  ASSUME EchoInv, NEW port \in Ports, Show(port)
  PROVE  EchoInv'
<1>1. EchoTypeOK /\ InputInv /\ TaskInv /\ EchoInOrder /\ GivenInv /\ RoomInv /\ QuietInv /\ KeptInv
  BY DEF EchoInv
<1>2. /\ echoDemo' = echoDemo /\ web_serial_connected' = web_serial_connected
      /\ cdc_connected' = cdc_connected /\ typed' = typed /\ input' = input /\ echo' = echo
      /\ patient' = patient /\ connects' = connects
      /\ output' = [output EXCEPT ![port] = << >>]
  BY DEF Show
<1>3. PICK seen \in SUBSET Characters :
        /\ seen = { output[port][i] : i \in { j \in DOMAIN output[port] : output[port][j].from \in Ports } }
        /\ \A x \in Characters : x.from \in Ports =>
             (x \in seen <=> \E i \in 1 .. Len(output[port]) : output[port][i] = x)
        /\ \A x \in seen : \E i \in 1 .. Len(output[port]) : output[port][i] = x
  <2>1. output[port] \in Seq(Characters)
    BY <1>1, EchoFacts
  <2>2. DOMAIN output[port] = 1 .. Len(output[port])
        /\ \A i \in 1 .. Len(output[port]) : output[port][i] \in Characters
    BY <2>1
  <2> DEFINE them == { output[port][i] : i \in { j \in DOMAIN output[port] : output[port][j].from \in Ports } }
  <2>3. \A x : x \in them <=>
          \E i \in 1 .. Len(output[port]) : output[port][i] = x /\ output[port][i].from \in Ports
    BY <2>2
  <2> HIDE DEF them
  <2>4. them \in SUBSET Characters
    BY <2>2, <2>3
  <2>5. \A x \in Characters : x.from \in Ports =>
          (x \in them <=> \E i \in 1 .. Len(output[port]) : output[port][i] = x)
    BY <2>3
  <2> QED
    BY <2>3, <2>4, <2>5 DEF them
<1>4. shown' = [shown EXCEPT ![port] = shown[port] \cup seen]
  BY <1>1, <1>3, EchoFacts DEF Show
<1>5. /\ output'[port] = << >> /\ shown'[port] = shown[port] \cup seen
      /\ \A p \in Ports : p # port => output'[p] = output[p] /\ shown'[p] = shown[p]
  BY <1>1, <1>2, <1>4, EchoFacts
<1>6. EchoTypeOK'
  <2>1. output' \in [Ports -> Seq(Characters)]
    BY <1>1, <1>2 DEF EchoTypeOK
  <2>2. \A p \in Ports : Len(output'[p]) <= FifoSize
    <3>1. \A p \in Ports : Len(output[p]) <= FifoSize
      BY <1>1 DEF EchoTypeOK
    <3>2. Len(output'[port]) = 0 /\ 0 <= FifoSize
      BY <1>5, EchoConstants
    <3> QED
      BY <1>5, <3>1, <3>2
  <2>3. shown' \in [Ports -> SUBSET Characters]
    BY <1>1, <1>4 DEF EchoTypeOK
  <2> QED
    BY <1>1, <1>2, <2>1, <2>2, <2>3, Zenon DEF EchoTypeOK
<1>7. \A p \in Ports : \A x \in Characters :
        /\ GivenTo(p, x)' => GivenTo(p, x)
        /\ x.from \in Ports /\ GivenTo(p, x) => GivenTo(p, x)'
  <2> SUFFICES ASSUME NEW p \in Ports, NEW x \in Characters
               PROVE  /\ GivenTo(p, x)' => GivenTo(p, x)
                      /\ x.from \in Ports /\ GivenTo(p, x) => GivenTo(p, x)'
    OBVIOUS
  <2>1. CASE p # port
    BY <1>5, <2>1 DEF GivenTo
  <2>2. CASE p = port
    <3>1. GivenTo(port, x)' <=> x \in shown[port] \cup seen
      <4>1. ~ \E i \in 1 .. Len(output'[port]) : output'[port][i] = x
        <5>1. Len(output'[port]) = 0
          BY <1>5
        <5> QED
          BY <5>1
      <4> QED
        BY <1>5, <4>1 DEF GivenTo
    <3> QED
      BY <1>3, <2>2, <3>1 DEF GivenTo
  <2> QED
    BY <2>1, <2>2
<1>8. InputInv' /\ TaskInv' /\ QuietInv'
  BY <1>1, <1>2 DEF InputInv, TaskInv, QuietInv, TakenOf, StillToWrite, WasRead, TaskOf
<1>9. EchoInOrder'
  <2>1. \A p \in Ports : p # port => \A i \in DOMAIN output'[p] :
          /\ \A x \in shown'[p] : Precedes(x, output'[p][i])
          /\ \A j \in DOMAIN output'[p] : i < j => Precedes(output'[p][i], output'[p][j])
    BY <1>1, <1>5 DEF EchoInOrder
  <2>2. DOMAIN output'[port] = {}
    BY <1>5
  <2> QED
    BY <2>1, <2>2 DEF EchoInOrder
<1>10. GivenInv'
  <2>1. \A x : WasRead(x)' <=> WasRead(x)
    BY <1>2 DEF WasRead, TakenOf
  <2>2. \A p, x : BeforeRest(p, x)' <=> BeforeRest(p, x)
    BY <1>2 DEF BeforeRest
  <2> QED
    BY <1>1, <1>7, <2>1, <2>2 DEF GivenInv
<1>11. RoomInv'
  <2> SUFFICES ASSUME patient, NEW p \in Echoing
               PROVE  Need(p)' <= FifoSize
    BY <1>2 DEF RoomInv, Echoing
  <2>1. Need(p) <= FifoSize /\ p \in Ports
    BY <1>1 DEF RoomInv, Echoing, Ports
  <2>2. Len(output'[p]) <= Len(output[p])
    <3>1. CASE p = port
      <4>1. Len(output'[p]) = 0 /\ Len(output[p]) \in Nat
        BY <1>1, <1>5, <2>1, <3>1, EchoFacts
      <4> QED
        BY <4>1
    <3>2. CASE p # port
      <4>1. output'[p] = output[p] /\ Len(output[p]) \in Nat
        BY <1>1, <1>5, <2>1, <3>2, EchoFacts
      <4> QED
        BY <4>1
    <3> QED
      BY <3>1, <3>2
  <2>3. Need(p)' \in Int /\ Need(p)' <= Need(p)
    <3>1. Len(input'["first"]) + Len(input'["second"]) <= Len(input["first"]) + Len(input["second"])
      <4>1. Len(input["first"]) \in Nat /\ Len(input["second"]) \in Nat
        BY <1>1, EchoFacts DEF Ports
      <4> QED
        BY <1>2, <4>1
    <3>2. Weight(echo'[port][p]) <= Weight(echo[port][p])
      <4>1. Weight(echo[port][p]) \in Nat
        BY <1>1, <2>1, EchoFacts, WeightFacts
      <4> QED
        BY <1>2, <4>1
    <3>3. \A u \in Ports : u # port => echo'[u][p] = echo[u][p]
      BY <1>2
    <3> QED
      BY <1>1, <1>6, <2>1, <2>2, <3>1, <3>2, <3>3, NeedFalls
  <2> QED
    BY <1>1, <2>1, <2>3, NeedFacts, EchoConstants
<1>12. KeptInv'
  <2> SUFFICES ASSUME patient, NEW p \in Echoing, NEW q \in Ports, NEW n \in 1 .. TakenOf(q)
               PROVE  Kept(p, q, n)'
    BY <1>2 DEF KeptInv, Echoing, TakenOf
  <2>1. PICK x \in Characters :
          /\ x.from = q /\ x.n = n /\ x.char # "LF"
          /\ GivenTo(p, x) \/ StillToWrite(TaskOf(q), p, x)
    BY <1>1 DEF KeptInv, Kept
  <2>2. p \in Ports
    BY DEF Echoing, Ports
  <2>3. GivenTo(p, x) => GivenTo(p, x)'
    BY <1>7, <2>1, <2>2
  <2>4. StillToWrite(TaskOf(q), p, x) => StillToWrite(TaskOf(q), p, x)'
    BY <1>2 DEF StillToWrite, TaskOf
  <2> QED
    BY <2>1, <2>3, <2>4 DEF Kept
<1> QED
  BY <1>6, <1>8, <1>9, <1>10, <1>11, <1>12 DEF EchoInv

\* A character more is to be read, and there is room for its echo if the host is still patient.
LEMMA TypeStep ==
  ASSUME EchoInv, NEW port \in Ports, NEW c \in Chars, Type(port, c)
  PROVE  EchoInv'
<1>1. EchoTypeOK /\ InputInv /\ TaskInv /\ EchoInOrder /\ GivenInv /\ RoomInv /\ QuietInv /\ KeptInv
  BY DEF EchoInv
<1>2. PICK new \in Characters :
        /\ new = Char(port, typed[port] + 1, c)
        /\ new.from = port /\ new.n = typed[port] + 1 /\ new.char \in {"A", "a", "CR"}
        /\ typed[port] + 1 \in 0 .. MaxTyped
  <2>1. typed[port] + 1 \in 0 .. MaxTyped
    <3>1. \A q \in Ports : typed[q] \in Nat
      BY <1>1, EchoFacts, EchoConstants
    <3>2. typed["first"] + typed["second"] < MaxTyped
      BY DEF Type
    <3>3. CASE port = "first"
      <4>1. typed[port] \in Nat /\ typed["second"] \in Nat /\ typed[port] + typed["second"] < MaxTyped
        BY <3>1, <3>2, <3>3 DEF Ports
      <4> QED
        BY <4>1, EchoConstants
    <3>4. CASE port = "second"
      <4>1. typed[port] \in Nat /\ typed["first"] \in Nat /\ typed["first"] + typed[port] < MaxTyped
        BY <3>1, <3>2, <3>4 DEF Ports
      <4> QED
        BY <4>1, EchoConstants
    <3> QED
      BY <3>3, <3>4 DEF Ports
  <2>2. c \in {"A", "a", "CR"}
    BY EchoConstants
  <2>3. Char(port, typed[port] + 1, c) = [from |-> port, n |-> typed[port] + 1, char |-> c]
    BY DEF Char
  <2>4. Char(port, typed[port] + 1, c) \in Characters
    BY <2>1, <2>2, <2>3 DEF Characters
  <2> QED
    BY <2>1, <2>2, <2>3, <2>4
<1>3. /\ echoDemo' = echoDemo /\ web_serial_connected' = web_serial_connected
      /\ cdc_connected' = cdc_connected /\ echo' = echo /\ output' = output /\ shown' = shown
      /\ connects' = connects
      /\ typed' = [typed EXCEPT ![port] = typed[port] + 1]
      /\ input' = [input EXCEPT ![port] = Append(input[port], new)]
      /\ patient' = (/\ patient /\ (echoDemo = "web" => cdc_connected)
                     /\ \A p \in Echoing : Pending(p) + 2 <= FifoSize)
  BY <1>2 DEF Type
<1>4. /\ input[port] \in Seq(Characters) /\ Len(input[port]) \in Nat /\ typed[port] \in Nat
      /\ Len(input[port]) <= typed[port]
  BY <1>1, EchoFacts, EchoConstants DEF InputInv
<1>5. PICK more \in Seq(Characters) :
        /\ more = Append(input[port], new) /\ Len(more) = Len(input[port]) + 1
        /\ \A i \in 1 .. Len(input[port]) : more[i] = input[port][i]
        /\ more[Len(input[port]) + 1] = new
  BY <1>4, AppendedTo
<1>6. /\ input'[port] = more /\ typed'[port] = typed[port] + 1
      /\ \A q \in Ports : q # port => input'[q] = input[q] /\ typed'[q] = typed[q]
  BY <1>1, <1>3, <1>5, EchoFacts
<1>7. \A q \in Ports : TakenOf(q)' = TakenOf(q)
  <2>1. TakenOf(port)' = TakenOf(port)
    <3>1. Len(input'[port]) = Len(input[port]) + 1
      BY <1>5, <1>6
    <3>2. TakenOf(port)' = (typed[port] + 1) - (Len(input[port]) + 1)
      BY <1>6, <3>1 DEF TakenOf
    <3> QED
      BY <1>4, <3>2 DEF TakenOf
  <2> QED
    BY <1>6, <2>1 DEF TakenOf
<1>8. EchoTypeOK'
  <2>1. typed' \in [Ports -> 0 .. MaxTyped]
    BY <1>1, <1>2, <1>3 DEF EchoTypeOK
  <2>2. input' \in [Ports -> Seq(Characters)]
    BY <1>1, <1>3, <1>5 DEF EchoTypeOK
  <2>3. patient' \in BOOLEAN
    BY <1>3, Zenon
  <2> QED
    BY <1>1, <1>3, <2>1, <2>2, <2>3, Zenon DEF EchoTypeOK
<1>9. InputInv'
  <2> SUFFICES ASSUME NEW q \in Ports
               PROVE  /\ Len(input'[q]) <= typed'[q]
                      /\ \A i \in 1 .. Len(input'[q]) :
                           /\ input'[q][i].from = q /\ input'[q][i].n = TakenOf(q)' + i
                           /\ input'[q][i].char \in {"A", "a", "CR"}
    BY DEF InputInv
  <2>1. CASE q # port
    BY <1>1, <1>6, <1>7, <2>1 DEF InputInv
  <2>2. CASE q = port
    <3>1. Len(more) <= typed[port] + 1
      <4>1. Len(more) = Len(input[port]) + 1
        BY <1>5
      <4> QED
        BY <1>4, <4>1
    <3>2. ASSUME NEW i \in 1 .. Len(more)
          PROVE  /\ more[i].from = port /\ more[i].n = TakenOf(port) + i
                 /\ more[i].char \in {"A", "a", "CR"}
      <4>1. CASE i \in 1 .. Len(input[port])
        BY <1>1, <1>5, <4>1 DEF InputInv
      <4>2. CASE i = Len(input[port]) + 1
        <5>1. TakenOf(port) + i = typed[port] + 1
          BY <1>4, <4>2 DEF TakenOf
        <5> QED
          BY <1>2, <1>5, <4>2, <5>1
      <4>3. i \in 1 .. Len(input[port]) \/ i = Len(input[port]) + 1
        <5>1. i \in 1 .. Len(input[port]) + 1
          BY <1>5
        <5> QED
          BY <1>4, <5>1
      <4> QED
        BY <4>1, <4>2, <4>3
    <3> QED
      BY <1>6, <1>7, <2>2, <3>1, <3>2
  <2> QED
    BY <2>1, <2>2
<1>10. /\ \A q : TaskOf(q)' = TaskOf(q)
       /\ \A x : WasRead(x)' <=> WasRead(x)
       /\ \A u, p, x : StillToWrite(u, p, x)' <=> StillToWrite(u, p, x)
       /\ \A p, x : GivenTo(p, x)' <=> GivenTo(p, x)
       /\ \A p, x : BeforeRest(p, x)' <=> BeforeRest(p, x)
  BY <1>3, <1>7 DEF TaskOf, WasRead, StillToWrite, GivenTo, BeforeRest
<1>11. TaskInv' /\ EchoInOrder' /\ GivenInv'
  BY <1>1, <1>3, <1>10 DEF TaskInv, EchoInOrder, GivenInv
<1>12. QuietInv'
  BY <1>3 DEF QuietInv
<1>13. KeptInv'
  <2> SUFFICES ASSUME patient, NEW p \in Echoing, NEW q \in Ports, NEW n \in 1 .. TakenOf(q)
               PROVE  Kept(p, q, n)'
    BY <1>3, <1>7 DEF KeptInv, Echoing
  <2>1. Kept(p, q, n)
    BY <1>1 DEF KeptInv
  <2> QED
    BY <1>10, <2>1 DEF Kept
<1>14. RoomInv'
  <2> SUFFICES ASSUME patient', NEW p \in Echoing
               PROVE  Need(p)' <= FifoSize
    BY <1>3 DEF RoomInv, Echoing
  <2>1. Pending(p) + 2 <= FifoSize /\ p \in Ports
    BY <1>3 DEF Echoing, Ports
  <2>2. Need(p) \in Nat /\ Need(p) <= Pending(p) /\ Pending(p) \in Nat
    BY <1>1, <2>1, NeedFacts
  <2>3. Need(p)' \in Int /\ Need(p)' <= Need(p) + 2
    <3>1. Len(input'["first"]) + Len(input'["second"]) <= Len(input["first"]) + Len(input["second"]) + 1
      <4>1. Len(input["first"]) \in Nat /\ Len(input["second"]) \in Nat
        BY <1>1, EchoFacts DEF Ports
      <4>2. Len(input'[port]) = Len(input[port]) + 1
        BY <1>5, <1>6
      <4>3. CASE port = "first"
        <5>1. Len(input'["first"]) = Len(input["first"]) + 1 /\ Len(input'["second"]) = Len(input["second"])
          BY <1>6, <4>2, <4>3 DEF Ports
        <5> QED
          BY <4>1, <5>1, OneMore
      <4>4. CASE port = "second"
        <5>1. Len(input'["second"]) = Len(input["second"]) + 1 /\ Len(input'["first"]) = Len(input["first"])
          BY <1>6, <4>2, <4>4 DEF Ports
        <5> QED
          BY <4>1, <5>1, OneMore
      <4> QED
        BY <4>3, <4>4 DEF Ports
    <3>2. Weight(echo'[port][p]) <= Weight(echo[port][p])
      <4>1. Weight(echo[port][p]) \in Nat
        BY <1>1, <2>1, EchoFacts, WeightFacts
      <4> QED
        BY <1>3, <4>1
    <3>3. Len(output'[p]) <= Len(output[p])
      <4>1. Len(output[p]) \in Nat
        BY <1>1, <2>1, EchoFacts
      <4> QED
        BY <1>3, <4>1
    <3>4. \A u \in Ports : u # port => echo'[u][p] = echo[u][p]
      BY <1>3
    <3> QED
      BY <1>1, <1>8, <2>1, <3>1, <3>2, <3>3, <3>4, NeedByOne
  <2> QED
    BY <2>1, <2>2, <2>3, EchoConstants
<1> QED
  BY <1>8, <1>9, <1>11, <1>12, <1>13, <1>14 DEF EchoInv

\* What one task wrote and what another still writes is of two ports, in no order.
LEMMA OtherTask ==
  ASSUME EchoTypeOK, TaskInv, NEW t \in Ports, NEW u \in Ports, t # u, NEW p \in Ports,
         NEW x \in Characters, TaskOf(x.from) = t, NEW j \in 1 .. Len(echo[u][p])
  PROVE  Precedes(x, echo[u][p][j])
<1>1. PICK y \in Characters : y = echo[u][p][j]
  <2>1. echo[u][p] \in Seq(Characters)
    BY EchoFacts
  <2> QED
    BY <2>1
<1>2. StillToWrite(u, p, y)
  BY <1>1 DEF StillToWrite
<1>3. TaskOf(y.from) = u
  BY <1>2 DEF TaskInv
<1> QED
  BY <1>1, <1>3 DEF Precedes

\* What keeps what was read, and who echoes it.
LEMMA NothingRead ==
  ASSUME echoDemo' = echoDemo, typed' = typed, input' = input
  PROVE  /\ \A q : TaskOf(q)' = TaskOf(q) /\ TakenOf(q)' = TakenOf(q)
         /\ \A x : WasRead(x)' <=> WasRead(x)
         /\ Echoing' = Echoing
         /\ InputInv => InputInv'
<1>1. \A q : TaskOf(q)' = TaskOf(q) /\ TakenOf(q)' = TakenOf(q)
  BY DEF TaskOf, TakenOf
<1>2. \A x : WasRead(x)' <=> WasRead(x)
  BY <1>1 DEF WasRead
<1>3. Echoing' = Echoing
  BY DEF Echoing
<1>4. InputInv => InputInv'
  BY DEF InputInv, TakenOf
<1> QED
  BY <1>1, <1>2, <1>3, <1>4

\* What is written of a task's rest, from its beginning on, keeps the order of the port.
LEMMA RestWritten ==
  ASSUME EchoInv, NEW t \in Ports, NEW p \in Ports, NEW chars \in Seq(Characters), Put(p, chars),
         echoDemo' = echoDemo, typed' = typed, input' = input, shown' = shown,
         Len(chars) <= Len(echo[t][p]), \A i \in 1 .. Len(chars) : chars[i] = echo[t][p][i],
         \A u \in Ports : u # t => echo'[u] = echo[u],
         \A q \in Ports : \A x \in Characters : GivenTo(q, x) =>
           \A j \in 1 .. Len(echo'[t][q]) : Precedes(x, echo'[t][q][j]),
         \A i \in 1 .. Len(chars) : \A j \in 1 .. Len(echo'[t][p]) :
           Precedes(chars[i], echo'[t][p][j])
  PROVE  EchoInOrder' /\ GivenInv'
<1>1. EchoTypeOK /\ TaskInv /\ GivenInv
  BY DEF EchoInv
<1>2. Len(chars) \in Nat /\ Len(echo[t][p]) \in Nat
  BY <1>1, EchoFacts
<1>3. \A i \in 1 .. Len(chars) : i \in 1 .. Len(echo[t][p])
  BY <1>2
<1>4. \A i \in 1 .. Len(chars) : chars[i] \in Characters /\ StillToWrite(t, p, chars[i])
  BY <1>3 DEF StillToWrite
<1>5. \A i \in 1 .. Len(chars) : WasRead(chars[i]) /\ TaskOf(chars[i].from) = t
  BY <1>1, <1>4 DEF TaskInv
<1>6. \A x \in Characters : GivenTo(p, x) => \A i \in 1 .. Len(chars) : Precedes(x, chars[i])
  BY <1>1, <1>3 DEF GivenInv, BeforeRest
<1>7. \A i, j \in 1 .. Len(chars) : i < j => Precedes(chars[i], chars[j])
  BY <1>1, <1>3 DEF TaskInv
<1>8. ASSUME NEW q \in Ports, NEW x \in Characters, GivenTo(q, x), NEW u \in Ports,
             NEW j \in 1 .. Len(echo'[u][q])
      PROVE  Precedes(x, echo'[u][q][j])
  <2>1. CASE u = t
    BY <1>8, <2>1
  <2>2. CASE u # t
    BY <1>1, <1>8, <2>2 DEF GivenInv, BeforeRest
  <2> QED
    BY <2>1, <2>2
<1>9. ASSUME NEW i \in 1 .. Len(chars), NEW u \in Ports, NEW j \in 1 .. Len(echo'[u][p])
      PROVE  Precedes(chars[i], echo'[u][p][j])
  <2>1. CASE u = t
    BY <2>1
  <2>2. CASE u # t
    <3>1. echo'[u][p] = echo[u][p]
      BY <2>2
    <3>2. PICK x \in Characters : x = chars[i] /\ TaskOf(x.from) = t
      BY <1>4, <1>5
    <3> QED
      BY <1>1, <2>2, <3>1, <3>2, OtherTask
  <2> QED
    BY <2>1, <2>2
<1> QED
  BY <1>5, <1>6, <1>7, <1>8, <1>9, GivenGrows

LEMMA TurnFacts ==
  ASSUME NEW t \in Ports
  PROVE  /\ Turn(t) \in Ports
         /\ Turn(t) = "second" /\ echoDemo # "web" => echo[t]["first"] = << >>
<1>1. \A q \in Ports : (CHOOSE p \in Ports : p # q) \in Ports /\ (CHOOSE p \in Ports : p # q) # q
  <2> SUFFICES ASSUME NEW q \in Ports
               PROVE  (CHOOSE p \in Ports : p # q) \in Ports /\ (CHOOSE p \in Ports : p # q) # q
    OBVIOUS
  <2>1. \E p \in Ports : p # q
    <3>1. "first" \in Ports /\ "second" \in Ports /\ "first" # "second"
      BY DEF Ports
    <3> QED
      BY <3>1
  <2> QED
    BY <2>1
<1>2. "first" \in Ports /\ "second" \in Ports /\ "first" # "second"
  BY DEF Ports
<1> QED
  BY <1>1, <1>2 DEF Turn

LEMMA WriteChunkStep ==
  ASSUME EchoInv, NEW task \in Ports, WriteChunk(task)
  PROVE  EchoInv'
<1>1. EchoTypeOK /\ InputInv /\ TaskInv /\ EchoInOrder /\ GivenInv /\ RoomInv /\ QuietInv /\ KeptInv
  BY DEF EchoInv
<1>2. PICK port \in Ports : port = Turn(task)
  BY TurnFacts
<1>3. PICK s \in Seq(Characters) : s = echo[task][port]
  BY <1>1, EchoFacts
<1>4. "first" \in Ports /\ "second" \in Ports /\ (port = "first" \/ port = "second")
  BY DEF Ports
<1>5. PICK next \in Seq(Characters) :
        /\ next = (IF echoDemo = "web" /\ cdc_connected THEN echo[task]["first"] ELSE << >>)
        /\ next = echo[task]["first"] \/ next = << >>
  <2>1. << >> \in Seq(Characters) /\ echo[task]["first"] \in Seq(Characters)
    BY <1>1, <1>4, EchoFacts
  <2> QED
    BY <2>1
<1>6. /\ (echoDemo = "web" /\ port = "second") \/ echoDemo = "single"
      /\ Put(port, s)
      /\ echo' = [echo EXCEPT ![task] = [NoChars EXCEPT !["first"] = next]]
      /\ echoDemo' = echoDemo /\ web_serial_connected' = web_serial_connected
      /\ cdc_connected' = cdc_connected /\ typed' = typed /\ input' = input /\ shown' = shown
      /\ patient' = patient /\ connects' = connects
  BY <1>2, <1>3, <1>5 DEF WriteChunk
<1>7. /\ echo'[task]["first"] = next /\ echo'[task]["second"] = << >>
      /\ \A u \in Ports : u # task => echo'[u] = echo[u]
  BY <1>1, <1>4, <1>6, EchoFacts DEF NoChars
<1>8. echo'[task][port] = << >>
  BY <1>4, <1>5, <1>6, <1>7
<1>9. \A q \in Ports : echo'[task][q] = echo[task][q] \/ echo'[task][q] = << >>
  BY <1>5, <1>7 DEF Ports
<1>10. EchoTypeOK'
  <2>1. echo' \in [Ports -> [Ports -> Seq(Characters)]]
    <3>1. [NoChars EXCEPT !["first"] = next] \in [Ports -> Seq(Characters)]
      <4>1. NoChars \in [Ports -> Seq(Characters)]
        <5>1. << >> \in Seq(Characters)
          OBVIOUS
        <5> QED
          BY <5>1 DEF NoChars
      <4> QED
        BY <4>1
    <3> QED
      BY <1>1, <1>6, <3>1 DEF EchoTypeOK
  <2>2. output' \in [Ports -> Seq(Characters)] /\ \A q \in Ports : Len(output'[q]) <= FifoSize
    BY <1>1, <1>6, PutFacts
  <2> QED
    BY <1>1, <1>6, <2>1, <2>2, Zenon DEF EchoTypeOK
<1>11. /\ \A q : TaskOf(q)' = TaskOf(q) /\ TakenOf(q)' = TakenOf(q)
       /\ \A x : WasRead(x)' <=> WasRead(x)
       /\ Echoing' = Echoing /\ InputInv'
  BY <1>1, <1>6, NothingRead
<1>12. \A u, q \in Ports : echo'[u][q] = echo[u][q] \/ echo'[u][q] = << >>
  BY <1>7, <1>9
<1>13. TaskInv'
  <2> SUFFICES ASSUME NEW u \in Ports, NEW q \in Ports
               PROVE  /\ \A x \in Characters : StillToWrite(u, q, x)' =>
                           x.from \in Ports /\ TaskOf(x.from)' = u /\ WasRead(x)'
                      /\ \A i \in 1 .. Len(echo'[u][q]) :
                           /\ echo'[u][q][i].char = "LF" => i = 1
                           /\ \A j \in 1 .. Len(echo'[u][q]) : i < j =>
                                Precedes(echo'[u][q][i], echo'[u][q][j])
    BY DEF TaskInv
  <2>1. CASE echo'[u][q] = echo[u][q]
    <3>1. \A x : StillToWrite(u, q, x)' <=> StillToWrite(u, q, x)
      BY <2>1 DEF StillToWrite
    <3> QED
      BY <1>1, <1>11, <2>1, <3>1 DEF TaskInv
  <2>2. CASE echo'[u][q] = << >>
    <3>1. Len(echo'[u][q]) = 0
      BY <2>2
    <3>2. 1 .. Len(echo'[u][q]) = {}
      BY <3>1
    <3> QED
      BY <3>2 DEF StillToWrite
  <2> QED
    BY <1>12, <2>1, <2>2
<1>14. EchoInOrder' /\ GivenInv'
  <2>1. Len(s) <= Len(echo[task][port]) /\ \A i \in 1 .. Len(s) : s[i] = echo[task][port][i]
    BY <1>3
  <2>2. ASSUME NEW q \in Ports, NEW x \in Characters, GivenTo(q, x),
               NEW j \in 1 .. Len(echo'[task][q])
        PROVE  Precedes(x, echo'[task][q][j])
    <3>1. CASE echo'[task][q] = echo[task][q]
      BY <1>1, <2>2, <3>1 DEF GivenInv, BeforeRest
    <3>2. CASE echo'[task][q] = << >>
      BY <2>2, <3>2
    <3> QED
      BY <1>9, <3>1, <3>2
  <2>3. \A i \in 1 .. Len(s) : \A j \in 1 .. Len(echo'[task][port]) :
          Precedes(s[i], echo'[task][port][j])
    <3>1. 1 .. Len(echo'[task][port]) = {}
      BY <1>8
    <3> QED
      BY <3>1
  <2> QED
    BY <1>6, <1>7, <2>1, <2>2, <2>3, RestWritten
<1>15. PICK k \in 0 .. Len(s) :
         /\ Len(output'[port]) = Len(output[port]) + k
         /\ Len(output[port]) + Len(s) <= FifoSize => k = Len(s)
  BY <1>1, <1>6, PutFacts
<1>16. \A q \in Ports : q # port => output'[q] = output[q]
  BY <1>1, <1>6, PutFacts
<1>17. /\ Len(s) \in Nat /\ Weight(s) \in Nat /\ Len(s) <= Weight(s) /\ Len(output[port]) \in Nat
       /\ k \in Nat /\ k <= Len(s)
  BY <1>1, EchoFacts, WeightFacts
<1>18. echoDemo # "web" /\ port = "second" => echo[task]["first"] = << >>
  BY <1>2, TurnFacts
<1>19. RoomInv'
  <2> SUFFICES ASSUME patient
               PROVE  Need("first")' <= FifoSize
    BY <1>6, <1>11 DEF RoomInv, Echoing
  <2>1. Need("first") <= FifoSize /\ Need("first") \in Nat
    BY <1>1, <1>4, <1>6, NeedFacts DEF RoomInv, Echoing
  <2>2. /\ Len(input["first"]) \in Nat /\ Len(input["second"]) \in Nat
        /\ Len(input'["first"]) = Len(input["first"]) /\ Len(input'["second"]) = Len(input["second"])
    BY <1>1, <1>4, <1>6, EchoFacts
  <2>3. \A u \in Ports : u # task => echo'[u]["first"] = echo[u]["first"]
    BY <1>7
  <2>4. /\ Weight(echo'[task]["first"]) \in Nat /\ Weight(echo[task]["first"]) \in Nat
        /\ Weight(echo'[task]["first"]) <= Weight(echo[task]["first"])
    <3>1. Weight(next) \in Nat /\ (next = << >> => Weight(next) = 0)
      BY WeightFacts
    <3>2. PICK whole \in Seq(Characters) : whole = echo[task]["first"]
      BY <1>1, <1>4, EchoFacts
    <3>3. Weight(whole) \in Nat
      BY WeightFacts
    <3> QED
      BY <1>5, <1>7, <3>1, <3>2, <3>3
  <2>5. CASE port = "second"
    <3>1. Len(output'["first"]) = Len(output["first"]) /\ Len(output["first"]) \in Nat
      <4>1. output'["first"] = output["first"]
        BY <1>4, <1>16, <2>5
      <4> QED
        BY <1>1, <1>4, <4>1, EchoFacts
    <3>2. Need("first")' \in Int /\ Need("first")' <= Need("first")
      <4>1. /\ Len(input'["first"]) + Len(input'["second"]) <= Len(input["first"]) + Len(input["second"])
            /\ Len(output'["first"]) <= Len(output["first"])
        BY <2>2, <3>1
      <4> QED
        BY <1>1, <1>4, <1>10, <2>3, <2>4, <4>1, NeedFalls
    <3> QED
      BY <2>1, <3>2, EchoConstants
  <2>6. CASE port = "first"
    <3>1. PICK di \in Int : di = 0
      BY Zero
    <3>2. PICK dw \in Int : dw = 0 - Weight(s)
      BY <1>17
    <3>3. /\ Len(input'["first"]) + Len(input'["second"])
               <= Len(input["first"]) + Len(input["second"]) + di
      BY <2>2, <3>1
    <3>4. Weight(echo'[task]["first"]) <= Weight(echo[task]["first"]) + dw
      <4>1. Weight(echo'[task]["first"]) = 0
        <5>1. echo'[task]["first"] \in Seq(Characters) /\ echo'[task]["first"] = << >>
          BY <1>7, <1>8, <2>6
        <5> QED
          BY <5>1, WeightFacts
      <4>2. Weight(echo[task]["first"]) = Weight(s)
        BY <1>3, <2>6
      <4> QED
        BY <1>17, <3>2, <4>1, <4>2
    <3>5. Len(output'["first"]) <= Len(output["first"]) + k
      BY <1>15, <1>17, <2>6
    <3>6. Need("first")' \in Int /\ Need("first")' <= Need("first") + (2 * di + dw + k)
      <4>1. k \in Int
        BY <1>17
      <4> QED
        BY <1>1, <1>4, <1>10, <2>3, <3>3, <3>4, <3>5, <4>1, NeedChanges
    <3> QED
      BY <1>17, <2>1, <3>1, <3>2, <3>6, EchoConstants
  <2> QED
    BY <1>4, <2>5, <2>6
<1>20. QuietInv'
  BY <1>1, <1>6 DEF QuietInv
<1>21. KeptInv'
  <2> SUFFICES ASSUME patient, NEW q \in Ports, NEW n \in 1 .. TakenOf(q)
               PROVE  Kept("first", q, n)'
    BY <1>6, <1>11 DEF KeptInv, Echoing
  <2>1. PICK x \in Characters :
          /\ x.from = q /\ x.n = n /\ x.char # "LF"
          /\ GivenTo("first", x) \/ StillToWrite(TaskOf(q), "first", x)
    BY <1>1, <1>6 DEF KeptInv, Kept, Echoing
  <2>2. PICK t \in Ports : t = TaskOf(q) /\ t = TaskOf(q)'
    BY <1>11 DEF TaskOf, Ports
  <2>3. /\ GivenTo("first", x) => GivenTo("first", x)'
        /\ Len(output[port]) + Len(s) <= FifoSize =>
             ((\E i \in 1 .. Len(s) : s[i] = x) => GivenTo(port, x)')
    BY <1>1, <1>4, <1>6, GivenStays
  <2>4. ASSUME StillToWrite(t, "first", x)
        PROVE  GivenTo("first", x)' \/ StillToWrite(t, "first", x)'
    <3>1. CASE t # task
      BY <1>7, <2>4, <3>1 DEF StillToWrite
    <3>2. CASE t = task /\ echoDemo = "web"
      <4>1. cdc_connected
        <5>1. typed[q] # 0
          <6>1. TakenOf(q) \in Nat /\ TakenOf(q) <= typed[q] /\ typed[q] \in Nat
            BY <1>1, TakenFacts, EchoFacts, EchoConstants
          <6>2. n \in 1 .. TakenOf(q)
            OBVIOUS
          <6> QED
            BY <6>1, <6>2
        <5> QED
          BY <1>1, <3>2, <5>1 DEF QuietInv
      <4>2. echo'[task]["first"] = echo[task]["first"]
        BY <1>5, <1>7, <3>2, <4>1
      <4> QED
        BY <2>4, <3>2, <4>2 DEF StillToWrite
    <3>3. CASE t = task /\ echoDemo # "web" /\ port = "first"
      <4>1. Len(output[port]) + Len(s) <= FifoSize
        <5>1. Need(port) <= FifoSize /\ Need(port) \in Nat
              /\ Weight(echo[task][port]) + Len(output[port]) <= Need(port)
          BY <1>1, <1>6, <3>3, NeedFacts DEF RoomInv, Echoing
        <5> QED
          <6>1. Weight(s) + Len(output[port]) <= Need(port)
            BY <1>3, <5>1
          <6> QED
            BY <1>17, <5>1, <6>1, EchoConstants, FitsIn
      <4> QED
        BY <1>3, <2>3, <2>4, <3>3, <4>1 DEF StillToWrite
    <3>4. CASE t = task /\ echoDemo # "web" /\ port = "second"
      <4>1. echo[task]["first"] = << >>
        BY <1>18, <3>4
      <4> QED
        BY <2>4, <3>4, <4>1 DEF StillToWrite
    <3> QED
      BY <1>4, <3>1, <3>2, <3>3, <3>4
  <2> QED
    BY <2>1, <2>2, <2>3, <2>4 DEF Kept
<1> QED
  BY <1>10, <1>11, <1>13, <1>14, <1>19, <1>20, <1>21 DEF EchoInv

LEMMA HeadWeight ==
  \A s \in Seq(Characters) : s # << >> =>
    /\ s[1].char = "LF" => Weight(s) = 2 * Len(s) - 1
    /\ s[1].char # "LF" => Weight(s) = 2 * Len(s)
<1> SUFFICES ASSUME NEW s \in Seq(Characters), s # << >>
             PROVE  /\ s[1].char = "LF" => Weight(s) = 2 * Len(s) - 1
                    /\ s[1].char # "LF" => Weight(s) = 2 * Len(s)
  OBVIOUS
<1>1. s[1].char = "LF" => Weight(s) = 2 * Len(s) - 1
  BY Zenon DEF Weight
<1>2. s[1].char # "LF" => Weight(s) = 2 * Len(s) - 0
  BY Zenon DEF Weight
<1>3. Len(s) \in Nat
  OBVIOUS
<1> QED
  BY <1>1, <1>2, <1>3

\* What is left to write of a rest when its first character is written: all behind it, or, of
\* a return, its line feed too.
LEMMA AfterChar ==
  \A s \in Seq(Characters) : s # << >> =>
    /\ Tail(s) \in Seq(Characters) /\ Len(Tail(s)) = Len(s) - 1
    /\ \A i \in 1 .. Len(s) - 1 : Tail(s)[i] = s[i + 1]
OBVIOUS

LEMMA AfterReturn ==
  \A s \in Seq(Characters), x \in Characters : s # << >> =>
    /\ [s EXCEPT ![1] = x] \in Seq(Characters) /\ Len([s EXCEPT ![1] = x]) = Len(s)
    /\ [s EXCEPT ![1] = x][1] = x
    /\ \A i \in 1 .. Len(s) : i # 1 => [s EXCEPT ![1] = x][i] = s[i]
OBVIOUS

LEMMA FirstOf ==
  \A s \in Seq(Characters) : s # << >> =>
    /\ 1 \in 1 .. Len(s) /\ s[1] \in Characters /\ <<s[1]>> \in Seq(Characters)
    /\ Len(<<s[1]>>) = 1 /\ <<s[1]>>[1] = s[1]
OBVIOUS

LEMMA Lighter ==
  \A i, w, v, j \in Nat :
    /\ w = 2 * i /\ v = 2 * i - 1 => v + 1 <= w
    /\ j = i - 1 /\ v <= 2 * j /\ (w = 2 * i \/ w = 2 * i - 1) => v + 1 <= w
OBVIOUS

\* The rest behind a character that was written is in order, behind that character too.
Follows(left, s) ==
  /\ \A i \in 1 .. Len(left) : \E m \in 1 .. Len(s) :
       left[i].from = s[m].from /\ left[i].n = s[m].n
  /\ \A i \in 1 .. Len(left) : left[i].char = "LF" => i = 1
  /\ \A i, j \in 1 .. Len(left) : i < j => Precedes(left[i], left[j])
  /\ \A j \in 1 .. Len(left) : Precedes(s[1], left[j])
  /\ \A x \in Characters : (\A m \in 1 .. Len(s) : Precedes(x, s[m])) =>
       \A j \in 1 .. Len(left) : Precedes(x, left[j])
  /\ Weight(left) + 1 <= Weight(s)
  /\ \A m \in 1 .. Len(s) : m # 1 => \E i \in 1 .. Len(left) : left[i] = s[m]

LEMMA CharFollows ==
  ASSUME NEW s \in Seq(Characters), s # << >>,
         \A i \in 1 .. Len(s) : s[i].char = "LF" => i = 1,
         \A i, j \in 1 .. Len(s) : i < j => Precedes(s[i], s[j])
  PROVE  Follows(Tail(s), s)
<1>1. PICK left \in Seq(Characters) :
        /\ left = Tail(s) /\ Len(left) = Len(s) - 1
        /\ \A i \in 1 .. Len(s) - 1 : left[i] = s[i + 1]
  BY AfterChar
<1>2. Len(s) \in Nat /\ Len(s) > 0 /\ 1 \in 1 .. Len(s)
  BY FirstOf
<1>3. \A i \in 1 .. Len(left) : i \in Nat /\ i > 0 /\ i + 1 \in 1 .. Len(s) /\ left[i] = s[i + 1]
  BY <1>1, <1>2
<1>4. \A i, j \in 1 .. Len(left) : i < j => Precedes(left[i], left[j])
  <2> SUFFICES ASSUME NEW i \in 1 .. Len(left), NEW j \in 1 .. Len(left), i < j
               PROVE  Precedes(s[i + 1], s[j + 1])
    BY <1>3
  <2>1. i + 1 \in 1 .. Len(s) /\ j + 1 \in 1 .. Len(s) /\ i + 1 < j + 1
    BY <1>3
  <2> QED
    BY <2>1
<1>5. \A j \in 1 .. Len(left) : Precedes(s[1], left[j])
  <2> SUFFICES ASSUME NEW j \in 1 .. Len(left)
               PROVE  Precedes(s[1], s[j + 1])
    BY <1>3
  <2>1. j + 1 \in 1 .. Len(s) /\ 1 < j + 1
    BY <1>3
  <2> QED
    BY <1>2, <2>1
<1>6. \A i \in 1 .. Len(left) : left[i].char # "LF"
  <2> SUFFICES ASSUME NEW i \in 1 .. Len(left)
               PROVE  s[i + 1].char # "LF"
    BY <1>3
  <2>1. i + 1 \in 1 .. Len(s) /\ i + 1 # 1
    BY <1>3
  <2> QED
    BY <2>1
<1>7. Weight(left) + 1 <= Weight(s)
  <2>1. /\ Weight(left) \in Nat /\ Weight(left) <= 2 * Len(left) /\ Weight(s) \in Nat
        /\ Weight(s) = 2 * Len(s) \/ Weight(s) = 2 * Len(s) - 1
    BY WeightFacts, HeadWeight
  <2>2. Len(left) \in Nat
    OBVIOUS
  <2> QED
    BY <1>1, <1>2, <2>1, <2>2, Lighter
<1>8. ASSUME NEW m \in 1 .. Len(s), m # 1
      PROVE  \E i \in 1 .. Len(left) : left[i] = s[m]
  <2>1. m - 1 \in 1 .. Len(left) /\ (m - 1) + 1 = m
    BY <1>1, <1>2, <1>8
  <2> QED
    BY <1>3, <2>1
<1> QED
  BY <1>1, <1>3, <1>4, <1>5, <1>6, <1>7, <1>8 DEF Follows

LEMMA FeedFollows ==
  ASSUME NEW s \in Seq(Characters), s # << >>, s[1].char = "CR",
         \A i \in 1 .. Len(s) : s[i].char = "LF" => i = 1,
         \A i, j \in 1 .. Len(s) : i < j => Precedes(s[i], s[j])
  PROVE  Follows([s EXCEPT ![1] = [@ EXCEPT !.char = "LF"]], s)
<1>1. Len(s) \in Nat /\ Len(s) > 0 /\ 1 \in 1 .. Len(s) /\ s[1] \in Characters
  BY FirstOf
<1>2. PICK feed \in Characters :
        /\ feed = [s[1] EXCEPT !.char = "LF"]
        /\ feed.from = s[1].from /\ feed.n = s[1].n /\ feed.char = "LF"
  BY <1>1, CharacterFacts
<1>3. PICK left \in Seq(Characters) :
        /\ left = [s EXCEPT ![1] = feed] /\ Len(left) = Len(s) /\ left[1] = feed
        /\ \A i \in 1 .. Len(s) : i # 1 => left[i] = s[i]
  <2>1. /\ [s EXCEPT ![1] = feed] \in Seq(Characters) /\ Len([s EXCEPT ![1] = feed]) = Len(s)
        /\ [s EXCEPT ![1] = feed][1] = feed
        /\ \A i \in 1 .. Len(s) : i # 1 => [s EXCEPT ![1] = feed][i] = s[i]
    BY AfterReturn, Zenon
  <2> QED
    BY <2>1
<1>4. \A j \in 1 .. Len(s) : j # 1 => 1 < j /\ s[j].char # "LF"
  BY <1>1
<1>5. Precedes(s[1], feed)
  BY <1>2 DEF Precedes
<1>6. ASSUME NEW j \in 1 .. Len(s), j # 1
      PROVE  Precedes(feed, s[j])
  <2>1. Precedes(s[1], s[j]) /\ s[j].char # "LF"
    BY <1>1, <1>4, <1>6
  <2> QED
    BY <1>2, <2>1 DEF Precedes
<1>7. ASSUME NEW x \in Characters, Precedes(x, s[1])
      PROVE  Precedes(x, feed)
  BY <1>2, <1>7 DEF Precedes
<1>8. ASSUME NEW i \in 1 .. Len(left), NEW j \in 1 .. Len(left), i < j
      PROVE  Precedes(left[i], left[j])
  <2>1. i \in 1 .. Len(s) /\ j \in 1 .. Len(s) /\ j # 1
    BY <1>3, <1>8
  <2>2. left[j] = s[j]
    BY <1>3, <2>1
  <2>3. CASE i = 1
    BY <1>3, <1>6, <2>1, <2>2, <2>3
  <2>4. CASE i # 1
    BY <1>3, <1>8, <2>1, <2>2, <2>4
  <2> QED
    BY <2>3, <2>4
<1>9. \A j \in 1 .. Len(left) : Precedes(s[1], left[j])
  BY <1>1, <1>3, <1>4, <1>5
<1>10. \A x \in Characters : (\A m \in 1 .. Len(s) : Precedes(x, s[m])) =>
         \A j \in 1 .. Len(left) : Precedes(x, left[j])
  BY <1>1, <1>3, <1>7
<1>11. Weight(left) + 1 <= Weight(s)
  <2>1. Weight(s) = 2 * Len(s) /\ Weight(s) \in Nat /\ Weight(left) \in Nat
    BY WeightFacts, HeadWeight
  <2>2. Weight(left) = 2 * Len(s) - 1
    <3>1. left # << >> /\ left[1].char = "LF"
      BY <1>1, <1>2, <1>3
    <3> QED
      BY <1>3, <3>1, HeadWeight
  <2> QED
    BY <1>1, <2>1, <2>2, Lighter
<1>12. \A i \in 1 .. Len(left) : \E m \in 1 .. Len(s) :
         left[i].from = s[m].from /\ left[i].n = s[m].n
  BY <1>1, <1>2, <1>3
<1>13. \A i \in 1 .. Len(left) : left[i].char = "LF" => i = 1
  BY <1>3, <1>4
<1>14. \A m \in 1 .. Len(s) : m # 1 => \E i \in 1 .. Len(left) : left[i] = s[m]
  BY <1>3
<1>15. left = [s EXCEPT ![1] = [@ EXCEPT !.char = "LF"]]
  BY <1>2, <1>3
<1> QED
  BY <1>8, <1>9, <1>10, <1>11, <1>12, <1>13, <1>14, <1>15 DEF Follows

LEMMA WriteCharStep ==
  ASSUME EchoInv, NEW task \in Ports, WriteChar(task)
  PROVE  EchoInv'
<1>1. EchoTypeOK /\ InputInv /\ TaskInv /\ EchoInOrder /\ GivenInv /\ RoomInv /\ QuietInv /\ KeptInv
  BY DEF EchoInv
<1>2. PICK port \in Ports : port = Turn(task)
  BY TurnFacts
<1>3. PICK s \in Seq(Characters) : s = echo[task][port]
  BY <1>1, EchoFacts
<1>4. s # << >> /\ (echoDemo = "web" => port = "first") /\ echoDemo # "single"
  BY <1>2, <1>3 DEF WriteChar
<1>5. PICK one \in Seq(Characters) : one = <<s[1]>> /\ Len(one) = 1 /\ one[1] = s[1]
  BY <1>4, FirstOf
<1>6. /\ 1 \in 1 .. Len(s) /\ s[1] \in Characters /\ Len(s) \in Nat
      /\ \A i \in 1 .. Len(s) : s[i].char = "LF" => i = 1
      /\ \A i, j \in 1 .. Len(s) : i < j => Precedes(s[i], s[j])
  BY <1>1, <1>3, <1>4, FirstOf DEF TaskInv
<1>7. PICK left \in Seq(Characters) :
        /\ left = (IF echoDemo = "web" /\ s[1].char = "CR"
                   THEN [s EXCEPT ![1] = [@ EXCEPT !.char = "LF"]] ELSE Tail(s))
        /\ Follows(left, s)
  <2>1. CASE echoDemo = "web" /\ s[1].char = "CR"
    <3>1. Follows([s EXCEPT ![1] = [@ EXCEPT !.char = "LF"]], s)
      BY <1>4, <1>6, <2>1, FeedFollows
    <3>2. [s EXCEPT ![1] = [@ EXCEPT !.char = "LF"]] \in Seq(Characters)
      <4>1. PICK feed \in Characters : feed = [s[1] EXCEPT !.char = "LF"]
        BY <1>6, CharacterFacts
      <4>2. [s EXCEPT ![1] = feed] \in Seq(Characters)
        BY <1>4, AfterReturn, Zenon
      <4> QED
        BY <4>1, <4>2
    <3> QED
      BY <2>1, <3>1, <3>2
  <2>2. CASE ~ (echoDemo = "web" /\ s[1].char = "CR")
    <3>1. Follows(Tail(s), s) /\ Tail(s) \in Seq(Characters)
      BY <1>4, <1>6, CharFollows, AfterChar
    <3> QED
      BY <2>2, <3>1
  <2> QED
    BY <2>1, <2>2
<1>8. /\ Put(port, one)
      /\ echo' = [echo EXCEPT ![task] = [@ EXCEPT ![port] = left]]
      /\ echoDemo' = echoDemo /\ web_serial_connected' = web_serial_connected
      /\ cdc_connected' = cdc_connected /\ typed' = typed /\ input' = input /\ shown' = shown
      /\ patient' = patient /\ connects' = connects
  BY <1>2, <1>3, <1>5, <1>7 DEF WriteChar
<1>9. /\ echo'[task][port] = left
      /\ \A q \in Ports : q # port => echo'[task][q] = echo[task][q]
      /\ \A u \in Ports : u # task => echo'[u] = echo[u]
  BY <1>1, <1>8, EchoFacts
<1>10. EchoTypeOK'
  <2>1. echo' \in [Ports -> [Ports -> Seq(Characters)]]
    <3>1. echo[task] \in [Ports -> Seq(Characters)] /\ echo \in [Ports -> [Ports -> Seq(Characters)]]
      BY <1>1 DEF EchoTypeOK
    <3>2. [echo[task] EXCEPT ![port] = left] \in [Ports -> Seq(Characters)]
      BY <3>1
    <3> QED
      BY <1>8, <3>1, <3>2
  <2>2. output' \in [Ports -> Seq(Characters)] /\ \A q \in Ports : Len(output'[q]) <= FifoSize
    BY <1>1, <1>8, PutFacts
  <2> QED
    BY <1>1, <1>8, <2>1, <2>2, Zenon DEF EchoTypeOK
<1>11. /\ \A q : TaskOf(q)' = TaskOf(q) /\ TakenOf(q)' = TakenOf(q)
       /\ \A x : WasRead(x)' <=> WasRead(x)
       /\ Echoing' = Echoing /\ InputInv'
  BY <1>1, <1>8, NothingRead
<1>12. TaskInv'
  <2> SUFFICES ASSUME NEW u \in Ports, NEW q \in Ports
               PROVE  /\ \A x \in Characters : StillToWrite(u, q, x)' =>
                           x.from \in Ports /\ TaskOf(x.from)' = u /\ WasRead(x)'
                      /\ \A i \in 1 .. Len(echo'[u][q]) :
                           /\ echo'[u][q][i].char = "LF" => i = 1
                           /\ \A j \in 1 .. Len(echo'[u][q]) : i < j =>
                                Precedes(echo'[u][q][i], echo'[u][q][j])
    BY DEF TaskInv
  <2>1. CASE ~ (u = task /\ q = port)
    <3>1. echo'[u][q] = echo[u][q]
      BY <1>9, <2>1
    <3>2. \A x : StillToWrite(u, q, x)' <=> StillToWrite(u, q, x)
      BY <3>1 DEF StillToWrite
    <3> QED
      BY <1>1, <1>11, <3>1, <3>2 DEF TaskInv
  <2>2. CASE u = task /\ q = port
    <3>1. echo'[u][q] = left
      BY <1>9, <2>2
    <3>2. ASSUME NEW x \in Characters, StillToWrite(u, q, x)'
          PROVE  x.from \in Ports /\ TaskOf(x.from) = u /\ WasRead(x)
      <4>1. PICK i \in 1 .. Len(left) : left[i] = x
        BY <3>1, <3>2 DEF StillToWrite
      <4>2. PICK m \in 1 .. Len(s) : x.from = s[m].from /\ x.n = s[m].n
        BY <1>7, <4>1 DEF Follows
      <4>3. PICK y \in Characters : y = s[m] /\ StillToWrite(task, port, y)
        BY <1>3 DEF StillToWrite
      <4>4. y.from \in Ports /\ TaskOf(y.from) = task /\ WasRead(y)
        BY <1>1, <4>3 DEF TaskInv
      <4> QED
        BY <2>2, <4>2, <4>3, <4>4 DEF WasRead
    <3> QED
      BY <1>7, <1>11, <3>1, <3>2 DEF Follows
  <2> QED
    BY <2>1, <2>2
<1>13. EchoInOrder' /\ GivenInv'
  <2>1. Len(one) <= Len(echo[task][port]) /\ \A i \in 1 .. Len(one) : one[i] = echo[task][port][i]
    <3>1. \A i \in 1 .. Len(one) : i = 1
      BY <1>5
    <3>2. Len(one) <= Len(s)
      BY <1>5, <1>6
    <3> QED
      BY <1>3, <1>5, <3>1, <3>2
  <2>2. ASSUME NEW q \in Ports, NEW x \in Characters, GivenTo(q, x),
               NEW j \in 1 .. Len(echo'[task][q])
        PROVE  Precedes(x, echo'[task][q][j])
    <3>1. BeforeRest(q, x)
      BY <1>1, <2>2 DEF GivenInv
    <3>2. CASE q # port
      BY <1>9, <2>2, <3>1, <3>2 DEF BeforeRest
    <3>3. CASE q = port
      <4>1. \A m \in 1 .. Len(s) : Precedes(x, s[m])
        BY <1>3, <3>1, <3>3 DEF BeforeRest
      <4>2. \A i \in 1 .. Len(left) : Precedes(x, left[i])
        BY <1>7, <4>1 DEF Follows
      <4> QED
        BY <1>9, <2>2, <3>3, <4>2
    <3> QED
      BY <3>2, <3>3
  <2>3. \A i \in 1 .. Len(one) : \A j \in 1 .. Len(echo'[task][port]) :
          Precedes(one[i], echo'[task][port][j])
    <3>1. \A i \in 1 .. Len(one) : one[i] = s[1]
      BY <1>5
    <3>2. \A j \in 1 .. Len(left) : Precedes(s[1], left[j])
      BY <1>7 DEF Follows
    <3> QED
      BY <1>9, <3>1, <3>2
  <2>4. \A u \in Ports : u # task => echo'[u] = echo[u]
    BY <1>9
  <2> QED
    BY <1>8, <2>1, <2>2, <2>3, <2>4, RestWritten
<1>14. PICK k \in 0 .. Len(one) : Len(output'[port]) = Len(output[port]) + k
  BY <1>1, <1>8, PutFacts
<1>15. \A q \in Ports : q # port => output'[q] = output[q]
  BY <1>1, <1>8, PutFacts
<1>16. /\ Weight(s) \in Nat /\ Weight(left) \in Nat /\ Weight(left) + 1 <= Weight(s)
       /\ Len(s) <= Weight(s)
  <2>1. Weight(left) + 1 <= Weight(s)
    BY <1>7 DEF Follows
  <2> QED
    BY <2>1, WeightFacts
<1>17. RoomInv'
  <2> SUFFICES ASSUME patient, NEW p \in Echoing
               PROVE  Need(p)' <= FifoSize
    BY <1>8, <1>11 DEF RoomInv
  <2>1. p \in Ports /\ Need(p) <= FifoSize
    BY <1>1 DEF RoomInv, Echoing, Ports
  <2>2. Need(p) \in Nat
    BY <1>1, <2>1, NeedFacts
  <2>3. /\ Len(input["first"]) \in Nat /\ Len(input["second"]) \in Nat
        /\ Len(input'["first"]) = Len(input["first"]) /\ Len(input'["second"]) = Len(input["second"])
    BY <1>1, <1>8, EchoFacts DEF Ports
  <2>4. \A u \in Ports : u # task => echo'[u][p] = echo[u][p]
    BY <1>9
  <2>5. Len(output[p]) \in Nat
    BY <1>1, <2>1, EchoFacts
  <2>6. CASE p # port
    <3>1. PICK whole \in Seq(Characters) : whole = echo[task][p] /\ whole = echo'[task][p]
      BY <1>1, <1>9, <2>1, <2>6, EchoFacts
    <3>2. Weight(echo'[task][p]) <= Weight(echo[task][p])
      <4>1. Weight(whole) \in Nat
        BY WeightFacts
      <4> QED
        BY <3>1, <4>1
    <3>3. Len(output'[p]) <= Len(output[p])
      BY <1>15, <2>1, <2>5, <2>6
    <3>4. Len(input'["first"]) + Len(input'["second"]) <= Len(input["first"]) + Len(input["second"])
      BY <2>3
    <3>5. Need(p)' \in Int /\ Need(p)' <= Need(p)
      BY <1>1, <1>10, <2>1, <2>4, <3>2, <3>3, <3>4, NeedFalls
    <3> QED
      BY <2>1, <2>2, <3>5, EchoConstants
  <2>7. CASE p = port
    <3>1. PICK di \in Int : di = 0
      BY Zero
    <3>2. PICK dw \in Int : dw = 0 - 1
      BY LessThanZero
    <3>3. Len(input'["first"]) + Len(input'["second"]) <= Len(input["first"]) + Len(input["second"]) + di
      BY <2>3, <3>1
    <3>4. Weight(echo'[task][p]) <= Weight(echo[task][p]) + dw
      <4>1. echo'[task][p] = left /\ echo[task][p] = s
        BY <1>3, <1>9, <2>7
      <4> QED
        BY <1>16, <3>2, <4>1
    <3>5. k \in Int /\ k <= 1
      BY <1>5
    <3>6. Len(output'[p]) <= Len(output[p]) + k
      BY <1>14, <2>5, <2>7, <3>5
    <3>7. Need(p)' \in Int /\ Need(p)' <= Need(p) + (2 * di + dw + k)
      BY <1>1, <1>10, <2>1, <2>4, <3>3, <3>4, <3>5, <3>6, NeedChanges
    <3> QED
      BY <2>1, <2>2, <3>1, <3>2, <3>5, <3>7, EchoConstants
  <2> QED
    BY <2>6, <2>7
<1>18. QuietInv'
  BY <1>1, <1>8 DEF QuietInv
<1>19. KeptInv'
  <2> SUFFICES ASSUME patient, NEW p \in Echoing, NEW q \in Ports, NEW n \in 1 .. TakenOf(q)
               PROVE  Kept(p, q, n)'
    BY <1>8, <1>11 DEF KeptInv
  <2>1. p \in Ports
    BY DEF Echoing, Ports
  <2>2. PICK x \in Characters :
          /\ x.from = q /\ x.n = n /\ x.char # "LF"
          /\ GivenTo(p, x) \/ StillToWrite(TaskOf(q), p, x)
    BY <1>1 DEF KeptInv, Kept
  <2>3. PICK t \in Ports : t = TaskOf(q) /\ t = TaskOf(q)'
    BY <1>11 DEF TaskOf, Ports
  <2>4. /\ GivenTo(p, x) => GivenTo(p, x)'
        /\ Len(output[port]) + Len(one) <= FifoSize =>
             ((\E i \in 1 .. Len(one) : one[i] = x) => GivenTo(port, x)')
    BY <1>1, <1>8, <2>1, GivenStays
  <2>5. ASSUME StillToWrite(t, p, x)
        PROVE  GivenTo(p, x)' \/ StillToWrite(t, p, x)'
    <3>1. CASE ~ (t = task /\ p = port)
      <4>1. echo'[t][p] = echo[t][p]
        BY <1>9, <2>1, <3>1
      <4> QED
        BY <2>5, <4>1 DEF StillToWrite
    <3>2. CASE t = task /\ p = port
      <4>1. PICK m \in 1 .. Len(s) : s[m] = x
        BY <1>3, <2>5, <3>2 DEF StillToWrite
      <4>2. CASE m = 1
        <5>1. Len(output[port]) + Len(one) <= FifoSize
          <6>1. Need(port) <= FifoSize
            BY <1>1, <3>2 DEF RoomInv
          <6>2. Need(port) \in Nat /\ Weight(echo[task][port]) + Len(output[port]) <= Need(port)
            BY <1>1, NeedFacts
          <6>3. /\ Weight(s) + Len(output[port]) <= Need(port) /\ Len(output[port]) \in Nat
                /\ Len(one) \in Nat /\ FifoSize \in Nat
            BY <1>1, <1>3, <6>2, EchoFacts, EchoConstants
          <6>4. Len(one) <= Weight(s)
            BY <1>5, <1>16
          <6> QED
            BY <1>16, <6>1, <6>2, <6>3, <6>4, FitsIn
        <5>2. \E i \in 1 .. Len(one) : one[i] = x
          BY <1>5, <4>1, <4>2
        <5> QED
          BY <2>4, <3>2, <5>1, <5>2
      <4>3. CASE m # 1
        <5>1. \E i \in 1 .. Len(left) : left[i] = x
          BY <1>7, <4>1, <4>3 DEF Follows
        <5> QED
          BY <1>9, <3>2, <5>1 DEF StillToWrite
      <4> QED
        BY <4>2, <4>3
    <3> QED
      BY <3>1, <3>2
  <2> QED
    BY <2>2, <2>3, <2>4, <2>5 DEF Kept
<1> QED
  BY <1>10, <1>11, <1>12, <1>13, <1>17, <1>18, <1>19 DEF EchoInv

\* A banner was typed nowhere: nothing has to come before it, or behind it.
LEMMA BannerWritten ==
  ASSUME EchoInv, NEW p \in Ports, Put(p, <<Banner>>), echoDemo' = echoDemo, typed' = typed,
         input' = input, echo' = echo, shown' = shown
  PROVE  /\ EchoInOrder' /\ GivenInv' /\ TaskInv' /\ InputInv' /\ Echoing' = Echoing
         /\ output' \in [Ports -> Seq(Characters)] /\ \A q \in Ports : Len(output'[q]) <= FifoSize
         /\ \A q \in Ports : q # p => output'[q] = output[q]
         /\ \A q \in Ports, x \in Characters : GivenTo(q, x) => GivenTo(q, x)'
<1>1. EchoTypeOK /\ InputInv /\ TaskInv /\ GivenInv
  BY DEF EchoInv
<1>2. PICK chars \in Seq(Characters) :
        chars = <<Banner>> /\ Len(chars) = 1 /\ chars[1] = Banner /\ Banner.from \notin Ports
  <2>1. PICK x \in Characters : x = Banner /\ x.from \notin Ports
    BY CharacterFacts
  <2>2. <<x>> \in Seq(Characters) /\ Len(<<x>>) = 1 /\ <<x>>[1] = x
    BY <2>1
  <2> QED
    BY <2>1, <2>2
<1>3. \A i \in 1 .. Len(chars) : chars[i].from \notin Ports
  BY <1>2
<1>4. Put(p, chars)
  BY <1>2
<1>5. /\ \A q : TaskOf(q)' = TaskOf(q) /\ TakenOf(q)' = TakenOf(q)
      /\ \A x : WasRead(x)' <=> WasRead(x)
      /\ Echoing' = Echoing /\ InputInv'
  BY <1>1, NothingRead
<1>6. TaskInv'
  BY <1>1, <1>5 DEF TaskInv, StillToWrite
<1>7. EchoInOrder' /\ GivenInv'
  <2>1. \A i \in 1 .. Len(chars) : WasRead(chars[i])
    BY <1>3 DEF WasRead
  <2>2. \A x \in Characters : GivenTo(p, x) => \A i \in 1 .. Len(chars) : Precedes(x, chars[i])
    BY <1>3 DEF Precedes
  <2>3. \A i, j \in 1 .. Len(chars) : i < j => Precedes(chars[i], chars[j])
    BY <1>3 DEF Precedes
  <2>4. \A q \in Ports : \A x \in Characters : GivenTo(q, x) =>
          \A t \in Ports : \A j \in 1 .. Len(echo'[t][q]) : Precedes(x, echo'[t][q][j])
    BY <1>1 DEF GivenInv, BeforeRest
  <2>5. \A i \in 1 .. Len(chars) :
          \A t \in Ports : \A j \in 1 .. Len(echo'[t][p]) : Precedes(chars[i], echo'[t][p][j])
    BY <1>3 DEF Precedes
  <2> QED
    BY <1>4, <2>1, <2>2, <2>3, <2>4, <2>5, GivenGrows
<1>8. /\ output' \in [Ports -> Seq(Characters)] /\ \A q \in Ports : Len(output'[q]) <= FifoSize
      /\ \A q \in Ports : q # p => output'[q] = output[q]
  BY <1>1, <1>4, PutFacts
<1>9. \A q \in Ports, x \in Characters : GivenTo(q, x) => GivenTo(q, x)'
  BY <1>1, <1>4, GivenStays
<1> QED
  BY <1>5, <1>6, <1>7, <1>8, <1>9

\* Nothing to read and nothing written leaves all as it was.
LEMMA NothingWritten ==
  ASSUME EchoInv, echoDemo' = echoDemo, typed' = typed, input' = input, echo' = echo,
         output' = output, shown' = shown
  PROVE  /\ EchoInOrder' /\ GivenInv' /\ TaskInv' /\ InputInv' /\ Echoing' = Echoing
         /\ \A q, x : GivenTo(q, x)' <=> GivenTo(q, x)
<1>1. InputInv /\ TaskInv /\ GivenInv /\ EchoInOrder
  BY DEF EchoInv
<1>2. /\ \A q : TaskOf(q)' = TaskOf(q) /\ TakenOf(q)' = TakenOf(q)
      /\ \A x : WasRead(x)' <=> WasRead(x)
      /\ Echoing' = Echoing /\ InputInv'
  BY <1>1, NothingRead
<1>3. TaskInv'
  BY <1>1, <1>2 DEF TaskInv, StillToWrite
<1>4. EchoInOrder'
  BY <1>1 DEF EchoInOrder
<1>5. \A q, x : GivenTo(q, x)' <=> GivenTo(q, x)
  BY DEF GivenTo
<1>6. \A q, x : BeforeRest(q, x)' <=> BeforeRest(q, x)
  BY DEF BeforeRest
<1>7. GivenInv'
  BY <1>1, <1>2, <1>5, <1>6 DEF GivenInv
<1> QED
  BY <1>2, <1>3, <1>4, <1>5, <1>7

\* What was read is still kept when nothing is taken back and the same is still to be written.
LEMMA KeptStays ==
  ASSUME KeptInv, patient' => patient, echoDemo' = echoDemo, typed' = typed, input' = input,
         echo' = echo, \A q \in Ports, x \in Characters : GivenTo(q, x) => GivenTo(q, x)'
  PROVE  KeptInv'
<1>1. /\ \A q : TaskOf(q)' = TaskOf(q) /\ TakenOf(q)' = TakenOf(q)
      /\ Echoing' = Echoing
  BY NothingRead
<1> SUFFICES ASSUME patient', NEW p \in Echoing, NEW q \in Ports, NEW n \in 1 .. TakenOf(q)
             PROVE  Kept(p, q, n)'
  BY <1>1 DEF KeptInv
<1>2. PICK x \in Characters :
        /\ x.from = q /\ x.n = n /\ x.char # "LF"
        /\ GivenTo(p, x) \/ StillToWrite(TaskOf(q), p, x)
  BY DEF KeptInv, Kept
<1>3. p \in Ports
  BY DEF Echoing, Ports
<1>4. StillToWrite(TaskOf(q), p, x) => StillToWrite(TaskOf(q), p, x)'
  BY <1>1 DEF StillToWrite
<1> QED
  BY <1>2, <1>3, <1>4 DEF Kept

LEMMA VendorStep ==
  ASSUME EchoInv, tud_vendor_control_xfer_cb
  PROVE  EchoInv'
<1>1. EchoTypeOK /\ InputInv /\ TaskInv /\ EchoInOrder /\ GivenInv /\ RoomInv /\ QuietInv /\ KeptInv
  BY DEF EchoInv
<1>2. /\ echoDemo = "web" /\ echoDemo' = echoDemo /\ cdc_connected' = cdc_connected /\ typed' = typed
      /\ input' = input /\ echo' = echo /\ shown' = shown /\ patient' = patient
      /\ web_serial_connected' \in BOOLEAN /\ connects < MaxConnects /\ connects' = connects + 1
      /\ Put("second", <<Banner>>) \/ output' = output
  BY DEF tud_vendor_control_xfer_cb
<1>3. "first" \in Ports /\ "second" \in Ports /\ "first" # "second"
  BY DEF Ports
<1>4. /\ EchoInOrder' /\ GivenInv' /\ TaskInv' /\ InputInv' /\ Echoing' = Echoing
      /\ output' \in [Ports -> Seq(Characters)] /\ \A q \in Ports : Len(output'[q]) <= FifoSize
      /\ output'["first"] = output["first"]
      /\ \A q \in Ports, x \in Characters : GivenTo(q, x) => GivenTo(q, x)'
  <2>1. CASE Put("second", <<Banner>>)
    BY <1>2, <1>3, <2>1, BannerWritten
  <2>2. CASE output' = output
    <3>1. output \in [Ports -> Seq(Characters)] /\ \A q \in Ports : Len(output[q]) <= FifoSize
      BY <1>1 DEF EchoTypeOK
    <3> QED
      BY <1>2, <2>2, <3>1, NothingWritten
  <2> QED
    BY <1>2, <2>1, <2>2
<1>5. EchoTypeOK'
  <2>1. connects' \in 0 .. MaxConnects
    <3>1. connects \in 0 .. MaxConnects
      BY <1>1 DEF EchoTypeOK
    <3> QED
      BY <1>2, <3>1, EchoConstants
  <2> QED
    BY <1>1, <1>2, <1>4, <2>1, Zenon DEF EchoTypeOK
<1>6. RoomInv'
  <2> SUFFICES ASSUME patient
               PROVE  Need("first")' <= FifoSize
    BY <1>2, <1>4 DEF RoomInv, Echoing
  <2>1. Need("first")' = Need("first")
    BY <1>2, <1>4 DEF Need
  <2> QED
    BY <1>1, <1>2, <2>1 DEF RoomInv, Echoing
<1>7. QuietInv'
  BY <1>1, <1>2 DEF QuietInv
<1>8. KeptInv'
  BY <1>1, <1>2, <1>4, KeptStays
<1> QED
  BY <1>4, <1>5, <1>6, <1>7, <1>8 DEF EchoInv

\* As long as nothing was typed, all a port needs are the places of what its FIFO holds.
LEMMA NothingTyped ==
  ASSUME EchoTypeOK', InputInv', TaskInv', \A q \in Ports : typed'[q] = 0, NEW p \in Ports
  PROVE  Need(p)' = Len(output'[p]) /\ \A q \in Ports : 1 .. TakenOf(q)' = {}
<1>1. "first" \in Ports /\ "second" \in Ports
  BY DEF Ports
<1>2. \A q \in Ports : input'[q] \in Seq(Characters) /\ output'[q] \in Seq(Characters)
  BY DEF EchoTypeOK
<1>3. \A q \in Ports : Len(input'[q]) \in Nat /\ Len(output'[q]) \in Nat
  BY <1>2
<1>4. \A q \in Ports : Len(input'[q]) = 0
  <2>1. \A q \in Ports : Len(input'[q]) <= typed'[q]
    BY DEF InputInv
  <2> QED
    BY <1>3, <2>1
<1>5. \A q \in Ports : TakenOf(q)' = 0
  BY <1>4 DEF TakenOf
<1>6. ASSUME NEW t \in Ports
      PROVE  echo'[t][p] \in Seq(Characters) /\ Len(echo'[t][p]) = 0
  <2>1. PICK s \in Seq(Characters) : s = echo'[t][p]
    BY DEF EchoTypeOK
  <2>2. ASSUME Len(s) # 0
        PROVE  FALSE
    <3>1. 1 \in 1 .. Len(s) /\ s[1] \in Characters
      BY <2>2
    <3>2. PICK x \in Characters : x = s[1]
      BY <3>1
    <3>3. StillToWrite(t, p, x)'
      BY <2>1, <3>1, <3>2 DEF StillToWrite
    <3>4. x.from \in Ports /\ WasRead(x)'
      BY <3>3 DEF TaskInv
    <3>5. x.n \in 1 .. TakenOf(x.from)'
      BY <3>4 DEF WasRead
    <3>6. x.n \in 1 .. 0
      BY <1>5, <3>4, <3>5
    <3> QED
      BY <3>6
  <2> QED
    BY <2>1, <2>2
<1>7. Weight(echo'["first"][p]) = 0 /\ Weight(echo'["second"][p]) = 0
  <2>1. \A s \in Seq(Characters) : Len(s) = 0 => s = << >>
    OBVIOUS
  <2>2. \A t \in Ports : echo'[t][p] \in Seq(Characters) /\ echo'[t][p] = << >>
    BY <1>6, <2>1
  <2> QED
    BY <1>1, <2>2, WeightFacts
<1>8. Need(p)' = 2 * (Len(input'["first"]) + Len(input'["second"]))
                   + Weight(echo'["first"][p]) + Weight(echo'["second"][p]) + Len(output'[p])
  BY DEF Need
<1>9. Need(p)' = Len(output'[p])
  <2>1. Len(input'["first"]) = 0 /\ Len(input'["second"]) = 0 /\ Len(output'[p]) \in Nat
    BY <1>1, <1>3, <1>4
  <2> QED
    BY <1>7, <1>8, <2>1
<1>10. \A q \in Ports : 1 .. TakenOf(q)' = {}
  BY <1>5
<1> QED
  BY <1>9, <1>10

LEMMA LineStep ==
  ASSUME EchoInv, NEW dtr \in BOOLEAN, NEW rts \in BOOLEAN, tud_cdc_line_state_cb(dtr, rts)
  PROVE  EchoInv'
<1>1. EchoTypeOK /\ InputInv /\ TaskInv /\ EchoInOrder /\ GivenInv /\ RoomInv /\ QuietInv /\ KeptInv
  BY DEF EchoInv
<1>2. /\ echoDemo = "web" /\ echoDemo' = echoDemo /\ web_serial_connected' = web_serial_connected
      /\ typed' = typed /\ input' = input /\ echo' = echo /\ shown' = shown
      /\ connects < MaxConnects /\ connects' = connects + 1
      /\ Put("first", <<Banner>>) \/ output' = output
  BY DEF tud_cdc_line_state_cb
<1>3. /\ cdc_connected' \in BOOLEAN /\ patient' \in BOOLEAN
      /\ patient' => patient /\ ~ cdc_connected /\ cdc_connected'
  <2>1. cdc_connected \in BOOLEAN /\ patient \in BOOLEAN
    BY <1>1 DEF EchoTypeOK
  <2>2. cdc_connected' = dtr /\ patient' = (patient /\ dtr /\ ~ cdc_connected)
    BY DEF tud_cdc_line_state_cb
  <2> QED
    BY <2>1, <2>2, Zenon
<1>4. "first" \in Ports
  BY DEF Ports
<1>5. /\ EchoInOrder' /\ GivenInv' /\ TaskInv' /\ InputInv' /\ Echoing' = Echoing
      /\ output' \in [Ports -> Seq(Characters)] /\ \A q \in Ports : Len(output'[q]) <= FifoSize
  <2>1. CASE Put("first", <<Banner>>)
    BY <1>2, <1>4, <2>1, BannerWritten
  <2>2. CASE output' = output
    <3>1. output \in [Ports -> Seq(Characters)] /\ \A q \in Ports : Len(output[q]) <= FifoSize
      BY <1>1 DEF EchoTypeOK
    <3> QED
      BY <1>2, <2>2, <3>1, NothingWritten
  <2> QED
    BY <1>2, <2>1, <2>2
<1>6. EchoTypeOK'
  <2>1. connects' \in 0 .. MaxConnects
    <3>1. connects \in 0 .. MaxConnects
      BY <1>1 DEF EchoTypeOK
    <3> QED
      BY <1>2, <3>1, EchoConstants
  <2> QED
    BY <1>1, <1>2, <1>3, <1>5, <2>1, Zenon DEF EchoTypeOK
<1>7. patient' => \A q \in Ports : typed'[q] = 0
  BY <1>1, <1>2, <1>3 DEF QuietInv
<1>8. RoomInv'
  <2> SUFFICES ASSUME patient'
               PROVE  Need("first")' <= FifoSize
    BY <1>2, <1>5 DEF RoomInv, Echoing
  <2>1. Need("first")' = Len(output'["first"])
    BY <1>4, <1>5, <1>6, <1>7, NothingTyped
  <2> QED
    BY <1>4, <1>5, <2>1
<1>9. QuietInv'
  BY <1>7 DEF QuietInv
<1>10. KeptInv'
  <2> SUFFICES ASSUME patient'
               PROVE  \A q \in Ports : 1 .. TakenOf(q)' = {}
    BY DEF KeptInv
  <2> QED
    BY <1>4, <1>5, <1>6, <1>7, NothingTyped
<1> QED
  BY <1>5, <1>6, <1>8, <1>9, <1>10 DEF EchoInv

LEMMA EchoStep == EchoInv /\ [EchoNext]_echoVars => EchoInv'
<1> SUFFICES ASSUME EchoInv, [EchoNext]_echoVars
             PROVE  EchoInv'
  OBVIOUS
<1>1. ASSUME NEW p \in Ports, ReadChunk(p) PROVE EchoInv'
  BY <1>1, ReadChunkStep
<1>2. ASSUME NEW p \in Ports, WriteChunk(p) PROVE EchoInv'
  BY <1>2, WriteChunkStep
<1>3. ASSUME NEW p \in Ports, WriteChar(p) PROVE EchoInv'
  BY <1>3, WriteCharStep
<1>4. ASSUME NEW p \in Ports, Show(p) PROVE EchoInv'
  BY <1>4, ShowStep
<1>5. ASSUME NEW p \in Ports, NEW c \in Chars, Type(p, c) PROVE EchoInv'
  BY <1>5, TypeStep
<1>6. CASE tud_vendor_control_xfer_cb
  BY <1>6, VendorStep
<1>7. ASSUME NEW dtr \in BOOLEAN, NEW rts \in BOOLEAN, tud_cdc_line_state_cb(dtr, rts)
      PROVE  EchoInv'
  BY <1>7, LineStep
<1>8. CASE UNCHANGED echoVars
  <2>1. /\ echoDemo' = echoDemo /\ web_serial_connected' = web_serial_connected
        /\ cdc_connected' = cdc_connected /\ typed' = typed /\ input' = input /\ echo' = echo
        /\ output' = output /\ shown' = shown /\ patient' = patient /\ connects' = connects
    BY <1>8 DEF echoVars
  <2>2. EchoTypeOK /\ RoomInv /\ QuietInv /\ KeptInv
    BY DEF EchoInv
  <2>3. EchoInOrder' /\ GivenInv' /\ TaskInv' /\ InputInv' /\ Echoing' = Echoing
    BY <2>1, NothingWritten
  <2>4. EchoTypeOK' /\ QuietInv'
    BY <2>1, <2>2, Zenon DEF EchoTypeOK, QuietInv
  <2>5. RoomInv'
    <3>1. \A p : Need(p)' = Need(p)
      BY <2>1 DEF Need
    <3> QED
      BY <2>1, <2>2, <2>3, <3>1 DEF RoomInv
  <2>6. KeptInv'
    <3>1. \A q \in Ports, x \in Characters : GivenTo(q, x) => GivenTo(q, x)'
      BY <2>1 DEF GivenTo
    <3> QED
      BY <2>1, <2>2, <3>1, KeptStays
  <2> QED
    BY <2>3, <2>4, <2>5, <2>6 DEF EchoInv
<1> QED
  BY <1>1, <1>2, <1>3, <1>4, <1>5, <1>6, <1>7, <1>8 DEF EchoNext

LEMMA EchoInitInv == EchoInit => EchoInv
<1> SUFFICES ASSUME EchoInit
             PROVE  EchoInv
  OBVIOUS
<1>1. /\ echoDemo \in EchoDemos /\ web_serial_connected = FALSE /\ cdc_connected = FALSE
      /\ connects = 0 /\ typed = [p \in Ports |-> 0] /\ input = [p \in Ports |-> << >>]
      /\ echo = [t \in Ports |-> [p \in Ports |-> << >>]] /\ output = [p \in Ports |-> << >>]
      /\ shown = [p \in Ports |-> {}] /\ patient = TRUE
  BY DEF EchoInit, NoChars
<1>2. << >> \in Seq(Characters) /\ Len(<< >>) = 0 /\ 1 .. 0 = {}
  OBVIOUS
<1>3. \A p \in Ports : /\ typed[p] = 0 /\ input[p] = << >> /\ output[p] = << >> /\ shown[p] = {}
                       /\ \A t \in Ports : echo[t][p] = << >>
  BY <1>1
<1>4. EchoTypeOK
  <2>1. typed \in [Ports -> 0 .. MaxTyped] /\ connects \in 0 .. MaxConnects
    BY <1>1, EchoConstants
  <2>2. /\ input \in [Ports -> Seq(Characters)] /\ echo \in [Ports -> [Ports -> Seq(Characters)]]
        /\ output \in [Ports -> Seq(Characters)] /\ shown \in [Ports -> SUBSET Characters]
    BY <1>1, <1>2
  <2>3. \A p \in Ports : Len(output[p]) <= FifoSize
    BY <1>2, <1>3, EchoConstants
  <2> QED
    BY <1>1, <2>1, <2>2, <2>3, Zenon DEF EchoTypeOK
<1>5. /\ \A p \in Ports : /\ Len(input[p]) = 0 /\ Len(output[p]) = 0 /\ DOMAIN output[p] = {}
                          /\ \A t \in Ports : Len(echo[t][p]) = 0
      /\ \A q \in Ports : TakenOf(q) = 0
  BY <1>2, <1>3 DEF TakenOf
<1>6. InputInv
  BY <1>2, <1>3, <1>5 DEF InputInv
<1>7. TaskInv
  BY <1>2, <1>5 DEF TaskInv, StillToWrite
<1>8. EchoInOrder
  BY <1>5 DEF EchoInOrder
<1>9. GivenInv
  BY <1>2, <1>3, <1>5 DEF GivenInv, GivenTo
<1>10. RoomInv
  <2>1. \A p \in Ports : Need(p) = 0
    <3>1. Weight(<< >>) = 0
      BY <1>2, WeightFacts
    <3>2. \A p \in Ports : Weight(echo["first"][p]) = 0 /\ Weight(echo["second"][p]) = 0
      BY <1>3, <3>1 DEF Ports
    <3>3. Len(input["first"]) = 0 /\ Len(input["second"]) = 0 /\ \A p \in Ports : Len(output[p]) = 0
      BY <1>5 DEF Ports
    <3> QED
      BY <3>2, <3>3 DEF Need
  <2> QED
    BY <2>1, EchoConstants DEF RoomInv, Echoing, Ports
<1>11. QuietInv
  BY <1>3 DEF QuietInv
<1>12. KeptInv
  BY <1>2, <1>5 DEF KeptInv
<1> QED
  BY <1>4, <1>6, <1>7, <1>8, <1>9, <1>10, <1>11, <1>12 DEF EchoInv

LEMMA EchoSafe == EchoInv => EchoTypeOK /\ EchoFaithful
<1> SUFFICES ASSUME EchoInv
             PROVE  EchoTypeOK /\ EchoFaithful
  OBVIOUS
<1>1. EchoTypeOK /\ EchoInOrder /\ KeptInv
  BY DEF EchoInv
<1>2. EchoComplete
  <2> SUFFICES ASSUME patient, input = NoChars, echo = [p \in Ports |-> NoChars], output = NoChars,
                      NEW p \in Echoing, NEW q \in Ports, NEW n \in 1 .. typed[q]
               PROVE  \E x \in shown[p] : x.from = q /\ x.n = n /\ x.char # "LF"
    BY DEF EchoComplete
  <2>1. p \in Ports
    BY DEF Echoing, Ports
  <2>2. /\ Len(input[q]) = 0 /\ Len(output[p]) = 0 /\ typed[q] \in Nat
        /\ \A t \in Ports : Len(echo[t][p]) = 0
    BY <1>1, <2>1, EchoFacts, EchoConstants DEF NoChars
  <2>3. n \in 1 .. TakenOf(q)
    BY <2>2 DEF TakenOf
  <2>4. PICK x \in Characters :
          /\ x.from = q /\ x.n = n /\ x.char # "LF"
          /\ GivenTo(p, x) \/ StillToWrite(TaskOf(q), p, x)
    BY <1>1, <2>3 DEF KeptInv, Kept
  <2>5. ~ StillToWrite(TaskOf(q), p, x)
    <3>1. TaskOf(q) \in Ports
      BY DEF TaskOf, Ports
    <3> QED
      BY <2>2, <3>1 DEF StillToWrite
  <2>6. x \in shown[p]
    BY <2>2, <2>4, <2>5 DEF GivenTo
  <2> QED
    BY <2>4, <2>6
<1> QED
  BY <1>1, <1>2 DEF EchoFaithful

\* Whatever is typed, and however the two tasks of webusb_serial write between one another,
\* what a port shows is in order, and nothing a patient host typed is lost.
THEOREM EchoesFaithful == EchoSpec => [](EchoTypeOK /\ EchoFaithful)
<1>1. EchoInit => EchoInv
  BY EchoInitInv
<1>2. EchoInv /\ [EchoNext]_echoVars => EchoInv'
  BY EchoStep
<1>3. EchoInv => EchoTypeOK /\ EchoFaithful
  BY EchoSafe
<1> QED
  BY <1>1, <1>2, <1>3, PTL DEF EchoSpec
=============================================================================
