--------------------------- MODULE EventScan_proof --------------------------
(***************************************************************************)
(* Proofs about EventScan, for every camera that frames its parts.         *)
(***************************************************************************)
EXTENDS EventScan, TLAPS

(* A data block is open only where it is still fed: on the lines after its event, *)
(* or left over from the part before, and then the boundary comes first.          *)
BlockPlace == block.open => pos = 1 \/ pos > part.at

(* Nothing is reported before the event line. *)
DueBefore == pos <= part.at => due = part.means

(* A press that has not been reported is still to be read. *)
PressAhead == due = "press" => part.means = "press" /\ pos <= part.at

(* What the block has collected of a part's data up to line i. *)
Collected(p, i) ==
  [open |-> TRUE, depth |-> p.level[i], started |-> Opened(p, i), size |-> i - p.at + 1,
   nested |-> p.level[i], person |-> Named(p, i)]

(* A human not reported yet is still to be read, or the block holds what was read. *)
HumanAhead ==
  due = "human" =>
    /\ attached /\ part.means = "human"
    /\ pos > part.at =>
         Whole(part) /\ pos <= part.ends /\ block = Collected(part, pos - 1)

(* A block that does not close as a human has none. *)
NobodyInBlock ==
  block.open /\ due \notin {"human", "maybe"} =>
    \/ pos = 1 \/ pos > Len(part.lines)
    \/ part.means = "nothing" /\ HasRule(part) /\ ~ block.person

(* A block whose data has balanced is not open any more. *)
Unclosed == block.open => ~ (block.started /\ block.depth <= 0)

Places == BlockPlace /\ DueBefore /\ PressAhead /\ HumanAhead /\ NobodyInBlock /\ Unclosed

Inv == TypeOK /\ Places

LEMMA PartFact == part \in Parts => part \in Part /\ Framed(part) /\ Len(part.lines) \in Nat
  BY ScanAssumption DEF Part

(* The line that the camera sends is one of the part's. *)
LEMMA SentLine ==
  ASSUME CameraType, pos <= Len(part.lines)
  PROVE  part.lines[pos] \in Line
<1>1. part.lines \in Seq(Line) /\ pos \in 1..Len(part.lines)
  BY PartFact DEF CameraType, Part
<1> QED BY <1>1

(* What a line that broke off has of the line. *)
LEMMA TailFact ==
  ASSUME NEW l \in Line, NEW t \in Tails(l)
  PROVE  /\ t \in Line /\ t.code \in {l.code, "text"}
         /\ t.code = "rule" => (t.starts <=> l.starts)
         /\ t.person => l.person
         /\ l.counted = 0 => t.counted = 0
         /\ t.opens => l.opens
<1>1. UpTo(l.counted) \subseteq Int /\ UpTo(l.nested) \subseteq Int
  BY DEF Line, UpTo
<1>2. /\ t \in [code : {l.code, "text"}, starts : BOOLEAN, opens : {FALSE, l.opens},
                counted : UpTo(l.counted), nested : UpTo(l.nested), person : {FALSE, l.person}]
      /\ t.code = "rule" => (t.starts <=> l.starts)
  BY DEF Tails
<1>3. t \in Line
  BY <1>1, <1>2 DEF Line
<1>4. l.counted = 0 => t.counted = 0
  BY <1>2 DEF UpTo
<1>5. t.person \in {FALSE, l.person} /\ t.opens \in {FALSE, l.opens}
  BY <1>2
<1> QED BY <1>2, <1>3, <1>4, <1>5

(* The line that is read is the one that is sent, or what came of it. *)
LEMMA LineOf ==
  ASSUME CameraType, Reads
  PROVE  LET l == part.lines[pos]
         IN  /\ l \in Line /\ line \in Line /\ line.code \in {l.code, "text"}
             /\ line.code = "rule" => (line.starts <=> l.starts)
             /\ line.person => l.person
             /\ l.counted = 0 => line.counted = 0
             /\ line.opens => l.opens
             /\ tail = Unbroken => line = l
<1>1. pos <= Len(part.lines)
  BY DEF Reads
<1>2. CASE tail = Unbroken
  BY <1>1, <1>2, SentLine DEF line
<1>3. CASE tail # Unbroken
  <2>1. tail \in Tails(part.lines[pos]) /\ line = tail
    BY <1>3 DEF CameraType, line
  <2> QED BY <1>1, <1>3, <2>1, SentLine, TailFact
<1> QED BY <1>2, <1>3

(* Either way it is a line. *)
LEMMA LineType == CameraType /\ Reads => line \in Line
  BY LineOf

(* A block that has taken a line and is not too large is a block. *)
LEMMA FedType == BlockType /\ line \in Line /\ ~ TooLarge =>
  Fed \in [open : {TRUE}, depth : Int, started : BOOLEAN, size : 1..MaxIVSData,
           nested : Int, person : BOOLEAN]
<1> SUFFICES ASSUME BlockType, line \in Line, ~ TooLarge
             PROVE Fed \in [open : {TRUE}, depth : Int, started : BOOLEAN, size : 1..MaxIVSData,
                            nested : Int, person : BOOLEAN]
  OBVIOUS
<1> DEFINE b == IF block.open THEN block ELSE NewBlock
<1>1. b \in [open : {TRUE}, depth : Int, started : BOOLEAN, size : 0..MaxIVSData,
             nested : Int, person : BOOLEAN]
  <2>1. CASE block = NoBlock
    BY <2>1, ScanAssumption DEF NoBlock, NewBlock
  <2>2. CASE block \in [open : {TRUE}, depth : Int, started : BOOLEAN, size : 1..MaxIVSData,
                        nested : Int, person : BOOLEAN]
    <3>1. b = block
      BY <2>2
    <3>2. 1..MaxIVSData \subseteq 0..MaxIVSData
      BY ScanAssumption
    <3> QED
      BY <2>2, <3>1, <3>2
  <2> QED
    BY <2>1, <2>2 DEF BlockType
<1>2. Fed = [b EXCEPT !.depth = @ + line.counted, !.started = @ \/ line.opens, !.size = @ + 1,
               !.nested = @ + line.nested, !.person = @ \/ line.person]
  BY DEF Fed
<1>3. line.counted \in Int /\ line.nested \in Int /\ line.opens \in BOOLEAN /\ line.person \in BOOLEAN
  BY DEF Line
<1> HIDE DEF b
<1>4. Fed.size = b.size + 1
  BY <1>1, <1>2
<1>5. b.size + 1 \in 1..MaxIVSData
  BY <1>1, <1>4, ScanAssumption DEF TooLarge
<1>6. b.depth + line.counted \in Int /\ b.nested + line.nested \in Int
  BY <1>1, <1>3
<1>7. (b.started \/ line.opens) \in BOOLEAN /\ (b.person \/ line.person) \in BOOLEAN
  BY <1>1, <1>3
<1> QED
  BY <1>1, <1>2, <1>5, <1>6, <1>7
-----------------------------------------------------------------------------
(* Where the camera is in its part. *)
LEMMA CameraStep == CameraType /\ [Next]_vars => CameraType'
<1> SUFFICES ASSUME CameraType, [Next]_vars PROVE CameraType'
  OBVIOUS
<1> USE PartFact DEF CameraType
<1>1. CASE Attach
  BY <1>1 DEF Attach
<1>2. CASE StreamEnds \/ CutShort
  <2>1. part' = part /\ pos' = Len(part.lines) + 1 /\ attached' \in BOOLEAN /\ tail' = Unbroken
    BY <1>2 DEF StreamEnds, CutShort, Sending
  <2>2. Len(part.lines) \in Nat
    OBVIOUS
  <2> QED
    BY <2>1, <2>2
<1>3. CASE SendPart
  BY <1>3, ScanAssumption DEF SendPart, Sending, Part
<1>4. CASE Reads
  <2>1. /\ part' = part /\ tail' = Unbroken /\ attached' \in BOOLEAN
        /\ pos' \in {pos + 1, Len(part.lines) + 1} /\ pos <= Len(part.lines)
    BY <1>4 DEF Reads
  <2>2. Len(part.lines) \in Nat /\ pos \in Nat
    OBVIOUS
  <2> QED
    BY <2>1, <2>2
<1>6. CASE StreamBreaks
  BY <1>6 DEF StreamBreaks, Sending
<1>5. CASE UNCHANGED camera
  BY <1>5 DEF camera
<1> QED
  BY <1>1, <1>2, <1>3, <1>4, <1>5, <1>6 DEF Next, vars, ReadLine, BlockGrows, BlockAbandoned,
    BlockCloses, PressLine, HumanLine, OtherLine, Tick

(* What is due. *)
LEMMA DueStep == TypeOK /\ [Next]_vars => due' \in Meanings
<1> SUFFICES ASSUME TypeOK, [Next]_vars PROVE due' \in Meanings
  OBVIOUS
<1>1. CASE SendPart
  BY <1>1, ScanAssumption DEF SendPart, Part, Meanings
<1>2. CASE due' \in {due, "nothing"}
  BY <1>2 DEF TypeOK, Meanings
<1> QED
  BY <1>1, <1>2 DEF Next, vars, Attach, StreamEnds, StreamBreaks, CutShort, ReadLine, BlockGrows,
    BlockAbandoned, BlockCloses, PressLine, HumanLine, OtherLine, Tick, ReportsPress, ReportsHuman, ReportsNone

(* The block. *)
LEMMA BlockStep == TypeOK /\ [Next]_vars => BlockType'
<1> SUFFICES ASSUME TypeOK, [Next]_vars PROVE BlockType'
  OBVIOUS
<1>1. CASE BlockGrows
  <2>1. Fed \in [open : {TRUE}, depth : Int, started : BOOLEAN, size : 1..MaxIVSData,
                 nested : Int, person : BOOLEAN]
    BY <1>1, LineType, FedType DEF BlockGrows, Abandoned, TypeOK
  <2> QED
    BY <1>1, <2>1 DEF BlockGrows, BlockType
<1>2. CASE block' = NoBlock
  BY <1>2 DEF BlockType
<1>3. CASE UNCHANGED block
  BY <1>3 DEF TypeOK, BlockType
<1> QED
  BY <1>1, <1>2, <1>3 DEF Next, vars, Attach, StreamEnds, StreamBreaks, SendPart, CutShort, ReadLine,
    BlockAbandoned, BlockCloses, PressLine, HumanLine, OtherLine, Tick

(* The cooldown is what is left of the window of the last report. *)
LEMMA ClockStep == ClockType /\ CooldownFromReport /\ [Next]_vars => (ClockType /\ CooldownFromReport)'
<1> SUFFICES ASSUME ClockType, CooldownFromReport, [Next]_vars PROVE (ClockType /\ CooldownFromReport)'
  OBVIOUS
<1> USE ScanAssumption DEF ClockType, CooldownFromReport
<1>1. CASE Human
  BY <1>1 DEF Human, AfterSuppressed
<1>2. CASE Tick
  BY <1>2 DEF Tick
<1>3. CASE UNCHANGED clock
  BY <1>3 DEF clock
<1> QED
  BY <1>1, <1>2, <1>3 DEF Next, vars, Attach, StreamEnds, StreamBreaks, SendPart, CutShort, ReadLine, BlockGrows,
    BlockAbandoned, BlockCloses, PressLine, HumanLine, OtherLine, ReportsPress, ReportsHuman, ReportsNone

(* What the line that is read is, if it is whole. *)
LEMMA LineIs ==
  ASSUME CameraType, Reads, tail = Unbroken
  PROVE  /\ part \in Part /\ Framed(part) /\ part.at \in Nat /\ Len(part.lines) \in Nat
         /\ pos \in 1..Len(part.lines) /\ pos' = pos + 1 /\ part' = part /\ attached' = attached
         /\ attached
         /\ pos = 1 => line.code = "boundary"
         /\ pos = part.at => line = Event(part) /\ line.code # "boundary"
         /\ pos \notin {1, part.at} => line.code = "text"
<1>1. /\ part \in Part /\ Framed(part) /\ part.at \in Nat /\ Len(part.lines) \in Nat
      /\ pos \in 1..Len(part.lines) /\ pos' = pos + 1 /\ part' = part
  BY PartFact DEF CameraType, Reads, Part
<1>4. attached' = attached /\ attached
  BY DEF CameraType, Reads
<1>2. /\ part.lines[pos].code = "boundary" <=> pos = 1
      /\ pos \notin {1, part.at} => part.lines[pos].code = "text"
  BY <1>1 DEF Framed
<1>3. 1 < part.at
  BY <1>1 DEF Framed
<1> QED
  BY <1>1, <1>2, <1>3, <1>4 DEF line, Event

(* Each line is read by one action; only these three leave or make a block. *)
LEMMA ReadCases ==
  ASSUME ReadLine, part \in Part, tail = Unbroken
  PROVE  /\ Reads
         /\ \/ BlockGrows /\ UNCHANGED due
            \/ BlockAbandoned /\ UNCHANGED due /\ block' = NoBlock
            \/ BlockCloses /\ block' = NoBlock
            \/ ~ block.open /\ UNCHANGED block /\ ~ StartsRule /\ (PressLine \/ HumanLine \/ OtherLine)
         /\ due' \in {due, "nothing"}
  BY DEF ReadLine, BlockGrows, BlockAbandoned, BlockCloses, PressLine, HumanLine, OtherLine, InBlock,
    ReportsPress, ReportsHuman, ReportsNone

(* Before the event line nothing but a boundary and text is read. *)
LEMMA BeforeEvent ==
  ASSUME CameraType, BlockPlace, ReadLine, tail = Unbroken, pos < part.at
  PROVE  ~ block'.open /\ UNCHANGED due
<1>1. /\ pos = 1 => line.code = "boundary"
      /\ pos # 1 => line.code = "text"
      /\ pos \in Nat /\ part.at \in Nat /\ part \in Part /\ Reads
  BY LineIs, PartFact, ReadCases DEF CameraType
<1>2. ~ StartsRule /\ ~ PressLine /\ ~ HumanLine
  BY <1>1 DEF StartsRule, PressLine, HumanLine
<1>3. CASE block.open
  <2>1. CutOff
    BY <1>1, <1>3 DEF BlockPlace, CutOff
  <2>2. BlockAbandoned
    BY <1>3, <2>1 DEF ReadLine, BlockGrows, BlockCloses, PressLine, HumanLine, OtherLine, InBlock, Abandoned
  <2> QED
    BY <2>2 DEF BlockAbandoned, NoBlock, ReportsNone
<1>4. CASE ~ block.open
  <2>1. OtherLine
    BY <1>2, <1>4 DEF ReadLine, BlockGrows, BlockAbandoned, BlockCloses, InBlock
  <2> QED
    BY <1>4, <2>1 DEF OtherLine, ReportsNone
<1> QED
  BY <1>3, <1>4

(* The event line of a press or of a motion event is reported, whatever the block. *)
LEMMA AtEvent ==
  ASSUME CameraType, BlockPlace, ReadLine, tail = Unbroken, pos = part.at
  PROVE  /\ ~ block.open /\ line = Event(part)
         /\ part.means = "press" => due' = "nothing"
         /\ MotionStarts(part) => due' = "nothing"
<1>1. /\ line = Event(part) /\ pos \in Nat /\ part \in Part /\ Framed(part) /\ 1 < part.at
  BY LineIs, PartFact, ReadCases DEF CameraType, Framed
<1>2. ~ block.open
  BY <1>1 DEF BlockPlace
<1>3. ASSUME part.means = "press" PROVE due' = "nothing"
  <2>1. line.code = "press" /\ line.starts
    BY <1>1, <1>3 DEF Framed
  <2>2. PressLine
    BY <1>2, <2>1 DEF ReadLine, BlockGrows, BlockAbandoned, BlockCloses, HumanLine, OtherLine,
      InBlock, StartsRule
  <2> QED
    BY <2>2 DEF PressLine, ReportsPress
<1>4. ASSUME MotionStarts(part) PROVE due' = "nothing"
  <2>1. line.code = "human" /\ line.starts
    BY <1>1, <1>4 DEF MotionStarts
  <2>2. HumanLine
    BY <1>2, <2>1 DEF ReadLine, BlockGrows, BlockAbandoned, BlockCloses, PressLine, OtherLine,
      InBlock, StartsRule
  <2> QED
    BY <2>2 DEF HumanLine, ReportsHuman
<1> QED
  BY <1>1, <1>2, <1>3, <1>4
-----------------------------------------------------------------------------
(* What the block is after one line more, field by field. *)
LEMMA FedIs ==
  ASSUME line \in Line,
         NEW d \in Int, NEW s \in BOOLEAN, NEW z \in Int, NEW n \in Int, NEW q \in BOOLEAN,
         (IF block.open THEN block ELSE NewBlock)
           = [open |-> TRUE, depth |-> d, started |-> s, size |-> z, nested |-> n, person |-> q]
  PROVE  Fed = [open |-> TRUE, depth |-> d + line.counted, started |-> s \/ line.opens,
                size |-> z + 1, nested |-> n + line.nested, person |-> q \/ line.person]
<1> DEFINE R == [open : {TRUE}, depth : Int, started : BOOLEAN, size : Int, nested : Int, person : BOOLEAN]
<1> DEFINE b == IF block.open THEN block ELSE NewBlock
<1> DEFINE g == [open |-> TRUE, depth |-> d + line.counted, started |-> s \/ line.opens,
                 size |-> z + 1, nested |-> n + line.nested, person |-> q \/ line.person]
<1>1. Fed = [b EXCEPT !.depth = @ + line.counted, !.started = @ \/ line.opens, !.size = @ + 1,
               !.nested = @ + line.nested, !.person = @ \/ line.person]
  BY DEF Fed
<1>2. line.counted \in Int /\ line.nested \in Int /\ line.opens \in BOOLEAN /\ line.person \in BOOLEAN
  BY DEF Line
<1>3. b = [open |-> TRUE, depth |-> d, started |-> s, size |-> z, nested |-> n, person |-> q]
  OBVIOUS
<1> HIDE DEF b
<1>4. b \in R
  BY <1>3
<1>5. (s \/ line.opens) \in BOOLEAN /\ (q \/ line.person) \in BOOLEAN
      /\ d + line.counted \in Int /\ z + 1 \in Int /\ n + line.nested \in Int
  BY <1>2
<1>6. Fed \in R /\ g \in R
  BY <1>1, <1>3, <1>4, <1>5
<1>7. Fed.depth = g.depth /\ Fed.size = g.size /\ Fed.nested = g.nested
  BY <1>1, <1>3, <1>4
<1>8. Fed.started = g.started
  BY <1>1, <1>3, <1>4
<1>9. Fed.person = g.person
  BY <1>1, <1>3, <1>4
<1>10. Fed.open = g.open
  BY <1>1, <1>3, <1>4
<1> HIDE DEF g
<1>11. Fed = g
  BY <1>6, <1>7, <1>8, <1>9, <1>10
<1> QED
  BY <1>11 DEF g

(* The block takes the next line of data that arrives whole. *)
LEMMA FedCollects ==
  ASSUME CameraType, Reads, tail = Unbroken, Whole(part), pos >= part.at, pos <= part.ends,
         IF pos = part.at THEN ~ block.open ELSE block = Collected(part, pos - 1)
  PROVE  /\ Fed = Collected(part, pos) /\ ~ Abandoned
         /\ Closed <=> pos = part.ends
<1>1. /\ part \in Part /\ part.at \in Nat /\ pos \in Nat /\ part.ends \in Nat
      /\ Len(part.lines) \in Nat /\ pos \in part.at..part.ends
  BY LineIs DEF Part, Whole
<1>2. /\ line.counted = line.nested /\ line.nested \in Int
      /\ part.level[pos] = line.nested + (IF pos = part.at THEN 0 ELSE part.level[pos - 1])
      /\ pos = part.ends <=> Opened(part, pos) /\ part.level[pos] <= 0
  <2>1. /\ part.lines[pos].counted = part.lines[pos].nested
        /\ part.level[pos] = part.lines[pos].nested + (IF pos = part.at THEN 0 ELSE part.level[pos - 1])
        /\ pos = part.ends <=> Opened(part, pos) /\ part.level[pos] <= 0
    BY <1>1 DEF Whole
  <2>2. line.nested \in Int
    BY LineType DEF Line
  <2> QED
    BY <2>1, <2>2 DEF line
<1>3. Opened(part, pos - 1) \in BOOLEAN /\ Named(part, pos - 1) \in BOOLEAN
  BY DEF Opened, Named
<1>4. Opened(part, pos) <=> (pos # part.at /\ Opened(part, pos - 1)) \/ line.opens
  BY <1>1 DEF Opened, line
<1>5. Named(part, pos) <=> (pos # part.at /\ Named(part, pos - 1)) \/ line.person
  BY <1>1 DEF Named, line
<1>6. line \in Line
  BY LineType
<1>7. Fed = Collected(part, pos)
  <2>1. CASE pos = part.at
    <3>1. PICK z \in Int, f \in BOOLEAN : z = 0 /\ ~ f
      <4>1. 0 \in Int /\ FALSE \in BOOLEAN
        OBVIOUS
      <4>2. \E z \in Int : z = 0
        BY <4>1
      <4>3. \E f \in BOOLEAN : ~ f
        BY <4>1, Zenon
      <4> QED
        BY <4>2, <4>3
    <3>2. Fed = [open |-> TRUE, depth |-> z + line.counted, started |-> f \/ line.opens,
                 size |-> z + 1, nested |-> z + line.nested, person |-> f \/ line.person]
      <4>1. (IF block.open THEN block ELSE NewBlock)
              = [open |-> TRUE, depth |-> z, started |-> f, size |-> z, nested |-> z, person |-> f]
        BY <2>1, <3>1 DEF NewBlock
      <4> QED
        BY <1>6, <4>1, FedIs
    <3>3. z + line.counted = part.level[pos] /\ z + line.nested = part.level[pos]
          /\ z + 1 = pos - part.at + 1
      BY <1>1, <1>2, <2>1, <3>1
    <3>4. (f \/ line.opens) = Opened(part, pos) /\ (f \/ line.person) = Named(part, pos)
      BY <1>4, <1>5, <2>1, <3>1 DEF Opened, Named
    <3> QED
      BY <3>2, <3>3, <3>4 DEF Collected
  <2>2. CASE pos # part.at
    <3>1. (IF block.open THEN block ELSE NewBlock)
            = [open |-> TRUE, depth |-> part.level[pos - 1], started |-> Opened(part, pos - 1),
               size |-> (pos - 1) - part.at + 1, nested |-> part.level[pos - 1],
               person |-> Named(part, pos - 1)]
      BY <2>2 DEF Collected
    <3>2. part.level[pos - 1] \in Int
      <4>1. part.level \in Seq(Int) /\ Len(part.level) = Len(part.lines) /\ pos - 1 \in 1..Len(part.lines)
        BY <1>1, <2>2, LineIs DEF Part, Framed
      <4> QED
        BY <4>1
    <3>3. Fed = [open |-> TRUE, depth |-> part.level[pos - 1] + line.counted,
                 started |-> Opened(part, pos - 1) \/ line.opens,
                 size |-> (pos - 1) - part.at + 1 + 1, nested |-> part.level[pos - 1] + line.nested,
                 person |-> Named(part, pos - 1) \/ line.person]
      BY <1>1, <1>6, <3>1, <3>2, <1>3, FedIs
    <3>4. part.level[pos - 1] + line.counted = part.level[pos] /\ part.level[pos - 1] + line.nested = part.level[pos]
          /\ (pos - 1) - part.at + 1 + 1 = pos - part.at + 1
      BY <1>1, <1>2, <2>2, <3>2
    <3>5. (Opened(part, pos - 1) \/ line.opens) = Opened(part, pos)
          /\ (Named(part, pos - 1) \/ line.person) = Named(part, pos)
      BY <1>4, <1>5, <2>2 DEF Opened, Named
    <3> QED
      BY <3>3, <3>4, <3>5 DEF Collected
  <2> QED
    BY <2>1, <2>2
<1>8. Fed.size = pos - part.at + 1 /\ Fed.depth = part.level[pos] /\ (Fed.started <=> Opened(part, pos))
  BY <1>7 DEF Collected
<1>9. ~ TooLarge
  BY <1>1, <1>8, ScanAssumption DEF TooLarge, Whole
<1>10. ~ CutOff
  <2>1. pos # 1
    BY <1>1, LineIs DEF Framed
  <2> QED
    BY <2>1, LineIs DEF CutOff
<1>11. Closed <=> pos = part.ends
  BY <1>2, <1>8 DEF Closed
<1> QED
  BY <1>7, <1>9, <1>10, <1>11 DEF Abandoned

(* Data that arrives whole is a human's, and its last line reports it. *)
LEMMA HumanStep == Inv /\ ReadLine /\ tail = Unbroken => HumanAhead'
<1> SUFFICES ASSUME Inv, ReadLine, tail = Unbroken, due' = "human" PROVE
      /\ attached' /\ part'.means = "human"
      /\ pos' > part'.at => Whole(part') /\ pos' <= part'.ends /\ block' = Collected(part', pos' - 1)
  BY DEF HumanAhead
<1>1. CameraType /\ BlockPlace /\ HumanAhead /\ Reads
  BY ReadCases, PartFact DEF Inv, TypeOK, Places, CameraType
<1>2. due = "human"
  BY ReadCases, PartFact, <1>1 DEF CameraType
<1>3. /\ attached' /\ part' = part /\ part.means = "human" /\ pos' = pos + 1 /\ pos \in Nat
      /\ part.at \in Nat /\ Framed(part)
  BY <1>1, <1>2, LineIs DEF HumanAhead
<1>4. CASE pos < part.at
  BY <1>3, <1>4
<1>5. CASE pos >= part.at
  <2>1. Whole(part) /\ pos <= part.ends /\ (IF pos = part.at THEN ~ block.open ELSE block = Collected(part, pos - 1))
    <3>1. CASE pos = part.at
      <4>1. ~ block.open /\ ~ MotionStarts(part)
        BY <1>1, <1>2, <3>1, AtEvent
      <4>2. Whole(part)
        BY <1>3, <4>1 DEF Framed
      <4> QED
        BY <3>1, <4>1, <4>2 DEF Whole
    <3>2. CASE pos # part.at
      <4>1. pos > part.at
        BY <1>3, <1>5, <3>2
      <4> QED
        BY <1>1, <1>2, <3>2, <4>1 DEF HumanAhead
    <3> QED
      BY <3>1, <3>2
  <2>2. Fed = Collected(part, pos) /\ ~ Abandoned /\ (Closed <=> pos = part.ends)
    BY <1>1, <1>5, <2>1, FedCollects
  <2>3. InBlock
    <3>1. CASE pos = part.at
      <4>1. line = Event(part)
        BY <1>1, <3>1, AtEvent
      <4> QED
        BY <2>1, <4>1 DEF InBlock, StartsRule, Whole, HasRule
    <3>2. CASE pos # part.at
      BY <2>1, <3>2 DEF Collected, InBlock
    <3> QED
      BY <3>1, <3>2
  <2>4. ~ Closed
    <3> SUFFICES ASSUME Closed PROVE FALSE
      OBVIOUS
    <3>1. pos = part.ends /\ Fed.nested = 0 /\ Fed.person
      BY <2>1, <2>2 DEF Collected, Whole
    <3>2. BlockCloses
      BY <2>2, <2>3 DEF ReadLine, BlockGrows, BlockAbandoned, PressLine, HumanLine, OtherLine
    <3> QED
      BY <3>1, <3>2 DEF BlockCloses, NamesHuman, ReportsHuman
  <2>5. BlockGrows
    BY <2>2, <2>3, <2>4 DEF ReadLine, BlockAbandoned, BlockCloses, PressLine, HumanLine, OtherLine
  <2>6. block' = Collected(part, pos) /\ pos # part.ends
    BY <2>2, <2>4, <2>5 DEF BlockGrows
  <2>7. pos + 1 <= part.ends /\ pos + 1 - 1 = pos
    BY <1>3, <2>1, <2>6, LineIs, <1>1 DEF Part
  <2> QED
    BY <1>3, <2>1, <2>6, <2>7
<1> QED
  BY <1>3, <1>4, <1>5

(* What is reported is what the camera has seen and not reported, or an event's *)
(* end that the stream broke off in.                                            *)
LEMMA ReportedIsDue ==
  ASSUME Inv, ReadLine
  PROVE  /\ PressLine => due = "press" \/ EndCutShort("press")
         /\ HumanLine => due \in {"human", "maybe"} \/ EndCutShort("human")
         /\ BlockCloses /\ NamesHuman => due \in {"human", "maybe"}
<1> DEFINE l == part.lines[pos]
<1>1. CameraType /\ BlockPlace /\ DueBefore /\ NobodyInBlock /\ Unclosed /\ Reads
  BY DEF Inv, TypeOK, Places, ReadLine, BlockGrows, BlockAbandoned, BlockCloses, PressLine,
    HumanLine, OtherLine
<1>2. /\ part \in Part /\ Framed(part) /\ pos \in 1..Len(part.lines) /\ part.at \in Nat
      /\ Len(part.lines) \in Nat /\ 1 < part.at
      /\ pos = 1 <=> l.code = "boundary"
      /\ pos = part.at => l = Event(part)
      /\ pos \notin {1, part.at} => l.code = "text"
      /\ pos = 1 => l.counted = 0 /\ ~ l.opens
  BY <1>1, PartFact DEF CameraType, Reads, Part, Framed, Event
<1>3. /\ line \in Line /\ line.code \in {l.code, "text"}
      /\ line.code = "rule" => (line.starts <=> l.starts)
      /\ line.person => l.person
      /\ l.counted = 0 => line.counted = 0
      /\ line.opens => l.opens
      /\ tail = Unbroken => line = l
  BY <1>1, LineOf
<1>4. pos = part.at => due = part.means /\ part.means \in {"press", "human", "maybe", "nothing"}
  BY <1>1, <1>2 DEF DueBefore, Part
<1> HIDE DEF l
<1>5. ASSUME PressLine, ~ EndCutShort("press") PROVE due = "press"
  <2>1. line.code = "press" /\ line.starts
    BY <1>5 DEF PressLine
  <2>2. pos = part.at /\ l.code = "press"
    BY <1>2, <1>3, <2>1
  <2>3. Event(part).code = "press" /\ Event(part).starts
    BY <1>2, <1>3, <1>5, <2>1, <2>2 DEF EndCutShort, l
  <2> QED
    BY <1>2, <1>4, <2>2, <2>3 DEF Framed
<1>6. ASSUME HumanLine, ~ EndCutShort("human") PROVE due \in {"human", "maybe"}
  <2>1. line.code = "human" /\ line.starts
    BY <1>6 DEF HumanLine
  <2>2. pos = part.at /\ l.code = "human"
    BY <1>2, <1>3, <2>1
  <2>3. Event(part).code = "human" /\ Event(part).starts
    BY <1>2, <1>3, <1>6, <2>1, <2>2 DEF EndCutShort, l
  <2> QED
    BY <1>2, <1>4, <2>2, <2>3 DEF Framed, MotionStarts
<1>7. ASSUME BlockCloses, NamesHuman, due \notin {"human", "maybe"} PROVE FALSE
  <2>1. ~ CutOff /\ InBlock /\ Closed /\ Fed.person
    BY <1>7 DEF BlockCloses, Abandoned, NamesHuman
  <2>2. CASE block.open
    <3>0. block # NoBlock
      BY <2>2 DEF NoBlock
    <3>1. /\ Fed.person = (block.person \/ line.person)
          /\ Fed.depth = block.depth + line.counted
          /\ Fed.started <=> block.started \/ line.opens
          /\ block.depth \in Int
      BY <1>1, <2>2, <3>0 DEF Fed, Inv, TypeOK, BlockType
    <3>2. pos # 1
      <4> SUFFICES ASSUME pos = 1 PROVE FALSE
        OBVIOUS
      <4>1. line.counted = 0 /\ ~ line.opens
        BY <1>2, <1>3
      <4>2. Fed.depth = block.depth
        BY <3>1, <4>1
      <4>3. Fed.started <=> block.started
        BY <3>1, <4>1, Zenon
      <4> QED
        BY <1>1, <2>1, <2>2, <4>2, <4>3 DEF Unclosed, Closed
    <3>3. part.means = "nothing" /\ HasRule(part) /\ ~ block.person /\ pos > part.at
      BY <1>1, <1>2, <1>7, <2>2, <3>2 DEF NobodyInBlock, BlockPlace
    <3>4. ~ line.person
      <4>1. ~ Named(part, Len(part.lines)) /\ pos \in part.at..Len(part.lines)
        BY <1>2, <3>3 DEF Framed
      <4> QED
        BY <1>3, <4>1 DEF Named, l
    <3> QED
      BY <2>1, <3>1, <3>3, <3>4
  <2>3. CASE ~ block.open
    <3>1. line.code = "rule" /\ line.starts
      BY <2>1, <2>3 DEF InBlock, StartsRule
    <3>2. pos = part.at /\ HasRule(part)
      BY <1>2, <1>3, <3>1 DEF HasRule
    <3>3. part.means = "nothing"
      BY <1>2, <1>4, <1>7, <3>2 DEF HasRule, Framed
    <3>4. ~ line.person
      <4>1. ~ Named(part, Len(part.lines)) /\ pos \in part.at..Len(part.lines)
        BY <1>2, <3>2, <3>3 DEF Framed
      <4> QED
        BY <1>3, <4>1 DEF Named, l
    <3>5. Fed.person = (FALSE \/ line.person)
      BY <2>3 DEF Fed, NewBlock
    <3> QED
      BY <2>1, <3>4, <3>5
  <2> QED
    BY <2>2, <2>3
<1> QED
  BY <1>5, <1>6, <1>7

(* Where blocks are open, and what is in those that name nobody. *)
LEMMA BlockPlaceStep == Inv /\ ReadLine /\ tail = Unbroken => (BlockPlace /\ NobodyInBlock)'
<1> SUFFICES ASSUME Inv, ReadLine, tail = Unbroken PROVE (BlockPlace /\ NobodyInBlock)'
  OBVIOUS
<1>1. CameraType /\ BlockPlace /\ DueBefore /\ NobodyInBlock /\ Reads
  BY ReadCases, PartFact DEF Inv, TypeOK, Places, CameraType
<1>2. /\ part \in Part /\ Framed(part) /\ pos \in 1..Len(part.lines) /\ part.at \in Nat
      /\ Len(part.lines) \in Nat /\ pos' = pos + 1 /\ part' = part
      /\ pos = part.at => line = Event(part)
      /\ pos \notin {1, part.at} => line.code = "text"
      /\ pos = 1 => line.code = "boundary"
  BY <1>1, LineIs
<1>3. CASE ~ block'.open
  BY <1>3 DEF BlockPlace, NobodyInBlock
<1>4. CASE block'.open
  <2>1. pos >= part.at
    BY <1>1, <1>2, <1>4, BeforeEvent
  <2>2. BlockPlace'
    BY <1>2, <2>1 DEF BlockPlace
  <2>3. BlockGrows /\ due' = due /\ block' = Fed
    <3>1. BlockGrows \/ (~ block.open /\ UNCHANGED block)
      BY <1>2, <1>4, ReadCases DEF BlockAbandoned, BlockCloses, NoBlock
    <3> QED
      BY <1>4, <3>1 DEF BlockGrows, ReportsNone
  <2>4. ASSUME due \notin {"human", "maybe"}
        PROVE  part.means = "nothing" /\ HasRule(part) /\ ~ Fed.person
    <3>1. part.means = "nothing" /\ HasRule(part) /\ (block.open => ~ block.person)
      <4>1. CASE block.open
        <5>1. pos # 1
          BY <1>2, <2>3 DEF BlockGrows, Abandoned, CutOff
        <5> QED
          BY <1>1, <1>2, <2>4, <4>1, <5>1 DEF NobodyInBlock
      <4>2. CASE ~ block.open
        <5>1. StartsRule
          BY <2>3, <4>2 DEF BlockGrows, InBlock
        <5>2. pos = part.at /\ HasRule(part)
          BY <1>2, <5>1 DEF StartsRule, HasRule
        <5>3. part.means = "nothing"
          BY <1>1, <1>2, <2>4, <5>2 DEF DueBefore, HasRule, Framed, Part
        <5> QED
          BY <4>2, <5>2, <5>3
      <4> QED
        BY <4>1, <4>2
    <3>2. ~ line.person
      <4>1. ~ Named(part, Len(part.lines)) /\ pos \in part.at..Len(part.lines)
        BY <1>2, <2>1, <3>1 DEF Framed
      <4> QED
        BY <4>1 DEF Named, line
    <3>3. CASE block.open
      <4>1. block # NoBlock
        BY <3>3 DEF NoBlock
      <4>2. Fed.person = (block.person \/ line.person)
        BY <3>3, <4>1 DEF Fed, Inv, TypeOK, BlockType
      <4> QED
        BY <3>1, <3>2, <3>3, <4>2
    <3>4. CASE ~ block.open
      <4>1. Fed.person = (FALSE \/ line.person)
        BY <3>4 DEF Fed, NewBlock
      <4> QED
        BY <3>1, <3>2, <4>1
    <3> QED
      BY <3>3, <3>4
  <2>5. NobodyInBlock'
    BY <1>2, <2>3, <2>4 DEF NobodyInBlock
  <2> QED
    BY <2>2, <2>5
<1> QED
  BY <1>3, <1>4

(* What is due while a line is read. *)
LEMMA DuePlaceStep == Inv /\ ReadLine /\ tail = Unbroken => (DueBefore /\ PressAhead)'
<1> SUFFICES ASSUME Inv, ReadLine, tail = Unbroken PROVE (DueBefore /\ PressAhead)'
  OBVIOUS
<1>1. CameraType /\ BlockPlace /\ DueBefore /\ PressAhead /\ Reads /\ due' \in {due, "nothing"}
  BY ReadCases, PartFact DEF Inv, TypeOK, Places, CameraType
<1>2. pos \in Nat /\ part.at \in Nat /\ pos' = pos + 1 /\ part' = part
  BY <1>1, LineIs
<1>3. DueBefore'
  <2> SUFFICES ASSUME pos' <= part'.at PROVE due' = part'.means
    BY DEF DueBefore
  <2>1. pos < part.at
    BY <1>2
  <2> QED
    BY <1>1, <1>2, <2>1, BeforeEvent DEF DueBefore
<1>4. PressAhead'
  <2> SUFFICES ASSUME due' = "press" PROVE part'.means = "press" /\ pos' <= part'.at
    BY DEF PressAhead
  <2>1. part.means = "press" /\ pos <= part.at
    BY <1>1 DEF PressAhead
  <2>2. pos # part.at
    BY <1>1, <2>1, AtEvent
  <2> QED
    BY <1>2, <2>1, <2>2
<1> QED
  BY <1>3, <1>4

(* The other steps read nothing. *)
LEMMA CameraPlaces == Inv /\ (Attach \/ StreamEnds \/ SendPart \/ CutShort) => Places'
<1> SUFFICES ASSUME Inv, Attach \/ StreamEnds \/ SendPart \/ CutShort PROVE Places'
  OBVIOUS
<1> USE DEF Places, BlockPlace, DueBefore, PressAhead, HumanAhead, NobodyInBlock, Unclosed, Sending
<1>0. Unclosed
  BY DEF Inv
<1>1. part \in Part /\ Framed(part) /\ Len(part.lines) \in Nat /\ part.at \in Nat
      /\ 1 < part.at /\ part.at <= Len(part.lines)
  BY PartFact DEF Inv, TypeOK, CameraType, Part, Framed
<1>2. CASE Attach
  BY <1>2 DEF Inv, Attach, NoBlock
<1>3. CASE StreamEnds \/ CutShort
  <2>1. pos' = Len(part.lines) + 1 /\ due' = "nothing" /\ part' = part
    BY <1>3 DEF StreamEnds, CutShort
  <2>2. pos' > Len(part'.lines) /\ pos' > part'.at /\ ~ (pos' <= part'.at)
    BY <1>1, <2>1
  <2>3. BlockPlace' /\ NobodyInBlock'
    BY <2>2
  <2>4. DueBefore' /\ PressAhead' /\ HumanAhead'
    BY <2>1, <2>2
  <2>5. Unclosed'
    BY <1>0, <1>3 DEF StreamEnds, CutShort
  <2> QED
    BY <2>3, <2>4, <2>5
<1>4. CASE SendPart
  <2>1. part' \in Part /\ Framed(part') /\ pos' = 1 /\ due' = part'.means /\ attached'
        /\ 1 < part'.at /\ part'.at \in Nat
    BY <1>4, ScanAssumption DEF SendPart, Framed, Part
  <2>2. Unclosed'
    BY <1>0, <1>4 DEF SendPart
  <2>3. BlockPlace' /\ NobodyInBlock' /\ DueBefore' /\ PressAhead' /\ HumanAhead'
    BY <2>1
  <2> QED
    BY <2>2, <2>3
<1> QED
  BY <1>2, <1>3, <1>4

(* The last of a stream leaves nothing to be reported, and no place for a block. *)
LEMMA TailPlaces ==
  ASSUME Inv, ReadLine, tail # Unbroken
  PROVE  (BlockPlace /\ DueBefore /\ PressAhead /\ HumanAhead /\ NobodyInBlock)'
<1>1. part \in Part /\ Framed(part) /\ Len(part.lines) \in Nat /\ part.at \in Nat
      /\ 1 < part.at /\ part.at <= Len(part.lines)
  BY PartFact DEF Inv, TypeOK, CameraType, Part, Framed
<1>2. part' = part /\ pos' = Len(part.lines) + 1 /\ due' = "nothing"
  BY DEF ReadLine, BlockGrows, BlockAbandoned, BlockCloses, PressLine, HumanLine, OtherLine, Reads,
    ReportsPress, ReportsHuman, ReportsNone
<1>3. pos' > Len(part'.lines) /\ pos' > part'.at /\ ~ (pos' <= part'.at)
  BY <1>1, <1>2
<1>4. BlockPlace' /\ NobodyInBlock'
  BY <1>3 DEF BlockPlace, NobodyInBlock
<1>5. DueBefore' /\ PressAhead' /\ HumanAhead'
  BY <1>2, <1>3 DEF DueBefore, PressAhead, HumanAhead
<1> QED
  BY <1>4, <1>5

(* A line that balances the data closes the block. *)
LEMMA UnclosedStep ==
  ASSUME Inv, ReadLine
  PROVE  Unclosed'
<1>1. Unclosed
  BY DEF Inv, Places
<1>2. CASE BlockGrows
  BY <1>2 DEF BlockGrows, Closed, Unclosed
<1>3. CASE UNCHANGED block \/ block' = NoBlock
  BY <1>1, <1>3 DEF Unclosed, NoBlock
<1> QED
  BY <1>2, <1>3 DEF ReadLine, BlockAbandoned, BlockCloses, PressLine, HumanLine, OtherLine

LEMMA PlacesStep == Inv /\ [Next]_vars => Places'
<1> SUFFICES ASSUME Inv, [Next]_vars PROVE Places'
  OBVIOUS
<1>1. CASE ReadLine
  <2>1. CASE tail = Unbroken
    BY <1>1, <2>1, HumanStep, BlockPlaceStep, DuePlaceStep, UnclosedStep DEF Places
  <2>2. CASE tail # Unbroken
    BY <1>1, <2>2, TailPlaces, UnclosedStep DEF Places
  <2> QED
    BY <2>1, <2>2
<1>2. CASE UNCHANGED <<attached, part, pos, due, block>>
  BY <1>2 DEF Inv, Places, BlockPlace, DueBefore, PressAhead, HumanAhead, NobodyInBlock, Unclosed
<1> QED
  BY <1>1, <1>2, CameraPlaces DEF Next, vars, camera, Tick, StreamBreaks

LEMMA Invariance == Spec => [](Inv /\ CooldownFromReport)
<1>1. Init => Inv /\ CooldownFromReport
  <2> SUFFICES ASSUME Init PROVE Inv /\ CooldownFromReport
    OBVIOUS
  <2>1. part \in Parts /\ pos = Len(part.lines) + 1 /\ Len(part.lines) \in Nat
    BY PartFact DEF Init
  <2>2. CameraType
    <3>1. attached \in BOOLEAN
      BY DEF Init
    <3>2. pos \in 1..Len(part.lines) + 1
      BY <2>1
    <3>3. tail = Unbroken
      BY DEF Init
    <3> QED
      BY <2>1, <3>1, <3>2, <3>3 DEF CameraType
  <2>3. ClockType /\ CooldownFromReport
    BY ScanAssumption DEF Init, ClockType, CooldownFromReport
  <2>4. due \in Meanings /\ BlockType
    BY DEF Init, Meanings, BlockType
  <2>5. Places
    <3>1. pos > part.at /\ pos \in Nat /\ part.at \in Nat
      BY <2>1, PartFact DEF Framed, Part
    <3>2. ~ block.open /\ due = "nothing"
      BY DEF Init, NoBlock
    <3>3. BlockPlace /\ NobodyInBlock /\ Unclosed
      BY <3>2 DEF BlockPlace, NobodyInBlock, Unclosed
    <3>4. DueBefore /\ PressAhead /\ HumanAhead
      BY <3>1, <3>2 DEF DueBefore, PressAhead, HumanAhead
    <3> QED
      BY <3>3, <3>4 DEF Places
  <2> QED
    BY <2>2, <2>3, <2>4, <2>5 DEF Inv, TypeOK
<1>2. Inv /\ CooldownFromReport /\ [Next]_vars => (Inv /\ CooldownFromReport)'
  BY CameraStep, DueStep, BlockStep, ClockStep, PlacesStep DEF Inv, TypeOK
<1> QED
  BY <1>1, <1>2, PTL DEF Spec
-----------------------------------------------------------------------------
(* The scanner's block never holds more than maxIVSDataBytes, and every other *)
(* variable keeps its type.                                                   *)
THEOREM TypeCorrect == Spec => []TypeOK
<1>1. Inv => TypeOK
  BY DEF Inv
<1> QED
  BY <1>1, Invariance, PTL

(* scanEvents reports every press it reads, however the data block before it *)
(* was left.                                                                 *)
THEOREM PressReportedHolds == Spec => []PressReported
<1>1. Inv => PressReported
  BY PartFact DEF Inv, Places, TypeOK, CameraType, PressAhead, PressReported, Framed, Part
<1> QED
  BY <1>1, Invariance, PTL

(* scanEvents reports a human whose data arrives whole, or suppresses it for *)
(* the cooldown.                                                             *)
THEOREM HumanReportedHolds == Spec => []HumanReported
<1>1. Inv => HumanReported
  <2> SUFFICES ASSUME Inv, due = "human", pos > Len(part.lines) PROVE FALSE
    BY DEF HumanReported
  <2>1. part \in Part /\ Framed(part) /\ Len(part.lines) \in Nat /\ pos \in Nat
    BY PartFact DEF Inv, TypeOK, CameraType
  <2>2. pos > part.at
    BY <2>1 DEF Framed, Part
  <2>3. pos <= part.ends /\ part.ends <= Len(part.lines)
    BY <2>1, <2>2 DEF Inv, Places, HumanAhead, Whole, Part
  <2> QED
    BY <2>1, <2>3 DEF Part
<1> QED
  BY <1>1, Invariance, PTL

(* scanEvents reports nothing else: no press and no human that the camera has   *)
(* not seen, none twice, and no block mixes the data of two.  The end of an     *)
(* event passes for its start only as the last line of a stream that broke off  *)
(* in it, before its action.                                                    *)
THEOREM NothingInventedHolds == Spec => NothingInvented
<1>1. Inv /\ [Next]_vars =>
        [/\ PressLine => due = "press" \/ EndCutShort("press")
         /\ HumanLine => due \in {"human", "maybe"} \/ EndCutShort("human")
         /\ BlockCloses /\ NamesHuman => due \in {"human", "maybe"}]_vars
  BY ReportedIsDue DEF ReadLine
<1> QED
  BY <1>1, Invariance, PTL DEF Spec, NothingInvented

(* coolingDown keeps the window of the last reported detection, for every *)
(* HumanCooldown.                                                         *)
THEOREM CooldownFromReportHolds == Spec => []CooldownFromReport
  BY Invariance, PTL
=============================================================================
