----------------------------- MODULE EventScan ------------------------------
(***************************************************************************)
(* The scanner of the camera's event stream (scanEvents of                 *)
(* pkg/dahua/stream.go, with ivs.go and events.go): lines are turned into  *)
(* doorbell presses and human detections.  A tripwire or intrusion event   *)
(* (IVS) carries a JSON data block over several lines, which the scanner   *)
(* collects by counting braces; human detections are reported at most once *)
(* per cooldown.                                                           *)
(*                                                                         *)
(* The camera sends parts: a boundary line, headers, and one event line    *)
(* with its data.  It may cut a part short, and the connection may end     *)
(* anywhere: in the middle of a line too, and then the scanner reads what  *)
(* came of that line as a line.  Of a line the scanner's decisions need    *)
(* its code, whether it starts an event, its braces and whether it names a *)
(* human.                                                                  *)
(***************************************************************************)
EXTENDS Integers, Sequences

CONSTANTS
  Parts,          \* the parts the camera can send
  MaxIVSData,     \* maxIVSDataBytes, in lines
  HumanCooldown   \* ticks

(* counted is the change of the scanner's depth, nested that of the JSON: they *)
(* differ by the braces in strings.                                            *)
Line ==
  [code : {"boundary", "press", "human", "rule", "text"}, starts : BOOLEAN,
   opens : BOOLEAN, counted : Int, nested : Int, person : BOOLEAN]

(* lines[at] is the part's event. level is the depth of its JSON after each line, *)
(* ends the line the data ends on. means is what the part has to be reported as: *)
(* "maybe" a human if it has braces in strings, is too large or is cut short.    *)
Part ==
  [lines : Seq(Line), at : Nat, level : Seq(Int), ends : Nat,
   means : {"press", "human", "maybe", "nothing"}]

Event(p) == p.lines[p.at]
Opened(p, i) == \E j \in p.at..i : p.lines[j].opens
Named(p, i)  == \E j \in p.at..i : p.lines[j].person

HasRule(p) == Event(p).code = "rule" /\ Event(p).starts

(* A data block that arrives whole, is not too large, has no brace in a string *)
(* and names a human.                                                          *)
Whole(p) ==
  /\ HasRule(p) /\ p.ends \in p.at..Len(p.lines) /\ p.ends - p.at < MaxIVSData
  /\ Named(p, p.ends) /\ p.level[p.ends] = 0
  /\ \A i \in p.at..p.ends :
       /\ p.lines[i].counted = p.lines[i].nested
       /\ p.level[i] = p.lines[i].nested + (IF i = p.at THEN 0 ELSE p.level[i - 1])
       /\ i = p.ends <=> Opened(p, i) /\ p.level[i] <= 0

MotionStarts(p) == Event(p).code = "human" /\ Event(p).starts

(* The framing: a boundary comes first and nowhere else, without braces, and *)
(* only lines[at] is an event.                                               *)
Framed(p) ==
  /\ 1 < p.at /\ p.at <= Len(p.lines) /\ Len(p.level) = Len(p.lines)
  /\ p.lines[1].counted = 0 /\ ~ p.lines[1].opens
  /\ \A i \in 1..Len(p.lines) :
       /\ p.lines[i].code = "boundary" <=> i = 1
       /\ i \notin {1, p.at} => p.lines[i].code = "text"
  /\ p.means = "press" <=> Event(p).code = "press" /\ Event(p).starts
  /\ p.means = "human" => MotionStarts(p) \/ Whole(p)
  /\ p.means = "nothing" => ~ MotionStarts(p) /\ ~ (HasRule(p) /\ Named(p, Len(p.lines)))

ASSUME ScanAssumption ==
  /\ MaxIVSData \in Nat \ {0} /\ HumanCooldown \in Nat
  /\ \A p \in Parts : p \in Part /\ Framed(p)

VARIABLES
  attached,   \* scanEvents runs on an established stream
  part, pos,  \* what the camera sends, and the line it sends next
  tail,       \* what came of that line, if the stream has broken off in it
  due,        \* what the part has yet to be reported as (history)
  block,      \* the ivsBlock whose data is still arriving, if any
  cooldown,   \* HumanCooldown less the time since lastHuman
  since       \* ticks since a human was reported, to HumanCooldown (history)

camera == <<attached, part, pos, tail>>
clock  == <<cooldown, since>>
vars == <<camera, due, block, clock>>

Unbroken == [code |-> "none"]

NoBlock == [open |-> FALSE]

(* A block as startIVS makes it. *)
NewBlock ==
  [open |-> TRUE, depth |-> 0, started |-> FALSE, size |-> 0, nested |-> 0, person |-> FALSE]

Init ==
  /\ attached = FALSE /\ part \in Parts /\ pos = Len(part.lines) + 1 /\ tail = Unbroken
  /\ due = "nothing" /\ block = NoBlock
  /\ cooldown = 0 /\ since = HumanCooldown
-----------------------------------------------------------------------------
(* The stream. *)

Attach ==
  /\ ~ attached /\ attached' = TRUE /\ block' = NoBlock
  /\ UNCHANGED <<part, pos, tail, due, clock>>

Sending == attached /\ tail = Unbroken

(* The stream ends or fails with a whole line. *)
StreamEnds ==
  /\ Sending /\ attached' = FALSE
  /\ pos' = Len(part.lines) + 1 /\ due' = "nothing"
  /\ UNCHANGED <<part, tail, block, clock>>

(* The beginnings of a line.  Without its code an event line is no event's, and *)
(* a rule's is none before its data; the action may be missing, which counts as *)
(* a start, or be cut, which does not.  Some of the braces have come, and the   *)
(* name if it has.                                                              *)
UpTo(n) == (0..n) \cup (n..0)
Tails(l) ==
  {t \in [code : {l.code, "text"}, starts : BOOLEAN, opens : {FALSE, l.opens},
          counted : UpTo(l.counted), nested : UpTo(l.nested), person : {FALSE, l.person}] :
     t.code = "rule" => (t.starts <=> l.starts)}

StreamBreaks ==
  /\ Sending /\ pos <= Len(part.lines)
  /\ tail' \in Tails(part.lines[pos])
  /\ UNCHANGED <<attached, part, pos, due, block, clock>>

SendPart ==
  /\ Sending /\ pos > Len(part.lines)
  /\ part' \in Parts /\ pos' = 1 /\ due' = part'.means
  /\ UNCHANGED <<attached, tail, block, clock>>

(* The camera leaves its data block unfinished and goes on to the next part. *)
CutShort ==
  /\ Sending /\ pos > part.at /\ pos <= Len(part.lines)
  /\ pos' = Len(part.lines) + 1 /\ due' = "nothing"
  /\ UNCHANGED <<attached, part, tail, block, clock>>
-----------------------------------------------------------------------------
(* Reporting an event: report and coolingDown. *)

CoolingDown == cooldown > 0

(* A mutant: a suppressed detection extends the window. *)
Extended == HumanCooldown

AfterSuppressed == cooldown

Human ==
  \/ CoolingDown /\ cooldown' = AfterSuppressed /\ UNCHANGED since
  \/ ~ CoolingDown /\ cooldown' = HumanCooldown /\ since' = 0

ReportsPress == due' = "nothing" /\ UNCHANGED clock
ReportsHuman == due' = "nothing" /\ Human
ReportsNone == due' = (IF tail = Unbroken THEN due ELSE "nothing") /\ UNCHANGED clock
-----------------------------------------------------------------------------
(* A line is read, or what came of it; that is the stream's last. *)

line == IF tail = Unbroken THEN part.lines[pos] ELSE tail

Reads ==
  /\ attached /\ pos <= Len(part.lines) /\ UNCHANGED part
  /\ pos' = IF tail = Unbroken THEN pos + 1 ELSE Len(part.lines) + 1
  /\ attached' = (tail = Unbroken) /\ tail' = Unbroken

(* A mutant: the end of an event is taken for its start. *)
AnyRule == line.code = "rule"

StartsRule == line.code = "rule" /\ line.starts

(* A mutant: only a block's first line is looked at for a boundary. *)
NeverCutOff == FALSE

CutOff == line.code = "boundary"

(* The block that takes the line, if one does, and what it is after it. *)
InBlock == block.open \/ StartsRule
Fed ==
  LET b == IF block.open THEN block ELSE NewBlock IN
  [b EXCEPT !.depth = @ + line.counted, !.started = @ \/ line.opens, !.size = @ + 1,
            !.nested = @ + line.nested, !.person = @ \/ line.person]

(* A mutant: the size is not looked at. *)
NeverTooLarge == FALSE

TooLarge == Fed.size > MaxIVSData

Abandoned == CutOff \/ TooLarge

(* A mutant: a block that arrives whole on the code line is not closed by it. *)
ClosedLater == block.open /\ Fed.started /\ Fed.depth <= 0

Closed == Fed.started /\ Fed.depth <= 0

BlockGrows ==
  /\ Reads /\ InBlock /\ ~ Abandoned /\ ~ Closed
  /\ block' = Fed /\ ReportsNone

BlockAbandoned ==
  /\ Reads /\ InBlock /\ Abandoned
  /\ block' = NoBlock /\ ReportsNone

(* The data parses as JSON if its braces really are balanced. *)
NamesHuman == Fed.nested = 0 /\ Fed.person

BlockCloses ==
  /\ Reads /\ InBlock /\ ~ Abandoned /\ Closed
  /\ block' = NoBlock
  /\ IF NamesHuman THEN ReportsHuman ELSE ReportsNone

PressLine ==
  /\ Reads /\ ~ InBlock /\ line.code = "press" /\ line.starts
  /\ UNCHANGED block /\ ReportsPress

HumanLine ==
  /\ Reads /\ ~ InBlock /\ line.code = "human" /\ line.starts
  /\ UNCHANGED block /\ ReportsHuman

OtherLine ==
  /\ Reads /\ ~ InBlock /\ ~ (line.code \in {"press", "human"} /\ line.starts)
  /\ UNCHANGED block /\ ReportsNone

Tick ==
  /\ cooldown' = IF cooldown > 0 THEN cooldown - 1 ELSE 0
  /\ since' = IF since < HumanCooldown THEN since + 1 ELSE since
  /\ UNCHANGED <<camera, due, block>>
-----------------------------------------------------------------------------
ReadLine ==
  \/ BlockGrows \/ BlockAbandoned \/ BlockCloses
  \/ PressLine \/ HumanLine \/ OtherLine

Next == Attach \/ StreamEnds \/ StreamBreaks \/ SendPart \/ CutShort \/ ReadLine \/ Tick

Spec == Init /\ [][Next]_vars
-----------------------------------------------------------------------------
Meanings == {"press", "human", "maybe", "nothing"}

CameraType ==
  /\ attached \in BOOLEAN /\ part \in Parts /\ pos \in 1..Len(part.lines) + 1
  /\ tail # Unbroken => attached /\ pos <= Len(part.lines) /\ tail \in Tails(part.lines[pos])

BlockType ==
  \/ block = NoBlock
  \/ block \in [open : {TRUE}, depth : Int, started : BOOLEAN, size : 1..MaxIVSData,
                nested : Int, person : BOOLEAN]

ClockType == cooldown \in 0..HumanCooldown /\ since \in 0..HumanCooldown

(* Every variable has its type; the block never holds more than maxIVSDataBytes, *)
(* whatever the camera sends.                                                    *)
TypeOK == CameraType /\ due \in Meanings /\ BlockType /\ ClockType

(* A doorbell press is reported, whatever was left of the data block before it: *)
(* the boundary between the parts ends the block.                               *)
PressReported == pos > Len(part.lines) => due # "press"

(* A human detection whose data arrives whole is reported, or suppressed by the *)
(* cooldown.                                                                    *)
HumanReported == pos > Len(part.lines) => due # "human"

(* The stream has broken off in the line of an event's end, before its action. *)
EndCutShort(code) == tail # Unbroken /\ part.lines[pos].code = code /\ ~ part.lines[pos].starts

(* Nothing else is: what is reported as a press or a human, or suppressed, is   *)
(* one the camera has seen in this part and not reported yet, so a block never  *)
(* mixes the data of two events.  The one exception is the end of an event, the *)
(* last line of a stream that broke off in it, which passes for its start.      *)
NothingInvented ==
  [][/\ PressLine => due = "press" \/ EndCutShort("press")
     /\ HumanLine => due \in {"human", "maybe"} \/ EndCutShort("human")
     /\ BlockCloses /\ NamesHuman => due \in {"human", "maybe"}]_vars

(* The cooldown runs for HumanCooldown after a detection that was reported, no *)
(* longer and no shorter: neither a suppressed one nor a lost stream moves it. *)
CooldownFromReport == cooldown = HumanCooldown - since
=============================================================================
