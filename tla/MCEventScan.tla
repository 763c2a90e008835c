----------------------------- MODULE MCEventScan ----------------------------
(***************************************************************************)
(* A small camera for EventScan: its parts, line by line.                  *)
(***************************************************************************)
EXTENDS EventScan

L(code, starts, braces, nested, person) ==
  [code |-> code, starts |-> starts, opens |-> braces > 0,
   counted |-> braces, nested |-> nested, person |-> person]

Boundary == L("boundary", FALSE, 0, 0, FALSE)
Header   == L("text", FALSE, 0, 0, FALSE)
Close    == L("text", FALSE, -1, -1, FALSE)
Of(l) == [L("text", FALSE, 0, 0, TRUE) EXCEPT !.person = l]

(* The JSON's depth after each line from the event line on. *)
Levels(lines, at) ==
  LET level[i \in 0..Len(lines)] == IF i < at THEN 0 ELSE level[i - 1] + lines[i].nested
  IN [i \in 1..Len(lines) |-> level[i]]

P(body, means) ==
  LET lines == <<Boundary>> \o body
      at == CHOOSE i \in 2..Len(lines) : lines[i].code # "text" \/ i = Len(lines)
      level == Levels(lines, at)
      Ended(i) == level[i] = 0 /\ \E j \in at..i : lines[j].opens
      ends == CHOOSE i \in at..Len(lines) :
                \/ Ended(i) /\ \A j \in at..i - 1 : ~ Ended(j)
                \/ i = Len(lines) /\ \A j \in at..i : ~ Ended(j)
  IN [lines |-> lines, at |-> at, level |-> level, ends |-> ends, means |-> means]

Rule(starts) == L("rule", starts, 1, 1, FALSE)

(* A camera that rings, sees people and cars, sends heartbeats, stops events, *)
(* and has braces in the names of its rules.                                  *)
MCParts ==
  { P(<<Header, L("press", TRUE, 0, 0, FALSE)>>, "press"),
    P(<<L("press", FALSE, 0, 0, FALSE)>>, "nothing"),
    P(<<L("human", TRUE, 1, 1, FALSE), Close>>, "human"),
    P(<<L("human", FALSE, 1, 1, FALSE), Close>>, "nothing"),
    P(<<Header>>, "nothing"),
    P(<<Rule(TRUE), Of(TRUE), Close>>, "human"),
    P(<<Rule(TRUE), Of(FALSE), Close>>, "nothing"),
    P(<<Rule(FALSE), Of(TRUE), Close>>, "nothing"),
    P(<<[L("rule", TRUE, 0, 0, TRUE) EXCEPT !.opens = TRUE]>>, "human"),
    P(<<L("rule", TRUE, 0, 0, FALSE), L("text", FALSE, 1, 1, TRUE), Close, Header>>, "human"),
    P(<<L("rule", TRUE, 2, 1, FALSE), Of(TRUE), Close>>, "maybe"),
    P(<<[L("rule", TRUE, 0, 1, FALSE) EXCEPT !.opens = TRUE], Of(TRUE), Close>>, "maybe"),
    P(<<Rule(TRUE), Of(TRUE), Header, Header, Close>>, "maybe") }
=============================================================================
