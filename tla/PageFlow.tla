------------------------------- MODULE PageFlow -------------------------------
(***************************************************************************)
(* The text of a bill flows down a page, over one or two columns, and on   *)
(* to further pages.  A layout describes the lines it draws as a sequence  *)
(* of commands; this module says where a command puts the line.            *)
(*                                                                         *)
(* Heights are in hundredths of a point and measured from the bottom of    *)
(* the page, as in reportlab; the layout drawn with fitz measures from the *)
(* top, and its heights are negated here.                                  *)
(***************************************************************************)
EXTENDS Integers, Sequences, SequencesExt

(* A command.  "text": ask for `need` units above the floor, move down by  *)
(* `drop`, draw, move down by `step`.  "plain": the same, asking nothing.  *)
(* "fixed": draw at height `drop` whatever the cursor says.  The others    *)
(* draw nothing: "room" asks for `need`, "gap" moves down, "columns" starts *)
(* the two-column flow, "right" goes to the second column, "page" starts a *)
(* page, "off" does so when the flow is still on the page it started on,   *)
(* "leave" when it is on page 1 and there is no room for `need`.           *)
Text(need, step) == [act |-> "text", need |-> need, drop |-> 0, step |-> step,
                     heads |-> FALSE, row |-> FALSE]
Heading(need, step) == [Text(need, step) EXCEPT !.heads = TRUE]
TableRow(need, step) == [Text(need, step) EXCEPT !.row = TRUE]
Lowered(need, drop, step) == [Text(need, step) EXCEPT !.drop = drop]
Plain(step) == [Text(0, step) EXCEPT !.act = "plain"]
PlainHeading(step) == [Plain(step) EXCEPT !.heads = TRUE]
Fixed(height) == [Text(0, 0) EXCEPT !.act = "fixed", !.drop = height]
Room(need) == [Text(need, 0) EXCEPT !.act = "room"]
StartedRoom(need) == [Room(need) EXCEPT !.heads = TRUE]
Gap(step) == [Plain(step) EXCEPT !.act = "gap"]
Columns == [Plain(0) EXCEPT !.act = "columns"]
RightColumn == [Plain(0) EXCEPT !.act = "right"]
FreshPage(height) == [Plain(0) EXCEPT !.act = "page", !.drop = height]
OffFirstPage == [Plain(0) EXCEPT !.act = "off"]
LeavePageOne(need, height) == [Room(need) EXCEPT !.act = "leave", !.drop = height]

Draws(op) == op.act \in {"text", "plain", "fixed"}

Times(n, op) == [i \in 1..n |-> op]
Join(parts) == FlattenSeq(parts)
When(cond, ops) == IF cond THEN ops ELSE <<>>
Added(ns) ==
  LET sum[i \in 0..Len(ns)] == IF i = 0 THEN 0 ELSE sum[i - 1] + ns[i]
  IN sum[Len(ns)]

(* A part of the bill: its commands, the floors of the first and of later  *)
(* pages, and the top of later pages.                                      *)
Part(low1, low2, top, ops) ==
  [low1 |-> low1, low2 |-> low2, top |-> top, ops |-> ops]

-----------------------------------------------------------------------------
(* The cursor: page, column, height, and for the two-column flow the page  *)
(* it started on and the height its columns start at on that page.         *)

Top(start) == [page |-> 1, col |-> 1, y |-> start, two |-> FALSE,
               first |-> 1, colTop |-> start]

Low(c, part) == IF c.page = 1 THEN part.low1 ELSE part.low2
Short(c, part, need) == c.y - need < Low(c, part)

NextPage(c, height) == [c EXCEPT !.page = @ + 1, !.col = 1, !.y = height]

NextColumn(c, part) ==
  [c EXCEPT !.col = 2, !.y = IF c.page = c.first THEN c.colTop ELSE part.top]

\* (mutant) the second column continues in the first of the same page
BreakSamePage(c, part) ==
  IF c.two /\ c.col = 1 THEN NextColumn(c, part)
  ELSE [c EXCEPT !.col = 1, !.y = part.top,
                 !.page = IF c.two THEN @ ELSE @ + 1]

(* The first column continues in the second, where the room is not asked   *)
(* for again, and the second on a new page.                                *)
Break(c, part) ==
  IF c.two /\ c.col = 1 THEN NextColumn(c, part) ELSE NextPage(c, part.top)

\* (mutant) only the height of the line is asked for
FitOneLine(c, part, need) ==
  IF c.y - (IF need > 900 THEN 900 ELSE need) < Low(c, part)
  THEN Break(c, part) ELSE c

Fit(c, part, need) == IF Short(c, part, need) THEN Break(c, part) ELSE c

(* Where a command finds the cursor it draws or moves on from.             *)
Placed(c, part, op) ==
  CASE op.act = "text" -> [Fit(c, part, op.need) EXCEPT !.y = @ - op.drop]
    [] op.act = "room" -> IF op.heads /\ c.y >= (IF c.page = 1 THEN c.colTop
                                                 ELSE part.top)
                          THEN c ELSE Fit(c, part, op.need)
    [] op.act = "columns" -> [c EXCEPT !.two = TRUE, !.col = 1,
                                       !.first = c.page, !.colTop = c.y]
    [] op.act = "right" -> NextColumn(c, part)
    [] op.act = "page" -> NextPage(c, op.drop)
    [] op.act = "off" -> IF c.page = c.first THEN NextPage(c, part.top) ELSE c
    [] op.act = "leave" -> IF c.page = 1 /\ Short(c, part, op.need)
                           THEN NextPage(c, op.drop) ELSE c
    [] op.act \in {"plain", "gap", "fixed"} -> c

After(c, part, op) == [Placed(c, part, op) EXCEPT !.y = @ - op.step]
=============================================================================
