------------------------------ MODULE TradeTable ------------------------------
(***************************************************************************)
(* The trades table of one symbol, a sequence of rows in order of entry,   *)
(* and what the other tables share with it.                                *)
(***************************************************************************)
EXTENDS Strategy, Functions

(* ORDER BY entry_timestamp DESC LIMIT 1 among a table's open rows; 0: none*)
LatestOpen(rows, sides) ==
    LET open == {i \in DOMAIN rows : rows[i].status = "open" /\ rows[i].side \in sides}
    IN  IF open = {} THEN 0 ELSE Max(open)

OpenRows(rows) == {i \in DOMAIN rows : rows[i].status = "open"}

OpenTrade(rows, side, bar, close) ==
    Append(rows, [side |-> side, bar |-> bar, entry |-> close, status |-> "open",
                  exitBar |-> 0, exit |-> 0])

CloseOpenTrade(rows, side, bar, close) ==
    LET last == LatestOpen(rows, {side})
    IN  IF last = 0 THEN rows
        ELSE [rows EXCEPT ![last].status = "closed", ![last].exitBar = bar, ![last].exit = close]

(* Mutant: the entry abandons its own side, not the opposite one.          *)
AbandonedOwnSide(rows, side) ==
    [i \in DOMAIN rows |->
        IF rows[i].status = "open" /\ rows[i].side # side
        THEN [rows[i] EXCEPT !.status = "abandoned"] ELSE rows[i]]

AbandonOpenTrade(rows, side) ==
    [i \in DOMAIN rows |->
        IF rows[i].status = "open" /\ rows[i].side = side
        THEN [rows[i] EXCEPT !.status = "abandoned"] ELSE rows[i]]

(* The rows that count towards a track record, as ml.backtest scores them. *)
ClosedTrades(rows) ==
    {[side |-> row.side, bar |-> row.bar, entry |-> row.entry, exitBar |-> row.exitBar,
      exit |-> row.exit] : row \in {trade \in Range(rows) : trade.status = "closed"}}
===============================================================================
