--------------------------- MODULE TickAggregator ----------------------------
(***************************************************************************)
(* kite_ticker.py: the trading hours, the candle buckets, and the          *)
(* aggregator that turns one instrument's ticks into a candle.  Time is    *)
(* counted in buckets: a day is BarsPerDay of them and one for the hours   *)
(* the market is shut.  Of a candle only the hours its ticks came from are *)
(* kept: prices and volumes play no part in what is claimed here.          *)
(***************************************************************************)
EXTENDS Naturals

CONSTANT BarsPerDay      \* buckets from 9:15 to 15:30

ASSUME BarsAssumption == BarsPerDay \in Nat \ {0}

IsMarketHours(hour) == hour % (BarsPerDay + 1) # BarsPerDay

(* After the close the arithmetic still yields the day's last bucket.      *)
BucketStart(hour) == IF IsMarketHours(hour) THEN hour ELSE hour - 1

(* open is None: no tick since start.                                      *)
EmptyBar == {}

(* The aggregator takes any tick for the bucket it happens to track.       *)
AddTick(bar, hour) == bar \union {hour}

HasTicks(bar) == bar # EmptyBar
==============================================================================
