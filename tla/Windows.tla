-------------------------------- MODULE Windows --------------------------------
(***************************************************************************)
(* The windows of the aggregation tasks.  An instant is a number of        *)
(* seconds since the epoch, in UTC as the tasks compute it.                *)
(***************************************************************************)
EXTENDS Integers

Minute == 60
Hour == 60 * Minute
Day == 24 * Hour

\* now.replace(minute = (now.minute // 5) * 5, second = 0) - 5 minutes.
FiveminStart(now) ==
    now - (now % Hour) + (((now % Hour) \div Minute) \div 5) * 5 * Minute - 5 * Minute

\* now.replace(minute = 0, second = 0) - 1 hour.
HourlyStart(now) == now - (now % Hour) - Hour

\* (now - 1 day).replace(hour = 0, minute = 0, second = 0).
DailyStart(now) == (now - Day) - ((now - Day) % Day)

\* The last window of a width that is complete at an instant.
LastComplete(now, width) == (now \div width - 1) * width

\* Variant: both ends belong to the window.
InsideClosed(at, start, width) == start <= at /\ at <= start + width
\* collected_at >= period_start, collected_at < period_end.
Inside(at, start, width) == start <= at /\ at < start + width
=============================================================================
