----------------------------- MODULE StartTime -----------------------------
(***************************************************************************)
(* The arithmetic of rude's START command (start_time in                   *)
(* src/rude/rude/parse.c): how long it is until the clock shows a time.    *)
(***************************************************************************)
EXTENDS Integers

\* A time of day; start_time rejects all others.
Times == [hour : 0 .. 23, min : 0 .. 59, sec : 0 .. 59]

\* What is left from y to x, in a field of base values.
Left(x, y, base) == IF x < y THEN x + base - y ELSE x - y

\* The fields of t after the borrows for the next lower field.
Minute(t, c) == IF t.sec < c.sec THEN t.min - 1 ELSE t.min
Hour(t, c) == IF Minute(t, c) < c.min THEN t.hour - 1 ELSE t.hour

\* The seconds from the time of day c to the next time of day t.
Until(t, c) ==
    Left(t.sec, c.sec, 60) + 60 * Left(Minute(t, c), c.min, 60)
                           + 3600 * Left(Hour(t, c), c.hour, 24)
=============================================================================
