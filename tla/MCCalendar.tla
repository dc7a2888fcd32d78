----------------------------- MODULE MCCalendar -----------------------------
\* Calendar from before the year -400 to after the year 9999: day by day over
\* two whole cycles around the year 0, and at the last years the syntax holds.
EXTENDS Calendar

MCFirstYear == -403
MCWalked == -402..402 \cup 1896..2005 \cup 9996..10000
MCOffsets == {-86340, -19800, 0, 7200, 86340}
=============================================================================
