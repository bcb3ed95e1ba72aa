---- MODULE MCActiveLinks ----
EXTENDS ActiveLinks
\* A page whose first row is no tender, one without any, one whose first batch has none.
McValidRows == <<{2, 3}, {}, {3}>>
McEarlierRun == {1, 2}
====
