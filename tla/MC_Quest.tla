------------------------------ MODULE MC_Quest ------------------------------
EXTENDS Quest

CONSTANTS p, q, m, t, square, item, body

\* A player who may have the object of some quests and one who may not, two mobs, one
\* room beside the temple.
WorthyDef == <<{}, {p}, {p}>>
=============================================================================
