----------------------------- MODULE MCDescTree -----------------------------
\* Three records, and the invented top of folders: enough for a chain of three
\* generations, for records with the same id, for a cycle of parent ids, and for
\* three orphans of which the first, the middle or the last is adopted.
EXTENDS DescTree

MCIds == 1 .. 3
MCWants == 0 .. 3
MCTopIds == 0 .. 3
=============================================================================
