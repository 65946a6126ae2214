------------------------------ MODULE MCSleep ------------------------------
\* Small memories and times for the model checking of Sleep.
EXTENDS Sleep

UpToThree == {0, 3}
ShortAndLong == {2, 4}
NoneOrOne == {0, 1}
SmallOrLarge == {1, 3}
=============================================================================
