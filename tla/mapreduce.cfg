\* Three workers, two of which may die, three map tasks and two reduce tasks.
SPECIFICATION FairJobSpec
CONSTANTS
  nMap = 3
  nReduce = 2
  Worker = {w1, w2, w3}
  Mortal = {w2, w3}
INVARIANT OutputsComplete
INVARIANT ExitMeansFinished
PROPERTY OutputsFinal
PROPERTY JobFinishes
\* The job ends.
CHECK_DEADLOCK FALSE
