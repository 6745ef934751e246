SPECIFICATION FairSpec
CONSTANTS
  w1 = w1
  w2 = w2
  w3 = w3
  Workers = {w1, w2, w3}
  Plans <- AllPlans
INVARIANTS
  TypeOK
  CountsFresh
  Exclusive
  

  
  
CHECK_DEADLOCK FALSE
