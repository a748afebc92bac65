SPECIFICATION FairSpec
CONSTANTS
  top = top
  c1 = c1
  c2 = c2
  h1 = h1
  h2 = h2
  Nobody = Nobody
  Paths <- Family
  Parent <- Descent
  Services = {top}
  Hosts <- TwoHosts
  MaxWork = 1
  Scenarios <- FourScenarios
CHECK_DEADLOCK FALSE
 
INVARIANT ChildrenFirst
INVARIANT SweepFinal
PROPERTY StopsEnd
