SPECIFICATION FairSpec
CONSTANTS
  s1 = s1
  s2 = s2
  m1 = m1
  m2 = m2
  m3 = m3
  Senders <- TwoSenders
  Program <- TwoAndOne
  Poison = {m1}
  Budgets <- OneFault
  MaxMembers = 3
CHECK_DEADLOCK FALSE
INVARIANT OnePlace
INVARIANT DecidesOnCurrent
PROPERTY SlotComesFree
PROPERTY Answered
