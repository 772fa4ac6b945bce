CONSTANTS
  None = None
  s1 = s1
  s2 = s2
  m1 = m1
  p1 = p1
  p2 = p2
  x1 = x1
  d1 = d1
SPECIFICATION Spec
INVARIANT TypeOK
INVARIANT ConversationSound
 
INVARIANT SettingsSound
 
CHECK_DEADLOCK FALSE
