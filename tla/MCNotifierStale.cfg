CONSTANTS
  l1 = l1
  l2 = l2
  l3 = l3
  None = None
  ListenerIds <- MCListenerIds
  Capacity <- MCCapacity
SPECIFICATION Spec
PROPERTY EventuallyNotified
