\* One topic, one worker and the code's own limit of requeues.
SPECIFICATION Spec
CONSTANTS
  Topics = {t1}
  Senders = {s1}
  Workers = {w1}
  RequeueTimes = 5
  MaxSends = 5
INVARIANT RetriesBeforeDrop
CHECK_DEADLOCK FALSE
