\* Two topics, two request goroutines and two workers: sends race with each
\* other, with the delays and with the handler.
SPECIFICATION Spec
CONSTANTS
  Topics = {t1, t2}
  Senders = {s1, s2}
  Workers = {w1, w2}
  RequeueTimes = 2
  MaxSends = 2
INVARIANTS TypeOK NoLostPost SettledWhenIdle
PROPERTIES MailboxSpec ComesToRest
CHECK_DEADLOCK FALSE
