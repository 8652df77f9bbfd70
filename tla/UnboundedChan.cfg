SPECIFICATION ChanSpec
CONSTANTS
  Senders = {s1, s2}
  Receivers = {r1, r2, r3}
  Values = {v1, v2}
  MaxSends = 3
INVARIANTS NoLostWakeup FifoExactlyOnce
PROPERTY CloseReleasesReceivers
