\* Two commitments of one contributor, whose Credits cover one at a time, and
\* two settlements of their Goal: calls, replays, deaths and clawbacks race.
SPECIFICATION FairSpec
CONSTANTS
  alice = alice
  bob = bob
  k1 = k1
  k2 = k2
  Goals = {g1}
  Contributors = {alice, bob}
  Keys = {k1, k2}
  By <- AliceTwice
  On <- OneGoal
  Credits <- OneCredit
  Opening <- OneEach
  Callers = {c1, c2}
  Settlers = {s1, s2}
  None = None
  MaxDeaths = 1
INVARIANTS
  TypeOK
  SettledOnce
  NeverOverdrawn
PROPERTIES
  RepairedByReplay
\* Goals are resolved again for ever: no deadlock is expected.
