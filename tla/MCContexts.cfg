\* Two processes and the interval timer.
SPECIFICATION CtxSpec
CONSTANTS
  Procs = {p1, p2}
PROPERTIES
  AlarmOffDuringTrap
