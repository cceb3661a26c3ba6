\* Everything is an integer: TLC compares a time with Never.
CONSTANTS
  HalfRange = 32
  Second = 1
  Minute = 2
  DefaultPolicy <- Default
  Assets = {1}
  Tracks = {1}
  Configured <- TwoPolicies
  Deployments <- MonitorOrReplay
  Limit = 1
  MaxSkew = 1
  MaxTime = 4
  MaxUpdates <- UpdatesOf
  MaxFaults = 1
SPECIFICATION Spec
CONSTRAINT EnoughTime
CHECK_DEADLOCK FALSE
INVARIANTS
  Reported
  PublishedInTime
  HonestReplay
  ReplayIsStable
