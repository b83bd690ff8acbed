SPECIFICATION FairSpec
CONSTANTS
  Player = {p1, p2}
  Npc = {n1}
  Group = {p1, p2}
  Leaver = {p2}
  Home = Home
  Far = Far
  MaxHP = 2
  MaxLevel = 2
  Duration = 1
  RegenEvery = 2
  MaxDots = 1
  MaxPackets = 2
INVARIANTS EffectsBounded 
PROPERTY NoLimbo
