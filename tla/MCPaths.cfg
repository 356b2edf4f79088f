CONSTANTS
  Node = {0, 1, 2, 3, 4, 5}
  Root = 0
  Aim = 1
  Name = {"a", "b:"}
  NoNode = NoNode
  Drives = {"b:"}
  Proc = {p, q}
  p = p
  q = q
  Plans <- MCPlans
  Worlds <- MCWorlds
  MaxTrouble = 1
SPECIFICATION Spec
PROPERTY
  OutcomesTrue
PROPERTY
  RemovalConfined
PROPERTY
  CallsReturn
