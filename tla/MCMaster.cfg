SPECIFICATION MCSpec
CONSTANTS
  Callers = {"c1", "c2", "c3"}
  Hosts = {"s1", "s2"}
  Scenes <- MCScenes
  Servers = {"s1", "s2", "s3", "s4"}
  Masters = {"m1", "m2"}
  Parts = {"p1", "p2"}
  Stories <- MCStories
  Plans <- MCPlans
INVARIANTS AnswersJustified CatalogSound ServersSound IndexesAgree
PROPERTY MasterSettles
CHECK_DEADLOCK FALSE
