CONSTANTS
  PageSize = 2
  Before = 3
  MaxLog = 5
  MaxDrop = 1
  card = card
  chart = chart
  list = list
  token = token
  global = global
  Components = {card, chart, list}
  Topics = {token, global}
  TopicOf <- MCTopicOf
  c1 = c1
  c2 = c2
  Conns = {c1, c2}
  MaxMounts = 2
  None = None
SYMMETRY BrowserSymmetry
SPECIFICATION MCSpec
INVARIANTS
  ReceivedIsKept PagesHaveNoHole NoLossOnceSubscribed NewestFirst
  ServerAgrees NothingLeftInHub GaugeCounts
PROPERTY CursorSurvives
CHECK_DEADLOCK FALSE
