\* As Conversation.cfg; not a regular run: an equal triple of another project is ignored.
SPECIFICATION CISpec
CONSTANTS
  Writers = {worker, curator}
  Curators = {curator}
  Labels = {lekiu, file, other}
  Jobs = {ours, theirs, mine, link}
  Project <- MCProject
  Source <- MCSource
  Target <- MCTarget
  Projects = {here, there}
  NoProject = NoProject
  NoJob = NoJob
  ours = ours  theirs = theirs  mine = mine  link = link
  lekiu = lekiu  file = file  other = other
  here = here  there = there
  Messages = {m1, m2, m3}
  ByTime <- MCByTime
  Archive = {m2, m3}
  Selected = {m1, m2, m3}
  Role <- MCRole
  RolesAsked = {}
  ScanLimit = 0
  Texts = {said, thought, dump}
  NoText = NoText
  Structured = {m1, m3}
  Raw <- MCRaw
  Parts <- MCParts
  SkipRoles = {"system"}
  Sentences <- MCSentences
  Length <- MCLength
  MinChars = 2
  MaxChars = 4
  Experience <- MCExperience
  Knowledge <- MCKnowledge
  Margin = 1
  Relations <- MCRelations
  Topic <- MCTopic
  m1 = m1  m2 = m2  m3 = m3
  said = said  thought = thought  dump = dump
  fact = fact  path = path  idea = idea  long = long  short = short
INVARIANTS CountedIsVisible
