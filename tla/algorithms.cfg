SPECIFICATION AlgorithmsSpec
CONSTANTS
  Schemas <- MCSchemas
  Data <- MCData
  Responses <- MCResponses
  RecordsRead <- MCRecordsRead
  Configs <- MCConfigs
  Searches <- MCSearches
  Chars <- MCChars
  SearchOptions <- MCSearchOptions
  Nodes <- MCNodes
  Root = 1
  Leaves <- MCLeaves
  Keys = {"note", "token"}
  Covered = {"token"}
  Heaps <- MCHeaps
  DepthLimit = 2
INVARIANTS
  ParseAgrees
  CamelRecordsConform
  InputsAreTakenAsDeclared
  CriteriaReadBack
  NothingLeaks
  TreesShow
CHECK_DEADLOCK FALSE
