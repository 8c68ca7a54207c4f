SPECIFICATION FairSpec
CONSTANTS
  Ids <- MCIds
  Lengths <- MCLengths
  Budgets <- MCBudgets
  Backlogs <- MCBacklogs
  Separator = 1
  Marker = 2
  ClipMark = 1
PROPERTY HeldBackSectionDelivered
