SPECIFICATION Spec
CONSTANTS
  Walked <- MCWalked
  Replies <- MCReplies
  Selections <- MCSelections
INVARIANTS
  TableSound
  NamesResolve
  LayoutsAgree
  SelectionIndependent
