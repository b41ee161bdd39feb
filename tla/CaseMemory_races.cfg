SPECIFICATION Spec
CONSTANTS
  Tasks = {t1}
  Drafts = {d1}
  Edits = {e1}
  Messages = {m1}
  Handlers = {h1, h2}
  Form = Form
  MaxCases = 2
SYMMETRY Symmetry
CHECK_DEADLOCK FALSE
INVARIANTS OneCasePerTaskUnlessRaced EditsStay ConfirmedCaseExists
