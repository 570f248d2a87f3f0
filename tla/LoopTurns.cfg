SPECIFICATION FairSpec
CONSTANTS
  pre = pre
  post = post
  work = work
  one = one
  step = step
  guard = guard
  proc = proc
  body = body
  forLoop = forLoop
  inner = inner
  whileLoop = whileLoop
  choice = choice
  Elem = {pre, post, work, one, step, guard}
  Blocs = {proc, body}
  Fors = {forLoop, inner}
  Whiles = {whileLoop}
  Switches = {choice}
  Root = proc
  Father <- SchemaFather
  CtrlLinks <- SchemaLinks
  Case <- SchemaCase
  Default = 0
  Outer = {whileLoop}
  Writer <- SchemaWriter
  Leaving = {whileLoop}
  Empty = Empty
  Steps <- SchemaSteps
  Selections = {1, 2, 3}
  MaxTurns = 2
CHECK_DEADLOCK FALSE
INVARIANTS RunsInItsTurn
PROPERTIES TurnsAreWhole ComesToAVerdict
