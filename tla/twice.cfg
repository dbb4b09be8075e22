CONSTANTS
  t1 = t1  t2 = t2  t3 = t3  t4 = t4  m1 = m1  s1 = s1
  r1 = r1  r2 = r2  r3 = r3  r4 = r4  None = None
  MaxCommands = 2  MaxResults = 2  MaxMessages = 2
  Tasks <- TwiceTasks
  Mailboxes = {m1}
  Steps = {s1}
  Runs = {r1, r2, r3, r4}
  Execs = {e1, e2}
  Lane <- TwiceLane
  MailboxOf <- TwiceBox
  StepOf <- TwiceStep
  TaskOf <- TwiceRuns
SPECIFICATION TwiceSpec
INVARIANTS TypeOK UnknownHeld OneOutstanding AtMostOneExecution
PROPERTIES ImplementsAtMostOnce SettledNeverBegun
CONSTRAINT TwiceMessages
CHECK_DEADLOCK FALSE
