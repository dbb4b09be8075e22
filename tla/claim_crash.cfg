CONSTANTS
  t1 = t1  t2 = t2  t3 = t3  t4 = t4  m1 = m1  s1 = s1
  r1 = r1  r2 = r2  r3 = r3  r4 = r4  None = None
  MaxCommands = 2  MaxResults = 2  MaxMessages = 2
  Tasks <- SoloTasks
  Mailboxes = {m1}
  Steps = {s1}
  Runs = {r1}
  Execs = {e1}
  Lane <- SoloCampaign
  MailboxOf <- SoloBox
  StepOf <- SoloStep
  TaskOf <- SoloRun
SPECIFICATION Spec
INVARIANT HoldNamesReservation
CHECK_DEADLOCK FALSE
