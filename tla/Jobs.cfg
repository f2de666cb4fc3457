\* One message with a code and two webhooks that take it; four jobs let a
\* parse run that died in its loop enqueue a delivery a second time.
SPECIFICATION FairSpec
CONSTANTS
  Messages = {p1}
  Otp = {p1}
  Hooks = {h1, h2}
  Wants <- WantAll
  MaxJobs = 4
  Attempts = 1
  Posts = 1
  None = None
INVARIANTS TypeOK ToldAfterResult DeliveredIsReceived
PROPERTIES EveryHookIsTold
