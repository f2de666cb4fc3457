SPECIFICATION FairSpec
CONSTANTS
  Mails = {1}
  BoxOf <- OneMailbox
  Headed = {1}
  Refused = {}
  Messages = {i1}
  Calls = {c1}
  Nobody = Nobody
PROPERTIES MessageIsQueued
