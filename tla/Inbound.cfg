\* Two mails, the first without a Message-ID, the second refused, and two
\* calls, so that one can outlive its pass.
SPECIFICATION FairSpec
CONSTANTS
  Mails = {1, 2}
  BoxOf <- OneMailbox
  Headed = {2}
  Refused = {2}
  Messages = {i1, i2}
  Calls = {c1, c2}
  Nobody = Nobody
INVARIANTS TypeOK UniqueMessages CallsFit MarkedIsStored
PROPERTIES MailIsStored
