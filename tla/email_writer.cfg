SPECIFICATION MailSpec
CONSTANTS
  Mails <- MCMails
  WriteModes = {"normal", "separate", "mh"}
  Embedded = 5
INVARIANTS
  MimeWellFormed
  AttachmentsKept
  BorrowedHeaders
