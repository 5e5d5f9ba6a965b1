SPECIFICATION Spec
CONSTANTS
    crc32 = crc32  sha1 = sha1
    Calls = {d1, d2}
    Kinds = {"file", "archive", "tz", "name", "padding"}
    LastContent = 2
    Scanned = {0}
    StampOf <- MCStampOf
    ChecksumOrder <- MCChecksumOrder
    Wants <- MCWants
    Quick = {crc32}
    LastProgram = 2
    Since <- MCSince
    None = None
SYMMETRY MCSymmetry
INVARIANTS
  AnswerIsCurrent
  AnswerSuffices
PROPERTIES
  FetchedOnce
