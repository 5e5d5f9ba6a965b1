SPECIFICATION FairSpec
CONSTANTS
    in1 = in1  dup1 = dup1  ar1 = ar1  ar2 = ar2
    out1 = out1  out2 = out2  zip1 = zip1
    a = a  b = b  u = u
    c1 = c1  c2 = c2  c3 = c3
    j1 = j1  j2 = j2  j3 = j3  j4 = j4  j5 = j5
    Candidates = {c1, c2, c3}
    Jobs = {j1, j2, j3, j4, j5}
    Paths = {in1, dup1, ar1, ar2, out1, out2, zip1}
    Payloads = {a, b, u}
    None = None
    CandidateOf <- MCCandidateOf
    DatOf <- MCDatOf
    Stage <- MCStage
    Kind <- MCKind
    Needs <- MCNeeds
    Output <- MCOutput
    Index <- MCIndex
    FirstFiles <- MCFirstFiles
    OptionChoices <- MCOptions
    Faults = {"error", "nospace", "corrupt", "crossdevice"}
    Threads = 2
    Retries = 1
INVARIANTS
  OutputsExclusive
  NoRomLost
PROPERTIES
  SourceIsThere
  WritingEnds
