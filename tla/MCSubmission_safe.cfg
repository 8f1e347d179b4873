SPECIFICATION SubmissionSpec
CONSTANTS
  Clients = {c1, c2}
  Starters = {s1, s2}
  Keys = {k1}
  NoKey = NoKey
  Payloads = {p1, p2}
  Blank = Blank
  Experiments = {1, 2}
  Legacy = {1}
  Jobs = {j1, j2, j3}
  NoJob = NoJob
  Nobody = Nobody
SYMMETRY MCSymmetry
INVARIANTS
  OneJobPerExperiment
  AnswersAgree
